SPECIFICATION Spec
CONSTANTS
    Importers = {i1}
    Files = {f1}
    Texts = {1, 2}
    Long = {2}
    NumChunks = 2
    MaxEdits = 0
    MaxRuns = 2
    MaxFaults = 1
INVARIANTS
    FreshMeansWhole
CHECK_DEADLOCK FALSE

SPECIFICATION Spec
CONSTANTS
    Procs = {p1}
    Background = TRUE
    Manifests = {f1}
    Digests = {d1}
    EveryN = 2
    MaxRows = 3
    Events = {}
    NoRecord = NoRecord
SYMMETRY Symmetry
CHECK_DEADLOCK FALSE
INVARIANTS
    HeadMatchesAtRest

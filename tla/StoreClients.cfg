SPECIFICATION UnionSpec
CONSTANTS
    Importers = {i1, i2}
    Files = {f1}
    Texts = {1, 2}
    Long = {2}
    NumChunks = 2
    MaxEdits = 1
    MaxRuns = 3
    MaxFaults = 1
    Workers = {w1}
    Originals = {o1, o2}
    Primary = p
    Secondary = s
    MinCluster = 2
    MaxGenerated = 2
    Procs = {p1, p2}
    Subjects = {s1}
    Principals = {a1}
    Roots = {r1, r2}
    Aligned = {r1}
    Raw = raw
    None = none
    Shredded = shredded
    MaxOpens = 2
    MaxRows = 1
    MaxJobs = 1
    Backends = {b1, b2}
    Paths = {d1, d2}
    MaxVersions = 3
    MaxLength = 6
    MaxTarget = 2
CHECK_DEADLOCK FALSE
INVARIANTS
    NeverLost
    
    
    SignaturesSurvive
    CompleteMeansRewrapped
    ProofStands
    
    WholeOrNot
    ChunksComplete

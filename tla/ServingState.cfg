SPECIFICATION UnionSpec
CONSTANTS
    Procs = {p1, p2}
    Mems = {m1, m2, m3}
    Principals = {"reviewer"}
    Approvers = {}
    Reviewers = {"reviewer"}
    Trusted = {}
    Verbs = {"transition", "replace", "supersede", "purge"}
    Free = Free
    Purged = Purged
    NoMem = NoMem
    Servers = {v1, v2}
    VecServers = {v1}
    Recallable = {n1, n2}
    Subjects = {s1}
    NoRow = NoRow
    NoKey = NoKey
    Shredded = Shredded
SYMMETRY Symmetry
CHECK_DEADLOCK FALSE
INVARIANTS
    ReplacementsSound
    
    VectorsFollowRows
PROPERTIES
    NoErasedRecall

SPECIFICATION UnionSpec
CONSTANTS
    Procs = {p1, p2}
    Mems = {m1}
    Principals = {"author", "reviewer", "approver"}
    Approvers = {"approver"}
    Reviewers = {"reviewer"}
    Trusted = {}
    Verbs = {"approve", "metadata", "expire", "index", "purge", "supersede", "crash"}
    Free = Free
    Purged = Purged
    NoMem = NoMem
    NumCandidates = 3
    Truths = {"source_observed", "inferred"}
    Confidences = {0, 50}
    MaxK = 2
SYMMETRY Symmetry
CHECK_DEADLOCK FALSE

    
    
PROPERTIES
    RetiresAuthorized

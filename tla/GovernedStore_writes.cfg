SPECIFICATION WritesSpec
CONSTANTS
    p1 = p1
    p2 = p2
    Procs = {p1, p2}
    VecCapable = {p1, p2}
    VecProcs = {p1, p2}
    Subjects = {s1, s2}
    Mems = {m1, m2}
    Ops = {"forget", "rewrap", "crash"}
    MaxParents = 1
    MaxEdges = 0
    NoRow = NoRow
    NoKey = NoKey
    Shredded = Shredded
SYMMETRY PeerSymmetry
INVARIANTS
    TypeOK
    ErasedSubjectsGone
    RowsDecryptable
PROPERTIES
    TombstoneFinal
    ErasesByName
    ErasesByTaint

SPECIFICATION UnionSpec
CONSTANTS
    Writers = {w1}
    Mems = {m1, m2, m3}
    Ids = {i1}
    Roles = {r1}
    Attrs = {}
    Visibilities = {FALSE}
    OwnRanks = {0, 3}
    OwnGates = {{}, {r1}}
    MaxParents = 2
    NoRow = NoRow
    Procs = {p1}
    Subjects = {s1, s2}
    MaxEdges = 1
    NoKey = NoKey
    Shredded = Shredded
    Openers = {q1, q2}
    Indexable = {n1, n2}
    MaxVersions = 3
SYMMETRY Symmetry
INVARIANTS
    GatesInherited
    DerivedDataGone
    KnownRowsFound

SPECIFICATION UnionSpec
CONSTANTS
    MaxRows = 3
    MaxChainEdits = 2
    Issuers = {p1, p2}
    Names = {n1}
    MaxRoutes = 2
    MaxReceipts = 5
    Ids = {i1, i2}
    Texts = {a, b}
    Manifests = {m1}
    Servers = {s1}
    MaxLog = 3
    MaxEdits = 1
    Procs = {p1}
    Digests = {d1}
    EveryN = 2
    NoRecord = NoRecord
    Clients = {c1, c2}
    Subjects = {u1}
    Mems = {e1, e2}
    NoRow = NoRow
    NoKey = NoKey
    Shredded = Shredded
CHECK_DEADLOCK FALSE
INVARIANTS
    ReceiptsBound
    OnlyRacedFail
    ExemptAsApproved
    OkMeansIntact
    ReceiptStands
PROPERTIES
    ActivatedAsReported

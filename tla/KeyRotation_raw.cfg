SPECIFICATION Spec
CONSTANTS
    Procs = {p1, p2}
    Subjects = {s1}
    Principals = {a1}
    Roots = {r1, r2}
    Aligned = {r1}
    Raw = raw
    None = none
    Shredded = shredded
    MaxOpens = 2
    MaxRows = 1
    MaxJobs = 1
INVARIANTS
    EncryptedWithKey
CHECK_DEADLOCK FALSE

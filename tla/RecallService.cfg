SPECIFICATION FairUnionSpec
CONSTANTS
    Threads = {t1, t2, t3}
    MaxWorkers = 2
    Reserved = 1
    Interval = 1
    ProbeTime = 1
    Threshold = 2
    Window = 2
    Events = {"hang", "stall", "loopback", "noThread"}
    Workers = {w1, w2}
    Limit = 2
    MaxTime = 3
    Samples = 3
    Windows = {6, 7}
    Gaps = {3, 4}
    Servers = {v1, v2}
    Markers = {c1, c2, c3}
    TTL = 2
    MaxAge = 3
INVARIANTS
    SlotsAccounted
    WindowBounded
    RestartsWhenSustained
    RoundTripKept
PROPERTIES
    ProgressSpares
    StuckOnlyIfFlapping
    PoolDrains

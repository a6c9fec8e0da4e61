SPECIFICATION CadenceSpec
CONSTANTS
    Procs = {p1}
    Background = TRUE
    Manifests = {f1}
    Digests = {d1, d2}
    EveryN = 2
    MaxRows = 4
    Events = {"pin"}
    NoRecord = NoRecord
CHECK_DEADLOCK FALSE
PROPERTIES
    CountAnchored
INVARIANTS
    SinkOrdered

SPECIFICATION Spec
CONSTANTS
    Upgraders = {o1, o2}
    Hydrators = {h1}
    None = none
    MaxMsgs = 1
    MaxSegs = 3
    Runbook = TRUE
    Faults = {"raise", "kill", "orphan", "lockttl", "crash"}
    Budget = 2
INVARIANTS TypeOK PointerIsLive RowsSurvive
PROPERTIES ImplementsOnlineStore
SYMMETRY Symmetry
CHECK_DEADLOCK FALSE

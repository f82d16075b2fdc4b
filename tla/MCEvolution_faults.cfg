SPECIFICATION FairSpec
CONSTANTS
    Upgraders = {o1}
    Hydrators = {h1}
    None = none
    MaxMsgs = 1
    MaxSegs = 3
    Runbook = FALSE
    Faults = {"raise", "kill", "reply", "orphan", "drop", "lockttl", "pausettl", "livettl", "crash"}
    Budget = 1
PROPERTIES ParkedResumes LockIsFreed PartialGoes
CHECK_DEADLOCK FALSE

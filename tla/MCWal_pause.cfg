SPECIFICATION Spec
CONSTANTS
    MaxMsgs = 3
    MaxLen = 2
    BatchCount = 2
    MaxPendingAck = 1
    Entities = {"a"}
    EntityOf <- MCEntityOf
    Poison = {}
    Halfway = {}
    Budget <- BudgetPause
INVARIANTS PendingBounded
PROPERTIES ImplementsDurableLog
CHECK_DEADLOCK FALSE

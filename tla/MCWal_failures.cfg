SPECIFICATION FairSpec
CONSTANTS
    MaxMsgs = 4
    MaxLen = 4
    BatchCount = 2
    MaxPendingAck = 1
    Entities = {"a"}
    EntityOf <- MCEntityOf
    Poison = {1, 2}
    Halfway = {2}
    Budget <- BudgetFailures
INVARIANTS TypeOK NothingLost ReadYourWrites
PROPERTIES TrimsOnlyAcked EventuallyDurable DrainEndsEventually
CHECK_DEADLOCK FALSE

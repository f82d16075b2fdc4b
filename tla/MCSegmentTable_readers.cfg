SPECIFICATION Spec
CONSTANTS
    Ids = {"a", "b", "c"}
    NoId = "none"
    HashOf <- MCHashOf
    Capacity = 2
    SlotCapacity = 4
    Fields = {"f", "g"}
    MaxCalls = 4
    MaxLookups = 2
    Budget <- BudgetInsert
INVARIANTS TypeOK ReadsOwnRow SeesReturned OneSlotPerEntity CopyIsAligned
CHECK_DEADLOCK FALSE

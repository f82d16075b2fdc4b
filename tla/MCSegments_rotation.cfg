SPECIFICATION Spec
CONSTANTS
    NumPids = 2
    MaxBirths = 1
    MaxSegs = 2
    MaxHandles = 1
    Threshold = 1
    BatchDrain = 1
    Hidden = {}
    Budget <- BudgetRotation
INVARIANTS TypeOK CurrentIsKept CurrentIsLinked

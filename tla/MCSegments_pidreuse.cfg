SPECIFICATION Spec
CONSTANTS
    NumPids = 2
    MaxBirths = 2
    MaxSegs = 1
    MaxHandles = 2
    Threshold = 1
    BatchDrain = 1
    Hidden = {}
    Budget <- BudgetFailures
INVARIANTS CountCoversHandles

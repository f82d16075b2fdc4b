SPECIFICATION FairSpec
CONSTANTS
    NumPids = 2
    MaxBirths = 1
    MaxSegs = 2
    MaxHandles = 1
    Threshold = 1
    BatchDrain = 1
    Hidden = {2}
    Budget <- BudgetReclaim
PROPERTIES OrphansReclaimed

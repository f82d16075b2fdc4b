SPECIFICATION Spec
CONSTANTS
    MaxMsgs = 3
    Entities = {a, b}
    Day = 3
    EventTimes = {1, 3}
    QueryTimes = {3, 4, 7}
    Lookback = 1
    Budget = 1
INVARIANTS TypeOK AckedIsReadable AsOfIsRight LatestAgrees
SYMMETRY Symmetry
CHECK_DEADLOCK FALSE

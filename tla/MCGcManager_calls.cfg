\* Two threads start, stop and fork over each other; two timers, one fork.
SPECIFICATION FairSpec
CONSTANTS
    Callers = {c1, c2}
    None = none
    Organic = organic
    MaxTimers = 2
    MaxForks = 1
INVARIANTS
    TypeOK
    NoOrphan
    EveryPauseObserved
PROPERTIES
    TimerSweeps

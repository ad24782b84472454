CONSTANTS
    t1 = t1
    t2 = t2
    Taker = {t1, t2}
    Size = 4
    PerSecond = 2
    Threshold = 2
    Scheduled = FALSE
    MaxSecond = 5
    MaxQueued = 2
SPECIFICATION Spec
INVARIANTS
    TypeOK
    WindowFits
    UniqueUntilDrained
    NeverMisreads
    WaitingAreOrdered
SYMMETRY Symmetric
CHECK_DEADLOCK FALSE

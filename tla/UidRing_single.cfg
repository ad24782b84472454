CONSTANTS
    t1 = t1
    t2 = t2
    Taker = {t1}
    Size = 4
    PerSecond = 2
    Threshold = 2
    Scheduled = TRUE
    MaxSecond = 7
    MaxQueued = 2
SPECIFICATION FairSpec
INVARIANTS
    UniqueUid
PROPERTIES
    IssuedInOrder
    Replenished
CHECK_DEADLOCK FALSE

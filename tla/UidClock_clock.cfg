CONSTANTS
    p1 = p1
    p2 = p2
    Instance = {p1, p2}
    Cached = {p2}
    TimeBits = 1
    WorkerBits = 2
    SeqBits = 1
    MaxClock = 3
    MaxBacks = 1
    MaxRows = 4
    MaxBorrowed = 3
SPECIFICATION FairSpec
INVARIANTS
    TypeOK
    UniqueUid
PROPERTIES
    ParsesBack
    NextIdIncreases
    CallEnds
CHECK_DEADLOCK FALSE

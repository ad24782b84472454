CONSTANTS
    s1 = s1
    s2 = s2
    s3 = s3
    l1 = l1
    c1 = c1
    c2 = c2
    Session = {s1, s2}
    Channel = {c1, c2}
    Loop = {s1, s2}
    LoopOf <- OwnLoop
    MaxFrames = 1
    BrokerFails = TRUE
    None = None
SPECIFICATION Spec
INVARIANTS
    TypeOK
    LedgerMatchesHub
    OwnChannelOnly
    OfflineIsFinal
SYMMETRY Symmetric
CHECK_DEADLOCK FALSE

CONSTANTS
    s1 = s1
    s2 = s2
    s3 = s3
    l1 = l1
    c1 = c1
    c2 = c2
    Session = {s1, s2}
    Channel = {c1, c2}
    Loop = {l1}
    LoopOf <- OneLoop
    MaxFrames = 2
    BrokerFails = FALSE
    None = None
SPECIFICATION FairSpec
INVARIANTS
    AllChannelsListed
    BroadcastReaches
PROPERTIES
    EventuallyOffline
    PresenceHolds
CHECK_DEADLOCK FALSE

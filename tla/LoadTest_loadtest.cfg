CONSTANTS
    s1 = s1
    s2 = s2
    v1 = v1
    v2 = v2
    n1 = n1
    n2 = n2
    Script = {s1}
    VU = {v1, v2}
    ScriptOf <- AllOne
    Node = {n1, n2}
    Content = {"", "hello"}
    Time <- Times
    Clock = {1}
    Exact = 4
    Traffic <- Sent
    MaxFrames = 2
    MaxLosses = 2
    Null = Null
SPECIFICATION FairSpec
INVARIANTS
    TypeOK
    CodecAgrees
PROPERTIES
    DeliveryHolds
    Reconnects
CHECK_DEADLOCK FALSE

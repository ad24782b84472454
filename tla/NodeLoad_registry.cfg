CONSTANTS
    n1 = n1
    n2 = n2
    n3 = n3
    c1 = c1
    c2 = c2
    w1 = w1
    w2 = w2
    Node = {n1}
    Channel = {c1}
    Watcher = {w1, w2}
    MaxStarts = 3
    MaxRecords = 1
    Traffic = {"ONLINE"}
    EventLabel = "EVENT"
    Lossy = TRUE
    None = None
SPECIFICATION FairSpec
PROPERTIES
    RegistryFollowed
CHECK_DEADLOCK FALSE

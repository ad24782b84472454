CONSTANTS
    n1 = n1
    n2 = n2
    n3 = n3
    c1 = c1
    c2 = c2
    w1 = w1
    w2 = w2
    Node = {n1, n2}
    Channel = {c1}
    Watcher = {w1}
    MaxStarts = 1
    MaxRecords = 3
    Traffic = {"ONLINE", "OFFLINE", "MESSAGE"}
    EventLabel = "EVENT"
    Lossy = FALSE
    None = None
SPECIFICATION Spec
INVARIANTS
    MessageStored
CHECK_DEADLOCK FALSE

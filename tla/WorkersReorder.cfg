SPECIFICATION Spec
CONSTANTS
    c1 = c1
    c2 = c2
    b1 = b1
    b2 = b2
    Clients <- OneClient
    Workers <- TwoWorkers
    BatchSize = 2
    Capacity = 2
    MaxRequest = 2
    MaxPoints = 2
    SyncRequests = FALSE
    Faults = FALSE
    MayStop = FALSE
INVARIANT OrderKept
CHECK_DEADLOCK FALSE

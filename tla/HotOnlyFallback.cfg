SPECIFICATION ServiceSpec
CONSTANTS
    c1 = c1
    c2 = c2
    b1 = b1
    b2 = b2
    Clients <- OneClient
    Workers <- TwoWorkers
    BatchSize = 2
    ColdWanted = TRUE
    TierEnabled = TRUE
    Capacity = 1
    MaxRequest = 3
    MaxPoints = 4
    SyncRequests = TRUE
    Faults = TRUE
    MayStop = TRUE
INVARIANT AcknowledgedIsCold
CHECK_DEADLOCK FALSE

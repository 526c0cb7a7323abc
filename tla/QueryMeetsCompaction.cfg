SPECIFICATION FedSpec
CONSTANTS
    t1 = t1
    w1 = w1
    p1 = p1
    q1 = q1
    q2 = q2
    Queries <- OneQuery
    Tiers <- All
    Windows <- Everything
    Tags <- OneTag
    MaxTime = 0
    DayLen = 1
    ChunkLen = 1
    Batches <- OnlyFirst
    MaxSeq = 1
    Writers <- OneWriter
    Passes <- OnePass
    WriteThrough = TRUE
    Deletes = FALSE
    LateRows = TRUE
    Faults = FALSE
    InterruptAt <- Nowhere
INVARIANT QueriesSucceed

SPECIFICATION FedSpec
CONSTANTS
    t1 = t1
    w1 = w1
    p1 = p1
    q1 = q1
    q2 = q2
    Queries <- TwoQueries
    Tiers <- All
    Windows <- FirstOrAll
    Tags <- OneTag
    MaxTime = 1
    DayLen = 1
    ChunkLen = 1
    Batches <- EachAlone
    MaxSeq = 1
    Writers <- OneWriter
    Passes <- OnePass
    WriteThrough = TRUE
    Deletes = FALSE
    LateRows = TRUE
    Faults = FALSE
    InterruptAt <- Nowhere
INVARIANT AnswerComplete

SPECIFICATION Spec
CONSTANTS
    t1 = t1
    w1 = w1
    w2 = w2
    p1 = p1
    p2 = p2
    Tags <- OneTag
    MaxTime = 0
    DayLen = 1
    ChunkLen = 1
    Batches <- AnyBatch
    MaxSeq = 1
    Writers <- OneWriter
    Passes <- OnePass
    WriteThrough = TRUE
    Deletes = TRUE
    LateRows = TRUE
    Faults = FALSE
    InterruptAt <- Nowhere
PROPERTY DeleteErases

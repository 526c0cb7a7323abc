SPECIFICATION Spec
CONSTANTS
    t1 = t1
    w1 = w1
    w2 = w2
    p1 = p1
    p2 = p2
    Tags <- OneTag
    MaxTime = 1
    DayLen = 2
    ChunkLen = 2
    Batches <- AnyBatch
    MaxSeq = 2
    Writers <- OneWriter
    Passes <- OnePass
    WriteThrough = TRUE
    Deletes = FALSE
    LateRows = TRUE
    Faults = FALSE
    InterruptAt <- AtDelete
INVARIANT HotCoveredByCold

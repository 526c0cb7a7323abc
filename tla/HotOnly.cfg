SPECIFICATION Spec
CONSTANTS
    t1 = t1
    w1 = w1
    w2 = w2
    p1 = p1
    p2 = p2
    Tags <- OneTag
    MaxTime = 3
    DayLen = 2
    ChunkLen = 2
    Batches <- AnyBatch
    MaxSeq = 3
    Writers <- OneWriter
    Passes <- OnePass
    WriteThrough = FALSE
    Deletes = TRUE
    LateRows = FALSE
    Faults = TRUE
    InterruptAt <- PassSteps
INVARIANTS HotInv AckedReadable

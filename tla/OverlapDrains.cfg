SPECIFICATION FairSpec
CONSTANTS
    t1 = t1
    w1 = w1
    w2 = w2
    p1 = p1
    p2 = p2
    Tags <- OneTag
    MaxTime = 1
    DayLen = 1
    ChunkLen = 2
    Batches <- AnyBatch
    MaxSeq = 2
    Writers <- OneWriter
    Passes <- TwoPasses
    WriteThrough = TRUE
    Deletes = FALSE
    LateRows = TRUE
    Faults = FALSE
    InterruptAt <- Nowhere
INVARIANT ManifestInv
PROPERTY StagingEventuallyCompacted

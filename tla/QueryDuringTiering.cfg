SPECIFICATION FedSpec
CONSTANTS
    t1 = t1
    w1 = w1
    p1 = p1
    q1 = q1
    q2 = q2
    Queries <- OneQuery
    Tiers <- AllTiers
    Windows <- EveryWindow
    Tags <- OneTag
    MaxTime = 1
    DayLen = 2
    ChunkLen = 2
    Batches <- EachAlone
    MaxSeq = 2
    Writers <- OneWriter
    Passes <- OnePass
    WriteThrough = TRUE
    Deletes = FALSE
    LateRows = TRUE
    Faults = TRUE
    InterruptAt <- OutsideDeleteLoop
INVARIANTS AnswerComplete FedInv

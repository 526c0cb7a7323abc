SPECIFICATION Spec
CONSTANTS
    t1 = t1
    w1 = w1
    w2 = w2
    p1 = p1
    p2 = p2
    Tags <- OneTag
    MaxTime = 1
    DayLen = 1
    ChunkLen = 2
    Batches <- FirstOrBoth
    MaxSeq = 3
    Writers <- TwoWriters
    Passes <- OnePass
    WriteThrough = TRUE
    Deletes = FALSE
    LateRows = TRUE
    Faults = TRUE
    InterruptAt <- OutsideDeleteLoop
INVARIANTS TypeOK HotCoveredByCold AckedDurable ManifestSound StoreInv
PROPERTY VersionsOnlyRise
SYMMETRY WriterSymmetry

SPECIFICATION Spec
CONSTANTS
    w1 = w1
    w2 = w2
    d1 = d1
    Name <- HostTempCapital
    Tags <- CapitalTag
    Column <- PlainColumns
    ColOf <- CapitalColOf
    Bare <- PlainBare
    Batches <- CapitalBatches
    Writers <- OneWriter
    Deleters <- OneDeleter
    Faults = FALSE
    Restarts = TRUE
    RacingDeletes = FALSE
INVARIANTS StoredUnrounded SkippedOnlyIfUnknown

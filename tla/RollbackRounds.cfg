SPECIFICATION Spec
CONSTANTS
    w1 = w1
    w2 = w2
    d1 = d1
    Name <- HostTemp
    Tags <- HostTag
    Column <- PlainColumns
    ColOf <- PlainColOf
    Bare <- PlainBare
    Batches <- EveryType
    Writers <- TwoWriters
    Deleters <- NoDeleter
    Faults = TRUE
    Restarts = FALSE
    RacingDeletes = FALSE
INVARIANT StoredUnrounded

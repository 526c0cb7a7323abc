SPECIFICATION Spec
CONSTANTS
    w1 = w1
    w2 = w2
    d1 = d1
    Name <- HostTemp
    Tags <- HostTag
    Column <- PlainColumns
    ColOf <- PlainColOf
    Bare <- PlainBare
    Batches <- EveryType
    Writers <- OneWriter
    Deleters <- OneDeleter
    Faults = FALSE
    Restarts = FALSE
    RacingDeletes = TRUE
PROPERTY NeverDemoted

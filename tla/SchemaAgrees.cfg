SPECIFICATION FairSpec
CONSTANTS
    w1 = w1
    w2 = w2
    d1 = d1
    Name <- HostTemp
    Tags <- HostTag
    Column <- PlainColumns
    ColOf <- PlainColOf
    Bare <- PlainBare
    Batches <- EveryType
    Writers <- TwoWriters
    Deleters <- OneDeleter
    Faults = TRUE
    Restarts = TRUE
    RacingDeletes = FALSE
INVARIANTS TypeOK SInv CacheMatchesTable TrueCacheRoundsNothing AnswersInv RefusedOnlyIfOvertaken SkippedOnlyIfUnknown
PROPERTIES NeverDemoted EveryBatchEnds

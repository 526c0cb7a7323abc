SPECIFICATION Spec
CONSTANTS
    k1 = k1
    k2 = k2
    f1 = f1
    f2 = f2
    Keys <- OneKey
    Fields <- TwoFields
    MaxBatch = 1
    MaxPoints = 2
INVARIANT ColdHasHotFields
CHECK_DEADLOCK FALSE

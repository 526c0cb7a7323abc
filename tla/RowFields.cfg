SPECIFICATION Spec
CONSTANTS
    k1 = k1
    k2 = k2
    f1 = f1
    f2 = f2
    Keys <- TwoKeys
    Fields <- TwoFields
    MaxBatch = 2
    MaxPoints = 5
INVARIANTS TypeOK NeverStale WholePointsAgree RowInv
SYMMETRY Symmetry
CHECK_DEADLOCK FALSE

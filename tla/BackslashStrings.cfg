SPECIFICATION PureSpec
CONSTANTS
    MaxTime = 4
    MaxObjects = 0
    Symbols <- Alphabet
    Chars = {}
    MaxText = 0
    Points <- AllPoints
    Lines = {}
    MaxLines = 0
INVARIANT PointsSurvive
CHECK_DEADLOCK FALSE

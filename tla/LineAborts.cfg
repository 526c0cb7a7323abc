SPECIFICATION PureSpec
CONSTANTS
    MaxTime = 4
    MaxObjects = 0
    Symbols <- Alphabet
    Chars = {}
    MaxText = 0
    Points = {}
    Lines <- BodyLines
    MaxLines = 2
INVARIANT LineErrorsStayLocal
CHECK_DEADLOCK FALSE

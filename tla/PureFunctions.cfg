SPECIFICATION PureSpec
CONSTANTS
    MaxTime = 4
    MaxObjects = 3
    Symbols <- Alphabet
    Chars <- ScanChars
    MaxText = 6
    Points <- PlainPoints
    Lines <- BodyLines
    MaxLines = 4
INVARIANTS CoveredIffNoGap PruningKeepsRows CutsWhereUnescaped PointsSurvive BodyIsLineByLine
CHECK_DEADLOCK FALSE

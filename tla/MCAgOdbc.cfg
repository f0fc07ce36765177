SPECIFICATION MCSpec
CONSTANTS
    p1 = p1
    p2 = p2
    j1 = j1
    j2 = j2
    x = x
    y = y
    None = None
    TypeName <- MCName
    Param <- MCParam
    Json <- MCJson
    Text <- MCText
    MaxLen = 2
    MaxRow = 2
SYMMETRY MCSymmetry
INVARIANTS TargetOfThisRow GotInOnePiece NoTextInTarget SentAsBound

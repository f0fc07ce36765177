SPECIFICATION IterSpec
CONSTANTS
    k1 = k1
    k2 = k2
    k3 = k3
    k4 = k4
    v1 = v1
    Key <- MCKey
    Val <- MCVal
    HashValue <- MCHashValue
    Null = Null
    Empty = Empty
    Freed = Freed
    InitSize = 2
    MaxSize = 8
    SparesNext = FALSE
SYMMETRY MCSymmetry
INVARIANTS BodyGetsLiveKeys

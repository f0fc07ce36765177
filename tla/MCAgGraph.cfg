CONSTANTS
    Paths <- PlainPaths
    BufLen = 15
    WideLimit = 32
    NarrowLimit = 16
    Labels = {"a", "b"}
    Ids = {7, 15}
SPECIFICATION Spec
CHECK_DEADLOCK FALSE
INVARIANTS PathKept BufferHolds StringsOwned

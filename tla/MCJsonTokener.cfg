CONSTANTS
    Grammars <- AllGrammars
    Whole <- AllWhole
    Cut <- AllCut
    Reused <- MCReused
    MaxDepth = 3
    HexDigits = 2
    High <- MCHigh
    Low <- MCLow
    AsHigh <- MCAsHigh
    AsLow <- MCAsLow
    HighOf <- MCHighOf
    Word <- MCWord
SPECIFICATION LiveSpec
CHECK_DEADLOCK FALSE
INVARIANTS TypeOK ReturnsMeaning AcceptsValid HandedOver StartsFresh
PROPERTY CallsReturn

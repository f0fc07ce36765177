CONSTANTS
    Grammars <- PairGrammars
    Whole <- NoText
    Cut <- PairTexts
    Reused <- NoText
    MaxDepth = 2
    HexDigits = 2
    High <- MCHigh
    Low <- MCLow
    AsHigh <- MCAsHigh
    AsLow <- MCAsLow
    HighOf <- MCHighOf
    Word <- MCWord
SPECIFICATION Spec
CHECK_DEADLOCK FALSE
INVARIANT ReturnsMeaning

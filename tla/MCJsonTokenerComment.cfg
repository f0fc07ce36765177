CONSTANTS
    Grammars <- OpenGrammars
    Whole <- OpenTexts
    Cut <- NoText
    Reused <- NoText
    MaxDepth = 2
    HexDigits = 2
    High <- MCHigh
    Low <- MCLow
    AsHigh <- MCAsHigh
    AsLow <- MCAsLow
    HighOf <- MCHighOf
    Word <- MCWord
SPECIFICATION Spec
CHECK_DEADLOCK FALSE
PROPERTY OnlyWholeValues

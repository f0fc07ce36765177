SPECIFICATION PrintSpec
CONSTANTS
    Whole <- NoText
    Cut <- NoText
    Reused <- NoText
    MaxDepth = 6
    HexDigits = 4
    High <- NoText
    Low <- NoText
    AsHigh <- NoText
    AsLow <- NoText
    HighOf <- NoUnit
    Word <- MCWord
    Data <- MCData
    Hole = Hole
    DefaultSize = 1
    MaxLength = 3
    Char_ <- NoText
    BufSize = 6
    Slack = 2
    WideLimit = 32
    NarrowLimit = 8
    Lone <- MCLone
    Flags <- MCFlags
    Numerals <- MCNumerals
    UnitsBelow <- MCUnitsBelow
INVARIANTS RoundTrip GetIntIsNearest InBounds BeyondIsNull
PROPERTY RefinesElementList

SPECIFICATION FrontSpec
CONSTANTS
    Inputs <- MCInputs
    Texts <- MCTexts
    MaxDigits = 2
    Intruders = {"SEMICOLON", "LBRACE", "RBRACE", "COLON"}
    Openers = {"IDENT", "LBRACE", "RBRACE", "COLON", "SEMICOLON", "FN"}
    MaxShort = 3
    MaxText = 4
INVARIANTS
    ScansAsWritten
    LinesFollow
    AcceptedTextIsPaired
    GuardsHold
    SilentMeansBalanced
    AcceptsWellFormed
    ErrorsStayInFunction
PROPERTIES
    Ends
CHECK_DEADLOCK FALSE

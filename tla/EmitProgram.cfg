SPECIFICATION Spec
CHECK_DEADLOCK FALSE
CONSTANTS
    Kinds = {"do", "return", "bare", "break", "continue", "bad", "if", "ifelse", "while", "for", "match", "empty", "arm", "wild"}
    ReturnTypes = {"i32", "void"}
    MaxStatements = 3
    MaxFunctions = 2
INVARIANTS
    ReturnlessEnd
    BlocksEnd
    BranchesLand
    LabelsOnce

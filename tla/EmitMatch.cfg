SPECIFICATION RunSpec
CHECK_DEADLOCK FALSE
CONSTANTS
    Kinds = {"do", "return", "match", "arm", "wild"}
    ReturnTypes = {"i32"}
    MaxStatements = 3
    MaxFunctions = 1
INVARIANT SameBehaviour

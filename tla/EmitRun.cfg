SPECIFICATION RunSpec
CHECK_DEADLOCK FALSE
CONSTANTS
    Kinds = {"do", "return", "break", "continue", "if", "ifelse", "while", "for"}
    ReturnTypes = {"i32"}
    MaxStatements = 4
    MaxFunctions = 1
INVARIANT SameBehaviour

SPECIFICATION Spec
CONSTANTS
    Names <- TwoNames
    Registered <- TwoNames
    Deps <- TwoDeps
    Files <- TwoFiles
    SrcFiles <- TwoSrcFiles
    Junk = Junk
    Procs = {p1, p2}
    MaxCommands = 3
    MaxCrashes = 1
INVARIANTS
    ListedWasCopied
CHECK_DEADLOCK FALSE

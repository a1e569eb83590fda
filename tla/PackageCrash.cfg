SPECIFICATION Spec
CONSTANTS
    Names <- MCNames
    Registered <- MCRegistered
    Deps <- MCDeps
    Files <- MCFiles
    SrcFiles <- MCSrcFiles
    Junk = Junk
    Procs = {p1}
    MaxCommands = 4
    MaxCrashes = 2
INVARIANTS
    ListedIsWhole
    DependenciesListed
CHECK_DEADLOCK FALSE

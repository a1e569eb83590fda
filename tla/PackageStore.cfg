SPECIFICATION FairSpec
CONSTANTS
    Names <- MCNames
    Registered <- MCRegistered
    Deps <- MCDeps
    Files <- MCFiles
    SrcFiles <- MCSrcFiles
    Junk = Junk
    Procs = {p1}
    MaxCommands = 4
    MaxCrashes = 0
PROPERTIES
    RefinesStore
    CommandsEnd
CHECK_DEADLOCK FALSE

SPECIFICATION HostSpec
CONSTANTS
    Engcs <- MCEngcs
    Scenarios <- MCScenarios
    Boards <- MCBoards
    Sources <- MCSources
    Edited <- MCEdited
    MaxSourceEdits = 1
    RootWidget <- MCRoot
    Kind <- MCKind
    Trees <- MCTrees
    Rows = {0, 1, 2, 3, 4, 5}
    MaxText = 2
    Methods <- MCMethods
    Uris = {"u"}
    FirstIds = {1, 9}
    MaxMessages = 3
    Documents = {"a", "b"}
    Texts <- MCTexts
    TokensOf <- MCContent
    Code <- MCCode
    Stderr <- MCStderr
    Known = {"fn"}
    Names = {"f"}
    Words = {"f"}
    Begins <- MCBegins
    MaxUses = 2
    EcFiles <- MCFiles
    Root = "main"
    ModuleNames <- MCModules
    Dirs <- MCDirs
    DirOf <- MCDirOf
    FileAt <- MCFileAt
    Cwd = "dir"
    StdDir = "std"
    PackagesIn <- MCPackagesIn
    FileSystems <- MCFileSystems
    ImportLists <- MCImportLists
PROPERTY ReportsExitCode
CHECK_DEADLOCK FALSE

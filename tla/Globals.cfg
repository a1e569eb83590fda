SPECIFICATION CodegenSpec
CONSTANTS
    Names = {"x"}
    Programs <- MCPrograms
    MaxPrinted = 3
    Strings <- MCStrings
    Numbers <- MCNumbers
    Paths = {"f"}
    Streams <- MCStreams
    InputSize = 4
    OutputSize = 4
    LineSize = 3
    Misses = 2
    Bauds = {1200, 9600}
    MaxCalls = 2
    MaxBytes = 3
    Items <- MCItems
    MaxItems = 4
    Prelude <- MCPrelude
    PoolTexts = {""}
INVARIANT GlobalsAreShared
CHECK_DEADLOCK FALSE

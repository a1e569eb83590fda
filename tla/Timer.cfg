SPECIFICATION FairSpec
CONSTANTS
    Periods = {1}
    MaxPeriod = 1
    MaxTick = 1
    MaxTimers = 3
INVARIANTS
    TypeOK
    IdsUnique
    OneShotOnce
PROPERTIES
    DroppedIsSilent
    TimersFire
CHECK_DEADLOCK FALSE

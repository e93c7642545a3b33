SPECIFICATION FairSpec
CONSTANTS
    InputPaths = {a}
    PendingPaths = {}
    Watchers = {}
    Starter = starter
    Rescanner = rescanner
    Retriers = {}
    Modes <- CopyAfterDry
    Sentinel = sentinel
    NoPath = noPath
    NoThread = noThread
    MaxVersion = 1
    MaxGenerations = 1
    MaxQueue = 2
    ListMayFail = FALSE
    LedgerMayFail = TRUE
    JoinMayTimeOut = TRUE
CHECK_DEADLOCK FALSE
INVARIANTS
    CopiedIsRemembered
PROPERTIES
    InputHandled
    StopReturns

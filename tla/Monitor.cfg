SPECIFICATION MonitorFairSpec
CONSTANTS
    Callers = {c1, c2}
    Closer = c2
    NoCaller = noCaller
    MaxGenerations = 3
    MaxEvents = 2
    StartMayFail = FALSE
    JoinMayTimeOut = TRUE
    FolderMayFail = TRUE
    Clicks = {"save", "retry", "undo", "clear", "close"}
    CloseMayTimeOut = TRUE
    QueryMayFail = TRUE
CHECK_DEADLOCK FALSE
INVARIANTS
    ToggleSettles
    NothingWaits
    MeetsOnlyAStart
    StoresOutliveThreads
PROPERTIES
    ToggleReturns

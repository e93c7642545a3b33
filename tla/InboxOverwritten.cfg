SPECIFICATION Spec
CONSTANTS
    InputPaths = {a}
    PendingPaths = {}
    Watchers = {}
    Starter = starter
    Rescanner = rescanner
    Retriers = {}
    Modes <- CopyOnly
    Sentinel = sentinel
    NoPath = noPath
    NoThread = noThread
    MaxVersion = 2
    MaxGenerations = 1
    MaxQueue = 2
    ListMayFail = FALSE
    LedgerMayFail = FALSE
    JoinMayTimeOut = FALSE
CHECK_DEADLOCK FALSE
INVARIANTS
    CoveredOnlyIfPlaced

SPECIFICATION Spec
CONSTANTS
    InputPaths = {a}
    PendingPaths = {r}
    Watchers = {w}
    Starter = starter
    Rescanner = rescanner
    Retriers = {y}
    Modes <- MoveOnly
    Sentinel = sentinel
    NoPath = noPath
    NoThread = noThread
    MaxVersion = 1
    MaxGenerations = 2
    MaxQueue = 2
    ListMayFail = TRUE
    LedgerMayFail = FALSE
    JoinMayTimeOut = FALSE
CHECK_DEADLOCK FALSE
INVARIANTS
    ReservedOnce
    NoLeakedReservation


SPECIFICATION FairSpec
CONSTANTS
    Callers = {c1, c2}
    NoCaller = noCaller
    MaxGenerations = 3
    MaxEvents = 1
    StartMayFail = TRUE
    JoinMayTimeOut = TRUE
    FolderMayFail = TRUE
CHECK_DEADLOCK FALSE
INVARIANTS
    OneStart
    NoOrphan
    OnlyNewestLives
PROPERTIES
    Implements
    HaltedEnds
    CallsReturn

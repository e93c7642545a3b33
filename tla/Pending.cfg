SPECIFICATION PendingFairSpec
CONSTANTS
    k1 = k1
    k2 = k2
    Counters = {k1, k2}
    None = none
    MaxFiles = 1
    MaxChanges = 2
CHECK_DEADLOCK FALSE
PROPERTIES
    NeverOlder
    CountSettles

SPECIFICATION SettingsSpec
CONSTANTS
    Configs <- MCConfigs
    Default = "default"
    Entered <- MCEntered
    Documents <- MCDocuments
    ReviewName <- MCReviewName
    DuplicatesName <- MCDuplicatesName
    NoSocietyName <- MCNoSocietyName
    Fallback <- MCFallback
    NoDate <- MCNoDate
    Literal <- MCLiteral
    MaxComponent = 3
    Absent = absent
    Damaged = damaged
    Refused = refused
    Failures = {"read", "backup", "write", "sync", "replace", "open dir", "sync dir"}
    Accidents = {"crash", "power cut", "damage"}
    Windows = FALSE
CHECK_DEADLOCK FALSE
INVARIANTS
    NeverHalfWritten
    SavedIsKept
    MemoryIsFile
    LeavesInput
    StaysBelow
PROPERTIES
    OnlyTypedReplaces

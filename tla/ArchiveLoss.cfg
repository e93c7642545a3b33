SPECIFICATION ArchiveSpec
CONSTANTS
    Docs = {d1, d2}
    Twins = {d1, d2}
    Slots = {s1}
    Nothing = nothing
    NoPath = noPath
    NoSignature = noSignature
    Modes = {"move"}
    MayCollide = FALSE
    CrossDrive = TRUE
    TransferMayFail = TRUE
    RecordMayFail = TRUE
    MarkMayFail = TRUE
    CommitMayFail = TRUE
    MayCrash = TRUE
    Removable = {}
    Placeable = {"archive"}
    UserMayClear = TRUE
    MaxRows = 2
SYMMETRY Symmetry
CHECK_DEADLOCK FALSE
INVARIANTS
    NothingLost

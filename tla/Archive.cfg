SPECIFICATION ArchiveSpec
CONSTANTS
    Docs = {d1, d2}
    Twins = {d1, d2}
    Slots = {s1, s2}
    Nothing = nothing
    NoPath = noPath
    NoSignature = noSignature
    Modes = {"move", "copy"}
    CrossDrive = FALSE
    TransferMayFail = FALSE
    RecordMayFail = FALSE
    MarkMayFail = TRUE
    CommitMayFail = FALSE
    MayCrash = FALSE
    Removable = {"archive"}
    Placeable = {}
    MayCollide = FALSE
    UserMayClear = FALSE
    MaxRows = 3
SYMMETRY Symmetry
CHECK_DEADLOCK FALSE
INVARIANTS
    OneFiled
    Accounted
    UndoTakesItsOwn
PROPERTIES
    UndoForgets

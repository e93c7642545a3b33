SPECIFICATION SuppliersFairSpec
CONSTANTS
    c1 = c1
    c2 = c2
    acme = acme
    norte = norte
    blank = blank
    badCuit = badCuit
    broken = broken
    corrupt = corrupt
    i1 = i1
    i2 = i2
    Cuits <- MCCuits
    Names <- MCNames
    Blank = blank
    BadCuit = badCuit
    Sheets <- AllSheets
    Broken = broken
    Corrupt = corrupt
    Imports = {i1}
    Failures = {"import", "delete", "query"}
    Accidents = TRUE
CHECK_DEADLOCK FALSE
INVARIANTS
    ImportedIsKept
    ShownIsRegistry
PROPERTIES
    ImportIsAnswered

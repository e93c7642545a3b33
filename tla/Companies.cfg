CONSTANTS
    acme = acme
    beta = beta
    Names = {acme, beta}
    Blank = Blank
    Known <- MCKnown
    Entries <- MCEntries
    Slips = {"exact", "zeros", "digit", "swap"}
    Sheets <- MCSheets
    Refused = Refused
    NoSheet = NoSheet
    Imports = {t1}
    MaxCompanies = 3
    MaxDialogs = 2
SPECIFICATION CompaniesSpec
INVARIANTS  TypedIsMeant
PROPERTY OnlyChosenLeave
CHECK_DEADLOCK FALSE

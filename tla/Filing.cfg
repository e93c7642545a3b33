SPECIFICATION FilingSpec
CONSTANTS
    own1 = own1
    own2 = own2
    sup1 = sup1
    sup2 = sup2
    acme = acme
    acmeSA = acmeSA
    norte = norte
    ours = ours
    theirs = theirs
    n1 = n1
    n2 = n2
    fc = fc
    fce = fce
    nc = nc
    Cuits <- MCCuits
    Names <- MCNames
    Unknown = "unknown"
    LongNames <- MCNames
    LooksLike <- MCLooksLike
    LabelOf <- MCLabelOf
    Numerals = {n1, n2}
    NoNumber = "00000000"
    Labels <- MCLabels
    OrderLabel <- MCOrderLabel
    Vouchers <- AllVouchers
    Pages <- AllPages
    Documents <- Pdfs
    Resembling <- MCResembling
    MaxQrPages = 3
    SocietySets <- MCSocietySets
    Registries <- MCRegistries
    Followers <- OncePages
    MaxRows = 3
CONSTRAINT Followed
CHECK_DEADLOCK FALSE
INVARIANTS
    MovedIsExact
    MovedIsRight
    OncePerVoucher
PROPERTIES
    DuplicateIsSame

------------------------------- MODULE Filing -------------------------------
(***************************************************************************)
(* Where a document goes: parse_invoice, resolve_buyer, the registry of    *)
(* suppliers, decide_filing and the two keys by which the ledger knows a   *)
(* voucher again.  A page is what the readers get out of a PDF: the valid  *)
(* CUITs in its text, the printed supplier, the names its text mentions,   *)
(* how its number is written, and its QR.  The user changes companies and  *)
(* registry between one document and the next.                             *)
(*                                                                         *)
(* "At most one" is a set here: {} is Python's None, {c} is c.             *)
(***************************************************************************)
EXTENDS Naturals, Sequences

CONSTANTS
    Cuits,        \* valid CUITs, of companies and suppliers alike
    Names,        \* normalized names of suppliers
    Unknown,      \* UNKNOWN_SUPPLIER
    LongNames,    \* names of _MIN_TEXT_ALIAS characters or more
    LooksLike,    \* per CUIT: the names that are, or contain, a name of that company
    Numerals,     \* the numbers of documents
    NoNumber,     \* the filler of default_number
    Vouchers,     \* real vouchers: issuer, buyer, number and AFIP code
    Labels,       \* type labels
    OrderLabel,   \* _ORDER_LABEL
    LabelOf,      \* AFIP_CODES, per code: the label of its kind and letter
    Pages,        \* what is read of the documents that arrive
    SocietySets,  \* the sets of companies the user may configure
    Registries,   \* the registries the user may import
    Followers,    \* bound: the pages that may come after another document
    MaxRows       \* bound: documents processed

\* A number as printed, with a point of sale of four digits or of five, or not found.
Filler == <<NoNumber, "short">>
Numbers == (Numerals \X {"short", "long"}) \union {Filler}

PageType ==
    [voucher : Vouchers, cuits : SUBSET Cuits, printed : Names \union {Unknown},
     mentions : SUBSET Names, number : Numbers, label : Labels, order : BOOLEAN,
     close : SUBSET Cuits, qr : BOOLEAN, receiver : BOOLEAN]

ASSUME NamesAssumption == Unknown \notin Names /\ LongNames \subseteq Names
ASSUME CompaniesAssumption ==
    LooksLike \in [Cuits -> SUBSET Names] /\ SocietySets \subseteq SUBSET Cuits
ASSUME VouchersAssumption ==
    \A v \in Vouchers : /\ v.issuer \in Cuits /\ v.buyer \in Cuits
                        /\ v.number \in Numerals /\ v.code \in DOMAIN LabelOf
ASSUME LabelsAssumption ==
    /\ OrderLabel \in Labels /\ \A code \in DOMAIN LabelOf : LabelOf[code] \in Labels
    /\ NoNumber \notin Numerals
ASSUME PagesAssumption == Followers \subseteq Pages /\ Pages \subseteq PageType
ASSUME RegistriesAssumption ==
    \A g \in Registries : \A c \in DOMAIN g :
        c \in Cuits /\ g[c].legal \in Names /\ g[c].aliases \subseteq Names
ASSUME BoundAssumption == MaxRows \in Nat

VARIABLES
    societies,  \* AppConfig.societies, by CUIT
    registry,   \* the snapshot the worker reads
    rows        \* the ledger, and which of the files it names still stand

filingVars == <<societies, registry, rows>>

Single(set) == \E x \in set : set = {x}

-----------------------------------------------------------------------------
(* The parser.                                                             *)

\* detect_buyer_cuit: more than one company is an ambiguous buyer.
TextBuyer(page) == page.cuits \intersect societies

\* merge_qr: the receiver in the QR wins, and its issuer is never the buyer.
MergedBuyer(page) ==
    IF ~page.qr THEN TextBuyer(page)
    ELSE IF page.receiver THEN {page.voucher.buyer} \intersect societies
    ELSE IF TextBuyer(page) = {page.voucher.issuer} THEN {}
    ELSE TextBuyer(page)

\* looks_like_order: a page with a QR is an invoice.
IsOrder(page) == page.order /\ ~page.qr

\* resolve_buyer: an order without a CUIT goes by the name of its buyer.
IsFuzzy(page) == IsOrder(page) /\ MergedBuyer(page) = {}
Buyer(page) == IF IsFuzzy(page) THEN page.close \intersect societies ELSE MergedBuyer(page)
KnownBuyer(page) == IF Single(Buyer(page)) THEN Buyer(page) ELSE {}

\* is_lone_unknown_cuit: it could be either side of the voucher.
IsLoneUnknown(found, known) == Single(found) /\ found \intersect known = {}

\* unique_issuer_cuit, for the buyer the text gives.
TextIssuer(page) ==
    LET buyer == IF Single(TextBuyer(page)) THEN TextBuyer(page) ELSE {}
        leftover == page.cuits \ buyer
    IN IF Single(leftover) /\ ~IsLoneUnknown(page.cuits, buyer) THEN leftover ELSE {}

ParsedIssuer(page) == IF page.qr THEN {page.voucher.issuer} ELSE TextIssuer(page)

\* _number: the printed width is kept if the numbers agree; the QR alone gives the narrow one.
NumberOf(page) ==
    IF page.qr /\ page.number[1] # page.voucher.number THEN <<page.voucher.number, "short">>
    ELSE page.number

TypeLabel(page) ==
    IF IsOrder(page) THEN OrderLabel
    ELSE IF page.qr THEN LabelOf[page.voucher.code] ELSE page.label

-----------------------------------------------------------------------------
(* The registry: no hit, or two, is no match.                              *)

\* Mutant: an unknown CUIT does not stop the search by name.
MatchByAnyName(page) ==
    LET exclude == KnownBuyer(page)
        byCuit == (page.cuits \ exclude) \intersect DOMAIN registry
        byName == {c \in DOMAIN registry \ exclude :
                      registry[c].aliases \intersect page.mentions \intersect LongNames # {}}
    IN IF IsLoneUnknown(page.cuits, exclude) THEN {}
       ELSE IF Single(byCuit) THEN byCuit
       ELSE IF Single(byName) THEN byName ELSE {}

Match(page) ==
    LET exclude == KnownBuyer(page)
        leftover == page.cuits \ exclude
        byCuit == leftover \intersect DOMAIN registry
        byName == {c \in DOMAIN registry \ exclude :
                      registry[c].aliases \intersect page.mentions \intersect LongNames # {}}
    IN IF IsLoneUnknown(page.cuits, exclude) THEN {}
       ELSE IF Single(byCuit) THEN byCuit
       ELSE IF leftover = {} /\ Single(byName) THEN byName ELSE {}

\* _canonicalize_supplier: an issuer in the QR is looked up by its CUIT alone.
Supplier(page) ==
    IF page.qr THEN {page.voucher.issuer} \intersect DOMAIN registry ELSE Match(page)

SupplierName(page) ==
    IF Supplier(page) = {} THEN page.printed ELSE registry[CHOOSE c \in Supplier(page) : TRUE].legal

Issuer(page) == IF Supplier(page) = {} THEN ParsedIssuer(page) ELSE Supplier(page)

-----------------------------------------------------------------------------
(* The ledger.                                                             *)

\* What record keeps of a document: identity is name, number and label; issuer_identity
\* has the CUIT for the name.
Row(page, outcome) ==
    [page |-> page, supplier |-> SupplierName(page), issuer |-> Issuer(page),
     number |-> NumberOf(page), label |-> TypeLabel(page),
     outcome |-> outcome, buyer |-> KnownBuyer(page), own |-> societies,
     reverted |-> FALSE, standing |-> TRUE]

Filed == {"moved", "unclassified"}

\* Mutant: only the name identifies a voucher.
SameName(row, page) ==
    /\ row.number = NumberOf(page) /\ row.label = TypeLabel(page)
    /\ row.supplier = SupplierName(page)

\* Mutant: the type of the voucher is left out of the keys.
SameButForLabel(row, page) ==
    /\ row.number = NumberOf(page)
    /\ row.supplier = SupplierName(page) \/ (Issuer(page) # {} /\ row.issuer = Issuer(page))

\* Either key hits.
SameIdentity(row, page) ==
    /\ row.number = NumberOf(page) /\ row.label = TypeLabel(page)
    /\ row.supplier = SupplierName(page) \/ (Issuer(page) # {} /\ row.issuer = Issuer(page))

Hits(page) ==
    {i \in DOMAIN rows : ~rows[i].reverted /\ rows[i].outcome \in Filed /\ SameIdentity(rows[i], page)}

\* archived_destination is the newest hit; is_archived_duplicate wants its file to stand.
IsDuplicate(page) ==
    \E i \in Hits(page) : rows[i].standing /\ (\A j \in Hits(page) : j <= i)

-----------------------------------------------------------------------------
(* The policy.                                                             *)

IsReliable(page) ==
    /\ NumberOf(page) # Filler /\ SupplierName(page) # Unknown
    /\ \A s \in societies : SupplierName(page) \notin LooksLike[s]

\* Mutant: the name of a buyer is as good as its CUIT.
OutcomeByName(page) ==
    IF Buyer(page) # {} /\ ~Single(Buyer(page)) THEN "needs review"
    ELSE IF ~IsReliable(page) THEN "needs review"
    ELSE IF IsDuplicate(page) THEN "duplicate"
    ELSE IF Buyer(page) = {} THEN "unclassified" ELSE "moved"

\* decide_filing.
Outcome(page) ==
    IF Buyer(page) # {} /\ ~Single(Buyer(page)) THEN "needs review"
    ELSE IF ~IsReliable(page) THEN "needs review"
    ELSE IF IsDuplicate(page) THEN "duplicate"
    ELSE IF Buyer(page) # {} /\ IsFuzzy(page) THEN "needs review"
    ELSE IF Buyer(page) = {} THEN "unclassified" ELSE "moved"

-----------------------------------------------------------------------------
FilingInit ==
    /\ societies \in SocietySets
    /\ registry \in Registries
    /\ rows = <<>>

Process(page) ==
    /\ Len(rows) < MaxRows
    /\ rows' = Append(rows, Row(page, Outcome(page)))
    /\ UNCHANGED <<societies, registry>>

\* The user saves other companies, imports or removes suppliers.
Configure(set) ==
    /\ set # societies
    /\ societies' = set
    /\ UNCHANGED <<registry, rows>>

Import(suppliers) ==
    /\ suppliers # registry
    /\ registry' = suppliers
    /\ UNCHANGED <<societies, rows>>

\* The file of a row is deleted by hand.
Delete(i) ==
    /\ rows[i].standing
    /\ rows' = [rows EXCEPT ![i] = [@ EXCEPT !.standing = FALSE]]
    /\ UNCHANGED <<societies, registry>>

\* Undo takes the newest row that is not reverted.
Undo(i) ==
    /\ ~rows[i].reverted /\ (\A j \in DOMAIN rows : j > i => rows[j].reverted)
    /\ rows' = [rows EXCEPT ![i] = [@ EXCEPT !.reverted = TRUE, !.standing = FALSE]]
    /\ UNCHANGED <<societies, registry>>

FilingNext ==
    \/ rows = <<>> /\ \E page \in Pages : Process(page)
    \/ rows # <<>> /\ \E page \in Followers : Process(page)
    \/ \E set \in SocietySets : Configure(set)
    \/ \E suppliers \in Registries : Import(suppliers)
    \/ \E i \in DOMAIN rows : Delete(i) \/ Undo(i)

FilingSpec == FilingInit /\ [][FilingNext]_filingVars

-----------------------------------------------------------------------------
(* Properties.                                                             *)

AtMostOne(set) == {{}} \union {{x} : x \in set}

\* Every row is one the pipeline can have written, and companies and registry are among
\* those the user may choose.
FilingTypeOK ==
    /\ societies \in SocietySets /\ registry \in Registries
    /\ rows \in Seq([page : Pages, supplier : Names \union {Unknown},
                     issuer : AtMostOne(Cuits),
                     number : Numbers, label : Labels,
                     outcome : Filed \union {"duplicate", "needs review"},
                     buyer : AtMostOne(Cuits), own : SocietySets,
                     reverted : BOOLEAN, standing : BOOLEAN])

\* The parties a page gives a CUIT for.
Parties(page) ==
    (IF page.qr /\ page.receiver THEN {page.voucher.buyer} ELSE page.cuits)

\* MOVED is reserved for an exact buyer CUIT on a reliable invoice: the buyer is one of
\* our companies and the only one whose CUIT the page gives, and the supplier has a name
\* that is not one of ours.
MovedIsExact ==
    \A i \in DOMAIN rows : rows[i].outcome = "moved" =>
        /\ Parties(rows[i].page) \intersect rows[i].own = rows[i].buyer /\ Single(rows[i].buyer)
        /\ rows[i].supplier # Unknown /\ rows[i].number # Filler
        /\ \A s \in rows[i].own : rows[i].supplier \notin LooksLike[s]

\* No invoice is ever misfiled: what was moved lies under its buyer and under a name of
\* its issuer, with its own number and type and not those of a document it quotes, whatever
\* the registry and the companies were.
MovedIsRight ==
    \A i \in DOMAIN rows : LET row == rows[i] IN row.outcome = "moved" =>
        /\ row.buyer = {row.page.voucher.buyer}
        /\ row.supplier \in LooksLike[row.page.voucher.issuer]
        /\ row.number[1] = row.page.voucher.number
        /\ row.label \in {LabelOf[row.page.voucher.code], OrderLabel}

Stands(i) == rows[i].outcome \in Filed /\ rows[i].standing /\ ~rows[i].reverted

\* A voucher is filed once: a second download is not filed while the first one stands,
\* even when an import has renamed the supplier in between.
OncePerVoucher ==
    \A i, j \in DOMAIN rows :
        Stands(i) /\ Stands(j) /\ rows[i].page.voucher = rows[j].page.voucher => i = j

\* Two different vouchers stay distinct: what is called a duplicate has been filed.
DuplicateIsSame ==
    [][\A i \in DOMAIN rows' \ DOMAIN rows : rows'[i].outcome = "duplicate" =>
          \E j \in DOMAIN rows : Stands(j) /\ rows[j].page.voucher = rows'[i].page.voucher]_filingVars
=============================================================================

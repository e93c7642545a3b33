---------------------------- MODULE FilingProofs ----------------------------
(***************************************************************************)
(* For every set of companies, suppliers, vouchers and pages: the types of *)
(* Filing, and that what is moved has an exact buyer.  Where what is read  *)
(* of a page is true of its voucher, that what is moved is right; where it *)
(* is all there, that a voucher is filed once and only what has been filed *)
(* is called a duplicate.                                                  *)
(***************************************************************************)
EXTENDS Filing, TLAPS

-----------------------------------------------------------------------------
(* What the readings of a page can be.                                     *)

LEMMA PageFacts ==
  ASSUME NEW page \in Pages
  PROVE  /\ page.voucher \in Vouchers /\ page.cuits \subseteq Cuits
         /\ page.printed \in Names \union {Unknown} /\ page.number \in Numbers
         /\ page.label \in Labels /\ page.voucher.number \in Numerals
         /\ page.qr \in BOOLEAN /\ page.receiver \in BOOLEAN
         /\ page.voucher.issuer \in Cuits /\ page.voucher.buyer \in Cuits
         /\ page.voucher.code \in DOMAIN LabelOf
<1>1. page \in PageType
  BY PagesAssumption
<1>2. /\ page.voucher \in Vouchers /\ page.cuits \subseteq Cuits
      /\ page.printed \in Names \union {Unknown} /\ page.number \in Numbers
      /\ page.label \in Labels
      /\ page.qr \in BOOLEAN /\ page.receiver \in BOOLEAN
  BY <1>1 DEF PageType
<1> QED
  BY <1>2, VouchersAssumption

LEMMA RegistryFacts ==
  ASSUME registry \in Registries, NEW c \in DOMAIN registry
  PROVE  c \in Cuits /\ registry[c].legal \in Names
BY RegistriesAssumption

\* A set with at most one element stays one, read as None or a CUIT.
LEMMA SingleIsAtMostOne ==
  ASSUME NEW S, NEW T, S \subseteq T, Single(S)
  PROVE  S \in AtMostOne(T)
BY DEF Single, AtMostOne

LEMMA EmptyIsAtMostOne ==
  ASSUME NEW T
  PROVE  {} \in AtMostOne(T)
BY DEF AtMostOne

LEMMA KnownBuyerType ==
  ASSUME FilingTypeOK, NEW page \in Pages
  PROVE  KnownBuyer(page) \in AtMostOne(Cuits)
<1>1. societies \subseteq Cuits
  BY CompaniesAssumption DEF FilingTypeOK
<1>2. CASE Single(Buyer(page))
  <2>1. Buyer(page) \subseteq Cuits
    BY <1>1, PageFacts DEF Buyer, MergedBuyer, TextBuyer
  <2> QED
    BY <1>2, <2>1, SingleIsAtMostOne DEF KnownBuyer
<1>3. CASE ~Single(Buyer(page))
  BY <1>3, EmptyIsAtMostOne DEF KnownBuyer
<1> QED
  BY <1>2, <1>3

LEMMA ParsedIssuerType ==
  ASSUME NEW page \in Pages
  PROVE  ParsedIssuer(page) \in AtMostOne(Cuits)
<1>1. {page.voucher.issuer} \in AtMostOne(Cuits)
  BY PageFacts DEF AtMostOne
<1>2. TextIssuer(page) \in AtMostOne(Cuits)
  <2> DEFINE buyer == IF Single(TextBuyer(page)) THEN TextBuyer(page) ELSE {}
             leftover == page.cuits \ buyer
  <2>1. leftover \subseteq Cuits
    BY PageFacts
  <2>2. Single(leftover) => leftover \in AtMostOne(Cuits)
    <3> HIDE DEF leftover
    <3> QED BY <2>1, SingleIsAtMostOne
  <2>3. TextIssuer(page) = IF Single(leftover) /\ ~IsLoneUnknown(page.cuits, buyer)
                           THEN leftover ELSE {}
    BY DEF TextIssuer
  <2> HIDE DEF leftover, buyer
  <2> QED
    BY <2>2, <2>3, EmptyIsAtMostOne
<1> QED
  BY <1>1, <1>2 DEF ParsedIssuer

\* A supplier of the registry is known by one CUIT.
LEMMA SupplierType ==
  ASSUME FilingTypeOK, NEW page \in Pages
  PROVE  Supplier(page) \in AtMostOne(Cuits) /\ Supplier(page) \subseteq DOMAIN registry
<1>1. DOMAIN registry \subseteq Cuits
  BY RegistryFacts DEF FilingTypeOK
<1>2. Match(page) = {} \/ (Single(Match(page)) /\ Match(page) \subseteq DOMAIN registry)
  <2> DEFINE exclude == KnownBuyer(page)
             byCuit == (page.cuits \ exclude) \intersect DOMAIN registry
             byName == {c \in DOMAIN registry \ exclude :
                          registry[c].aliases \intersect page.mentions \intersect LongNames # {}}
  <2>1. byCuit \subseteq DOMAIN registry /\ byName \subseteq DOMAIN registry
    OBVIOUS
  <2>2. Match(page) = IF IsLoneUnknown(page.cuits, exclude) THEN {}
                      ELSE IF Single(byCuit) THEN byCuit
                      ELSE IF page.cuits \ exclude = {} /\ Single(byName) THEN byName ELSE {}
    BY DEF Match
  <2> HIDE DEF byCuit, byName, exclude
  <2> QED
    BY <2>1, <2>2
<1>3. Match(page) \in AtMostOne(Cuits) /\ Match(page) \subseteq DOMAIN registry
  BY <1>1, <1>2, SingleIsAtMostOne, EmptyIsAtMostOne
<1>4. CASE page.qr
  <2>1. {page.voucher.issuer} \intersect DOMAIN registry \in AtMostOne(Cuits)
    BY <1>1 DEF AtMostOne
  <2> QED
    BY <1>4, <2>1 DEF Supplier
<1>5. CASE ~page.qr
  BY <1>3, <1>5 DEF Supplier
<1> QED
  BY <1>4, <1>5

LEMMA SupplierNameType ==
  ASSUME FilingTypeOK, NEW page \in Pages
  PROVE  SupplierName(page) \in Names \union {Unknown}
<1>1. CASE Supplier(page) = {}
  BY <1>1, PageFacts DEF SupplierName
<1>2. CASE Supplier(page) # {}
  <2>1. (CHOOSE c \in Supplier(page) : TRUE) \in DOMAIN registry
    BY <1>2, SupplierType
  <2>2. registry[CHOOSE c \in Supplier(page) : TRUE].legal \in Names
    BY <2>1, RegistryFacts DEF FilingTypeOK
  <2> QED
    BY <1>2, <2>2 DEF SupplierName
<1> QED
  BY <1>1, <1>2

-----------------------------------------------------------------------------
(* Types.                                                                  *)

RowType ==
    [page : Pages, supplier : Names \union {Unknown}, issuer : AtMostOne(Cuits),
     number : Numbers, label : Labels,
     outcome : Filed \union {"duplicate", "needs review"},
     buyer : AtMostOne(Cuits), own : SocietySets,
     reverted : BOOLEAN, standing : BOOLEAN]

LEMMA RowTyped ==
  ASSUME FilingTypeOK, NEW page \in Pages
  PROVE  Row(page, Outcome(page)) \in RowType
<1>1. NumberOf(page) \in Numbers
  BY PageFacts DEF NumberOf, Numbers
<1>2. TypeLabel(page) \in Labels
  BY PageFacts, LabelsAssumption DEF TypeLabel
<1>3. Outcome(page) \in Filed \union {"duplicate", "needs review"}
  BY DEF Outcome, Filed
<1>4. Issuer(page) \in AtMostOne(Cuits)
  BY SupplierType, ParsedIssuerType DEF Issuer
<1>5. societies \in SocietySets
  BY DEF FilingTypeOK
<1> QED
  BY <1>1, <1>2, <1>3, <1>4, <1>5, SupplierNameType, KnownBuyerType DEF Row, RowType

LEMMA AppendType ==
  ASSUME NEW S, NEW seq \in Seq(S), NEW e \in S
  PROVE  Append(seq, e) \in Seq(S)
OBVIOUS

LEMMA UpdateType ==
  ASSUME NEW S, NEW seq \in Seq(S), NEW i \in DOMAIN seq, NEW e \in S
  PROVE  [seq EXCEPT ![i] = e] \in Seq(S)
OBVIOUS

LEMMA TypeInit == FilingInit => FilingTypeOK
BY DEF FilingInit, FilingTypeOK

\* A row is marked, by hand or by an undo.
LEMMA MarkedRow ==
  ASSUME NEW r \in RowType
  PROVE  /\ [r EXCEPT !.standing = FALSE] \in RowType
         /\ [r EXCEPT !.reverted = TRUE, !.standing = FALSE] \in RowType
BY DEF RowType

LEMMA TypeStep == FilingTypeOK /\ [FilingNext]_filingVars => FilingTypeOK'
<1> SUFFICES ASSUME FilingTypeOK, [FilingNext]_filingVars PROVE FilingTypeOK'
  OBVIOUS
<1>1. /\ societies \in SocietySets /\ registry \in Registries /\ rows \in Seq(RowType)
  BY DEF FilingTypeOK, RowType
<1>2. SUFFICES societies' \in SocietySets /\ registry' \in Registries /\ rows' \in Seq(RowType)
  BY DEF FilingTypeOK, RowType
<1>3. CASE UNCHANGED filingVars
  BY <1>1, <1>3 DEF filingVars
<1>4. ASSUME NEW page \in Pages, Process(page) PROVE <1>2!1
  <2>1. Row(page, Outcome(page)) \in RowType
    BY RowTyped
  <2>2. rows' \in Seq(RowType)
    BY <1>1, <1>4, <2>1, AppendType DEF Process
  <2> QED
    BY <1>1, <1>4, <2>2 DEF Process
<1>5. ASSUME NEW set \in SocietySets, Configure(set) PROVE <1>2!1
  BY <1>1, <1>5 DEF Configure
<1>6. ASSUME NEW suppliers \in Registries, Import(suppliers) PROVE <1>2!1
  BY <1>1, <1>6 DEF Import
<1>7. ASSUME NEW i \in DOMAIN rows, Delete(i) PROVE <1>2!1
  <2> DEFINE marked == [rows[i] EXCEPT !.standing = FALSE]
  <2>1. marked \in RowType
    <3>1. rows[i] \in RowType
      BY <1>1
    <3> QED
      BY <3>1, MarkedRow
  <2>2. rows' = [rows EXCEPT ![i] = marked]
    BY <1>7 DEF Delete
  <2> HIDE DEF marked
  <2>3. rows' \in Seq(RowType)
    BY <1>1, <2>1, <2>2, UpdateType
  <2> QED
    BY <1>1, <1>7, <2>3 DEF Delete
<1>8. ASSUME NEW i \in DOMAIN rows, Undo(i) PROVE <1>2!1
  <2> DEFINE marked == [rows[i] EXCEPT !.reverted = TRUE, !.standing = FALSE]
  <2>1. marked \in RowType
    <3>1. rows[i] \in RowType
      BY <1>1
    <3> QED
      BY <3>1, MarkedRow
  <2>2. rows' = [rows EXCEPT ![i] = marked]
    BY <1>8 DEF Undo
  <2> HIDE DEF marked
  <2>3. rows' \in Seq(RowType)
    BY <1>1, <2>1, <2>2, UpdateType
  <2> QED
    BY <1>1, <1>8, <2>3 DEF Undo
<1> QED
  BY <1>3, <1>4, <1>5, <1>6, <1>7, <1>8, PagesAssumption DEF FilingNext

(* Every row is one the pipeline can have written.                         *)
THEOREM TypeCorrect == FilingSpec => []FilingTypeOK
BY TypeInit, TypeStep, PTL DEF FilingSpec

-----------------------------------------------------------------------------
(* What is moved.                                                          *)

Exact(row) == row.outcome = "moved" =>
    /\ Parties(row.page) \intersect row.own = row.buyer /\ Single(row.buyer)
    /\ row.supplier # Unknown /\ row.number # Filler
    /\ \A s \in row.own : row.supplier \notin LooksLike[s]

LEMMA ExactRows == MovedIsExact <=> \A i \in DOMAIN rows : Exact(rows[i])
BY DEF MovedIsExact, Exact

\* An exact buyer is the only company among the parties of the page.
LEMMA BuyerIsParty ==
  ASSUME NEW page \in Pages, ~IsFuzzy(page), Buyer(page) # {}
  PROVE  Parties(page) \intersect societies = Buyer(page)
<1>1. Buyer(page) = MergedBuyer(page) /\ MergedBuyer(page) # {}
  BY DEF Buyer
<1> QED
  BY <1>1 DEF MergedBuyer, TextBuyer, Parties

LEMMA WrittenExact ==
  ASSUME NEW page \in Pages
  PROVE  Exact(Row(page, Outcome(page)))
<1> DEFINE row == Row(page, Outcome(page))
<1>1. SUFFICES ASSUME Outcome(page) = "moved"
               PROVE  /\ Parties(page) \intersect societies = KnownBuyer(page)
                      /\ Single(KnownBuyer(page))
                      /\ IsReliable(page)
  BY DEF Exact, Row, IsReliable
<1>2. /\ Single(Buyer(page)) /\ Buyer(page) # {} /\ ~IsFuzzy(page)
      /\ IsReliable(page)
  BY <1>1 DEF Outcome
<1> QED
  BY <1>2, BuyerIsParty DEF KnownBuyer

LEMMA MarkedExact ==
  ASSUME NEW r \in RowType, Exact(r)
  PROVE  /\ Exact([r EXCEPT !.standing = FALSE])
         /\ Exact([r EXCEPT !.reverted = TRUE, !.standing = FALSE])
BY DEF RowType, Exact

\* One row is replaced by another exact one.
LEMMA UpdatedRows ==
  ASSUME rows \in Seq(RowType), \A k \in DOMAIN rows : Exact(rows[k]),
         NEW i \in DOMAIN rows, NEW e, Exact(e), rows' = [rows EXCEPT ![i] = e]
  PROVE  \A k \in DOMAIN rows' : Exact(rows'[k])
<1> SUFFICES ASSUME NEW k \in DOMAIN rows' PROVE Exact(rows'[k])
  OBVIOUS
<1>1. k \in DOMAIN rows
  OBVIOUS
<1>2. CASE k = i
  <2>1. rows'[k] = e
    BY <1>2
  <2> QED
    BY <2>1
<1>3. CASE k # i
  <2>1. rows'[k] = rows[k]
    BY <1>1, <1>3
  <2> QED
    BY <1>1, <2>1
<1> QED
  BY <1>2, <1>3

LEMMA ExactStep == FilingTypeOK /\ MovedIsExact /\ [FilingNext]_filingVars => MovedIsExact'
<1> SUFFICES ASSUME FilingTypeOK, MovedIsExact, [FilingNext]_filingVars
             PROVE  MovedIsExact'
  OBVIOUS
<1>1. rows \in Seq(RowType) /\ (\A i \in DOMAIN rows : Exact(rows[i]))
  BY ExactRows DEF FilingTypeOK, RowType
<1>2. SUFFICES \A k \in DOMAIN rows' : Exact(rows'[k])
  BY DEF MovedIsExact, Exact
<1>3. CASE UNCHANGED rows
  BY <1>1, <1>3
<1>4. ASSUME NEW page \in Pages, Process(page) PROVE <1>2!1
  <2>1. rows' = Append(rows, Row(page, Outcome(page)))
    BY <1>4 DEF Process
  <2>2. \A k \in DOMAIN rows' : \/ k \in DOMAIN rows /\ rows'[k] = rows[k]
                                \/ rows'[k] = Row(page, Outcome(page))
    BY <1>1, <2>1
  <2> QED
    BY <1>1, <2>2, WrittenExact
<1>5. ASSUME NEW i \in DOMAIN rows, Delete(i) PROVE <1>2!1
  <2> DEFINE marked == [rows[i] EXCEPT !.standing = FALSE]
  <2>1. rows' = [rows EXCEPT ![i] = marked]
    BY <1>5 DEF Delete
  <2>2. Exact(marked)
    <3>1. rows[i] \in RowType /\ Exact(rows[i])
      BY <1>1
    <3> QED
      BY <3>1, MarkedExact
  <2> HIDE DEF marked
  <2> QED
    BY <1>1, <2>1, <2>2, UpdatedRows
<1>6. ASSUME NEW i \in DOMAIN rows, Undo(i) PROVE <1>2!1
  <2> DEFINE marked == [rows[i] EXCEPT !.reverted = TRUE, !.standing = FALSE]
  <2>1. rows' = [rows EXCEPT ![i] = marked]
    BY <1>6 DEF Undo
  <2>2. Exact(marked)
    <3>1. rows[i] \in RowType /\ Exact(rows[i])
      BY <1>1
    <3> QED
      BY <3>1, MarkedExact
  <2> HIDE DEF marked
  <2> QED
    BY <1>1, <2>1, <2>2, UpdatedRows
<1>7. UNCHANGED rows \/ (\E page \in Pages : Process(page))
        \/ (\E i \in DOMAIN rows : Delete(i) \/ Undo(i))
  BY PagesAssumption DEF FilingNext, Configure, Import, filingVars
<1> QED
  BY <1>3, <1>4, <1>5, <1>6, <1>7

(* Whatever companies and suppliers are configured, and whatever a page reads  *)
(* like, MOVED means an exact buyer and a supplier that is not one of us.  *)
THEOREM MovedCorrect == FilingSpec => []MovedIsExact
<1>1. FilingInit => MovedIsExact
  BY DEF FilingInit, MovedIsExact
<1> QED
  BY <1>1, TypeInit, TypeStep, ExactStep, PTL DEF FilingSpec

-----------------------------------------------------------------------------
(* What a step does to the ledger.                                         *)

\* Row q is row r, perhaps marked as reverted or as gone.
Marked(r, q) ==
    /\ q.page = r.page /\ q.supplier = r.supplier /\ q.issuer = r.issuer
    /\ q.number = r.number /\ q.label = r.label /\ q.outcome = r.outcome /\ q.buyer = r.buyer
    /\ q.standing => r.standing
    /\ r.reverted => q.reverted

LEMMA MarksKeep ==
  ASSUME NEW r \in RowType
  PROVE  /\ Marked(r, r)
         /\ Marked(r, [r EXCEPT !.standing = FALSE])
         /\ Marked(r, [r EXCEPT !.reverted = TRUE, !.standing = FALSE])
BY DEF RowType, Marked

\* One row is replaced by a marked one.
LEMMA ReplacedRow ==
  ASSUME rows \in Seq(RowType), NEW i \in DOMAIN rows, NEW e, Marked(rows[i], e),
         rows' = [rows EXCEPT ![i] = e]
  PROVE  DOMAIN rows' = DOMAIN rows /\ \A k \in DOMAIN rows : Marked(rows[k], rows'[k])
<1>1. DOMAIN rows' = DOMAIN rows
  OBVIOUS
<1>2. ASSUME NEW k \in DOMAIN rows PROVE Marked(rows[k], rows'[k])
  <2>1. CASE k = i
    <3>1. rows'[k] = e
      BY <2>1
    <3> QED
      BY <2>1, <3>1
  <2>2. CASE k # i
    <3>1. rows'[k] = rows[k]
      BY <1>2, <2>2
    <3>2. rows[k] \in RowType
      BY <1>2
    <3> QED
      BY <3>1, <3>2, MarksKeep
  <2> QED
    BY <2>1, <2>2
<1> QED
  BY <1>1, <1>2

LEMMA StepOfRows ==
  ASSUME FilingTypeOK, [FilingNext]_filingVars
  PROVE  \/ rows' = rows
         \/ \E page \in Pages : rows' = Append(rows, Row(page, Outcome(page)))
         \/ DOMAIN rows' = DOMAIN rows /\ \A k \in DOMAIN rows : Marked(rows[k], rows'[k])
<1>1. rows \in Seq(RowType)
  BY DEF FilingTypeOK, RowType
<1>2. ASSUME NEW i \in DOMAIN rows, Delete(i)
      PROVE  DOMAIN rows' = DOMAIN rows /\ \A k \in DOMAIN rows : Marked(rows[k], rows'[k])
  <2> DEFINE marked == [rows[i] EXCEPT !.standing = FALSE]
  <2>1. rows' = [rows EXCEPT ![i] = marked]
    BY <1>2 DEF Delete
  <2>2. Marked(rows[i], marked)
    <3>1. rows[i] \in RowType
      BY <1>1
    <3> QED
      BY <3>1, MarksKeep
  <2> HIDE DEF marked
  <2> QED
    BY <1>1, <2>1, <2>2, ReplacedRow
<1>3. ASSUME NEW i \in DOMAIN rows, Undo(i)
      PROVE  DOMAIN rows' = DOMAIN rows /\ \A k \in DOMAIN rows : Marked(rows[k], rows'[k])
  <2> DEFINE marked == [rows[i] EXCEPT !.reverted = TRUE, !.standing = FALSE]
  <2>1. rows' = [rows EXCEPT ![i] = marked]
    BY <1>3 DEF Undo
  <2>2. Marked(rows[i], marked)
    <3>1. rows[i] \in RowType
      BY <1>1
    <3> QED
      BY <3>1, MarksKeep
  <2> HIDE DEF marked
  <2> QED
    BY <1>1, <2>1, <2>2, ReplacedRow
<1>4. UNCHANGED rows \/ (\E page \in Pages : Process(page))
        \/ (\E i \in DOMAIN rows : Delete(i) \/ Undo(i))
  BY PagesAssumption DEF FilingNext, Configure, Import, filingVars
<1>5. ASSUME NEW page \in Pages, Process(page)
      PROVE  rows' = Append(rows, Row(page, Outcome(page)))
  BY <1>5 DEF Process
<1> QED
  BY <1>2, <1>3, <1>4, <1>5

LEMMA AppendedRows ==
  ASSUME NEW S, rows \in Seq(S), NEW e, rows' = Append(rows, e)
  PROVE  /\ DOMAIN rows' = DOMAIN rows \union {Len(rows) + 1}
         /\ \A k \in DOMAIN rows : rows'[k] = rows[k] /\ k < Len(rows) + 1
         /\ rows'[Len(rows) + 1] = e
         /\ Len(rows) + 1 \notin DOMAIN rows
         /\ DOMAIN rows \subseteq Nat /\ Len(rows) \in Nat
OBVIOUS

-----------------------------------------------------------------------------
(* Pages that are true of their vouchers.                                  *)

\* No two companies or suppliers have a name in common.
DistinctNames == \A c, d \in Cuits : c # d => LooksLike[c] \intersect LooksLike[d] = {}

\* The user imports suppliers under names of theirs, and no buyer of a voucher among them.
TrueRegistries ==
    \A g \in Registries : \A c \in DOMAIN g :
        /\ g[c].legal \in LooksLike[c] /\ g[c].aliases \subseteq LooksLike[c]
        /\ \A v \in Vouchers : v.buyer # c

\* What is read of a page is true of its voucher, as far as it is read at all.  Where the
\* issuer's CUIT is not read the name in the header may be that of the buyer; where it is
\* read, and is not one of ours, the text may mention other suppliers.
Honest(page) ==
    LET issuer == page.voucher.issuer
        buyer == page.voucher.buyer
    IN /\ (page.qr /\ page.receiver) \/ page.cuits \subseteq {issuer, buyer}
       /\ \/ page.printed \in LooksLike[issuer] \union {Unknown}
          \/ (page.qr \/ issuer \notin page.cuits) /\ page.printed \in LooksLike[buyer]
       /\ ~page.qr =>
            /\ \/ page.mentions \subseteq LooksLike[issuer]
               \/ issuer \in page.cuits /\ issuer \notin UNION SocietySets
            /\ page.number \in {Filler} \union ({page.voucher.number} \X {"short", "long"})
            /\ page.order \/ page.label = LabelOf[page.voucher.code]

\* The company a text gives is one of the two parties; a QR never gives the issuer.
LEMMA ExactBuyer ==
  ASSUME NEW page \in Pages, Honest(page), NEW b, Buyer(page) = {b}, ~IsFuzzy(page)
  PROVE  /\ b \in societies
         /\ page.qr => b = page.voucher.buyer
         /\ ~page.qr => /\ page.cuits \intersect societies = {b} /\ b \in page.cuits
                        /\ b \in {page.voucher.issuer, page.voucher.buyer}
                        /\ page.cuits \subseteq {page.voucher.issuer, page.voucher.buyer}
<1>1. MergedBuyer(page) = {b}
  BY DEF Buyer
<1>2. b \in societies
  BY <1>1 DEF MergedBuyer, TextBuyer
<1>3. CASE page.qr /\ page.receiver
  BY <1>1, <1>2, <1>3 DEF MergedBuyer
<1>4. CASE page.qr /\ ~page.receiver
  <2>1. TextBuyer(page) = {b} /\ TextBuyer(page) # {page.voucher.issuer}
    BY <1>1, <1>4 DEF MergedBuyer
  <2>2. page.cuits \subseteq {page.voucher.issuer, page.voucher.buyer}
    BY <1>4 DEF Honest
  <2> QED
    BY <1>2, <1>4, <2>1, <2>2 DEF TextBuyer
<1>5. CASE ~page.qr
  <2>1. TextBuyer(page) = {b}
    BY <1>1, <1>5 DEF MergedBuyer
  <2>2. page.cuits \subseteq {page.voucher.issuer, page.voucher.buyer}
    BY <1>5 DEF Honest
  <2> QED
    BY <1>2, <1>5, <2>1, <2>2 DEF TextBuyer
<1>6. page.qr \in BOOLEAN /\ page.receiver \in BOOLEAN
  BY PageFacts
<1> QED
  BY <1>3, <1>4, <1>5, <1>6

\* What the registry finds for a text without a QR is its issuer.
LEMMA MatchIsIssuer ==
  ASSUME FilingTypeOK, DistinctNames, TrueRegistries,
         NEW page \in Pages, Honest(page), ~page.qr,
         NEW b, Buyer(page) = {b}, ~IsFuzzy(page), NEW c \in Match(page)
  PROVE  c = page.voucher.issuer /\ c \in DOMAIN registry /\ b # c
<1> DEFINE issuer == page.voucher.issuer
           buyer == page.voucher.buyer
           byCuit == (page.cuits \ {b}) \intersect DOMAIN registry
           byName == {d \in DOMAIN registry \ {b} :
                        registry[d].aliases \intersect page.mentions \intersect LongNames # {}}
<1>1. KnownBuyer(page) = {b}
  BY DEF KnownBuyer, Single
<1>2. Match(page) = IF IsLoneUnknown(page.cuits, {b}) THEN {}
                    ELSE IF Single(byCuit) THEN byCuit
                    ELSE IF page.cuits \ {b} = {} /\ Single(byName) THEN byName ELSE {}
  BY <1>1 DEF Match
<1>3. /\ b \in societies /\ b \in page.cuits /\ b \in {issuer, buyer}
      /\ page.cuits \subseteq {issuer, buyer}
  BY ExactBuyer
<1>4. buyer \notin DOMAIN registry
  BY PageFacts DEF TrueRegistries, FilingTypeOK
<1>5. CASE c \in byCuit
  BY <1>3, <1>4, <1>5
<1>6. CASE c \in byName /\ page.cuits \ {b} = {}
  <2>1. PICK name \in registry[c].aliases : name \in page.mentions
    BY <1>6
  <2>2. c \in DOMAIN registry /\ c # b
    BY <1>6
  <2>3. name \in LooksLike[c] /\ c \in Cuits
    BY <2>1, <2>2, RegistryFacts DEF TrueRegistries, FilingTypeOK
  <2>4. page.mentions \subseteq LooksLike[issuer]
    <3>1. b \in UNION SocietySets
      BY <1>3 DEF FilingTypeOK
    <3>2. issuer \in page.cuits => issuer = b
      BY <1>6
    <3> QED
      BY <3>1, <3>2 DEF Honest
  <2>5. issuer \in Cuits
    BY PageFacts
  <2> QED
    BY <2>1, <2>2, <2>3, <2>4, <2>5 DEF DistinctNames
<1> HIDE DEF byCuit, byName
<1> QED
  BY <1>2, <1>5, <1>6

LEMMA LegalIsName ==
  ASSUME FilingTypeOK, TrueRegistries, NEW page \in Pages, NEW c, Supplier(page) = {c}
  PROVE  SupplierName(page) \in LooksLike[c]
<1>1. c \in DOMAIN registry
  BY SupplierType
<1>2. registry[c].legal \in LooksLike[c]
  BY <1>1 DEF TrueRegistries, FilingTypeOK
<1>3. SupplierName(page) = registry[c].legal
  BY DEF SupplierName
<1> QED
  BY <1>2, <1>3

\* A company of ours that issued the voucher is not taken for its buyer: no name that is
\* left for the supplier is reliable.
LEMMA MovedName ==
  ASSUME FilingTypeOK, DistinctNames, TrueRegistries,
         NEW page \in Pages, Honest(page),
         NEW b, Buyer(page) = {b}, ~IsFuzzy(page), IsReliable(page)
  PROVE  b = page.voucher.buyer /\ SupplierName(page) \in LooksLike[page.voucher.issuer]
<1> DEFINE issuer == page.voucher.issuer
           buyer == page.voucher.buyer
<1>1. b \in societies
  BY ExactBuyer
<1>2. SupplierName(page) # Unknown /\ SupplierName(page) \notin LooksLike[b]
  BY <1>1 DEF IsReliable
<1>3. page.qr \in BOOLEAN
  BY PageFacts
<1>4. CASE Supplier(page) = {}
  <2>1. SupplierName(page) = page.printed
    BY <1>4 DEF SupplierName
  <2>2. \/ page.printed \in LooksLike[issuer]
        \/ (page.qr \/ issuer \notin page.cuits) /\ page.printed \in LooksLike[buyer]
    BY <1>2, <2>1 DEF Honest
  <2>3. b = buyer \/ (~page.qr /\ b = issuer /\ issuer \in page.cuits)
    BY <1>3, ExactBuyer
  <2> QED
    BY <1>2, <2>1, <2>2, <2>3
<1>5. CASE Supplier(page) # {} /\ page.qr
  <2>1. Supplier(page) = {issuer}
    BY <1>5 DEF Supplier
  <2>2. b = buyer
    BY <1>5, ExactBuyer
  <2>3. SupplierName(page) \in LooksLike[issuer]
    BY <2>1, LegalIsName
  <2> QED
    BY <2>2, <2>3
<1>6. CASE Supplier(page) # {} /\ ~page.qr
  <2>1. Supplier(page) = Match(page)
    BY <1>6 DEF Supplier
  <2>2. Supplier(page) = {issuer} /\ b # issuer
    <3>1. \A c \in Match(page) : c = issuer /\ b # c
      BY <1>6, MatchIsIssuer
    <3> QED
      BY <1>6, <2>1, <3>1
  <2>3. b = buyer
    BY <1>6, <2>2, ExactBuyer
  <2>4. SupplierName(page) \in LooksLike[issuer]
    BY <2>2, LegalIsName
  <2> QED
    BY <2>3, <2>4
<1> QED
  BY <1>3, <1>4, <1>5, <1>6

\* The number and the type that are kept are those of the voucher.
LEMMA OwnNumber ==
  ASSUME NEW page \in Pages, Honest(page), NumberOf(page) # Filler
  PROVE  /\ NumberOf(page)[1] = page.voucher.number
         /\ TypeLabel(page) \in {LabelOf[page.voucher.code], OrderLabel}
<1>1. page.qr \in BOOLEAN /\ page.order \in BOOLEAN
  BY PagesAssumption DEF PageType
<1>2. CASE page.qr
  <2>1. NumberOf(page)[1] = page.voucher.number
    <3>1. CASE page.number[1] # page.voucher.number
      BY <1>2, <3>1 DEF NumberOf
    <3>2. CASE page.number[1] = page.voucher.number
      BY <1>2, <3>2 DEF NumberOf
    <3> QED
      BY <3>1, <3>2
  <2> QED
    BY <1>2, <2>1 DEF TypeLabel, IsOrder
<1>3. CASE ~page.qr
  <2>1. NumberOf(page) = page.number
    BY <1>3 DEF NumberOf
  <2>2. page.number[1] = page.voucher.number
    BY <1>3, <2>1 DEF Honest
  <2>3. TypeLabel(page) \in {LabelOf[page.voucher.code], OrderLabel}
    BY <1>1, <1>3 DEF TypeLabel, IsOrder, Honest
  <2> QED
    BY <2>1, <2>2, <2>3
<1> QED
  BY <1>1, <1>2, <1>3

Right(row) == row.outcome = "moved" =>
    /\ row.buyer = {row.page.voucher.buyer}
    /\ row.supplier \in LooksLike[row.page.voucher.issuer]
    /\ row.number[1] = row.page.voucher.number
    /\ row.label \in {LabelOf[row.page.voucher.code], OrderLabel}

LEMMA WrittenRight ==
  ASSUME FilingTypeOK, DistinctNames, TrueRegistries, NEW page \in Pages, Honest(page)
  PROVE  Right(Row(page, Outcome(page)))
<1>1. SUFFICES ASSUME Outcome(page) = "moved"
               PROVE  /\ KnownBuyer(page) = {page.voucher.buyer}
                      /\ SupplierName(page) \in LooksLike[page.voucher.issuer]
                      /\ NumberOf(page)[1] = page.voucher.number
                      /\ TypeLabel(page) \in {LabelOf[page.voucher.code], OrderLabel}
  BY DEF Right, Row
<1>2. /\ Single(Buyer(page)) /\ Buyer(page) # {} /\ ~IsFuzzy(page)
      /\ IsReliable(page)
  BY <1>1 DEF Outcome
<1>3. PICK b : Buyer(page) = {b}
  BY <1>2 DEF Single
<1>4. KnownBuyer(page) = {b}
  BY <1>2, <1>3 DEF KnownBuyer
<1>5. NumberOf(page) # Filler
  BY <1>2 DEF IsReliable
<1>6. b = page.voucher.buyer /\ SupplierName(page) \in LooksLike[page.voucher.issuer]
  BY <1>2, <1>3, MovedName
<1> QED
  BY <1>4, <1>5, <1>6, OwnNumber

LEMMA RightStep ==
  ASSUME DistinctNames, TrueRegistries, \A page \in Pages : Honest(page),
         FilingTypeOK, MovedIsRight, [FilingNext]_filingVars
  PROVE  MovedIsRight'
<1>1. \A i \in DOMAIN rows : Right(rows[i])
  BY DEF MovedIsRight, Right
<1>2. SUFFICES \A k \in DOMAIN rows' : Right(rows'[k])
  BY DEF MovedIsRight, Right
<1>3. CASE rows' = rows
  BY <1>1, <1>3
<1>4. ASSUME NEW page \in Pages, rows' = Append(rows, Row(page, Outcome(page)))
      PROVE  <1>2!1
  <2>1. rows \in Seq(RowType)
    BY DEF FilingTypeOK, RowType
  <2>2. Right(Row(page, Outcome(page)))
    BY WrittenRight
  <2>3. \A k \in DOMAIN rows' : \/ k \in DOMAIN rows /\ rows'[k] = rows[k]
                                \/ rows'[k] = Row(page, Outcome(page))
    BY <1>4, <2>1, AppendedRows
  <2> QED
    BY <1>1, <2>2, <2>3
<1>5. CASE DOMAIN rows' = DOMAIN rows /\ \A k \in DOMAIN rows : Marked(rows[k], rows'[k])
  BY <1>1, <1>5 DEF Marked, Right
<1> QED
  BY <1>3, <1>4, <1>5, StepOfRows

\* Every page is true of its voucher, and the vouchers are purchases from suppliers with
\* names of their own.
HonestPurchases == DistinctNames /\ TrueRegistries /\ \A page \in Pages : Honest(page)

(* No invoice is ever misfiled: what was moved lies under its buyer, under *)
(* a name of its issuer, with its own number and type (decide_filing,      *)
(* resolve_buyer and the match in the registry), for any honest pages,     *)
(* whatever the user configures and imports between them.                  *)
THEOREM MovedIsRightCorrect == HonestPurchases => (FilingSpec => []MovedIsRight)
<1> SUFFICES ASSUME HonestPurchases PROVE FilingSpec => []MovedIsRight
  OBVIOUS
<1>1. FilingInit => MovedIsRight
  BY DEF FilingInit, MovedIsRight
<1>2. FilingTypeOK /\ MovedIsRight /\ [FilingNext]_filingVars => MovedIsRight'
  BY RightStep DEF HonestPurchases
<1> QED
  BY <1>1, <1>2, TypeInit, TypeStep, PTL DEF FilingSpec

-----------------------------------------------------------------------------
(* Pages that read whole.                                                  *)

\* A page that gives both parties, the name of its issuer, its number and its type.
Whole(page) ==
    /\ ~page.order /\ page.cuits = {page.voucher.issuer, page.voucher.buyer}
    /\ page.printed \in LooksLike[page.voucher.issuer]
    /\ page.number[1] = page.voucher.number /\ page.label = LabelOf[page.voucher.code]

\* Issuer, number, kind and letter make a voucher: the keys do not tell the codes of one
\* kind and letter apart.
TellsApart ==
    \A v, w \in Vouchers :
        v.issuer = w.issuer /\ v.number = w.number /\ LabelOf[v.code] = LabelOf[w.code] => v = w

\* The buyer stays configured and the issuer is never one of ours.
OursBuy ==
    \A set \in SocietySets : \A v \in Vouchers : v.buyer \in set /\ v.issuer \notin set

\* Every download of a voucher gives its number alike.
ReadsAlike == \A p, q \in Pages : p.voucher = q.voucher => p.number = q.number

WholePurchases ==
    /\ DistinctNames /\ TrueRegistries /\ TellsApart /\ OursBuy /\ ReadsAlike
    /\ \A page \in Pages : Whole(page)

\* What a row keeps of a whole page: by one key or the other it is known by its issuer.
Faithful(row) ==
    /\ row.page \in Pages /\ row.number = row.page.number
    /\ row.label = LabelOf[row.page.voucher.code]
    /\ row.issuer = {row.page.voucher.issuer}
    /\ row.supplier \in LooksLike[row.page.voucher.issuer]

LEMMA WholeParties ==
  ASSUME FilingTypeOK, WholePurchases, NEW page \in Pages
  PROVE  /\ page.voucher.issuer # page.voucher.buyer
         /\ TextBuyer(page) = {page.voucher.buyer}
         /\ KnownBuyer(page) = {page.voucher.buyer}
         /\ page.cuits \ {page.voucher.buyer} = {page.voucher.issuer}
         /\ ~IsLoneUnknown(page.cuits, {page.voucher.buyer})
<1>1. /\ page.voucher.buyer \in societies /\ page.voucher.issuer \notin societies
  BY PageFacts DEF FilingTypeOK, WholePurchases, OursBuy
<1>2. /\ ~page.order /\ page.cuits = {page.voucher.issuer, page.voucher.buyer}
  BY DEF WholePurchases, Whole
<1>3. TextBuyer(page) = {page.voucher.buyer}
  BY <1>1, <1>2 DEF TextBuyer
<1>4. MergedBuyer(page) = {page.voucher.buyer}
  BY <1>1, <1>3 DEF MergedBuyer
<1>5. KnownBuyer(page) = {page.voucher.buyer}
  BY <1>2, <1>4 DEF KnownBuyer, Buyer, IsFuzzy, IsOrder, Single
<1>6. ~IsLoneUnknown(page.cuits, {page.voucher.buyer})
  BY <1>2 DEF IsLoneUnknown
<1> QED
  BY <1>1, <1>2, <1>3, <1>5, <1>6

LEMMA WholeSupplier ==
  ASSUME FilingTypeOK, WholePurchases, NEW page \in Pages
  PROVE  /\ Supplier(page) \in {{}, {page.voucher.issuer}}
         /\ Issuer(page) = {page.voucher.issuer}
         /\ SupplierName(page) \in LooksLike[page.voucher.issuer]
<1> DEFINE issuer == page.voucher.issuer
           buyer == page.voucher.buyer
           byCuit == {issuer} \intersect DOMAIN registry
           byName == {c \in DOMAIN registry \ {buyer} :
                        registry[c].aliases \intersect page.mentions \intersect LongNames # {}}
<1>1. /\ issuer # buyer /\ TextBuyer(page) = {buyer} /\ KnownBuyer(page) = {buyer}
      /\ page.cuits \ {buyer} = {issuer} /\ ~IsLoneUnknown(page.cuits, {buyer})
  BY WholeParties
<1>2. Match(page) = IF IsLoneUnknown(page.cuits, {buyer}) THEN {}
                    ELSE IF Single(byCuit) THEN byCuit
                    ELSE IF {issuer} = {} /\ Single(byName) THEN byName ELSE {}
  BY <1>1 DEF Match
<1>3. Match(page) \in {{}, {issuer}}
  <2> HIDE DEF byName
  <2> QED
    BY <1>1, <1>2
<1>4. Supplier(page) \in {{}, {issuer}}
  BY <1>3 DEF Supplier
<1>5. Single({buyer}) /\ Single({issuer})
  BY DEF Single
<1>6. TextIssuer(page) = {issuer}
  BY <1>1, <1>5 DEF TextIssuer
<1>7. ParsedIssuer(page) = {issuer}
  BY <1>6 DEF ParsedIssuer
<1>8. Issuer(page) = {issuer}
  BY <1>4, <1>7 DEF Issuer
<1>9. SupplierName(page) \in LooksLike[issuer]
  <2>1. CASE Supplier(page) = {}
    BY <2>1 DEF SupplierName, WholePurchases, Whole
  <2>2. CASE Supplier(page) = {issuer}
    BY <2>2, LegalIsName DEF WholePurchases
  <2> QED
    BY <1>4, <2>1, <2>2
<1> QED
  BY <1>4, <1>8, <1>9

LEMMA WholeReading ==
  ASSUME WholePurchases, NEW page \in Pages
  PROVE  /\ NumberOf(page) = page.number
         /\ TypeLabel(page) = LabelOf[page.voucher.code]
BY DEF WholePurchases, Whole, NumberOf, TypeLabel, IsOrder

LEMMA WrittenFaithful ==
  ASSUME FilingTypeOK, WholePurchases, NEW page \in Pages, NEW outcome
  PROVE  Faithful(Row(page, outcome))
BY WholeSupplier, WholeReading DEF Row, Faithful

\* Either key hits exactly the rows of the same voucher.
LEMMA IdentityIsVoucher ==
  ASSUME FilingTypeOK, WholePurchases, NEW page \in Pages, NEW row, Faithful(row)
  PROVE  SameIdentity(row, page) <=> row.page.voucher = page.voucher
<1> DEFINE issuer == page.voucher.issuer
           other == row.page.voucher.issuer
<1>1. /\ NumberOf(page) = page.number /\ TypeLabel(page) = LabelOf[page.voucher.code]
      /\ Issuer(page) = {issuer} /\ SupplierName(page) \in LooksLike[issuer]
  BY WholeSupplier, WholeReading
<1>2. /\ row.page \in Pages /\ row.number = row.page.number
      /\ row.label = LabelOf[row.page.voucher.code]
      /\ row.issuer = {other} /\ row.supplier \in LooksLike[other]
  BY DEF Faithful
<1>3. issuer \in Cuits /\ other \in Cuits
  BY <1>2, PageFacts
<1>4. page.voucher \in Vouchers /\ row.page.voucher \in Vouchers
  BY <1>2, PageFacts
<1>5. ASSUME SameIdentity(row, page) PROVE row.page.voucher = page.voucher
  <2>1. /\ row.page.number = page.number
        /\ LabelOf[row.page.voucher.code] = LabelOf[page.voucher.code]
        /\ row.supplier = SupplierName(page) \/ {other} = {issuer}
    BY <1>1, <1>2, <1>5 DEF SameIdentity
  <2>2. other = issuer
    <3>1. CASE row.supplier = SupplierName(page)
      BY <1>1, <1>2, <1>3, <3>1 DEF WholePurchases, DistinctNames
    <3>2. CASE {other} = {issuer}
      BY <3>2
    <3> QED
      BY <2>1, <3>1, <3>2
  <2>3. row.page.voucher.number = page.voucher.number
    BY <1>2, <2>1 DEF WholePurchases, Whole
  <2> QED
    BY <1>4, <2>1, <2>2, <2>3 DEF WholePurchases, TellsApart
<1>6. ASSUME row.page.voucher = page.voucher PROVE SameIdentity(row, page)
  <2>1. row.page.number = page.number
    BY <1>2, <1>6 DEF WholePurchases, ReadsAlike
  <2> QED
    BY <1>1, <1>2, <1>6, <2>1 DEF SameIdentity
<1> QED
  BY <1>5, <1>6

-----------------------------------------------------------------------------
(* A voucher is filed once.                                                *)

SameVoucher(r, q) == r.page.voucher = q.page.voucher

\* Of the rows that filed one voucher, none but the newest still stands.
OlderAreGone ==
    \A j, i \in DOMAIN rows :
        /\ j < i /\ rows[j].outcome \in Filed /\ rows[i].outcome \in Filed
        /\ SameVoucher(rows[j], rows[i])
        => ~Stands(j)

FilingInv ==
    /\ \A i \in DOMAIN rows : Faithful(rows[i])
    /\ OlderAreGone

\* A row that stands is the newest hit of a page of its voucher.
LEMMA StandingIsHit ==
  ASSUME FilingTypeOK, WholePurchases, FilingInv, NEW page \in Pages,
         NEW j \in DOMAIN rows, Stands(j), rows[j].page.voucher = page.voucher
  PROVE  IsDuplicate(page)
<1>1. SameIdentity(rows[j], page)
  BY IdentityIsVoucher DEF FilingInv
<1>2. j \in Hits(page)
  BY <1>1 DEF Hits, Stands
<1>3. rows \in Seq(RowType)
  BY DEF FilingTypeOK, RowType
<1>4. DOMAIN rows \subseteq Nat
  BY <1>3
<1>5. ASSUME NEW k \in Hits(page) PROVE k <= j
  <2>1. k \in DOMAIN rows /\ rows[k].outcome \in Filed /\ SameIdentity(rows[k], page)
    BY DEF Hits
  <2>2. rows[k].page.voucher = page.voucher
    BY <2>1, IdentityIsVoucher DEF FilingInv
  <2>3. rows[j].outcome \in Filed
    BY DEF Stands
  <2>4. ~(j < k)
    BY <2>1, <2>2, <2>3 DEF FilingInv, OlderAreGone, SameVoucher
  <2>5. j \in Nat /\ k \in Nat
    BY <1>4, <2>1
  <2> QED
    BY <2>4, <2>5
<1> QED
  BY <1>2, <1>5 DEF IsDuplicate, Stands

LEMMA InvInit == FilingInit => FilingInv
BY DEF FilingInit, FilingInv, OlderAreGone

LEMMA FaithfulStep ==
  ASSUME WholePurchases, FilingTypeOK, FilingInv, [FilingNext]_filingVars
  PROVE  \A k \in DOMAIN rows' : Faithful(rows'[k])
<1>1. \A i \in DOMAIN rows : Faithful(rows[i])
  BY DEF FilingInv
<1>2. CASE rows' = rows
  BY <1>1, <1>2
<1>3. ASSUME NEW page \in Pages, rows' = Append(rows, Row(page, Outcome(page)))
      PROVE  \A k \in DOMAIN rows' : Faithful(rows'[k])
  <2>1. rows \in Seq(RowType)
    BY DEF FilingTypeOK, RowType
  <2>2. Faithful(Row(page, Outcome(page)))
    BY WrittenFaithful
  <2>3. \A k \in DOMAIN rows' : \/ k \in DOMAIN rows /\ rows'[k] = rows[k]
                                \/ rows'[k] = Row(page, Outcome(page))
    BY <1>3, <2>1, AppendedRows
  <2> QED
    BY <1>1, <2>2, <2>3
<1>4. CASE DOMAIN rows' = DOMAIN rows /\ \A k \in DOMAIN rows : Marked(rows[k], rows'[k])
  BY <1>1, <1>4 DEF Marked, Faithful
<1> QED
  BY <1>2, <1>3, <1>4, StepOfRows

LEMMA OlderStep ==
  ASSUME WholePurchases, FilingTypeOK, FilingInv, [FilingNext]_filingVars
  PROVE  OlderAreGone'
<1>1. OlderAreGone
  BY DEF FilingInv
<1>2. CASE rows' = rows
  BY <1>1, <1>2 DEF OlderAreGone, Stands
<1>3. ASSUME NEW page \in Pages, rows' = Append(rows, Row(page, Outcome(page)))
      PROVE  OlderAreGone'
  <2> DEFINE n == Len(rows) + 1
             new == Row(page, Outcome(page))
  <2>1. /\ DOMAIN rows' = DOMAIN rows \union {n}
        /\ \A k \in DOMAIN rows : rows'[k] = rows[k] /\ k < n
        /\ rows'[n] = new
        /\ DOMAIN rows \subseteq Nat /\ n \in Nat
    <3>1. rows \in Seq(RowType)
      BY DEF FilingTypeOK, RowType
    <3> QED
      BY <1>3, <3>1, AppendedRows
  <2>2. new.page = page /\ new.outcome = Outcome(page)
    BY DEF Row
  <2> HIDE DEF n, new
  <2>3. ASSUME NEW j \in DOMAIN rows', NEW i \in DOMAIN rows', j < i,
               rows'[j].outcome \in Filed, rows'[i].outcome \in Filed,
               SameVoucher(rows'[j], rows'[i]), Stands(j)'
        PROVE  FALSE
    <3>1. j \in DOMAIN rows
      <4>1. ~(n < n) /\ \A k \in DOMAIN rows : ~(n < k)
        BY <2>1
      <4> QED
        BY <2>1, <2>3, <4>1
    <3>2. rows'[j] = rows[j] /\ Stands(j)
      BY <2>1, <2>3, <3>1 DEF Stands
    <3>3. CASE i \in DOMAIN rows
      BY <1>1, <2>1, <2>3, <3>1, <3>2, <3>3 DEF OlderAreGone
    <3>4. CASE i = n
      <4>1. Outcome(page) \in Filed
        BY <2>1, <2>2, <2>3, <3>4
      <4>2. ~IsDuplicate(page)
        BY <4>1 DEF Outcome, Filed
      <4>3. rows[j].page.voucher = page.voucher
        BY <2>1, <2>2, <2>3, <3>2, <3>4 DEF SameVoucher
      <4> QED
        BY <3>1, <3>2, <4>2, <4>3, StandingIsHit
    <3> QED
      BY <2>1, <2>3, <3>3, <3>4
  <2> QED
    BY <2>3 DEF OlderAreGone
<1>4. CASE DOMAIN rows' = DOMAIN rows /\ \A k \in DOMAIN rows : Marked(rows[k], rows'[k])
  <2>1. \A k \in DOMAIN rows :
          /\ rows'[k].outcome = rows[k].outcome /\ rows'[k].page = rows[k].page
          /\ Stands(k)' => Stands(k)
    BY <1>4 DEF Marked, Stands
  <2> QED
    BY <1>1, <1>4, <2>1 DEF OlderAreGone, SameVoucher
<1> QED
  BY <1>2, <1>3, <1>4, StepOfRows

LEMMA InvStep ==
  ASSUME WholePurchases, FilingTypeOK, FilingInv, [FilingNext]_filingVars
  PROVE  FilingInv'
BY FaithfulStep, OlderStep DEF FilingInv

LEMMA InvImpliesOnce ==
  ASSUME FilingTypeOK, FilingInv
  PROVE  OncePerVoucher
<1> SUFFICES ASSUME NEW i \in DOMAIN rows, NEW j \in DOMAIN rows, Stands(i), Stands(j),
                    rows[i].page.voucher = rows[j].page.voucher
             PROVE  i = j
  BY DEF OncePerVoucher
<1>1. rows[i].outcome \in Filed /\ rows[j].outcome \in Filed
  BY DEF Stands
<1>2. ~(i < j) /\ ~(j < i)
  BY <1>1 DEF FilingInv, OlderAreGone, SameVoucher
<1>3. i \in Nat /\ j \in Nat
  <2>1. rows \in Seq(RowType)
    BY DEF FilingTypeOK, RowType
  <2> QED
    BY <2>1
<1> QED
  BY <1>2, <1>3

(* A voucher is filed once: while the file of one download stands, a       *)
(* second one is not filed, whatever the user imports, deletes or undoes   *)
(* between them (archived_destination, is_archived_duplicate).             *)
THEOREM OncePerVoucherCorrect == WholePurchases => (FilingSpec => []OncePerVoucher)
<1> SUFFICES ASSUME WholePurchases PROVE FilingSpec => []OncePerVoucher
  OBVIOUS
<1>1. FilingTypeOK /\ FilingInv /\ [FilingNext]_filingVars => FilingInv'
  BY InvStep
<1>2. FilingTypeOK /\ FilingInv => OncePerVoucher
  BY InvImpliesOnce
<1> QED
  BY <1>1, <1>2, TypeInit, TypeStep, InvInit, PTL DEF FilingSpec

LEMMA DuplicateStep ==
  ASSUME WholePurchases, FilingTypeOK, FilingInv, [FilingNext]_filingVars
  PROVE  \A i \in DOMAIN rows' \ DOMAIN rows : rows'[i].outcome = "duplicate" =>
            \E j \in DOMAIN rows : Stands(j) /\ rows[j].page.voucher = rows'[i].page.voucher
<1> SUFFICES ASSUME NEW i \in DOMAIN rows' \ DOMAIN rows, rows'[i].outcome = "duplicate"
             PROVE  \E j \in DOMAIN rows : Stands(j) /\ rows[j].page.voucher = rows'[i].page.voucher
  OBVIOUS
<1>1. PICK page \in Pages : rows' = Append(rows, Row(page, Outcome(page)))
  BY StepOfRows
<1>2. rows'[i] = Row(page, Outcome(page))
  <2>1. rows \in Seq(RowType)
    BY DEF FilingTypeOK, RowType
  <2> QED
    BY <1>1, <2>1, AppendedRows
<1>3. rows'[i].page = page /\ Outcome(page) = "duplicate"
  BY <1>2 DEF Row
<1>4. IsDuplicate(page)
  BY <1>3 DEF Outcome
<1>5. PICK j \in Hits(page) : rows[j].standing
  BY <1>4 DEF IsDuplicate
<1>6. j \in DOMAIN rows /\ Stands(j) /\ SameIdentity(rows[j], page)
  BY <1>5 DEF Hits, Stands
<1>7. rows[j].page.voucher = page.voucher
  BY <1>6, IdentityIsVoucher DEF FilingInv
<1> QED
  BY <1>3, <1>6, <1>7

(* Different vouchers stay distinct: what is called a duplicate has been   *)
(* filed before, and its file stands (identity and issuer_identity).       *)
THEOREM DuplicateIsSameCorrect == WholePurchases => (FilingSpec => DuplicateIsSame)
<1> SUFFICES ASSUME WholePurchases PROVE FilingSpec => DuplicateIsSame
  OBVIOUS
<1>1. FilingTypeOK /\ FilingInv /\ [FilingNext]_filingVars => FilingInv'
  BY InvStep
<1>2. FilingTypeOK /\ FilingInv /\ [FilingNext]_filingVars =>
        [\A i \in DOMAIN rows' \ DOMAIN rows : rows'[i].outcome = "duplicate" =>
            \E j \in DOMAIN rows : Stands(j) /\ rows[j].page.voucher = rows'[i].page.voucher]_filingVars
  BY DuplicateStep
<1> QED
  BY <1>1, <1>2, TypeInit, TypeStep, InvInit, PTL DEF FilingSpec, DuplicateIsSame

=============================================================================

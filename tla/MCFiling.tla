------------------------------ MODULE MCFiling ------------------------------
(* Instances of Filing for TLC: two companies, two suppliers of which one   *)
(* prints a name other than its legal one, and the pages of their vouchers  *)
(* as the two layouts give them.                                            *)
EXTENDS Reading

CONSTANTS own1, own2, sup1, sup2, acme, acmeSA, norte, ours, theirs, n1, n2, fc, fce, nc

MCCuits == {own1, own2, sup1, sup2}
MCNames == {acme, acmeSA, norte, ours, theirs}
MCLooksLike == [c \in MCCuits |->
    CASE c = sup1 -> {acme, acmeSA} [] c = sup2 -> {norte} [] c = own1 -> {ours} [] OTHER -> {theirs}]
MCLabelOf == [c \in {fc, fce, nc} |-> IF c = nc THEN <<"NC", "A">> ELSE <<"FC", "A">>]
MCLabels == {"FC", "NC", "ND"} \X {"A", "B"} \union {<<"OC", "">>}
MCOrderLabel == <<"OC", "">>

Bought(issuer, code) == [issuer |-> issuer, buyer |-> own1, number |-> n1, code |-> code]
Between == [issuer |-> own1, buyer |-> own2, number |-> n1, code |-> fc]
Sold == [issuer |-> own1, buyer |-> sup1, number |-> n1, code |-> fc]

Purchases == {Bought(sup1, fc), Bought(sup2, fc)}
Mixed == Purchases \union {Between}
WithNote == Purchases \union {Bought(sup1, nc)}
WithFce == Purchases \union {Bought(sup1, fce)}
WithSale == Purchases \union {Sold}

\* The printed name comes from the header, before any other.
PrintedBy(c) == IF c = sup1 THEN acme ELSE CHOOSE name \in MCLooksLike[c] : TRUE

\* The pages of sup1 name sup2 as well: its carrier.
MentionedBy(c) == {PrintedBy(c)} \union (IF c = sup1 THEN {norte} ELSE {})

Page(v, cuits, printed, mentions, number) ==
    [voucher |-> v, cuits |-> cuits, printed |-> printed, mentions |-> mentions,
     number |-> CASE number = "none" -> Filler [] OTHER -> <<v.number, number>>,
     label |-> MCLabelOf[v.code], order |-> FALSE, close |-> {}, qr |-> FALSE, receiver |-> FALSE]

\* A page whose header is text names its issuer, and may name others besides; one whose
\* header is an image does not.
TextPages(vouchers) ==
    {Page(v, {v.issuer} \union more, printed, MentionedBy(v.issuer), number) :
        v \in vouchers, more \in {{}, {own1}, {own2}}, printed \in MCNames \union {"unknown"}, number \in {"short", "long", "none"}}
ImagePages(vouchers) ==
    {Page(v, cuits, printed, mentions, number) :
        v \in vouchers, cuits \in {{}, {own1}, {own2}}, printed \in MCNames \union {"unknown"},
        mentions \in {{}, {acme}, {norte}}, number \in {"short", "long", "none"}}
HonestPages(vouchers) ==
    {p \in TextPages(vouchers) : /\ p.printed \in {PrintedBy(p.voucher.issuer), "unknown"}
                                 /\ p.cuits \subseteq {p.voucher.issuer, p.voucher.buyer}}
    \union
    {p \in ImagePages(vouchers) : /\ p.printed \in {PrintedBy(p.voucher.buyer), "unknown"}
                                  /\ p.cuits \subseteq {p.voucher.buyer}
                                  /\ p.mentions \subseteq MCLooksLike[p.voucher.issuer]}
WithQr(pages) == pages \union {[p EXCEPT !.qr = TRUE, !.receiver = r] : p \in pages, r \in BOOLEAN}
Orders(pages) == {[p EXCEPT !.order = TRUE, !.close = c] : p \in pages, c \in {{}, {own1}, {own1, own2}}}

MixedPages ==
    {p \in WithQr(HonestPages(Mixed)) \union Orders(HonestPages(Purchases)) : p.number[2] = "short"}

\* Pages that name their issuer and read alike each time.
FullPages(vouchers) ==
    {p \in TextPages(vouchers) : /\ p.cuits = {p.voucher.issuer, own1} /\ p.number = <<n1, "short">>
                                 /\ p.printed = PrintedBy(p.voucher.issuer)}
OncePages == {p \in WithQr(FullPages(WithNote)) : p.receiver = p.qr}
CodePages == FullPages(WithFce)
\* The header is an image: the only CUIT is the buyer's, and a stamp names the issuer.
StampedPages == {Page(Bought(sup1, fc), {own1}, acme, {acme}, "short")}
CarrierPages == {[p EXCEPT !.cuits = MCCuits \ {own2}] : p \in FullPages(Purchases)}
SoldPages == {Page(Sold, {own1, sup1}, ours, {ours}, "short")}

NoSuppliers == [c \in {} |-> c]
Registered(cuits) == [c \in cuits |->
    IF c = sup1 THEN [legal |-> acmeSA, aliases |-> {acme, acmeSA}]
    ELSE [legal |-> norte, aliases |-> {norte}]]
MCRegistries == {NoSuppliers, Registered({sup1}), Registered({sup2}), Registered({sup1, sup2})}
CarrierOnly == {NoSuppliers, Registered({sup2})}

-----------------------------------------------------------------------------
(* PDFs.  The first sheet has the header, the number and perhaps that of another document; the *)
(* second has the buyer and the CAE.                                        *)
Item(is, what) == [is |-> is, what |-> what, after |-> "nothing", full |-> TRUE]
Quoted(is, label) == [Item(is, <<n2, "short">>) EXCEPT !.after = label]
Unpadded(item) == [item EXCEPT !.full = FALSE]

OwnNumbers(v) ==
    LET own == <<v.number, "long">>
    IN {<<Item(is, own)>> : is \in {"point", "comp", "nro", "bare"}} \union
       {<<Item("point of sale", own), Item("sequence", own)>>, <<Unpadded(Item("comp", own))>>}
         \union (IF v.code = fc THEN {<<Unpadded(Item("title number", own))>>, <<Item("title number", own)>>} ELSE {})
\* An invoice is quoted by a note, and only by a note.
Quotes(v) ==
    {<<>>, <<Item("order", "order"), Quoted("nro", "Compra")>>}
        \union {<<Quoted(is, label)>> : is \in {"nro", "bare"}, label \in {"Remito", "Compra", "Asociad"}}
        \union (IF v.code = nc THEN {<<Quoted("title number", "Factura")>>} ELSE {})
\* What kind it is: by its code, an unknown one before it, or by its title.
Kinds(v) ==
    {<<Item("code", v.code)>>, <<Item("code", "999"), Item("code", v.code)>>,
     <<Item("title", MCLabelOf[v.code])>>,
     <<Item("title", <<MCLabelOf[v.code][1], "none">>)>>}

Header(v, kind, numbers) ==
    kind \o <<Item("razon social", PrintedBy(v.issuer)), Item("cuit", v.issuer)>> \o numbers
Headers(v) ==
    {Header(v, kind, numbers) : kind \in Kinds(v),
        numbers \in UNION {{number \o quote, quote \o number} : number \in OwnNumbers(v), quote \in Quotes(v)}}
Footer(v) == <<Item("cuit", v.buyer), Item("cae", "cae")>>

Sheet(text, modes, qrs) == [text |-> text, modes |-> modes, qrs |-> qrs]
QrOf(v) == [afip |-> TRUE, issuer |-> v.issuer, number |-> v.number, code |-> v.code,
            type |-> "CUIT", receiver |-> v.buyer]
\* The QR of a payment, that of a person without a CUIT, and that of another voucher.
QrSets(v) == {{}, {QrOf(v)}, {[QrOf(v) EXCEPT !.afip = FALSE]}, {[QrOf(v) EXCEPT !.type = "other"]},
              {QrOf(v), [QrOf(v) EXCEPT !.number = n2]}}

Pdf(v, header, first, second, qrs) ==
    [voucher |-> v, sheets |-> <<Sheet(header, first, qrs), Sheet(Footer(v), second, {})>>]
\* Every text, whole; and a text that quotes a number, with sheets that are broken and QRs.
Whole(v) == {Pdf(v, header, Modes, Modes, {}) : header \in Headers(v)}
Torn(v) ==
    {Pdf(v, header, first, second, qrs) :
        header \in {Header(v, <<Item("code", v.code)>>, <<Quoted("nro", "Remito")>> \o number) : number \in OwnNumbers(v)},
        first \in SUBSET Modes, second \in SUBSET Modes, qrs \in QrSets(v)}
\* An order has neither code nor CAE, and the name of its buyer instead of its CUIT.
OrderOf(v, sociedad) ==
    [voucher |-> v, sheets |->
        <<Sheet(<<Item("order", "order"), Item("order number", <<v.number, "short">>),
                  Item("proveedor", PrintedBy(v.issuer)), Item("sociedad", sociedad)>>, Modes, {})>>]
Pdfs ==
    UNION {Whole(v) : v \in {Bought(sup1, fc), Bought(sup1, nc)}} \union Torn(Bought(sup1, fc))
        \union {OrderOf(Bought(sup1, fc), sociedad) : sociedad \in {ours, theirs}}
\* A note of two sheets with parties and number on both, whose first one is broken.
Broken ==
    LET v == Bought(sup1, nc)
        parties == <<Item("razon social", PrintedBy(v.issuer)), Item("cuit", v.issuer), Item("cuit", v.buyer)>>
        number == <<Item("comp", <<v.number, "short">>)>>
    IN {[voucher |-> v, sheets |-> <<Sheet(<<Item("code", v.code)>> \o parties \o number, {}, {}),
                                     Sheet(parties \o number, Modes, {})>>]}
MCResembling == [name \in MCNames \union {"unknown"} |->
    CASE name = ours -> {own1} [] name = theirs -> {own1, own2} [] OTHER -> {}]

AllVouchers == Mixed \union WithNote
AllPages == MixedPages \union OncePages \union ReadPages
\* Only what is filed for one company is followed by another document.
Followed == rows # <<>> => /\ societies = {own1}
                          /\ \A i \in DOMAIN rows : rows[i].page \in OncePages /\ rows[i].own = {own1}
MCSocietySets == {{own1}, {own1, own2}, {own2}}
=============================================================================

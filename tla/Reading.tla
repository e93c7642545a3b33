------------------------------- MODULE Reading -------------------------------
(***************************************************************************)
(* From a PDF to the page Filing decides about: which sheets give their    *)
(* text, which QRs are found, and what the parser takes from the text.     *)
(* A text is the sequence of what the patterns of the parser can match, in *)
(* reading order.  Of each item:                                           *)
(*   is     the pattern, such as "nro" for a number behind "Nro:"          *)
(*   what   what it captures: a CUIT, a name, a code, a number ...         *)
(*   after  what stands right before it, such as "Remito"                  *)
(*   full   whether a number has all of its eight digits                   *)
(* A sheet is read in the layout mode, in the plain mode, in both or, when *)
(* it is broken, in none.                                                  *)
(***************************************************************************)
EXTENDS Filing, SequencesExt, FiniteSetsExt

CONSTANTS
    Documents,   \* the PDFs that may arrive
    Resembling,  \* per name of a buyer: the companies whose names come close
    MaxQrPages   \* _MAX_QR_PAGES

Modes == {"layout", "plain"}
Patterns ==
    {"cuit", "code", "title", "point", "comp", "nro", "title number", "point of sale", "sequence",
     "bare", "cae", "order", "order number", "razon social", "proveedor", "sociedad", "mention"}
References == {"Remito", "Compra", "Asociad", "Factura"}

ASSUME DocumentsAssumption ==
    /\ \A doc \in Documents :
          /\ doc.voucher \in Vouchers
          /\ \A i \in DOMAIN doc.sheets :
                /\ doc.sheets[i].modes \subseteq Modes
                /\ \A k \in DOMAIN doc.sheets[i].text :
                      /\ doc.sheets[i].text[k].is \in Patterns
                      /\ doc.sheets[i].text[k].after \in References \union {"nothing"}
    /\ MaxQrPages \in Nat

-----------------------------------------------------------------------------
(* pdf_reader: a sheet that cannot be read does not discard the others.    *)

\* extract_text: plain extraction if the layout mode yields nothing.
TextIn(doc, mode) ==
    FlattenSeq([i \in DOMAIN doc.sheets |->
                   IF mode \in doc.sheets[i].modes THEN doc.sheets[i].text ELSE <<>>])
Text(doc) == IF TextIn(doc, "layout") # <<>> THEN TextIn(doc, "layout") ELSE TextIn(doc, "plain")

\* read_qr_payloads: the QRs of the first pages.
Payloads(doc) == UNION {doc.sheets[i].qrs : i \in {k \in DOMAIN doc.sheets : k <= MaxQrPages}}

-----------------------------------------------------------------------------
(* afip_qr: a payload is that of a voucher, or of something else.          *)

\* parse_afip_qr, but for the date: issuer and number are needed, the receiver is one only
\* if its document is a CUIT.
ParseQr(payload) ==
    IF payload.afip /\ payload.issuer \in Cuits /\ payload.number \in Numerals
    THEN {[issuer |-> payload.issuer, number |-> payload.number, code |-> payload.code,
           receiver |-> IF payload.type = "CUIT" /\ payload.receiver \in Cuits
                        THEN {payload.receiver} ELSE {}]}
    ELSE {}

\* unique_afip_qr: none, if several differ.
UniqueQr(doc) ==
    LET decoded == UNION {ParseQr(payload) : payload \in Payloads(doc)}
    IN IF Single(decoded) THEN decoded ELSE {}

-----------------------------------------------------------------------------
(* The parser: the patterns and what they match.                           *)

Matches(text, patterns) == SelectSeq(text, LAMBDA item : item.is \in patterns)
Captured(text, patterns) == {item.what : item \in ToSet(Matches(text, patterns))}

\* What is first, or the default.
First(items, default) == IF items = <<>> THEN default ELSE items[1].what

\* The one of a set, or the default when several differ.
OnlyOne(set, default) == IF Single(set) THEN CHOOSE one \in set : TRUE ELSE default

HasCae(text) == Matches(text, {"cae"}) # <<>>
LooksLikeOrder(text) == Matches(text, {"order"}) # <<>> /\ ~HasCae(text)

-----------------------------------------------------------------------------
(* afip_codes: the first code that is known, or words of the title.        *)

KnownCodes(text) == SelectSeq(Matches(text, {"code"}), LAMBDA item : item.what \in DOMAIN LabelOf)

\* _detect_kind asks for notes first, wherever they are named.
Kind(text) ==
    LET kinds == {what[1] : what \in Captured(text, {"title"})}
    IN IF "NC" \in kinds THEN "NC" ELSE IF "ND" \in kinds THEN "ND" ELSE "FC"
Lettered(text) == SelectSeq(Matches(text, {"title"}), LAMBDA item : item.what[2] # "none")
Letter(text) == First(Lettered(text), <<"FC", "A">>)[2]

DetectVoucher(text) ==
    IF KnownCodes(text) # <<>> THEN LabelOf[First(KnownCodes(text), "")] ELSE <<Kind(text), Letter(text)>>

-----------------------------------------------------------------------------
(* numbers: by anchors, title, halves and shape, in this order.            *)

\* _is_reference: the number of another document.  A note also quotes an invoice.
Own(text, labels) == SelectSeq(text, LAMBDA item : item.after \notin labels)
Complete(items) == SelectSeq(items, LAMBDA item : item.full)

Anchored(own) ==
    Matches(own, {"point"}) \o Matches(own, {"comp"}) \o Complete(Matches(own, {"nro"}))

\* A point of sale and a sequence may stand in different places.
HasHalves(text) == Matches(text, {"point", "point of sale"}) # <<>> /\ Matches(text, {"sequence"}) # <<>>
Halves(text) ==
    <<First(Matches(text, {"sequence"}), Filler)[1], First(Matches(text, {"point", "point of sale"}), Filler)[2]>>

Standalone(own) ==
    OnlyOne(Captured(Complete(own), {"comp", "nro", "title number", "bare"}), Filler)

NumberIn(text, own, readTitle) ==
    CASE Anchored(own) # <<>> -> First(Anchored(own), Filler)
      [] Anchored(own) = <<>> /\ readTitle /\ Single(Captured(text, {"title number"})) ->
            OnlyOne(Captured(text, {"title number"}), Filler)
      [] OTHER -> IF HasHalves(text) THEN Halves(text) ELSE Standalone(own)

\* Mutant: every number counts, whatever it is the number of.
DetectAnyNumber(text, readTitle) == NumberIn(text, text, readTitle)

DetectNumber(text, readTitle) ==
    NumberIn(text, Own(text, IF readTitle THEN References \ {"Factura"} ELSE References), readTitle)

-----------------------------------------------------------------------------
(* parse_factura and parse_order, with the QR beside them.                 *)

Read(doc) ==
    LET text == Text(doc)
        order == LooksLikeOrder(text)
        label == DetectVoucher(text)
        qr == UniqueQr(doc)
        supplier == First(Matches(text, IF order /\ qr = {} THEN {"proveedor"} ELSE {"razon social"}), Unknown)
    IN [voucher |-> doc.voucher,
        cuits |-> Captured(text, {"cuit"}),
        printed |-> supplier,
        mentions |-> Captured(text, {"mention"}) \union ({supplier} \ {Unknown}),
        number |-> IF order /\ qr = {} THEN First(Matches(text, {"order number"}), Filler)
                   ELSE DetectNumber(text, label[1] = "FC"),
        label |-> label,
        order |-> order,
        close |-> Resembling[First(Matches(text, {"sociedad"}), Unknown)],
        qr |-> qr # {},
        receiver |-> \E q \in qr : q.receiver # {}]

\* _extract: a PDF with neither text nor QR is put into quarantine unread.
Legible(doc) == Text(doc) # <<>> \/ UniqueQr(doc) # {}

ReadPages == {Read(doc) : doc \in {d \in Documents : Legible(d)}}

\* Filing takes the QR to be that of the voucher.
ASSUME OwnQrAssumption ==
    \A doc \in Documents : \A q \in UniqueQr(doc) :
        /\ q.issuer = doc.voucher.issuer /\ q.number = doc.voucher.number
        /\ q.code = doc.voucher.code /\ q.receiver \subseteq {doc.voucher.buyer}
=============================================================================

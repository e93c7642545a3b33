---------------------------- MODULE MCCompanies ----------------------------
(* Two companies, one whose body begins with two zeros, and what is typed of them.  *)
EXTENDS Companies

CONSTANTS acme, beta

First == <<3, 0, 0, 0, 2, 3, 4, 5, 6, 7, 2>>
Second == <<3, 0, 7, 1, 2, 3, 4, 5, 6, 7, 1>>
ASSUME IsValidCuit(First) /\ IsValidCuit(Second)
MCKnown == {First, Second}

Named(name) == [legal |-> name, trade |-> Blank, aliases |-> {}]
MCEntries == {Named(acme), Named(Blank)}

Row(digits, name, meant) == [digits |-> digits, label |-> Named(name), meant |-> meant]

\* One sheet names the first company twice, without its zeros and whole; the other has a row
\* with a wrong digit, one without a name and one that is right.
Twice == <<Row(Shortened(First, 2), beta, First),
           [Row(First, acme, First) EXCEPT !.label.trade = acme, !.label.aliases = {acme}]>>
Spoilt == <<Row([First EXCEPT ![4] = 7], acme, First), Row(First, Blank, First), Row(Second, acme, Second)>>
MCSheets == {Twice, Spoilt}
=============================================================================

----------------------------- MODULE MCSettings -----------------------------
(* Settings with the folders of three configurations that are accepted and  *)
(* of three that are not, and documents whose supplier has a difficult name. *)
EXTENDS Configured

In == <<<<"i", "n">>>>
Out == <<<<"o", "u", "t">>>>
Orders == <<<<"o", "c">>>>
Form(input, base, quarantine, societies, template) ==
    [input |-> input, base |-> base, unknown |-> base \o <<<<"s", "c">>>>, quarantine |-> quarantine,
     orders |-> Orders, societies |-> societies, template |-> template]
Errors == Out \o <<<<"e", "r">>>>

Two == <<[cuit |-> "own1", name |-> <<"A", ".">>], [cuit |-> "own2", name |-> <<"B">>]>>

MCEntered ==
    [default |-> Form(In, Out, Errors, <<>>, <<"supplier">>),
     dated |-> Form(In, Out, Errors, Two, <<"year", "month", "supplier">>),
     named |-> Form(In, Out, Errors, Two, <<"society", "up", "supplier">>),
     watched |-> Form(In, Out, In, <<>>, <<"supplier">>),
     inside |-> Form(In, In \o Out, Errors, <<>>, <<"supplier">>),
     unknown |-> Form(In, Out, Errors, <<>>, <<"proveedor">>)]
\* The watched folder is the one an archive would fill.
MCEnteredBelow == MCEntered @@ ("below" :> Form(Out \o <<<<"A">>, <<"a">>>>, Out, Errors, Two, <<"supplier">>))
\* The quarantine is the output folder.
MCEnteredWide == MCEntered @@ ("wide" :> Form(In, Out, Out, Two, <<"supplier">>))

MCConfigs == {f \in DOMAIN MCEntered : Accepted(MCEntered[f])}
MCConfigsBelow == {f \in DOMAIN MCEnteredBelow : Accepted(MCEnteredBelow[f])}
MCConfigsWide == {f \in DOMAIN MCEnteredWide : Accepted(MCEnteredWide[f])}

MCReviewName == <<"_", "r">>
MCDuplicatesName == <<"_", "d">>
MCNoSocietyName == <<"_", "n">>
MCFallback == <<"_", "f">>
MCNoDate == <<"s", "f">>
MCLiteral == [key \in {"up"} |-> <<".", ".">>]

\* All names of a few characters, with those the system refuses or strips.
Names == SeqOf({"a", ".", " ", "/"}, 4)
MCDocuments ==
    [supplier : Names, buyer : {"own1", "other"}, order : BOOLEAN,
     date : {<<>>, <<<<"2", "0">>, <<"0", "8">>, <<"1", "4">>>>}]
=============================================================================

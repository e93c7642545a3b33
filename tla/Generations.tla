---------------------------- MODULE Generations ----------------------------
(***************************************************************************)
(* What the engine's start and stop promise, without locks, threads or     *)
(* time-outs: generations are numbered, one at a time is active, a new one *)
(* begins only when nothing of the previous one is active, and one that    *)
(* was announced as stopped never comes back.                              *)
(***************************************************************************)
EXTENDS Naturals

VARIABLES
    last,       \* number of the newest generation
    active,     \* generations with a live worker or rescanner
    announced   \* generations whose STOPPED event was emitted

vars == <<last, active, announced>>

Init ==
    /\ last = 0
    /\ active = {}
    /\ announced = {}

\* A start takes the next number.
Begin ==
    /\ active = {}
    /\ last' = last + 1
    /\ UNCHANGED <<active, announced>>

\* Its threads run.
Run ==
    /\ active = {}
    /\ last > 0
    /\ last \notin announced
    /\ active' = {last}
    /\ UNCHANGED <<last, announced>>

\* Its last thread ends.
End ==
    /\ active' = {}
    /\ UNCHANGED <<last, announced>>

\* Stop tells the user that nothing runs.
Announce ==
    /\ active = {}
    /\ announced' = announced \union {last}
    /\ UNCHANGED <<last, active>>

Next == Begin \/ Run \/ End \/ Announce

Spec == Init /\ [][Next]_vars
=============================================================================

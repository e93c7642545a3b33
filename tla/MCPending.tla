------------------------------ MODULE MCPending ------------------------------
(* Instances of Pending for TLC: two threads, which only a missing guard     *)
(* could let run together.                                                   *)
EXTENDS Pending

CONSTANTS k1, k2
=============================================================================

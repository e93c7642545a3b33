---------------------------- MODULE MCLifecycle ----------------------------
(* Instances of Lifecycle for TLC: the constants are given in the configs.  *)
EXTENDS Lifecycle
=============================================================================

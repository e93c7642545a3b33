----------------------------- MODULE MCMonitor -----------------------------
(* Instances of Monitor for TLC: the constants are given in the configs.    *)
EXTENDS Monitor
=============================================================================

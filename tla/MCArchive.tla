----------------------------- MODULE MCArchive -----------------------------
(* Instances of Archive for TLC: the constants are given in the configs.    *)
EXTENDS Archive, TLC

\* Every document is a twin of every other, and a name is like any other.
Symmetry == Permutations(Docs) \union Permutations(Slots)
=============================================================================

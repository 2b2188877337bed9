---------------------------- MODULE MCReadCache ----------------------------
(* Instances of ReadCache small enough for TLC. *)
EXTENDS ReadCache, TLC

CONSTANTS t1, t2, c1, c2

Symmetry == Permutations(Clients) \cup Permutations(Tabs)
=============================================================================

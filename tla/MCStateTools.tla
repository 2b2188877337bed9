---------------------------- MODULE MCStateTools -----------------------------
EXTENDS StateTools, TLC

CONSTANTS s1, s2

\* At most one row in s1, two in s2; s1 calls its key "id", s2 does not.
SomeKeys == s1 :> {1} @@ s2 :> {1, 2}
MixedKeys == s1 :> TRUE @@ s2 :> FALSE

Symmetric == Permutations(Val)
=============================================================================

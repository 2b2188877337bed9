------------------------------ MODULE MCJournal -----------------------------
EXTENDS Journal, TLC

Symmetric == Permutations(Body)
=============================================================================

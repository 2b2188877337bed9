------------------------------ MODULE MCAdvice ------------------------------
EXTENDS Advice, TLC

Symmetric == Permutations(Agent)
=============================================================================

------------------------------ MODULE MCReplay ------------------------------
\* Model-checking instance of Replay.
EXTENDS Replay, TLC

Symmetric == Permutations(Key) \cup Permutations(Val)
=============================================================================

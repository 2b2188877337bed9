----------------------------- MODULE MCFriction -----------------------------
EXTENDS Friction, TLC

\* Every agent drives a tab of an origin of its own, or all tabs are of one origin.
OwnOrigin == [a \in Agent |-> a]
OneOrigin == [a \in Agent |-> "o"]

Symmetric == Permutations(Agent)
=============================================================================

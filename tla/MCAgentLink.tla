---------------------------- MODULE MCAgentLink ----------------------------
(* Instances of AgentLink small enough for TLC. *)
EXTENDS AgentLink, TLC

CONSTANTS t1, t2, n1, n2

\* A single tab; two tabs that fight over one agent name.
OneTab == (t1 :> n1)
SharedName == (t1 :> n1 @@ t2 :> n1)

\* An ordinary session, and a strict-CRV one that may write to remote pages.
TwoModes == {[remote |-> FALSE, strict |-> FALSE], [remote |-> TRUE, strict |-> TRUE]}

\* Strict-CRV sessions that keep to local pages.
StrictLocal == {[remote |-> FALSE, strict |-> TRUE]}
=============================================================================

--------------------------- MODULE MCReadPipeline ---------------------------
(* An instance of ReadPipeline small enough for TLC. *)
EXTENDS ReadPipeline, TLC

CONSTANTS c1, c2

\* From either to the other rows change and are added or removed, and a delta pays.
SomeContents == {<<1, 1, 1>>, <<1, 2>>}

\* Each flag alone, and the pairs whose order of decision matters.
SomeOptSets == {{}} \cup {{f} : f \in Flags} \cup {{"delta", "peek"}, {"ifChanged", "peek"}}

Symmetry == Permutations(Callers)
=============================================================================

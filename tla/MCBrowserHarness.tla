-------------------------- MODULE MCBrowserHarness --------------------------
(* Instances of BrowserHarness small enough for TLC. *)
EXTENDS BrowserHarness, TLC

CONSTANTS p1, p2, p3, c1, c2, c3, c4

\* A process that opens two browsers at once, or one with an old copy of the harness, beside another.
SharedOfTwo == (c1 :> p1 @@ c2 :> p1 @@ c3 :> p2 @@ c4 :> p1)

\* A process that opens two browsers at once, beside two others.
SharedOfThree == (c1 :> p1 @@ c2 :> p1 @@ c3 :> p2 @@ c4 :> p3)
=============================================================================

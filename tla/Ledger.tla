------------------------------- MODULE Ledger -------------------------------
(***************************************************************************)
(* What the action log promises: the rows of db.mjs as a caller of         *)
(* listActions, getActionById and getDiff sees them, whatever is shared    *)
(* below.  An entry keeps its parameters for as long as it exists, its     *)
(* result until that is forgotten on purpose, and a document keeps its     *)
(* body for good.                                                          *)
(***************************************************************************)
EXTENDS Integers, Sequences

CONSTANTS Body, Args, None

VARIABLES entries, documents, nextId, session, open
vars == <<entries, documents, nextId, session, open>>

Init == entries = [i \in {} |-> None] /\ documents = <<>> /\ nextId = 1 /\ session = 0 /\ open = FALSE

Ended(i) == ~(open /\ entries[i].session = session)
Cited == {documents[d].action : d \in DOMAIN documents}

Begin == ~open /\ open' = TRUE /\ session' = session + 1 /\ UNCHANGED <<entries, documents, nextId>>
End == open /\ open' = FALSE /\ UNCHANGED <<entries, documents, nextId, session>>

\* A finished call is recorded under a number no entry ever had, for the session it was made in.
Record == \E result \in Body, params \in Args, s \in 1..session, bulk \in BOOLEAN :
  /\ entries' = [i \in DOMAIN entries \cup {nextId} |->
                   IF i = nextId THEN [session |-> s, result |-> result, params |-> params, bulk |-> bulk]
                   ELSE entries[i]]
  /\ nextId' = nextId + 1 /\ UNCHANGED <<documents, session, open>>

\* A diff or verification result, that may cite the entry it belongs to.
File == \E body \in Body, i \in DOMAIN entries \cup {None} :
  /\ documents' = Append(documents, [body |-> body, action |-> i]) /\ UNCHANGED <<entries, nextId, session, open>>

\* Retention: the results of ended sessions go, and the entries nothing depends on.
Forget == \E S \in SUBSET {i \in DOMAIN entries : Ended(i)} :
  /\ entries' = [i \in DOMAIN entries |-> IF i \in S THEN [entries[i] EXCEPT !.result = None] ELSE entries[i]]
  /\ UNCHANGED <<documents, nextId, session, open>>
Drop == \E S \in SUBSET {i \in DOMAIN entries : Ended(i) /\ entries[i].bulk /\ i \notin Cited} :
  /\ entries' = [i \in DOMAIN entries \ S |-> entries[i]] /\ UNCHANGED <<documents, nextId, session, open>>

Next == Begin \/ End \/ Record \/ File \/ Forget \/ Drop
Spec == Init /\ [][Next]_vars
=============================================================================

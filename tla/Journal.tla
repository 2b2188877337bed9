------------------------------ MODULE Journal -------------------------------
(***************************************************************************)
(* How db.mjs stores the action log: every body is kept once in a blob     *)
(* table under its hash with a count of the rows that name it, a row keeps *)
(* its own copy only when it was the first, retention releases the counts  *)
(* and deletes blobs nobody names, and the relay keeps all rows in memory  *)
(* for its analytics, caught up from a feed of the rows updated since.     *)
(* Statements outside a transaction commit one by one, so the process may  *)
(* end between two of them.  A hash is modelled by the body it is of.      *)
(***************************************************************************)
EXTENDS Integers, Sequences, FiniteSets

CONSTANTS
  Body, Args,  \* bodies of results and documents, and of parameters
  None,
  MaxId, MaxDocs, MaxSession, MaxCrashes  \* bounds

ASSUME JournalAssumption == None \notin Body \cup Args /\ {MaxId, MaxDocs, MaxSession, MaxCrashes} \subseteq Nat

VARIABLES
  actions,      \* table: id -> row
  docs,         \* tables state_diffs and verity_runs: bodies kept in result_blobs for good
  resultBlobs,  \* table: body -> ref_count, -1 when there is no blob
  paramsBlobs,  \* table: likewise
  nextId,       \* AUTOINCREMENT
  session, active,  \* the newest session, and whether it is active
  job,          \* the statement sequence that is under way
  memo,         \* actionsMemo: [rows, last], or None
  dirty,        \* dirtyActionIds
  crashes

tables == <<actions, docs, resultBlobs, paramsBlobs, nextId>>
vars == <<actions, docs, resultBlobs, paramsBlobs, nextId, session, active, job, memo, dirty, crashes>>

NoBlob == -1
Quiet == [at |-> "none"]
Empty == [body |-> None, hash |-> None]

Init ==
  /\ actions = [i \in {} |-> None] /\ docs = <<>> /\ nextId = 1
  /\ resultBlobs = [b \in Body |-> NoBlob] /\ paramsBlobs = [b \in Args |-> NoBlob]
  /\ session = 0 /\ active = FALSE /\ job = Quiet /\ memo = None /\ dirty = {} /\ crashes = 0

-----------------------------------------------------------------------------
\* Content-addressed cells.

\* Mutated: a repeat is not counted.
Interned_once(blobs, b) == [blobs EXCEPT ![b] = IF @ = NoBlob THEN 1 ELSE @]

\* internResult, internParams: the count goes up, or the blob appears; the row carries the body only when it is
\* the first.
Interned(blobs, b) == [blobs EXCEPT ![b] = IF @ = NoBlob THEN 1 ELSE @ + 1]
CellOf(blobs, b) == [body |-> IF blobs[b] = NoBlob THEN b ELSE None, hash |-> b]

\* resolveResultJson, resolveParamsJson, resolveDiffJson.
Resolved(cell, blobs) ==
  IF cell.body # None THEN cell.body
  ELSE IF cell.hash = None \/ blobs[cell.hash] = NoBlob THEN None ELSE cell.hash

\* Retention: each blob loses as many references as the pruned rows held, then the unreferenced ones go.
Holders(S, field, b) == Cardinality({i \in S : actions[i][field].hash = b})
Released(blobs, S, field) ==
  [b \in DOMAIN blobs |->
     IF blobs[b] = NoBlob \/ blobs[b] <= Holders(S, field, b) THEN NoBlob ELSE blobs[b] - Holders(S, field, b)]

-----------------------------------------------------------------------------
\* Sessions, in the little this module needs of them.

StartSession ==
  /\ ~active /\ session < MaxSession /\ active' = TRUE /\ session' = session + 1
  /\ UNCHANGED <<tables, job, memo, dirty, crashes>>
EndSession == active /\ active' = FALSE /\ UNCHANGED <<tables, session, job, memo, dirty, crashes>>

\* logAction: the result is interned, the parameters are interned, the row is inserted.  The call may belong to
\* a session that has ended meanwhile.  A row is bulk when it is a successful read without a friction target.
LogResult == \E result \in Body, params \in Args, s \in 1..session, bulk \in BOOLEAN :
  /\ job = Quiet /\ nextId <= MaxId
  /\ resultBlobs' = Interned(resultBlobs, result)
  /\ job' = [at |-> "result", params |-> params,
             row |-> [session |-> s, bulk |-> bulk, delivered |-> FALSE, result |-> CellOf(resultBlobs, result),
                      params |-> Empty]]
  /\ UNCHANGED <<actions, docs, paramsBlobs, nextId, session, active, memo, dirty, crashes>>
LogParams ==
  /\ job.at = "result"
  /\ paramsBlobs' = Interned(paramsBlobs, job.params)
  /\ job' = [job EXCEPT !.at = "params", !.row.params = CellOf(paramsBlobs, job.params)]
  /\ UNCHANGED <<actions, docs, resultBlobs, nextId, session, active, memo, dirty, crashes>>
LogInsert ==
  /\ job.at = "params"
  /\ actions' = [i \in DOMAIN actions \cup {nextId} |-> IF i = nextId THEN job.row ELSE actions[i]]
  /\ nextId' = nextId + 1 /\ job' = Quiet
  /\ UNCHANGED <<docs, resultBlobs, paramsBlobs, session, active, memo, dirty, crashes>>

\* saveDiff, saveVerityRun: the same for a document, that may cite an action.
FileBody == \E b \in Body, i \in DOMAIN actions \cup {None} :
  /\ job = Quiet /\ Len(docs) < MaxDocs
  /\ resultBlobs' = Interned(resultBlobs, b)
  /\ job' = [at |-> "doc", doc |-> [action |-> i, body |-> CellOf(resultBlobs, b)]]
  /\ UNCHANGED <<actions, docs, paramsBlobs, nextId, session, active, memo, dirty, crashes>>
FileInsert ==
  /\ job.at = "doc" /\ docs' = Append(docs, job.doc) /\ job' = Quiet
  /\ UNCHANGED <<actions, resultBlobs, paramsBlobs, nextId, session, active, memo, dirty, crashes>>

\* setActionDelivered, setActionIntents: a logged row is updated, and marked for the memo.
Update == \E i \in DOMAIN actions :
  /\ job = Quiet /\ ~actions[i].delivered
  /\ actions' = [actions EXCEPT ![i].delivered = TRUE] /\ dirty' = dirty \cup {i}
  /\ UNCHANGED <<docs, resultBlobs, paramsBlobs, nextId, session, active, job, memo, crashes>>

\* The process ends between two statements: what is committed stays, memory is gone.
Crash ==
  /\ crashes < MaxCrashes /\ crashes' = crashes + 1
  /\ job' = Quiet /\ memo' = None /\ dirty' = {} /\ UNCHANGED <<tables, session, active>>

-----------------------------------------------------------------------------
\* POST /friction/prune: the memo is dropped, then each part runs in a transaction.  The rows before the cut-off
\* and not of the active session go: their results, or the bulk ones that nothing cites.

Old(cut) == {i \in DOMAIN actions : i <= cut /\ ~(active /\ actions[i].session = session)}
Cited == {docs[d].action : d \in DOMAIN docs}
\* (Mutated: a cited row goes too.)
Prunable_cited(cut) == {i \in Old(cut) : actions[i].bulk}
Prunable(cut) == {i \in Old(cut) : actions[i].bulk /\ i \notin Cited}

PruneResults == \E cut \in DOMAIN actions :
  LET S == {i \in Old(cut) : actions[i].result # Empty}
  IN /\ job = Quiet /\ S # {} /\ memo' = None
     /\ resultBlobs' = Released(resultBlobs, S, "result")
     /\ actions' = [i \in DOMAIN actions |-> IF i \in S THEN [actions[i] EXCEPT !.result = Empty] ELSE actions[i]]
     /\ UNCHANGED <<docs, paramsBlobs, nextId, session, active, job, dirty, crashes>>

PruneReads == \E cut \in DOMAIN actions :
  LET S == Prunable(cut)
  IN /\ job = Quiet /\ S # {} /\ memo' = None
     /\ resultBlobs' = Released(resultBlobs, S, "result") /\ paramsBlobs' = Released(paramsBlobs, S, "params")
     /\ actions' = [i \in DOMAIN actions \ S |-> actions[i]]
     /\ UNCHANGED <<docs, nextId, session, active, job, dirty, crashes>>

-----------------------------------------------------------------------------
\* allActionsIncremental: everything once, then the rows updated and the rows added.

Slim(i) == [delivered |-> actions[i].delivered, result |-> Resolved(actions[i].result, resultBlobs)]
\* (Mutated: only the rows added.)
CaughtUp_added(m) ==
  [i \in DOMAIN m.rows \cup {j \in DOMAIN actions : j > m.last} |-> IF i \in DOMAIN m.rows THEN m.rows[i] ELSE Slim(i)]
CaughtUp(m) ==
  [i \in DOMAIN m.rows \cup {j \in DOMAIN actions : j > m.last} |->
     IF i \in DOMAIN m.rows /\ i \notin dirty THEN m.rows[i] ELSE Slim(i)]
Newest(rows) == IF rows = {} THEN 0 ELSE CHOOSE i \in rows : \A j \in rows : j <= i

Analyse ==
  /\ job = Quiet /\ dirty' = {}
  /\ memo' = IF memo = None THEN [rows |-> [i \in DOMAIN actions |-> Slim(i)], last |-> Newest(DOMAIN actions)]
             ELSE [rows |-> CaughtUp(memo), last |-> Newest(DOMAIN CaughtUp(memo))]
  /\ UNCHANGED <<tables, session, active, job, crashes>>

Next ==
  \/ StartSession \/ EndSession \/ LogResult \/ LogParams \/ LogInsert \/ FileBody \/ FileInsert
  \/ Update \/ Crash \/ PruneResults \/ PruneReads \/ Analyse

Spec == Init /\ [][Next]_vars

-----------------------------------------------------------------------------
\* Rows and blobs keep their shape, and no blob stays that its count says nobody names (db.mjs schema).
TypeOK ==
  LET Cell(B) == [body : B \cup {None}, hash : B \cup {None}]
      Row == [session : 1..session, bulk : BOOLEAN, delivered : BOOLEAN, result : Cell(Body), params : Cell(Args)]
  IN /\ DOMAIN actions \subseteq 1..(nextId - 1) /\ \A i \in DOMAIN actions : actions[i] \in Row
     /\ \A d \in DOMAIN docs : docs[d].body \in Cell(Body) /\ docs[d].action \in 1..(nextId - 1) \cup {None}
     /\ \A blobs \in {resultBlobs, paramsBlobs} : \A b \in DOMAIN blobs : blobs[b] \in {NoBlob} \cup (Nat \ {0})
     /\ session \in 0..MaxSession /\ active \in BOOLEAN /\ dirty \subseteq 1..(nextId - 1)
     /\ job.at \in {"none", "result", "params", "doc"}

\* The rows, documents and the write under way that name result b, and those that name parameters b.
ResultNames(b) ==
  Holders(DOMAIN actions, "result", b) + Cardinality({d \in DOMAIN docs : docs[d].body.hash = b})
  + (IF job.at \in {"result", "params"} /\ job.row.result.hash = b THEN 1 ELSE 0)
  + (IF job.at = "doc" /\ job.doc.body.hash = b THEN 1 ELSE 0)
ParamsNames(b) ==
  Holders(DOMAIN actions, "params", b) + (IF job.at = "params" /\ job.row.params.hash = b THEN 1 ELSE 0)

\* A blob's count is never below the number of rows that name it, so pruning never takes a body somebody still
\* needs; and as long as no process ended in between the two agree, so nothing is kept for nobody.
Covers(count, names) == count >= names /\ (crashes = 0 => count = names)
RefsCover ==
  /\ \A b \in Body : Covers(IF resultBlobs[b] = NoBlob THEN 0 ELSE resultBlobs[b], ResultNames(b))
  /\ \A b \in Args : Covers(IF paramsBlobs[b] = NoBlob THEN 0 ELSE paramsBlobs[b], ParamsNames(b))

\* What analytics remembers of a row is what the table says, unless the row is marked for re-reading; it has
\* every row up to the newest it read and none that is gone (allActionsIncremental: "the cache is exact").
MemoExact ==
  memo # None =>
    /\ DOMAIN memo.rows = {i \in DOMAIN actions : i <= memo.last}
    /\ \A i \in DOMAIN memo.rows : memo.rows[i] = Slim(i) \/ i \in dirty

\* What a reader of the tables is given: listActions and getActionById, getDiff.
Entries ==
  [i \in DOMAIN actions |->
     [session |-> actions[i].session, bulk |-> actions[i].bulk, result |-> Resolved(actions[i].result, resultBlobs),
      params |-> Resolved(actions[i].params, paramsBlobs)]]
Documents == [d \in DOMAIN docs |-> [action |-> docs[d].action, body |-> Resolved(docs[d].body, resultBlobs)]]

\* The tables below implement the log above: sharing, counting, pruning and crashes are invisible to a reader.
Log == INSTANCE Ledger WITH entries <- Entries, documents <- Documents, open <- active
ImplementsLedger == Log!Spec
=============================================================================

--------------------------- MODULE JournalProofs ---------------------------
(* The stored log for any bodies, any number of rows, documents, sessions  *)
(* and crashes: its shape, its reference counts, the analytics memory, and *)
(* that it implements the ledger.  In the second part, what the log is     *)
(* used for again, for any steps, sessions and bounds: that the plan of a  *)
(* replay holds, and that a cleanup leaves only what was pruned.           *)
EXTENDS Journal, Replay, FiniteSetTheorems, SequenceTheorems, TLAPS

\* A cell that names a body carries that body or none; the cell a row starts with, or has after its result was
\* pruned, names nothing.
Naming(B) == {c \in [body : B \cup {None}, hash : B] : c.body \in {None, c.hash}}
Cells(B) == Naming(B) \cup {Empty}

Rows(results, params) ==
  [session : 1..session, bulk : BOOLEAN, delivered : BOOLEAN, result : results, params : params]
Filed(rows) == [action : rows \cup {None}, body : Naming(Body)]
Counts == {NoBlob} \cup (Nat \ {0})
Jobs ==
  {Quiet} \cup [at : {"result"}, params : Args, row : Rows(Naming(Body), {Empty})]
  \cup [at : {"params"}, params : Args, row : Rows(Naming(Body), Naming(Args))]
  \cup [at : {"doc"}, doc : Filed(DOMAIN actions)]

Shape ==
  /\ nextId \in Nat \ {0} /\ session \in 0..MaxSession /\ crashes \in Nat /\ active \in BOOLEAN
  /\ DOMAIN actions \subseteq 1..(nextId - 1)
  /\ \A i \in DOMAIN actions : actions[i] \in Rows(Cells(Body), Naming(Args))
  /\ docs \in Seq(Filed(1..(nextId - 1)))
  /\ resultBlobs \in [Body -> Counts] /\ paramsBlobs \in [Args -> Counts]
  /\ dirty \subseteq 1..(nextId - 1) /\ job \in Jobs

\* Every set of rows has a newest one.
Ordered == \A S \in SUBSET DOMAIN actions : S # {} => \E i \in S : \A j \in S : j <= i

MemoShape == memo # None => memo.last \in 0..(nextId - 1)

IInv == Shape /\ RefsCover /\ Ordered /\ MemoShape /\ MemoExact

-----------------------------------------------------------------------------
LEMMA InternedType ==
  ASSUME NEW B, NEW blobs \in [B -> Counts], NEW b \in B
  PROVE  /\ Interned(blobs, b) \in [B -> Counts]
         /\ CellOf(blobs, b) \in Naming(B) /\ CellOf(blobs, b).hash = b
BY DEF Interned, CellOf, Naming, Counts, NoBlob

\* The rows of a set that name a blob are finitely many, and a release leaves counts.
LEMMA HoldersType ==
  ASSUME DOMAIN actions \subseteq 1..(nextId - 1), nextId \in Nat, NEW S \in SUBSET DOMAIN actions, NEW field, NEW b
  PROVE  /\ IsFiniteSet({i \in S : actions[i][field].hash = b})
         /\ Holders(S, field, b) \in Nat
<1>1. IsFiniteSet(1..(nextId - 1))
  BY FS_Interval
<1>2. {i \in S : actions[i][field].hash = b} \in SUBSET (1..(nextId - 1))
  OBVIOUS
<1>3. IsFiniteSet({i \in S : actions[i][field].hash = b})
  BY <1>1, <1>2, FS_Subset
<1> QED BY <1>3, FS_CardinalityType DEF Holders

LEMMA ReleasedType ==
  ASSUME DOMAIN actions \subseteq 1..(nextId - 1), nextId \in Nat, NEW S \in SUBSET DOMAIN actions, NEW field,
         NEW B, NEW blobs \in [B -> Counts]
  PROVE  Released(blobs, S, field) \in [B -> Counts]
<1>1. \A b \in B : Holders(S, field, b) \in Nat
  BY HoldersType
<1> QED BY <1>1 DEF Released, Counts, NoBlob

LEMMA ShapeInit == Init => Shape
<1> SUFFICES ASSUME Init PROVE Shape
  OBVIOUS
<1>1. docs \in Seq(Filed(1..(nextId - 1)))
  <2>1. <<>> \in Seq(Filed(1..(nextId - 1)))
    BY EmptySeq
  <2> QED BY <2>1 DEF Init
<1>2. /\ DOMAIN actions \subseteq 1..(nextId - 1)
      /\ \A i \in DOMAIN actions : actions[i] \in Rows(Cells(Body), Naming(Args))
  BY DEF Init
<1>3. session \in 0..MaxSession
  BY JournalAssumption DEF Init, JournalAssumption
<1>4. resultBlobs \in [Body -> Counts] /\ paramsBlobs \in [Args -> Counts]
  BY DEF Init, Counts, NoBlob
<1>5. job \in Jobs
  BY DEF Init, Jobs
<1>6. nextId \in Nat \ {0} /\ crashes \in Nat /\ dirty \subseteq 1..(nextId - 1)
  BY DEF Init
<1>7. active \in BOOLEAN
  BY DEF Init
<1> QED BY <1>1, <1>2, <1>3, <1>4, <1>5, <1>6, <1>7 DEF Shape

\* The shape survives a longer table, a newer session.
LEMMA RowsGrow ==
  ASSUME session \in Nat, session' \in Nat, session <= session', NEW R, NEW P
  PROVE  Rows(R, P) \subseteq Rows(R, P)'
BY DEF Rows

LEMMA ShapeNext == Shape /\ [Next]_vars => Shape'
<1> SUFFICES ASSUME Shape, [Next]_vars PROVE Shape'
  OBVIOUS
<1> USE DEF Shape
<1>1. CASE StartSession
  <2>1. \A R, P : Rows(R, P) \subseteq Rows(R, P)'
    BY <1>1, RowsGrow DEF StartSession
  <2>2. session' \in 0..MaxSession
    BY <1>1, JournalAssumption DEF StartSession, JournalAssumption
  <2>3. Jobs \subseteq Jobs'
    BY <1>1, <2>1 DEF StartSession, tables, Jobs
  <2> QED BY <1>1, <2>1, <2>2, <2>3 DEF StartSession, tables
<1>2. CASE EndSession
  BY <1>2 DEF EndSession, tables, Jobs, Rows
<1>3. CASE LogResult
  <2> PICK result \in Body, params \in Args, s \in 1..session, bulk \in BOOLEAN :
        /\ resultBlobs' = Interned(resultBlobs, result)
        /\ job' = [at |-> "result", params |-> params,
             row |-> [session |-> s, bulk |-> bulk, delivered |-> FALSE, result |-> CellOf(resultBlobs, result),
                      params |-> Empty]]
        /\ UNCHANGED <<actions, docs, paramsBlobs, nextId, session, active, memo, dirty, crashes>>
    BY <1>3 DEF LogResult
  <2>1. resultBlobs' \in [Body -> Counts] /\ CellOf(resultBlobs, result) \in Naming(Body)
    BY InternedType
  <2>2. job'.row \in Rows(Naming(Body), {Empty})
    BY <2>1 DEF Rows
  <2>3. job' \in Jobs'
    BY <2>2 DEF Jobs, Rows
  <2> QED BY <2>1, <2>3 DEF Rows
<1>4. CASE LogParams
  <2>1. job \in [at : {"result"}, params : Args, row : Rows(Naming(Body), {Empty})]
    BY <1>4 DEF LogParams, Jobs, Quiet
  <2>2. paramsBlobs' \in [Args -> Counts] /\ CellOf(paramsBlobs, job.params) \in Naming(Args)
    BY <1>4, <2>1, InternedType DEF LogParams
  <2>3. job' \in [at : {"params"}, params : Args, row : Rows(Naming(Body), Naming(Args))]
    BY <1>4, <2>1, <2>2 DEF LogParams, Rows
  <2>4. job' \in Jobs'
    BY <1>4, <2>3 DEF LogParams, Jobs, Rows
  <2> QED BY <1>4, <2>2, <2>4 DEF LogParams, Rows
<1>5. CASE LogInsert
  <2>1. job.row \in Rows(Naming(Body), Naming(Args))
    BY <1>5 DEF LogInsert, Jobs, Quiet
  <2>2. job.row \in Rows(Cells(Body), Naming(Args))
    BY <2>1 DEF Rows, Cells
  <2>3. nextId' \in Nat \ {0} /\ 1..(nextId - 1) \subseteq 1..(nextId' - 1) /\ nextId \in 1..(nextId' - 1)
    BY <1>5 DEF LogInsert
  <2>4. docs' \in Seq(Filed(1..(nextId' - 1)))
    <3>1. Filed(1..(nextId - 1)) \subseteq Filed(1..(nextId' - 1))
      BY <2>3 DEF Filed
    <3> QED BY <1>5, <3>1, SeqMonotonic DEF LogInsert
  <2>5. job' \in Jobs'
    BY <1>5 DEF LogInsert, Jobs
  <2> QED BY <1>5, <2>2, <2>3, <2>4, <2>5 DEF LogInsert, Rows, Filed
<1>6. CASE FileBody
  <2> PICK b \in Body, i \in DOMAIN actions \cup {None} :
        /\ resultBlobs' = Interned(resultBlobs, b)
        /\ job' = [at |-> "doc", doc |-> [action |-> i, body |-> CellOf(resultBlobs, b)]]
        /\ UNCHANGED <<actions, docs, paramsBlobs, nextId, session, active, memo, dirty, crashes>>
    BY <1>6 DEF FileBody
  <2>1. resultBlobs' \in [Body -> Counts] /\ CellOf(resultBlobs, b) \in Naming(Body)
    BY InternedType
  <2>2. job' \in Jobs'
    BY <2>1 DEF Jobs, Filed
  <2> QED BY <2>1, <2>2 DEF Rows, Filed
<1>7. CASE FileInsert
  <2>1. job.doc \in Filed(DOMAIN actions)
    BY <1>7 DEF FileInsert, Jobs, Quiet
  <2>2. job.doc \in Filed(1..(nextId - 1))
    BY <2>1 DEF Filed
  <2>3. docs' \in Seq(Filed(1..(nextId - 1)))
    BY <1>7, <2>2, AppendProperties DEF FileInsert
  <2> QED BY <1>7, <2>3 DEF FileInsert, Jobs, Rows, Filed
<1>8. CASE Update
  <2> PICK i \in DOMAIN actions :
        /\ job = Quiet
        /\ actions' = [actions EXCEPT ![i].delivered = TRUE] /\ dirty' = dirty \cup {i}
        /\ UNCHANGED <<docs, resultBlobs, paramsBlobs, nextId, session, active, job, memo, crashes>>
    BY <1>8 DEF Update
  <2>1. \A j \in DOMAIN actions' : actions'[j] \in Rows(Cells(Body), Naming(Args))
    BY DEF Rows
  <2> QED BY <2>1 DEF Rows, Jobs, Filed
<1>9. CASE Crash
  BY <1>9 DEF Crash, tables, Jobs, Rows, Filed
<1>10. CASE PruneResults
  <2> PICK cut \in DOMAIN actions :
        LET S == {i \in Old(cut) : actions[i].result # Empty}
        IN /\ job = Quiet
           /\ resultBlobs' = Released(resultBlobs, S, "result")
           /\ actions' = [i \in DOMAIN actions |->
                            IF i \in S THEN [actions[i] EXCEPT !.result = Empty] ELSE actions[i]]
           /\ UNCHANGED <<docs, paramsBlobs, nextId, session, active, job, dirty, crashes>>
    BY <1>10 DEF PruneResults
  <2>1. \A i \in DOMAIN actions' : actions'[i] \in Rows(Cells(Body), Naming(Args))
    BY DEF Rows, Cells
  <2>2. resultBlobs' \in [Body -> Counts]
    BY ReleasedType DEF Old
  <2> QED BY <2>1, <2>2 DEF Rows, Jobs, Filed
<1>11. CASE PruneReads
  <2> PICK cut \in DOMAIN actions :
        LET S == Prunable(cut)
        IN /\ job = Quiet
           /\ resultBlobs' = Released(resultBlobs, S, "result") /\ paramsBlobs' = Released(paramsBlobs, S, "params")
           /\ actions' = [i \in DOMAIN actions \ S |-> actions[i]]
           /\ UNCHANGED <<docs, nextId, session, active, job, dirty, crashes>>
    BY <1>11 DEF PruneReads
  <2>1. Prunable(cut) \subseteq DOMAIN actions
    BY DEF Prunable, Old
  <2>2. resultBlobs' \in [Body -> Counts] /\ paramsBlobs' \in [Args -> Counts]
    BY <2>1, ReleasedType
  <2> QED BY <2>1, <2>2 DEF Rows, Jobs, Filed
<1>12. CASE Analyse
  BY <1>12 DEF Analyse, tables, Jobs, Rows, Filed
<1>13. CASE UNCHANGED vars
  BY <1>13 DEF vars, Jobs, Rows, Filed
<1> QED
  BY <1>1, <1>2, <1>3, <1>4, <1>5, <1>6, <1>7, <1>8, <1>9, <1>10, <1>11, <1>12, <1>13 DEF Next

-----------------------------------------------------------------------------
\* What a count is worth, and how an interned body and a release change it.
Worth(blobs, b) == IF blobs[b] = NoBlob THEN 0 ELSE blobs[b]

LEMMA InternedWorth ==
  ASSUME NEW B, NEW blobs \in [B -> Counts], NEW b \in B, NEW c \in B
  PROVE  /\ Worth(blobs, c) \in Nat
         /\ Worth(Interned(blobs, b), c) = IF c = b THEN Worth(blobs, c) + 1 ELSE Worth(blobs, c)
BY DEF Worth, Interned, Counts, NoBlob

LEMMA ReleasedWorth ==
  ASSUME NEW B, NEW blobs \in [B -> Counts], NEW S, NEW field, NEW b \in B, Holders(S, field, b) \in Nat
  PROVE  Worth(Released(blobs, S, field), b) =
           IF Worth(blobs, b) <= Holders(S, field, b) THEN 0 ELSE Worth(blobs, b) - Holders(S, field, b)
BY DEF Worth, Released, Counts, NoBlob

\* A release of h names that were all counted keeps the count above the names that are left.
LEMMA CoversReleased ==
  ASSUME NEW count \in Nat, NEW names \in Nat, NEW h \in Nat, h <= names, Covers(count, names)
  PROVE  Covers(IF count <= h THEN 0 ELSE count - h, names - h)
BY DEF Covers

\* Rows that go take their names along, and no others.
LEMMA HoldersSplit ==
  ASSUME DOMAIN actions \subseteq 1..(nextId - 1), nextId \in Nat, NEW S \in SUBSET DOMAIN actions, NEW field, NEW b
  PROVE  /\ Holders(S, field, b) \in Nat /\ Holders(DOMAIN actions, field, b) \in Nat
         /\ Holders(S, field, b) <= Holders(DOMAIN actions, field, b)
         /\ Holders(DOMAIN actions \ S, field, b) = Holders(DOMAIN actions, field, b) - Holders(S, field, b)
<1> DEFINE Who(T) == {i \in T : actions[i][field].hash = b}
<1>1. IsFiniteSet(Who(DOMAIN actions)) /\ IsFiniteSet(Who(S)) /\ IsFiniteSet(Who(DOMAIN actions \ S))
  <2>1. \A T \in SUBSET DOMAIN actions : IsFiniteSet(Who(T))
    BY HoldersType
  <2> HIDE DEF Who
  <2> QED BY <2>1
<1>2. Who(DOMAIN actions) = Who(S) \cup Who(DOMAIN actions \ S) /\ Who(S) \cap Who(DOMAIN actions \ S) = {}
  OBVIOUS
<1>3. Cardinality(Who(DOMAIN actions)) = Cardinality(Who(S)) + Cardinality(Who(DOMAIN actions \ S)) - 0
  BY <1>1, <1>2, FS_Union, FS_EmptySet
<1>4. Cardinality(Who(S)) \in Nat /\ Cardinality(Who(DOMAIN actions \ S)) \in Nat
  BY <1>1, FS_CardinalityType
<1> HIDE DEF Who
<1>5. \A T : Holders(T, field, b) = Cardinality(Who(T))
  BY DEF Who, Holders
<1>6. \A T \in {S, DOMAIN actions, DOMAIN actions \ S} : Holders(T, field, b) = Cardinality(Who(T))
  BY <1>5
<1> QED BY <1>3, <1>4, <1>6

\* The documents and the write under way that name a result or parameters.
Citing(b) == {d \in DOMAIN docs : docs[d].body.hash = b}
Pending(b) ==
  (IF job.at \in {"result", "params"} /\ job.row.result.hash = b THEN 1 ELSE 0)
  + (IF job.at = "doc" /\ job.doc.body.hash = b THEN 1 ELSE 0)
PendingParams(b) == IF job.at = "params" /\ job.row.params.hash = b THEN 1 ELSE 0

\* The names are these three added up, all of them numbers.
NamesAddUp ==
  \A b : /\ Holders(DOMAIN actions, "result", b) \in Nat /\ Holders(DOMAIN actions, "params", b) \in Nat
         /\ IsFiniteSet(Citing(b)) /\ Cardinality(Citing(b)) \in Nat
         /\ Pending(b) \in Nat /\ PendingParams(b) \in Nat
         /\ ResultNames(b) = Holders(DOMAIN actions, "result", b) + Cardinality(Citing(b)) + Pending(b)
         /\ ParamsNames(b) = Holders(DOMAIN actions, "params", b) + PendingParams(b)
         /\ ResultNames(b) \in Nat /\ ParamsNames(b) \in Nat

LEMMA NamesType == Shape => NamesAddUp
<1> SUFFICES ASSUME Shape, NEW b
             PROVE  /\ Holders(DOMAIN actions, "result", b) \in Nat /\ Holders(DOMAIN actions, "params", b) \in Nat
                    /\ IsFiniteSet(Citing(b)) /\ Cardinality(Citing(b)) \in Nat
                    /\ Pending(b) \in Nat /\ PendingParams(b) \in Nat
                    /\ ResultNames(b) = Holders(DOMAIN actions, "result", b) + Cardinality(Citing(b)) + Pending(b)
                    /\ ParamsNames(b) = Holders(DOMAIN actions, "params", b) + PendingParams(b)
                    /\ ResultNames(b) \in Nat /\ ParamsNames(b) \in Nat
  BY DEF NamesAddUp
<1>1. Holders(DOMAIN actions, "result", b) \in Nat /\ Holders(DOMAIN actions, "params", b) \in Nat
  BY HoldersType DEF Shape
<1>2. IsFiniteSet(Citing(b)) /\ Cardinality(Citing(b)) \in Nat
  <2>1. DOMAIN docs = 1..Len(docs) /\ Len(docs) \in Nat
    BY LenProperties DEF Shape
  <2>2. IsFiniteSet(DOMAIN docs)
    BY <2>1, FS_Interval
  <2> QED BY <2>2, FS_Subset, FS_CardinalityType DEF Citing
<1>3. Pending(b) \in Nat /\ PendingParams(b) \in Nat
  BY DEF Pending, PendingParams
<1>4. ResultNames(b) = Holders(DOMAIN actions, "result", b) + Cardinality(Citing(b)) + Pending(b)
  BY <1>1, <1>2 DEF ResultNames, Pending, Citing
<1>5. ParamsNames(b) = Holders(DOMAIN actions, "params", b) + PendingParams(b)
  BY DEF ParamsNames, PendingParams
<1> QED BY <1>1, <1>2, <1>3, <1>4, <1>5

\* RefsCover, body by body.
LEMMA RefsCoverWorth ==
  RefsCover <=> /\ \A b \in Body : Covers(Worth(resultBlobs, b), ResultNames(b))
                /\ \A b \in Args : Covers(Worth(paramsBlobs, b), ParamsNames(b))
BY DEF RefsCover, Worth

LEMMA RefsInit == Init => RefsCover
<1> SUFFICES ASSUME Init PROVE RefsCover
  OBVIOUS
<1>1. \A b : Holders(DOMAIN actions, "result", b) = 0 /\ Holders(DOMAIN actions, "params", b) = 0
  BY FS_EmptySet DEF Init, Holders
<1>2. \A b : Cardinality({d \in DOMAIN docs : docs[d].body.hash = b}) = 0
  <2>1. DOMAIN docs = {}
    BY DEF Init
  <2> QED BY <2>1, FS_EmptySet
<1>3. job.at = "none"
  BY DEF Init, Quiet
<1>4. ASSUME NEW b PROVE ResultNames(b) = 0 /\ ParamsNames(b) = 0
  <2>1. Holders(DOMAIN actions, "result", b) = 0 /\ Holders(DOMAIN actions, "params", b) = 0
    BY <1>1
  <2>2. Cardinality({d \in DOMAIN docs : docs[d].body.hash = b}) = 0
    BY <1>2
  <2> QED BY <2>1, <2>2, <1>3 DEF ResultNames, ParamsNames
<1>5. /\ \A b \in Body : Worth(resultBlobs, b) = 0
      /\ \A b \in Args : Worth(paramsBlobs, b) = 0
  BY DEF Init, Worth, NoBlob
<1> QED BY <1>4, <1>5, RefsCoverWorth DEF Covers

\* Inserting the row moves its names from the write under way to the table.
LEMMA HoldersInserted ==
  ASSUME Shape, LogInsert, NEW b
  PROVE  /\ Holders(DOMAIN actions, "result", b)' = Holders(DOMAIN actions, "result", b)
                                                    + (IF job.row.result.hash = b THEN 1 ELSE 0)
         /\ Holders(DOMAIN actions, "params", b)' = Holders(DOMAIN actions, "params", b)
                                                    + (IF job.row.params.hash = b THEN 1 ELSE 0)
<1>1. nextId \notin DOMAIN actions
  BY DEF Shape
<1>2. /\ DOMAIN actions' = DOMAIN actions \cup {nextId} /\ actions'[nextId] = job.row
      /\ \A i \in DOMAIN actions : actions'[i] = actions[i]
  BY <1>1 DEF LogInsert
<1>3. ASSUME NEW field \in {"result", "params"}
      PROVE  Holders(DOMAIN actions, field, b)' =
               Holders(DOMAIN actions, field, b) + (IF job.row[field].hash = b THEN 1 ELSE 0)
  <2> DEFINE H == {i \in DOMAIN actions : actions[i][field].hash = b}
  <2>1. {i \in DOMAIN actions' : actions'[i][field].hash = b}
          = IF job.row[field].hash = b THEN H \cup {nextId} ELSE H
    BY <1>1, <1>2
  <2>2. IsFiniteSet(H) /\ Cardinality(H) \in Nat
    <3>1. /\ IsFiniteSet({i \in DOMAIN actions : actions[i][field].hash = b})
          /\ Holders(DOMAIN actions, field, b) \in Nat
      BY HoldersType DEF Shape
    <3> QED BY <3>1 DEF Holders
  <2>3. nextId \notin H
    BY <1>1
  <2> HIDE DEF H
  <2>4. Cardinality(H \cup {nextId}) = Cardinality(H) + 1
    BY <2>2, <2>3, FS_AddElement
  <2>5. Holders(DOMAIN actions, field, b) = Cardinality(H)
    BY DEF Holders, H
  <2>6. Holders(DOMAIN actions, field, b)' = Cardinality(IF job.row[field].hash = b THEN H \cup {nextId} ELSE H)
    BY <2>1 DEF Holders
  <2> QED BY <2>2, <2>4, <2>5, <2>6
<1> QED BY <1>3

\* Forgetting results, or rows, takes away the names of the rows concerned.
LEMMA HoldersPruned ==
  ASSUME Shape, NEW S \in SUBSET DOMAIN actions, NEW b, b # None,
         actions' = [i \in DOMAIN actions |-> IF i \in S THEN [actions[i] EXCEPT !.result = Empty] ELSE actions[i]]
  PROVE  /\ Holders(DOMAIN actions, "result", b)' = Holders(DOMAIN actions \ S, "result", b)
         /\ Holders(DOMAIN actions, "params", b)' = Holders(DOMAIN actions, "params", b)
<1>1. \A i \in DOMAIN actions : actions'[i]["params"] = actions[i]["params"]
  OBVIOUS
<1>2. {i \in DOMAIN actions' : actions'[i]["params"].hash = b} = {i \in DOMAIN actions : actions[i]["params"].hash = b}
  BY <1>1
<1>3. \A i \in DOMAIN actions :
        actions'[i]["result"].hash = b <=> i \notin S /\ actions[i]["result"].hash = b
  <2> TAKE i \in DOMAIN actions
  <2>1. CASE i \in S
    <3>1. actions'[i]["result"] = Empty
      BY <2>1 DEF Shape, Rows
    <3> QED BY <2>1, <3>1 DEF Empty
  <2>2. CASE i \notin S
    BY <2>2
  <2> QED BY <2>1, <2>2
<1>4. {i \in DOMAIN actions' : actions'[i]["result"].hash = b}
        = {i \in DOMAIN actions \ S : actions[i]["result"].hash = b}
  BY <1>3
<1> QED BY <1>2, <1>4 DEF Holders

LEMMA HoldersDropped ==
  ASSUME Shape, NEW S \in SUBSET DOMAIN actions, NEW b, NEW field,
         actions' = [i \in DOMAIN actions \ S |-> actions[i]]
  PROVE  Holders(DOMAIN actions, field, b)' = Holders(DOMAIN actions \ S, field, b)
<1>1. {i \in DOMAIN actions' : actions'[i][field].hash = b}
        = {i \in DOMAIN actions \ S : actions[i][field].hash = b}
  OBVIOUS
<1> QED BY <1>1 DEF Holders

\* An unchanged table keeps its holders, an unchanged list of documents its citations.
LEMMA HoldersSame ==
  ASSUME actions' = actions, NEW b
  PROVE  /\ Holders(DOMAIN actions, "result", b)' = Holders(DOMAIN actions, "result", b)
         /\ Holders(DOMAIN actions, "params", b)' = Holders(DOMAIN actions, "params", b)
BY DEF Holders

LEMMA CitingSame == ASSUME docs' = docs, NEW b PROVE Citing(b)' = Citing(b)
BY DEF Citing

LEMMA CitingFiled ==
  ASSUME Shape, FileInsert, NEW b
  PROVE  Cardinality(Citing(b))' = Cardinality(Citing(b)) + (IF job.doc.body.hash = b THEN 1 ELSE 0)
<1>1. Len(docs) \in Nat /\ DOMAIN docs = 1..Len(docs)
  BY LenProperties DEF Shape
<1>2. job.doc \in Filed(1..(nextId - 1))
  BY DEF FileInsert, Jobs, Quiet, Shape, Filed
<1>3. /\ DOMAIN docs' = 1..(Len(docs) + 1) /\ docs'[Len(docs) + 1] = job.doc
      /\ \A d \in DOMAIN docs : docs'[d] = docs[d]
  <2>1. docs \in Seq(Filed(1..(nextId - 1))) /\ docs' = Append(docs, job.doc)
    BY DEF Shape, FileInsert
  <2>2. /\ Append(docs, job.doc) \in Seq(Filed(1..(nextId - 1)))
        /\ Len(Append(docs, job.doc)) = Len(docs) + 1
        /\ \A d \in 1..Len(docs) : Append(docs, job.doc)[d] = docs[d]
        /\ Append(docs, job.doc)[Len(docs) + 1] = job.doc
    BY <1>2, <2>1, AppendProperties
  <2>3. DOMAIN Append(docs, job.doc) = 1..Len(Append(docs, job.doc))
    BY <2>2, LenProperties
  <2> QED BY <1>1, <2>1, <2>2, <2>3
<1>4. Citing(b)' = IF job.doc.body.hash = b THEN Citing(b) \cup {Len(docs) + 1} ELSE Citing(b)
  BY <1>1, <1>3 DEF Citing
<1>5. Len(docs) + 1 \notin Citing(b)
  BY <1>1 DEF Citing
<1>6. IsFiniteSet(Citing(b)) /\ Cardinality(Citing(b)) \in Nat
  BY NamesType DEF NamesAddUp
<1>7. Cardinality(Citing(b) \cup {Len(docs) + 1}) = Cardinality(Citing(b)) + 1
  BY <1>5, <1>6, FS_AddElement
<1> HIDE DEF Citing
<1> QED BY <1>4, <1>6, <1>7

\* Steps that leave tables and blobs alone leave the counts exact.
LEMMA RefsNext == Shape /\ RefsCover /\ [Next]_vars => RefsCover'
<1> SUFFICES ASSUME Shape, RefsCover, [Next]_vars PROVE RefsCover'
  OBVIOUS
<1>n. NamesAddUp /\ NamesAddUp'
  BY ShapeNext, NamesType, PTL
<1>a. /\ \A b \in Body : Covers(Worth(resultBlobs, b), ResultNames(b))
      /\ \A b \in Args : Covers(Worth(paramsBlobs, b), ParamsNames(b))
  BY RefsCoverWorth
<1>b. /\ \A b \in Body : Worth(resultBlobs, b) \in Nat
      /\ \A b \in Args : Worth(paramsBlobs, b) \in Nat
  BY DEF Shape, Worth, Counts, NoBlob
<1>c. crashes \in Nat
  BY DEF Shape
<1> SUFFICES /\ \A b \in Body : Covers(Worth(resultBlobs, b), ResultNames(b))'
             /\ \A b \in Args : Covers(Worth(paramsBlobs, b), ParamsNames(b))'
  BY DEF RefsCover, Worth
<1>1. CASE LogResult
  <2> PICK result \in Body, params \in Args, s \in 1..session, bulk \in BOOLEAN :
        /\ resultBlobs' = Interned(resultBlobs, result)
        /\ job' = [at |-> "result", params |-> params,
             row |-> [session |-> s, bulk |-> bulk, delivered |-> FALSE, result |-> CellOf(resultBlobs, result),
                      params |-> Empty]]
        /\ UNCHANGED <<actions, docs, paramsBlobs, nextId, session, active, memo, dirty, crashes>>
        /\ job = Quiet
    BY <1>1 DEF LogResult
  <2>1. ASSUME NEW b \in Body PROVE Covers(Worth(resultBlobs, b), ResultNames(b))'
    <3>1. Worth(resultBlobs, b)' = IF b = result THEN Worth(resultBlobs, b) + 1 ELSE Worth(resultBlobs, b)
      BY InternedWorth DEF Shape, Worth
    <3>2. Pending(b)' = (IF b = result THEN 1 ELSE 0) /\ Pending(b) = 0
      BY InternedType DEF Pending, Quiet, CellOf
    <3>3. ResultNames(b)' = IF b = result THEN ResultNames(b) + 1 ELSE ResultNames(b)
      BY <1>n, <3>2, HoldersSame, CitingSame DEF NamesAddUp
    <3> QED BY <1>n, <1>a, <1>b, <3>1, <3>3 DEF Covers, NamesAddUp
  <2>2. ASSUME NEW b \in Args PROVE Covers(Worth(paramsBlobs, b), ParamsNames(b))'
    <3>1. PendingParams(b)' = 0 /\ PendingParams(b) = 0
      BY DEF PendingParams, Quiet
    <3>2. ParamsNames(b)' = ParamsNames(b)
      BY <1>n, <3>1, HoldersSame DEF NamesAddUp
    <3> QED BY <1>a, <3>2 DEF Worth, Covers
  <2> QED BY <2>1, <2>2
<1>2. CASE LogParams
  <2>0. job \in [at : {"result"}, params : Args, row : Rows(Naming(Body), {Empty})]
    BY <1>2 DEF LogParams, Shape, Jobs, Quiet
  <2> DEFINE p == job.params
  <2>1. /\ job'.at = "params" /\ job'.row.result = job.row.result /\ job'.row.params = CellOf(paramsBlobs, p)
        /\ paramsBlobs' = Interned(paramsBlobs, p)
        /\ UNCHANGED <<actions, docs, resultBlobs, nextId, session, active, memo, dirty, crashes>>
    BY <1>2, <2>0 DEF LogParams, Rows
  <2>2. ASSUME NEW b \in Body PROVE Covers(Worth(resultBlobs, b), ResultNames(b))'
    <3>1. Pending(b)' = Pending(b)
      BY <2>0, <2>1 DEF Pending
    <3>2. ResultNames(b)' = ResultNames(b)
      BY <1>n, <2>1, <3>1, HoldersSame, CitingSame DEF NamesAddUp
    <3> QED BY <1>a, <2>1, <3>2 DEF Worth, Covers
  <2>3. ASSUME NEW b \in Args PROVE Covers(Worth(paramsBlobs, b), ParamsNames(b))'
    <3>1. Worth(paramsBlobs, b)' = IF b = p THEN Worth(paramsBlobs, b) + 1 ELSE Worth(paramsBlobs, b)
      BY <2>0, <2>1, InternedWorth DEF Shape, Worth
    <3>2. PendingParams(b)' = (IF b = p THEN 1 ELSE 0) /\ PendingParams(b) = 0
      BY <2>0, <2>1 DEF PendingParams, CellOf
    <3>3. ParamsNames(b)' = IF b = p THEN ParamsNames(b) + 1 ELSE ParamsNames(b)
      BY <1>n, <2>1, <3>2, HoldersSame DEF NamesAddUp
    <3> QED BY <1>n, <1>a, <1>b, <2>1, <3>1, <3>3 DEF Covers, NamesAddUp
  <2> QED BY <2>2, <2>3
<1>3. CASE LogInsert
  <2>1. job.at = "params" /\ job'.at = "none"
    BY <1>3 DEF LogInsert, Quiet
  <2>2. ASSUME NEW b PROVE ResultNames(b)' = ResultNames(b) /\ ParamsNames(b)' = ParamsNames(b)
    <3>1. /\ Pending(b) = IF job.row.result.hash = b THEN 1 ELSE 0
          /\ PendingParams(b) = IF job.row.params.hash = b THEN 1 ELSE 0
          /\ Pending(b)' = 0 /\ PendingParams(b)' = 0
      BY <2>1 DEF Pending, PendingParams
    <3>2. Citing(b)' = Citing(b)
      BY <1>3, CitingSame DEF LogInsert
    <3> QED BY <1>n, <1>3, <3>1, <3>2, HoldersInserted DEF NamesAddUp
  <2> QED BY <1>a, <1>3, <2>2 DEF LogInsert, Worth, Covers
<1>4. CASE FileBody
  <2> PICK d \in Body, i \in DOMAIN actions \cup {None} :
        /\ resultBlobs' = Interned(resultBlobs, d)
        /\ job' = [at |-> "doc", doc |-> [action |-> i, body |-> CellOf(resultBlobs, d)]]
        /\ UNCHANGED <<actions, docs, paramsBlobs, nextId, session, active, memo, dirty, crashes>>
        /\ job = Quiet
    BY <1>4 DEF FileBody
  <2>1. ASSUME NEW b \in Body PROVE Covers(Worth(resultBlobs, b), ResultNames(b))'
    <3>1. Worth(resultBlobs, b)' = IF b = d THEN Worth(resultBlobs, b) + 1 ELSE Worth(resultBlobs, b)
      BY InternedWorth DEF Shape, Worth
    <3>2. Pending(b)' = (IF b = d THEN 1 ELSE 0) /\ Pending(b) = 0
      BY DEF Pending, Quiet, CellOf
    <3>3. ResultNames(b)' = IF b = d THEN ResultNames(b) + 1 ELSE ResultNames(b)
      BY <1>n, <3>2, HoldersSame, CitingSame DEF NamesAddUp
    <3> QED BY <1>n, <1>a, <1>b, <3>1, <3>3 DEF Covers, NamesAddUp
  <2>2. ASSUME NEW b \in Args PROVE Covers(Worth(paramsBlobs, b), ParamsNames(b))'
    <3>1. PendingParams(b)' = 0 /\ PendingParams(b) = 0
      BY DEF PendingParams, Quiet
    <3>2. ParamsNames(b)' = ParamsNames(b)
      BY <1>n, <3>1, HoldersSame DEF NamesAddUp
    <3> QED BY <1>a, <3>2 DEF Worth, Covers
  <2> QED BY <2>1, <2>2
<1>5. CASE FileInsert
  <2>1. job.at = "doc" /\ job'.at = "none"
    BY <1>5 DEF FileInsert, Quiet
  <2>2. ASSUME NEW b PROVE ResultNames(b)' = ResultNames(b) /\ ParamsNames(b)' = ParamsNames(b)
    <3>1. /\ Pending(b) = IF job.doc.body.hash = b THEN 1 ELSE 0
          /\ PendingParams(b) = 0 /\ Pending(b)' = 0 /\ PendingParams(b)' = 0
      BY <2>1 DEF Pending, PendingParams
    <3>2. /\ Holders(DOMAIN actions, "result", b)' = Holders(DOMAIN actions, "result", b)
          /\ Holders(DOMAIN actions, "params", b)' = Holders(DOMAIN actions, "params", b)
      BY <1>5, HoldersSame DEF FileInsert
    <3> QED BY <1>n, <1>5, <3>1, <3>2, CitingFiled DEF NamesAddUp
  <2> QED BY <1>a, <1>5, <2>2 DEF FileInsert, Worth, Covers
<1>6. CASE Update
  <2> PICK u \in DOMAIN actions :
        /\ actions' = [actions EXCEPT ![u].delivered = TRUE]
        /\ UNCHANGED <<docs, resultBlobs, paramsBlobs, nextId, session, active, job, memo, crashes>>
    BY <1>6 DEF Update
  <2>1. /\ DOMAIN actions' = DOMAIN actions
        /\ \A i \in DOMAIN actions : /\ actions'[i]["result"] = actions[i]["result"]
                                     /\ actions'[i]["params"] = actions[i]["params"]
    OBVIOUS
  <2>2. ASSUME NEW b PROVE ResultNames(b)' = ResultNames(b) /\ ParamsNames(b)' = ParamsNames(b)
    <3>1. ASSUME NEW field \in {"result", "params"}
          PROVE  Holders(DOMAIN actions, field, b)' = Holders(DOMAIN actions, field, b)
      <4>1. {i \in DOMAIN actions' : actions'[i][field].hash = b} = {i \in DOMAIN actions : actions[i][field].hash = b}
        BY <2>1
      <4> QED BY <4>1 DEF Holders
    <3>2. Pending(b)' = Pending(b) /\ PendingParams(b)' = PendingParams(b)
      BY DEF Pending, PendingParams
    <3> QED BY <1>n, <3>1, <3>2, CitingSame DEF NamesAddUp
  <2> QED BY <1>a, <2>2 DEF Worth, Covers
<1>7. CASE Crash
  <2>1. job' = Quiet /\ crashes' = crashes + 1 /\ UNCHANGED tables
    BY <1>7 DEF Crash
  <2>2. ASSUME NEW b PROVE ResultNames(b)' <= ResultNames(b) /\ ParamsNames(b)' <= ParamsNames(b)
    <3>1. Pending(b)' = 0 /\ PendingParams(b)' = 0
      BY <2>1 DEF Pending, PendingParams, Quiet
    <3> QED BY <1>n, <2>1, <3>1, HoldersSame, CitingSame DEF NamesAddUp, tables
  <2> QED BY <1>n, <1>a, <1>b, <1>c, <2>1, <2>2 DEF Worth, Covers, tables, NamesAddUp
<1>8. CASE PruneResults
  <2> PICK cut \in DOMAIN actions :
        LET S == {i \in Old(cut) : actions[i].result # Empty}
        IN /\ resultBlobs' = Released(resultBlobs, S, "result")
           /\ actions' = [i \in DOMAIN actions |->
                            IF i \in S THEN [actions[i] EXCEPT !.result = Empty] ELSE actions[i]]
           /\ UNCHANGED <<docs, paramsBlobs, nextId, session, active, job, dirty, crashes>>
    BY <1>8 DEF PruneResults
  <2> DEFINE S == {i \in Old(cut) : actions[i].result # Empty}
  <2>0. S \in SUBSET DOMAIN actions
    BY DEF Old
  <2> HIDE DEF S
  <2>1. ASSUME NEW b PROVE Pending(b)' = Pending(b) /\ PendingParams(b)' = PendingParams(b)
    BY DEF Pending, PendingParams
  <2>2. ASSUME NEW b \in Body PROVE Covers(Worth(resultBlobs, b), ResultNames(b))'
    <3> DEFINE h == Holders(S, "result", b)
    <3>0. b # None
      BY JournalAssumption DEF JournalAssumption
    <3>1. /\ h \in Nat /\ h <= Holders(DOMAIN actions, "result", b)
          /\ Holders(DOMAIN actions \ S, "result", b) = Holders(DOMAIN actions, "result", b) - h
      BY <2>0, HoldersSplit DEF Shape
    <3>2. Holders(DOMAIN actions, "result", b)' = Holders(DOMAIN actions \ S, "result", b)
      BY <2>0, <3>0, HoldersPruned DEF S
    <3>3. Worth(resultBlobs, b)' = IF Worth(resultBlobs, b) <= h THEN 0 ELSE Worth(resultBlobs, b) - h
      BY <3>1, ReleasedWorth DEF Shape, Worth, S
    <3> HIDE DEF h
    <3>4. ResultNames(b)' = ResultNames(b) - h /\ h <= ResultNames(b)
      BY <1>n, <2>1, <3>1, <3>2, CitingSame DEF NamesAddUp
    <3>5. Covers(IF Worth(resultBlobs, b) <= h THEN 0 ELSE Worth(resultBlobs, b) - h, ResultNames(b) - h)
      BY <1>n, <1>a, <1>b, <3>1, <3>4, CoversReleased DEF NamesAddUp
    <3> QED BY <3>3, <3>4, <3>5 DEF Covers
  <2>3. ASSUME NEW b \in Args PROVE Covers(Worth(paramsBlobs, b), ParamsNames(b))'
    <3>0. b # None
      BY JournalAssumption DEF JournalAssumption
    <3>1. Holders(DOMAIN actions, "params", b)' = Holders(DOMAIN actions, "params", b)
      BY <2>0, <3>0, HoldersPruned DEF S
    <3>2. ParamsNames(b)' = ParamsNames(b)
      BY <1>n, <2>1, <3>1 DEF NamesAddUp
    <3> QED BY <1>a, <3>2 DEF Worth, Covers
  <2> QED BY <2>2, <2>3
<1>9. CASE PruneReads
  <2> PICK cut \in DOMAIN actions :
        LET S == Prunable(cut)
        IN /\ resultBlobs' = Released(resultBlobs, S, "result") /\ paramsBlobs' = Released(paramsBlobs, S, "params")
           /\ actions' = [i \in DOMAIN actions \ S |-> actions[i]]
           /\ UNCHANGED <<docs, nextId, session, active, job, dirty, crashes>>
    BY <1>9 DEF PruneReads
  <2> DEFINE S == Prunable(cut)
  <2>0. S \in SUBSET DOMAIN actions
    BY DEF Prunable, Old
  <2> HIDE DEF S
  <2>1. ASSUME NEW b PROVE Pending(b)' = Pending(b) /\ PendingParams(b)' = PendingParams(b)
    BY DEF Pending, PendingParams
  <2>2. ASSUME NEW b, NEW field \in {"result", "params"}
        PROVE  /\ Holders(S, field, b) \in Nat /\ Holders(S, field, b) <= Holders(DOMAIN actions, field, b)
               /\ Holders(DOMAIN actions, field, b)' = Holders(DOMAIN actions, field, b) - Holders(S, field, b)
    <3>1. Holders(DOMAIN actions, field, b)' = Holders(DOMAIN actions \ S, field, b)
      BY <2>0, HoldersDropped DEF S
    <3> QED BY <2>0, <3>1, HoldersSplit DEF Shape
  <2>3. ASSUME NEW b \in Body PROVE Covers(Worth(resultBlobs, b), ResultNames(b))'
    <3> DEFINE h == Holders(S, "result", b)
    <3>0. h \in Nat
      BY <2>2
    <3>1. Worth(resultBlobs, b)' = IF Worth(resultBlobs, b) <= h THEN 0 ELSE Worth(resultBlobs, b) - h
      BY <3>0, ReleasedWorth DEF Shape, Worth, S
    <3>2. h \in Nat /\ ResultNames(b)' = ResultNames(b) - h /\ h <= ResultNames(b)
      <4>1. /\ h \in Nat /\ h <= Holders(DOMAIN actions, "result", b)
            /\ Holders(DOMAIN actions, "result", b)' = Holders(DOMAIN actions, "result", b) - h
        BY <2>2
      <4> HIDE DEF h
      <4>2. /\ ResultNames(b) = Holders(DOMAIN actions, "result", b) + Cardinality(Citing(b)) + Pending(b)
            /\ ResultNames(b)' = Holders(DOMAIN actions, "result", b)' + Cardinality(Citing(b)) + Pending(b)
            /\ Holders(DOMAIN actions, "result", b) \in Nat /\ Cardinality(Citing(b)) \in Nat /\ Pending(b) \in Nat
        BY <1>n, <2>1, CitingSame DEF NamesAddUp
      <4> QED BY <4>1, <4>2
    <3> HIDE DEF h
    <3>3. Covers(IF Worth(resultBlobs, b) <= h THEN 0 ELSE Worth(resultBlobs, b) - h, ResultNames(b) - h)
      BY <1>n, <1>a, <1>b, <3>2, CoversReleased DEF NamesAddUp
    <3> QED BY <3>1, <3>2, <3>3 DEF Covers
  <2>4. ASSUME NEW b \in Args PROVE Covers(Worth(paramsBlobs, b), ParamsNames(b))'
    <3> DEFINE h == Holders(S, "params", b)
    <3>0. h \in Nat
      BY <2>2
    <3>1. Worth(paramsBlobs, b)' = IF Worth(paramsBlobs, b) <= h THEN 0 ELSE Worth(paramsBlobs, b) - h
      BY <3>0, ReleasedWorth DEF Shape, Worth, S
    <3>2. h \in Nat /\ ParamsNames(b)' = ParamsNames(b) - h /\ h <= ParamsNames(b)
      <4>1. /\ h \in Nat /\ h <= Holders(DOMAIN actions, "params", b)
            /\ Holders(DOMAIN actions, "params", b)' = Holders(DOMAIN actions, "params", b) - h
        BY <2>2
      <4> HIDE DEF h
      <4>2. /\ ParamsNames(b) = Holders(DOMAIN actions, "params", b) + PendingParams(b)
            /\ ParamsNames(b)' = Holders(DOMAIN actions, "params", b)' + PendingParams(b)
            /\ Holders(DOMAIN actions, "params", b) \in Nat /\ PendingParams(b) \in Nat
        BY <1>n, <2>1 DEF NamesAddUp
      <4> QED BY <4>1, <4>2
    <3> HIDE DEF h
    <3>3. Covers(IF Worth(paramsBlobs, b) <= h THEN 0 ELSE Worth(paramsBlobs, b) - h, ParamsNames(b) - h)
      BY <1>n, <1>a, <1>b, <3>2, CoversReleased DEF NamesAddUp
    <3> QED BY <3>1, <3>2, <3>3 DEF Covers
  <2> QED BY <2>3, <2>4
<1>10. CASE StartSession \/ EndSession \/ Analyse \/ UNCHANGED vars
  <2>1. UNCHANGED <<actions, docs, resultBlobs, paramsBlobs, job, crashes>>
    BY <1>10 DEF StartSession, EndSession, Analyse, vars, tables
  <2>2. ASSUME NEW b PROVE ResultNames(b)' = ResultNames(b) /\ ParamsNames(b)' = ParamsNames(b)
    BY <2>1 DEF ResultNames, ParamsNames, Holders
  <2> QED BY <1>a, <2>1, <2>2 DEF Worth, Covers
<1> QED BY <1>1, <1>2, <1>3, <1>4, <1>5, <1>6, <1>7, <1>8, <1>9, <1>10 DEF Next

-----------------------------------------------------------------------------
\* A reader of the tables is given the body a row names: its own copy, or the blob, which is there because the
\* row counts.
NamesResolve ==
  /\ \A i \in DOMAIN actions : /\ Resolved(actions[i].result, resultBlobs) = actions[i].result.hash
                               /\ Resolved(actions[i].params, paramsBlobs) = actions[i].params.hash
  /\ \A d \in DOMAIN docs : Resolved(docs[d].body, resultBlobs) = docs[d].body.hash

LEMMA CellResolves ==
  ASSUME NEW B, None \notin B, NEW blobs \in [B -> Counts], NEW cell \in Cells(B),
         cell.hash \in B => blobs[cell.hash] # NoBlob
  PROVE  Resolved(cell, blobs) = cell.hash
BY DEF Cells, Naming, Empty, Resolved

LEMMA NamedIsKept == Shape /\ RefsCover => NamesResolve
<1> SUFFICES ASSUME Shape, RefsCover PROVE NamesResolve
  OBVIOUS
<1>n. NamesAddUp
  BY NamesType
<1>1. ASSUME NEW b \in Body, ResultNames(b) > 0 PROVE resultBlobs[b] # NoBlob
  BY <1>1, <1>n DEF RefsCover, Covers, NamesAddUp
<1>2. ASSUME NEW b \in Args, ParamsNames(b) > 0 PROVE paramsBlobs[b] # NoBlob
  BY <1>2, <1>n DEF RefsCover, Covers, NamesAddUp
<1>3. ASSUME NEW i \in DOMAIN actions, NEW field \in {"result", "params"}
      PROVE  Holders(DOMAIN actions, field, actions[i][field].hash) > 0
  <2> DEFINE H == {j \in DOMAIN actions : actions[j][field].hash = actions[i][field].hash}
  <2>1. IsFiniteSet(H) /\ Holders(DOMAIN actions, field, actions[i][field].hash) \in Nat
    BY HoldersType DEF Shape
  <2>2. H # {}
    OBVIOUS
  <2> HIDE DEF H
  <2>3. Cardinality(H) # 0
    BY <2>1, <2>2, FS_EmptySet
  <2> QED BY <2>1, <2>3 DEF Holders, H
<1>4. ASSUME NEW d \in DOMAIN docs PROVE Cardinality(Citing(docs[d].body.hash)) > 0
  <2>1. Citing(docs[d].body.hash) # {}
    BY DEF Citing
  <2>2. IsFiniteSet(Citing(docs[d].body.hash)) /\ Cardinality(Citing(docs[d].body.hash)) \in Nat
    BY <1>n DEF NamesAddUp
  <2>3. Cardinality(Citing(docs[d].body.hash)) # 0
    BY <2>1, <2>2, FS_EmptySet
  <2> QED BY <2>2, <2>3
<1>5. ASSUME NEW i \in DOMAIN actions PROVE Resolved(actions[i].result, resultBlobs) = actions[i].result.hash
  <2>1. actions[i].result \in Cells(Body)
    BY DEF Shape, Rows
  <2>2. Holders(DOMAIN actions, "result", actions[i].result.hash) > 0
    BY <1>3
  <2>3. ResultNames(actions[i].result.hash) > 0
    BY <1>n, <2>2 DEF NamesAddUp
  <2> QED BY <1>1, <2>1, <2>3, CellResolves, JournalAssumption DEF Shape, JournalAssumption
<1>6. ASSUME NEW i \in DOMAIN actions PROVE Resolved(actions[i].params, paramsBlobs) = actions[i].params.hash
  <2>1. actions[i].params \in Cells(Args)
    BY DEF Shape, Rows, Cells
  <2>2. Holders(DOMAIN actions, "params", actions[i].params.hash) > 0
    BY <1>3
  <2>3. ParamsNames(actions[i].params.hash) > 0
    BY <1>n, <2>2 DEF NamesAddUp
  <2> QED BY <1>2, <2>1, <2>3, CellResolves, JournalAssumption DEF Shape, JournalAssumption
<1>7. ASSUME NEW d \in DOMAIN docs PROVE Resolved(docs[d].body, resultBlobs) = docs[d].body.hash
  <2>1. docs[d].body \in Cells(Body)
    <3>1. docs[d] \in Filed(1..(nextId - 1))
      BY LenProperties, ElementOfSeq DEF Shape
    <3> QED BY <3>1 DEF Filed, Cells
  <2>2. ResultNames(docs[d].body.hash) > 0
    BY <1>n, <1>4 DEF NamesAddUp
  <2> QED BY <1>1, <2>1, <2>2, CellResolves, JournalAssumption DEF Shape, JournalAssumption
<1> QED BY <1>5, <1>6, <1>7 DEF NamesResolve

-----------------------------------------------------------------------------
\* Tables only gain the next row and lose some.
LEMMA TableGrows ==
  ASSUME [Next]_vars
  PROVE  LogInsert \/ DOMAIN actions' \subseteq DOMAIN actions
BY DEF Next, vars, tables, StartSession, EndSession, LogResult, LogParams, FileBody, FileInsert, Update, Crash,
       PruneResults, PruneReads, Analyse

LEMMA OrderedNext == Shape /\ Ordered /\ [Next]_vars => Ordered'
<1> SUFFICES ASSUME Shape, Ordered, [Next]_vars, NEW S \in SUBSET DOMAIN actions', S # {}
             PROVE  \E i \in S : \A j \in S : j <= i
  BY DEF Ordered
<1>1. CASE LogInsert
  <2>1. DOMAIN actions' = DOMAIN actions \cup {nextId} /\ \A j \in DOMAIN actions : j <= nextId
    BY <1>1 DEF LogInsert, Shape
  <2>2. CASE nextId \in S
    BY <2>1, <2>2 DEF Shape
  <2>3. CASE nextId \notin S
    BY <2>1, <2>3 DEF Ordered
  <2> QED BY <2>2, <2>3
<1>2. CASE DOMAIN actions' \subseteq DOMAIN actions
  BY <1>2 DEF Ordered
<1> QED BY <1>1, <1>2, TableGrows

LEMMA NewestIsMax ==
  ASSUME Shape, Ordered
  PROVE  Newest(DOMAIN actions) \in 0..(nextId - 1) /\ \A j \in DOMAIN actions : j <= Newest(DOMAIN actions)
<1>1. CASE DOMAIN actions = {}
  BY <1>1 DEF Newest, Shape
<1>2. CASE DOMAIN actions # {}
  <2>1. \E i \in DOMAIN actions : \A j \in DOMAIN actions : j <= i
    BY <1>2 DEF Ordered
  <2> DEFINE m == CHOOSE i \in DOMAIN actions : \A j \in DOMAIN actions : j <= i
  <2>2. m \in DOMAIN actions /\ \A j \in DOMAIN actions : j <= m
    BY <2>1
  <2> QED BY <1>2, <2>2 DEF Newest, Shape
<1> QED BY <1>1, <1>2

LEMMA MemoNext == IInv /\ [Next]_vars => (MemoShape /\ MemoExact)'
<1> SUFFICES ASSUME IInv, [Next]_vars PROVE (MemoShape /\ MemoExact)'
  OBVIOUS
<1> USE DEF IInv
<1>1. NamesResolve /\ NamesResolve'
  BY ShapeNext, RefsNext, NamedIsKept, PTL
<1>2. ASSUME UNCHANGED <<memo, dirty>>, DOMAIN actions \subseteq DOMAIN actions', nextId' \in Nat, nextId <= nextId',
             \A i \in DOMAIN actions' \ DOMAIN actions : i >= nextId,
             \A i \in DOMAIN actions : actions'[i] = actions[i]
      PROVE  (MemoShape /\ MemoExact)'
  <2>1. \A i \in DOMAIN actions : Slim(i)' = Slim(i)
    BY <1>1, <1>2 DEF Slim, NamesResolve
  <2>2. MemoShape'
    BY <1>2 DEF MemoShape, Shape
  <2> SUFFICES ASSUME memo # None
               PROVE  /\ DOMAIN memo.rows = {i \in DOMAIN actions' : i <= memo.last}
                      /\ \A i \in DOMAIN memo.rows : memo.rows[i] = Slim(i)' \/ i \in dirty
    BY <1>2, <2>2 DEF MemoExact
  <2>3. \A i \in DOMAIN actions' : i <= memo.last => i \in DOMAIN actions
    <3>1. Shape'
      BY ShapeNext
    <3>2. DOMAIN actions' \subseteq Int
      BY <3>1 DEF Shape
    <3> QED BY <1>2, <3>2 DEF MemoShape, Shape
  <2>4. DOMAIN memo.rows = {i \in DOMAIN actions' : i <= memo.last}
    BY <1>2, <2>3 DEF MemoExact
  <2>5. \A i \in DOMAIN memo.rows : memo.rows[i] = Slim(i)' \/ i \in dirty
    BY <2>1 DEF MemoExact
  <2> QED BY <2>4, <2>5
<1>3. CASE StartSession \/ EndSession \/ LogResult \/ LogParams \/ FileBody \/ FileInsert \/ UNCHANGED vars
  <2>1. UNCHANGED <<memo, dirty, actions, nextId>>
    BY <1>3 DEF StartSession, EndSession, LogResult, LogParams, FileBody, FileInsert, vars, tables
  <2> QED BY <1>2, <2>1 DEF Shape
<1>4. CASE LogInsert
  <2>1. /\ UNCHANGED <<memo, dirty>> /\ DOMAIN actions' = DOMAIN actions \cup {nextId} /\ nextId' = nextId + 1
        /\ \A i \in DOMAIN actions : actions'[i] = actions[i]
    BY <1>4 DEF LogInsert, Shape
  <2> QED BY <1>2, <2>1 DEF Shape
<1>5. CASE Update
  <2> PICK u \in DOMAIN actions :
        /\ actions' = [actions EXCEPT ![u].delivered = TRUE] /\ dirty' = dirty \cup {u}
        /\ UNCHANGED <<docs, resultBlobs, paramsBlobs, nextId, session, active, job, memo, crashes>>
    BY <1>5 DEF Update
  <2>1. \A i \in DOMAIN actions : i # u => Slim(i)' = Slim(i)
    BY DEF Slim
  <2> QED BY <2>1 DEF MemoShape, MemoExact, Shape
<1>6. CASE Crash \/ PruneResults \/ PruneReads
  <2>1. memo' = None
    BY <1>6 DEF Crash, PruneResults, PruneReads
  <2> QED BY <2>1 DEF MemoShape, MemoExact
<1>7. CASE Analyse
  <2>1. dirty' = {} /\ UNCHANGED tables
    BY <1>7 DEF Analyse
  <2>2. \A i : Slim(i)' = Slim(i)
    BY <2>1 DEF Slim, tables
  <2>3. Newest(DOMAIN actions) \in 0..(nextId - 1) /\ \A j \in DOMAIN actions : j <= Newest(DOMAIN actions)
    BY NewestIsMax
  <2>4. /\ memo'.last = Newest(DOMAIN actions) /\ DOMAIN memo'.rows = DOMAIN actions
        /\ \A i \in DOMAIN actions : memo'.rows[i] = Slim(i)
    <3>1. CASE memo = None
      BY <1>7, <3>1 DEF Analyse
    <3>2. CASE memo # None
      <4>1. DOMAIN CaughtUp(memo) = DOMAIN actions
        <5>1. DOMAIN CaughtUp(memo) = DOMAIN memo.rows \cup {j \in DOMAIN actions : j > memo.last}
          BY DEF CaughtUp
        <5>2. DOMAIN memo.rows = {j \in DOMAIN actions : j <= memo.last}
          BY <3>2 DEF MemoExact
        <5>3. memo.last \in Int /\ DOMAIN actions \subseteq Int
          BY <3>2 DEF MemoShape, Shape
        <5> QED BY <5>1, <5>2, <5>3
      <4>2. \A i \in DOMAIN actions : CaughtUp(memo)[i] = Slim(i)
        BY <3>2, <4>1 DEF CaughtUp, MemoExact
      <4> QED BY <1>7, <3>2, <4>1, <4>2 DEF Analyse
    <3> QED BY <3>1, <3>2
  <2> QED BY <2>1, <2>2, <2>3, <2>4 DEF MemoShape, MemoExact, tables
<1> QED BY <1>3, <1>4, <1>5, <1>6, <1>7 DEF Next

LEMMA IInvInit == Init => IInv
<1> SUFFICES ASSUME Init PROVE IInv
  OBVIOUS
<1>1. DOMAIN actions = {} /\ memo = None
  BY DEF Init
<1> QED BY <1>1, ShapeInit, RefsInit DEF IInv, Ordered, MemoShape, MemoExact

LEMMA IInvNext == IInv /\ [Next]_vars => IInv'
BY ShapeNext, RefsNext, OrderedNext, MemoNext DEF IInv

LEMMA Invariance == Spec => []IInv
BY IInvInit, IInvNext, PTL DEF Spec

-----------------------------------------------------------------------------
\* For any bodies and bounds: rows, documents, blobs and the write under way keep their shape (db.mjs schema).
THEOREM TypeCorrect == Spec => []TypeOK
<1>1. IInv => TypeOK
  <2> SUFFICES ASSUME IInv PROVE TypeOK
    OBVIOUS
  <2> USE DEF IInv, Shape
  <2>1. \A i \in DOMAIN actions :
          actions[i] \in [session : 1..session, bulk : BOOLEAN, delivered : BOOLEAN,
                          result : [body : Body \cup {None}, hash : Body \cup {None}],
                          params : [body : Args \cup {None}, hash : Args \cup {None}]]
    BY DEF Rows, Cells, Naming, Empty
  <2>2. \A d \in DOMAIN docs : /\ docs[d].body \in [body : Body \cup {None}, hash : Body \cup {None}]
                               /\ docs[d].action \in 1..(nextId - 1) \cup {None}
    <3> TAKE d \in DOMAIN docs
    <3>1. docs[d] \in Filed(1..(nextId - 1))
      BY LenProperties, ElementOfSeq
    <3> QED BY <3>1 DEF Filed, Naming
  <2>3. \A blobs \in {resultBlobs, paramsBlobs} : \A b \in DOMAIN blobs : blobs[b] \in {NoBlob} \cup (Nat \ {0})
    BY DEF Counts
  <2>4. job.at \in {"none", "result", "params", "doc"}
    BY DEF Jobs, Quiet
  <2> QED BY <2>1, <2>2, <2>3, <2>4 DEF TypeOK
<1> QED BY <1>1, Invariance, PTL

\* A blob's count is never below the number of rows, documents and writes under way that name it, and equals it
\* as long as no process ended in between (internResult, internParams, releaseBlobRefs).
THEOREM CountsCover == Spec => []RefsCover
<1>1. IInv => RefsCover
  BY DEF IInv
<1> QED BY <1>1, Invariance, PTL

\* The rows analytics remembers are the table's, up to the newest it read, but for those marked to be re-read
\* (allActionsIncremental).
THEOREM MemoIsExact == Spec => []MemoExact
<1>1. IInv => MemoExact
  BY DEF IInv
<1> QED BY <1>1, Invariance, PTL

-----------------------------------------------------------------------------
\* What a reader is given, in terms of the bodies the rows and documents name.
RowRead(row) == [session |-> row.session, bulk |-> row.bulk, result |-> row.result.hash, params |-> row.params.hash]
DocRead(doc) == [action |-> doc.action, body |-> doc.body.hash]
ReadsAre ==
  /\ Entries = [i \in DOMAIN actions |-> RowRead(actions[i])]
  /\ Documents = [d \in DOMAIN docs |-> DocRead(docs[d])]

LEMMA ReadsByName == NamesResolve => ReadsAre
BY DEF NamesResolve, ReadsAre, Entries, Documents, RowRead, DocRead

LEMMA LedgerInit == Init => Log!Init
<1> SUFFICES ASSUME Init PROVE Log!Init
  OBVIOUS
<1>1. DOMAIN actions = {} /\ docs = <<>> /\ nextId = 1 /\ session = 0 /\ active = FALSE
  BY DEF Init
<1>2. Entries = [i \in {} |-> None]
  BY <1>1 DEF Entries
<1>3. Documents = <<>>
  <2>1. DOMAIN docs = {}
    BY <1>1
  <2>2. Documents = [d \in {} |-> None]
    BY <2>1 DEF Documents
  <2> QED BY <2>2
<1> QED BY <1>1, <1>2, <1>3 DEF Log!Init

LEMMA LedgerNext == IInv /\ [Next]_vars => [Log!Next]_Log!vars
<1> SUFFICES ASSUME IInv, [Next]_vars PROVE [Log!Next]_Log!vars
  OBVIOUS
<1> USE DEF IInv, Shape
<1>0. ReadsAre /\ ReadsAre'
  BY IInvNext, NamedIsKept, ReadsByName, PTL DEF IInv
<1>e. /\ DOMAIN Entries = DOMAIN actions /\ \A i \in DOMAIN actions : Entries[i] = RowRead(actions[i])
      /\ Log!Cited = Cited
  BY <1>0 DEF ReadsAre, Log!Cited, Cited, DocRead
<1>1. CASE StartSession
  <2>1. Entries' = Entries /\ Documents' = Documents
    BY <1>1 DEF StartSession, tables, Entries, Documents
  <2> QED BY <1>1, <2>1 DEF StartSession, tables, Log!Next, Log!Begin
<1>2. CASE EndSession
  <2>1. Entries' = Entries /\ Documents' = Documents
    BY <1>2 DEF EndSession, tables, Entries, Documents
  <2> QED BY <1>2, <2>1 DEF EndSession, tables, Log!Next, Log!End
<1>3. CASE LogResult \/ LogParams \/ FileBody \/ Crash \/ Analyse \/ UNCHANGED vars
  <2>1. UNCHANGED <<actions, docs, nextId, session, active>>
    BY <1>3 DEF LogResult, LogParams, FileBody, Crash, Analyse, vars, tables
  <2>2. Entries' = Entries /\ Documents' = Documents
    BY <1>0, <2>1 DEF ReadsAre
  <2> QED BY <2>1, <2>2 DEF Log!vars
<1>4. CASE Update
  <2> PICK u \in DOMAIN actions :
        /\ actions' = [actions EXCEPT ![u].delivered = TRUE]
        /\ UNCHANGED <<docs, resultBlobs, paramsBlobs, nextId, session, active, job, memo, crashes>>
    BY <1>4 DEF Update
  <2>1. DOMAIN actions' = DOMAIN actions /\ \A i \in DOMAIN actions : RowRead(actions'[i]) = RowRead(actions[i])
    BY DEF RowRead
  <2>2. Entries' = Entries /\ Documents' = Documents
    BY <1>0, <2>1 DEF ReadsAre
  <2> QED BY <2>2 DEF Log!vars
<1>5. CASE LogInsert
  <2>1. job.row \in Rows(Naming(Body), Naming(Args))
    BY <1>5 DEF LogInsert, Jobs, Quiet
  <2>2. /\ job.row.result.hash \in Body /\ job.row.params.hash \in Args
        /\ job.row.session \in 1..session /\ job.row.bulk \in BOOLEAN
    BY <2>1 DEF Rows, Naming
  <2>3. Entries' = [i \in DOMAIN Entries \cup {nextId} |-> IF i = nextId THEN RowRead(job.row) ELSE Entries[i]]
    BY <1>0, <1>e, <1>5 DEF LogInsert, ReadsAre
  <2>4. Documents' = Documents
    BY <1>0, <1>5 DEF LogInsert, ReadsAre
  <2>5. Log!Record
    BY <1>5, <2>2, <2>3, <2>4 DEF Log!Record, LogInsert, RowRead
  <2> QED BY <2>5 DEF Log!Next
<1>6. CASE FileInsert
  <2>1. job.doc \in Filed(DOMAIN actions) /\ docs' = Append(docs, job.doc)
    BY <1>6 DEF FileInsert, Jobs, Quiet
  <2>2. job.doc.body.hash \in Body /\ job.doc.action \in DOMAIN Entries \cup {None}
    BY <1>e, <2>1 DEF Filed, Naming
  <2>3. Documents' = Append(Documents, DocRead(job.doc))
    <3>1. job.doc \in Filed(1..(nextId - 1))
      BY <2>1 DEF Filed
    <3>2. Len(docs) \in Nat /\ DOMAIN docs = 1..Len(docs)
      BY LenProperties
    <3>3. /\ docs' \in Seq(Filed(1..(nextId - 1))) /\ Len(docs') = Len(docs) + 1
          /\ \A d \in 1..Len(docs) : docs'[d] = docs[d]
          /\ docs'[Len(docs) + 1] = job.doc
      BY <2>1, <3>1, AppendProperties
    <3>4. DOMAIN docs' = 1..(Len(docs) + 1)
      BY <3>3, LenProperties
    <3>5. Documents = [d \in 1..Len(docs) |-> DocRead(docs[d])]
      BY <1>0, <3>2 DEF ReadsAre
    <3>6. Documents' = [d \in 1..(Len(docs) + 1) |-> IF d = Len(docs) + 1 THEN DocRead(job.doc) ELSE DocRead(docs[d])]
      BY <1>0, <3>2, <3>3, <3>4 DEF ReadsAre
    <3> QED BY <3>2, <3>5, <3>6
  <2>4. Entries' = Entries
    BY <1>0, <1>6 DEF FileInsert, ReadsAre
  <2>5. Log!File
    BY <1>6, <2>2, <2>3, <2>4 DEF Log!File, FileInsert, DocRead
  <2> QED BY <2>5 DEF Log!Next
<1>7. CASE PruneResults
  <2> PICK cut \in DOMAIN actions :
        LET S == {i \in Old(cut) : actions[i].result # Empty}
        IN /\ actions' = [i \in DOMAIN actions |->
                            IF i \in S THEN [actions[i] EXCEPT !.result = Empty] ELSE actions[i]]
           /\ UNCHANGED <<docs, paramsBlobs, nextId, session, active, job, dirty, crashes>>
    BY <1>7 DEF PruneResults
  <2> DEFINE S == {i \in Old(cut) : actions[i].result # Empty}
  <2>1. S \in SUBSET {i \in DOMAIN Entries : Log!Ended(i)}
    BY <1>e DEF Old, Log!Ended, RowRead
  <2>2. \A i \in DOMAIN actions :
          RowRead(actions'[i]) = IF i \in S THEN [RowRead(actions[i]) EXCEPT !.result = None] ELSE RowRead(actions[i])
    BY DEF RowRead, Empty, Rows
  <2>3. Entries' = [i \in DOMAIN Entries |-> IF i \in S THEN [Entries[i] EXCEPT !.result = None] ELSE Entries[i]]
    BY <1>0, <1>e, <2>2 DEF ReadsAre
  <2>4. Documents' = Documents
    BY <1>0 DEF ReadsAre
  <2> HIDE DEF S
  <2>5. Log!Forget
    BY <2>1, <2>3, <2>4 DEF Log!Forget
  <2> QED BY <2>5 DEF Log!Next
<1>8. CASE PruneReads
  <2> PICK cut \in DOMAIN actions :
        LET S == Prunable(cut)
        IN /\ actions' = [i \in DOMAIN actions \ S |-> actions[i]]
           /\ UNCHANGED <<docs, nextId, session, active, job, dirty, crashes>>
    BY <1>8 DEF PruneReads
  <2>1. Prunable(cut) \in SUBSET {i \in DOMAIN Entries : Log!Ended(i) /\ Entries[i].bulk /\ i \notin Log!Cited}
    BY <1>e DEF Prunable, Old, Log!Ended, RowRead
  <2>2. Entries' = [i \in DOMAIN Entries \ Prunable(cut) |-> Entries[i]]
    BY <1>0, <1>e DEF ReadsAre
  <2>3. Documents' = Documents
    BY <1>0 DEF ReadsAre
  <2>4. Log!Drop
    BY <2>1, <2>2, <2>3 DEF Log!Drop
  <2> QED BY <2>4 DEF Log!Next
<1> QED BY <1>1, <1>2, <1>3, <1>4, <1>5, <1>6, <1>7, <1>8 DEF Next

\* The tables implement the ledger: a reader sees an append-only log whose results and rows go only by retention,
\* whatever bodies are shared, and whenever the process ends between two statements (db.mjs as read by
\* listActions, getActionById and getDiff).
THEOREM TablesImplementLedger == Spec => ImplementsLedger
<1>1. Init => Log!Init
  BY LedgerInit
<1>2. IInv /\ [Next]_vars => [Log!Next]_Log!vars
  BY LedgerNext
<1> QED BY <1>1, <1>2, Invariance, PTL DEF Spec, ImplementsLedger, Log!Spec

-----------------------------------------------------------------------------
\* Replay and cleanup.

Opened == Nat \ {0}
LogRows(S) == [session : Opened, step : S, ok : BOOLEAN, via : {"command", "macro", "replay", "cleanup"}, kept : BOOLEAN]

\* The log is a sequence; who asks for a step is a session.
LogShape == \E S : log \in Seq(LogRows(S))
SessionShape == begun \in Nat /\ current \in 0..begun
WriterShape == DOMAIN writer = Key
TaskShape == DOMAIN task = DOMAIN Idle /\ (task.kind # "idle" => task.session \in Opened)

\* A row that a session put, and was told so, is the doing of the last acknowledged step in the log that touches it.
Owned ==
  \A k \in Key : writer[k] # 0 =>
    /\ writer[k] \in 1..Len(log) /\ log[writer[k]].ok
    /\ log[writer[k]].step.type = "put" /\ Touches(log[writer[k]].step, k)
    /\ \A j \in 1..Len(log) : log[j].ok /\ Touches(log[j].step, k) => j <= writer[k]

\* A cleanup only deletes; what it has not come to, while no delete failed and nobody interfered, is all that its
\* session still owns by a put whose reply is stored.
Cleans ==
  task.kind = "cleanup" =>
    /\ task.steps \in Seq(Deletes) /\ task.at \in 1..Len(task.steps)
    /\ task.calm /\ task.failed = {} =>
         \A k \in Key : ItsRow(writer[k], log) /\ log[writer[k]].kept
                       => \E i \in task.at..Len(task.steps) : task.steps[i].key = k

ReplayInv == LogShape /\ SessionShape /\ WriterShape /\ TaskShape /\ Owned /\ Cleans

-----------------------------------------------------------------------------
\* What a dispatch does to the log and to the rows' writers, for a session and the row it adds.

Adds(who, s, via, how) ==
  log' = Append(log, [session |-> who, step |-> s, ok |-> how = "ok", via |-> via, kept |-> TRUE])
Writes(s, how) ==
  writer' = [k \in Key |-> IF how = "error" \/ ~Touches(s, k) THEN writer[k]
                           ELSE IF how = "ok" /\ s.type = "put" THEN Len(log) + 1 ELSE 0]

LEMMA AddsRow ==
  ASSUME \E S : log \in Seq(LogRows(S)), NEW who \in Opened, NEW s, NEW via \in {"command", "macro", "replay", "cleanup"},
         NEW how \in How, Adds(who, s, via, how)
  PROVE  /\ \E S : log' \in Seq(LogRows(S))
         /\ DOMAIN log = 1..Len(log) /\ Len(log) \in Nat /\ Len(log') = Len(log) + 1 /\ DOMAIN log' = 1..(Len(log) + 1)
         /\ \A i \in 1..Len(log) : log'[i] = log[i]
         /\ log'[Len(log) + 1] = [session |-> who, step |-> s, ok |-> how = "ok", via |-> via, kept |-> TRUE]
<1> DEFINE row == [session |-> who, step |-> s, ok |-> how = "ok", via |-> via, kept |-> TRUE]
<1>1. PICK S : log \in Seq(LogRows(S))
  OBVIOUS
<1>2. \A e : e \in LogRows(S) => e \in LogRows(S \cup {s})
  BY DEF LogRows
<1>3. row \in LogRows(S \cup {s})
  BY DEF LogRows
<1>4. log \in Seq(LogRows(S \cup {s}))
  BY <1>1, <1>2, SeqMonotonic
<1> HIDE DEF row
<1>5. log' = Append(log, row)
  BY DEF Adds, row
<1>6. /\ log' \in Seq(LogRows(S \cup {s}))
      /\ DOMAIN log = 1..Len(log) /\ Len(log) \in Nat /\ Len(log') = Len(log) + 1 /\ DOMAIN log' = 1..(Len(log) + 1)
      /\ \A i \in 1..Len(log) : log'[i] = log[i]
      /\ log'[Len(log) + 1] = row
  BY <1>3, <1>4, <1>5
<1> QED BY <1>6 DEF row

-----------------------------------------------------------------------------
\* Plans.

LEMMA PlannedAfter ==
  ASSUME \E S : log \in Seq(LogRows(S)), NEW who \in Opened, NEW s, NEW via \in {"command", "macro", "replay", "cleanup"},
         NEW how \in How, Adds(who, s, via, how), NEW source, NEW all \in BOOLEAN,
         all => via = "replay", MayPlan(source, all)
  PROVE  Plan(source, all)' = Plan(source, all)
<1>0. /\ DOMAIN log = 1..Len(log) /\ Len(log) \in Nat /\ DOMAIN log' = 1..(Len(log) + 1)
      /\ \A i \in 1..Len(log) : log'[i] = log[i]
      /\ log'[Len(log) + 1] = [session |-> who, step |-> s, ok |-> how = "ok", via |-> via, kept |-> TRUE]
  BY AddsRow
<1>1. /\ Mine(source)' = Mine(source) \cup {i \in {Len(log) + 1} : who = source}
      /\ Mine(source) \subseteq 1..Len(log)
  BY <1>0 DEF Mine
<1>2. Planned(source, all)' = Planned(source, all) /\ Planned(source, all) \subseteq 1..Len(log)
  <2>1. Planned(source, all) \subseteq 1..Len(log)
    BY <1>1 DEF Planned
  <2>2. CASE all
    <3>1. ~(log'[Len(log) + 1].via # "replay")
      BY <1>0, <2>2
    <3> QED BY <1>0, <1>1, <2>1, <2>2, <3>1 DEF Planned, Replayable
  <2>3. CASE ~all
    <3>1. PICK f : f \in Failing(source)
      BY <2>3 DEF MayPlan
    <3>2. f \in 1..Len(log) /\ Failing(source) \subseteq 1..Len(log)
      BY <1>1, <3>1 DEF Failing
    <3>3. Failing(source) \subseteq Failing(source)' /\ Failing(source)' \subseteq Failing(source) \cup {Len(log) + 1}
      BY <1>0, <1>1 DEF Failing, Replayable
    <3>4. ~UpTo(Len(log) + 1, Failing(source)')
      BY <1>0, <3>1, <3>2, <3>3 DEF UpTo
    <3>5. \A i \in 1..Len(log) : UpTo(i, Failing(source)') <=> UpTo(i, Failing(source))
      BY <1>0, <3>2, <3>3 DEF UpTo
    <3>6. \A i : i \in Planned(source, all)' <=> i \in Planned(source, all)
      BY <1>0, <1>1, <2>1, <2>3, <3>4, <3>5 DEF Planned, Replayable
    <3> QED BY <3>6, <2>1
  <2> QED BY <2>2, <2>3
<1>3. [i \in Planned(source, all)' |-> log'[i].step] = [i \in Planned(source, all) |-> log[i].step]
  BY <1>0, <1>2
<1> QED BY <1>3 DEF Plan

-----------------------------------------------------------------------------
\* The rows' writers after a dispatch, after a write of the application and after a pruning.

LEMMA OwnedAfterDispatch ==
  ASSUME \E S : log \in Seq(LogRows(S)), NEW who \in Opened, NEW s, NEW via \in {"command", "macro", "replay", "cleanup"},
         NEW how \in How, Adds(who, s, via, how), Writes(s, how), Owned
  PROVE  Owned'
<1> DEFINE n == Len(log) + 1
<1>1. /\ n \in Nat \ {0} /\ Len(log') = n /\ \A i \in 1..Len(log) : i < n /\ log'[i] = log[i]
      /\ \A i \in 1..n : i \in 1..Len(log) \/ i = n
      /\ n \in 1..n /\ 1..Len(log) \subseteq 1..n
      /\ log'[n].step = s /\ log'[n].ok = (how = "ok")
  <2>1. /\ Len(log) \in Nat /\ Len(log') = Len(log) + 1 /\ \A i \in 1..Len(log) : log'[i] = log[i]
        /\ log'[Len(log) + 1] = [session |-> who, step |-> s, ok |-> how = "ok", via |-> via, kept |-> TRUE]
    BY AddsRow
  <2> QED BY <2>1
<1>2. \A k \in Key : writer'[k] = IF how = "error" \/ ~Touches(s, k) THEN writer[k]
                                 ELSE IF how = "ok" /\ s.type = "put" THEN n ELSE 0
  BY DEF Writes
<1> HIDE DEF n
<1> SUFFICES ASSUME NEW k \in Key, writer'[k] # 0
             PROVE  /\ writer'[k] \in 1..n /\ log'[writer'[k]].ok
                    /\ log'[writer'[k]].step.type = "put" /\ Touches(log'[writer'[k]].step, k)
                    /\ \A j \in 1..n : log'[j].ok /\ Touches(log'[j].step, k) => j <= writer'[k]
  BY <1>1 DEF Owned, Touches
<1>3. CASE how = "error" \/ ~Touches(s, k)
  <2>1. writer'[k] = writer[k]
    BY <1>2, <1>3
  <2>2. /\ writer[k] \in 1..Len(log) /\ log[writer[k]].ok
        /\ log[writer[k]].step.type = "put" /\ Touches(log[writer[k]].step, k)
        /\ \A j \in 1..Len(log) : log[j].ok /\ Touches(log[j].step, k) => j <= writer[k]
    BY <2>1 DEF Owned
  <2>3. log'[writer[k]] = log[writer[k]] /\ writer[k] \in 1..n
    BY <1>1, <2>2
  <2>4. ~(log'[n].ok /\ Touches(log'[n].step, k))
    BY <1>1, <1>3
  <2>5. ASSUME NEW j \in 1..n, log'[j].ok, Touches(log'[j].step, k) PROVE j <= writer[k]
    <3>1. j \in 1..Len(log)
      BY <1>1, <2>4, <2>5
    <3>2. log'[j] = log[j]
      BY <1>1, <3>1
    <3> QED BY <2>2, <2>5, <3>1, <3>2
  <2> QED BY <2>1, <2>2, <2>3, <2>5
<1>4. CASE ~(how = "error" \/ ~Touches(s, k))
  <2>1. writer'[k] = n /\ how = "ok" /\ s.type = "put" /\ Touches(s, k)
    BY <1>2, <1>4
  <2>2. \A j \in 1..n : j <= n
    BY <1>1
  <2>3. log'[n].ok = TRUE
    BY <1>1, <2>1
  <2> QED BY <1>1, <2>1, <2>2, <2>3
<1> QED BY <1>3, <1>4

\* What leaves the log alone and gives no row a writer.
LEMMA OwnedStays ==
  ASSUME Owned, UNCHANGED log, \A k \in Key : writer'[k] \in {writer[k], 0}
  PROVE  Owned'
BY DEF Owned, Touches

\* What is pruned keeps everything but its reply.
Pruned ==
  /\ UNCHANGED <<writer, task, begun, current>>
  /\ \E n \in 1..Len(log) :
       log' = [i \in DOMAIN log |-> IF i <= n /\ log[i].session # current THEN [log[i] EXCEPT !.kept = FALSE] ELSE log[i]]

LEMMA PrunedRows ==
  ASSUME LogShape, Pruned
  PROVE  /\ LogShape' /\ Len(log) \in Nat /\ Len(log') = Len(log) /\ DOMAIN log = 1..Len(log) /\ DOMAIN log' = 1..Len(log)
         /\ \A i \in 1..Len(log) : /\ log'[i].session = log[i].session /\ log'[i].step = log[i].step
                                   /\ log'[i].ok = log[i].ok /\ log'[i].via = log[i].via
                                   /\ log'[i].kept => log[i].kept
<1>1. PICK S : log \in Seq(LogRows(S))
  BY DEF LogShape
<1>2. PICK n \in 1..Len(log) :
        log' = [i \in DOMAIN log |-> IF i <= n /\ log[i].session # current THEN [log[i] EXCEPT !.kept = FALSE] ELSE log[i]]
  BY DEF Pruned
<1>3. DOMAIN log = 1..Len(log) /\ Len(log) \in Nat /\ \A i \in 1..Len(log) : log[i] \in LogRows(S)
  BY <1>1
<1>4. \A r \in LogRows(S) : /\ [r EXCEPT !.kept = FALSE] \in LogRows(S)
                            /\ [r EXCEPT !.kept = FALSE].session = r.session /\ [r EXCEPT !.kept = FALSE].step = r.step
                            /\ [r EXCEPT !.kept = FALSE].ok = r.ok /\ [r EXCEPT !.kept = FALSE].via = r.via
                            /\ [r EXCEPT !.kept = FALSE].kept = FALSE
  BY DEF LogRows
<1>5. \A i \in 1..Len(log) : log'[i] = log[i] \/ log'[i] = [log[i] EXCEPT !.kept = FALSE]
  BY <1>2, <1>3
<1>6. \A i \in 1..Len(log) : /\ log'[i] \in LogRows(S)
                             /\ log'[i].session = log[i].session /\ log'[i].step = log[i].step
                             /\ log'[i].ok = log[i].ok /\ log'[i].via = log[i].via
                             /\ log'[i].kept => log[i].kept
  <2> TAKE i \in 1..Len(log)
  <2>1. log[i] \in LogRows(S)
    BY <1>3
  <2>2. CASE log'[i] = log[i]
    BY <2>1, <2>2
  <2>3. CASE log'[i] = [log[i] EXCEPT !.kept = FALSE]
    <3> DEFINE r == log[i]
               q == [r EXCEPT !.kept = FALSE]
    <3>1. /\ q \in LogRows(S) /\ q.session = r.session /\ q.step = r.step /\ q.ok = r.ok /\ q.via = r.via
          /\ q.kept = FALSE
      BY <1>4, <2>1
    <3>2. log'[i] = q
      BY <2>3
    <3> HIDE DEF q
    <3> QED BY <3>1, <3>2
  <2> QED BY <1>5, <2>2, <2>3
<1>7. DOMAIN log' = 1..Len(log)
  BY <1>2, <1>3
<1>8. log' = [i \in 1..Len(log) |-> log'[i]]
  BY <1>2, <1>3
<1>9. log' \in Seq(LogRows(S)) /\ Len(log') = Len(log)
  BY <1>3, <1>6, <1>7, <1>8
<1> QED BY <1>3, <1>6, <1>7, <1>9 DEF LogShape

LEMMA OwnedPruned ==
  ASSUME LogShape, Owned, Pruned
  PROVE  LogShape' /\ Owned'
<1>1. /\ LogShape' /\ Len(log') = Len(log) /\ UNCHANGED writer
      /\ \A i \in 1..Len(log) : log'[i].step = log[i].step /\ log'[i].ok = log[i].ok
  BY PrunedRows DEF Pruned
<1> QED BY <1>1 DEF Owned, Touches

LEMMA PlannedPruned ==
  ASSUME LogShape, Pruned, NEW source, NEW all \in BOOLEAN
  PROVE  Plan(source, all)' = Plan(source, all)
<1>1. /\ DOMAIN log = 1..Len(log) /\ DOMAIN log' = 1..Len(log)
      /\ \A i \in 1..Len(log) : /\ log'[i].session = log[i].session /\ log'[i].step = log[i].step
                                /\ log'[i].ok = log[i].ok /\ log'[i].via = log[i].via
  BY PrunedRows
<1>2. Mine(source)' = Mine(source) /\ Mine(source) \subseteq 1..Len(log)
  BY <1>1 DEF Mine
<1>3. Failing(source)' = Failing(source)
  BY <1>1, <1>2 DEF Failing, Replayable
<1>4. Planned(source, all)' = Planned(source, all) /\ Planned(source, all) \subseteq 1..Len(log)
  BY <1>1, <1>2, <1>3 DEF Planned, Replayable, UpTo
<1>5. [i \in Planned(source, all)' |-> log'[i].step] = [i \in Planned(source, all) |-> log[i].step]
  BY <1>1, <1>4
<1> QED BY <1>5 DEF Plan

\* A row whose put is known by its reply is one that the cleanup of its session finds.
LEMMA OwnedLives ==
  ASSUME LogShape, Owned, NEW k \in Key, writer[k] # 0, log[writer[k]].kept
  PROVE  k \in LiveKeys(log[writer[k]].session)
<1> DEFINE w == writer[k]
           o == log[w].session
<1>1. DOMAIN log = 1..Len(log)
  BY DEF LogShape
<1>2. /\ w \in 1..Len(log) /\ log[w].ok /\ log[w].step.type = "put" /\ Touches(log[w].step, k)
      /\ \A j \in 1..Len(log) : log[j].ok /\ Touches(log[j].step, k) => j <= w
  BY DEF Owned
<1>3. w \in Wrote(o, k)
  BY <1>1, <1>2 DEF Wrote, Mine, Known
<1>4. \A j \in Wrote(o, k) : j <= w
  BY <1>1, <1>2 DEF Wrote, Mine
<1> QED BY <1>2, <1>3, <1>4 DEF LiveKeys

-----------------------------------------------------------------------------
\* What is a step of the system, for the log and the writers.

Dispatched ==
  \E who \in Opened, via \in {"command", "macro", "replay", "cleanup"}, how \in How :
    \E s : Adds(who, s, via, how) /\ Writes(s, how)
Undisturbed == UNCHANGED log /\ \A k \in Key : writer'[k] \in {writer[k], 0}

LEMMA StepMoves ==
  ASSUME SessionShape, WriterShape, TaskShape, [ReplayNext]_replayVars
  PROVE  (Dispatched \/ Undisturbed \/ Pruned) /\ WriterShape'
<1>1. ASSUME NEW who \in Opened, NEW s, NEW via \in {"command", "macro", "replay", "cleanup"}, NEW how \in How,
             Dispatch(who, s, via, how)
      PROVE  Dispatched /\ WriterShape'
  <2>1. Adds(who, s, via, how) /\ Writes(s, how)
    BY <1>1 DEF Dispatch, Adds, Writes
  <2> QED BY <2>1 DEF Dispatched, Writes, WriterShape
<1>2. ASSUME UNCHANGED <<log, writer>>
      PROVE  Undisturbed /\ WriterShape'
  BY <1>2 DEF Undisturbed, WriterShape
<1>3. CASE UNCHANGED replayVars \/ OpenSession \/ CloseSession \/ EditMacro \/ DeleteMacro \/ IsNoOpPut \/ Restart
  <2>1. UNCHANGED <<log, writer>>
    BY <1>3 DEF replayVars, OpenSession, CloseSession, EditMacro, DeleteMacro, IsNoOpPut, Restart
  <2> QED BY <1>2, <2>1
<1>4. CASE \E who \in 1..begun : RecordMacro(who) \/ StartCleanup(who)
  <2>1. UNCHANGED <<log, writer>>
    BY <1>4 DEF RecordMacro, StartCleanup
  <2> QED BY <1>2, <2>1
<1>5. CASE \E who \in 1..begun, all \in BOOLEAN : StartReplay(who, all)
  <2>1. UNCHANGED <<log, writer>>
    BY <1>5 DEF StartReplay
  <2> QED BY <1>2, <2>1
<1>6. CASE \E from \in 1..Len(log), goesOn \in BOOLEAN : StartRun(from, goesOn)
  <2>1. UNCHANGED <<log, writer>>
    BY <1>6 DEF StartRun
  <2> QED BY <1>2, <2>1
<1>7. CASE \E k \in Key, v \in Val : AppWrite(k, v)
  BY <1>7 DEF AppWrite, Undisturbed, WriterShape
<1>8. ASSUME NEW how \in How, NEW s \in Steps, Command(s, how)
      PROVE  Dispatched /\ WriterShape'
  <2>1. current \in Opened /\ Dispatch(current, s, "command", how)
    BY <1>8 DEF Command, SessionShape, Opened
  <2> QED BY <1>1, <2>1
<1>9. ASSUME NEW how \in How, RunStep(how) \/ ReplayStep(how) \/ CleanupStep(how)
      PROVE  Dispatched /\ WriterShape'
  <2>1. task.session \in Opened
    BY <1>9 DEF RunStep, ReplayStep, CleanupStep, TaskShape
  <2>2. \/ Dispatch(task.session, task.steps[task.at], "macro", how)
        \/ Dispatch(task.session, task.steps[task.at], "replay", how)
        \/ Dispatch(task.session, task.steps[task.at], "cleanup", how)
    BY <1>9 DEF RunStep, ReplayStep, CleanupStep
  <2> QED BY <1>1, <2>1, <2>2
<1>10. CASE \E n \in 1..Len(log) : Prune(n)
  BY <1>10 DEF Prune, Pruned, WriterShape
<1> QED BY <1>3, <1>4, <1>5, <1>6, <1>7, <1>8, <1>9, <1>10 DEF ReplayNext

-----------------------------------------------------------------------------
\* Sessions, and the request under way.

\* A request that was under way goes on as the same request or is over.
Continues == task' = Idle \/ (DOMAIN task' = DOMAIN task /\ task'.kind = task.kind /\ task'.session = task.session)

LEMMA IdleShape ==
  /\ DOMAIN Idle = {"kind", "session", "steps", "at", "asked", "goesOn", "failed", "calm"}
  /\ Idle.kind = "idle" /\ Idle.calm = TRUE /\ Idle.failed = {} /\ Idle.at = 1
BY DEF Idle

LEMMA StepTasks ==
  ASSUME SessionShape, TaskShape, [ReplayNext]_replayVars
  PROVE  SessionShape' /\ TaskShape'
<1>1. ASSUME Continues, UNCHANGED <<begun, current>>
      PROVE  SessionShape' /\ TaskShape'
  BY <1>1, IdleShape DEF Continues, SessionShape, TaskShape
<1>2. CASE UNCHANGED replayVars \/ OpenSession \/ CloseSession
  BY <1>2 DEF replayVars, OpenSession, CloseSession, SessionShape, TaskShape
<1>3. CASE EditMacro \/ DeleteMacro \/ Restart
  <2>1. Continues /\ UNCHANGED <<begun, current>>
    BY <1>3 DEF EditMacro, DeleteMacro, Restart, Continues
  <2> QED BY <1>1, <2>1
<1>4. CASE IsNoOpPut
  <2>1. Continues /\ UNCHANGED <<begun, current>>
    BY <1>4, IdleShape DEF IsNoOpPut, Advanced, Continues, TaskShape
  <2> QED BY <1>1, <2>1
<1>5. ASSUME NEW how \in How, RunStep(how) \/ ReplayStep(how) \/ CleanupStep(how)
      PROVE  SessionShape' /\ TaskShape'
  <2>1. UNCHANGED <<begun, current>> /\ \E failed, stop : Advanced(failed, stop)
    BY <1>5 DEF RunStep, ReplayStep, CleanupStep
  <2>2. Continues
    BY <2>1, IdleShape DEF Advanced, Continues, TaskShape
  <2> QED BY <1>1, <2>1, <2>2
<1>6. ASSUME NEW how \in How, NEW s \in Steps, Command(s, how)
      PROVE  SessionShape' /\ TaskShape'
  <2>1. Continues /\ UNCHANGED <<begun, current>>
    BY <1>6, IdleShape DEF Command, Interferes, Continues, TaskShape
  <2> QED BY <1>1, <2>1
<1>7. ASSUME NEW k \in Key, NEW v \in Val, AppWrite(k, v)
      PROVE  SessionShape' /\ TaskShape'
  <2>1. Continues /\ UNCHANGED <<begun, current>>
    BY <1>7, IdleShape DEF AppWrite, Interferes, Continues, TaskShape
  <2> QED BY <1>1, <2>1
<1>8. ASSUME NEW who \in 1..begun, RecordMacro(who)
      PROVE  SessionShape' /\ TaskShape'
  BY <1>8 DEF RecordMacro, SessionShape, TaskShape
<1>9. ASSUME NEW who \in 1..begun, StartCleanup(who)
      PROVE  SessionShape' /\ TaskShape'
  BY <1>9, IdleShape DEF StartCleanup, SessionShape, TaskShape, Opened
<1>10. ASSUME NEW who \in 1..begun, NEW all \in BOOLEAN, StartReplay(who, all)
       PROVE  SessionShape' /\ TaskShape'
  BY <1>10, IdleShape DEF StartReplay, SessionShape, TaskShape, Opened
<1>11. ASSUME NEW from \in 1..Len(log), NEW goesOn \in BOOLEAN, StartRun(from, goesOn)
       PROVE  SessionShape' /\ TaskShape'
  BY <1>11, IdleShape DEF StartRun, SessionShape, TaskShape, Opened
<1>12. ASSUME NEW n \in 1..Len(log), Prune(n)
       PROVE  SessionShape' /\ TaskShape'
  BY <1>12 DEF Prune, SessionShape, TaskShape
<1> QED BY <1>2, <1>3, <1>4, <1>5, <1>6, <1>7, <1>8, <1>9, <1>10, <1>11, <1>12 DEF ReplayNext

-----------------------------------------------------------------------------
\* Cleanups.

\* The request the step leaves, if it is a cleanup, is the one before it, as it was or disturbed.
Keeps ==
  task'.kind = "cleanup" =>
    /\ task.kind = "cleanup" /\ UNCHANGED <<task.steps, task.at, task.session, task.failed>>
    /\ task'.calm => UNCHANGED <<task, writer, log>>

LEMMA KeepsCleans ==
  ASSUME Cleans, Keeps
  PROVE  Cleans'
BY DEF Cleans, Keeps, ItsRow

\* Pruning only takes rows from what a cleanup has to find.
LEMMA PruneCleans ==
  ASSUME LogShape, Owned, Cleans, Pruned, UNCHANGED task
  PROVE  Cleans'
<1>1. \A k \in Key : ItsRow(writer[k], log)' /\ log'[writer'[k]].kept => ItsRow(writer[k], log) /\ log[writer[k]].kept
  <2> SUFFICES ASSUME NEW k \in Key, ItsRow(writer[k], log)', log'[writer'[k]].kept
               PROVE  ItsRow(writer[k], log) /\ log[writer[k]].kept
    OBVIOUS
  <2>1. writer'[k] = writer[k] /\ writer[k] # 0 /\ writer[k] \in 1..Len(log)
    BY DEF Pruned, ItsRow, Owned
  <2>2. /\ log'[writer[k]].session = log[writer[k]].session
        /\ log'[writer[k]].kept => log[writer[k]].kept
    BY <2>1, PrunedRows
  <2> QED BY <2>1, <2>2 DEF ItsRow
<1> QED BY <1>1 DEF Cleans

\* A delete that the page acknowledged takes its key from everybody and leaves the other keys alone.
LEMMA DeleteTakes ==
  ASSUME NEW s \in Deletes, Writes(s, "ok")
  PROVE  /\ s.key \in Key /\ s.type = "delete"
         /\ \A k \in Key : writer'[k] = IF k = s.key THEN 0 ELSE writer[k]
BY DEF Writes, Deletes, Step, Touches

\* The row that a cleanup adds to the log is none of those that wrote something.
LEMMA CleanupLogs ==
  ASSUME LogShape, Owned, NEW how \in How, CleanupStep(how), task.session \in Opened, NEW k \in Key,
         writer'[k] = writer[k], writer[k] # 0
  PROVE  log'[writer[k]] = log[writer[k]]
<1> DEFINE s == task.steps[task.at]
<1>1. Adds(task.session, s, "cleanup", how)
  BY DEF CleanupStep, Dispatch, Adds
<1> HIDE DEF s
<1>2. \A i \in 1..Len(log) : log'[i] = log[i]
  BY <1>1, AddsRow DEF LogShape
<1> QED BY <1>2 DEF Owned

LEMMA CleanupStepCleans ==
  ASSUME LogShape, SessionShape, WriterShape, TaskShape, Owned, Cleans, NEW how \in How, CleanupStep(how)
  PROVE  Cleans'
<1> DEFINE s == task.steps[task.at]
           failed == IF how = "ok" THEN task.failed ELSE task.failed \cup {task.at}
<1>1. /\ task.kind = "cleanup" /\ Writes(s, how) /\ Advanced(failed, FALSE)
  BY DEF CleanupStep, Dispatch, Writes
<1>2. task.steps \in Seq(Deletes) /\ task.at \in 1..Len(task.steps) /\ task.session \in Opened
  BY <1>1 DEF Cleans, TaskShape
<1>3. s \in Deletes
  BY <1>2
<1> HIDE DEF failed, s
<1>4. CASE task.at >= Len(task.steps)
  <2>1. task' = Idle
    BY <1>1, <1>4 DEF Advanced
  <2> QED BY <2>1, IdleShape DEF Cleans
<1>5. CASE ~(task.at >= Len(task.steps))
  <2>1. task' = [task EXCEPT !.at = @ + 1, !.asked = FALSE, !.failed = failed]
    BY <1>1, <1>5 DEF Advanced
  <2>2. /\ task'.kind = "cleanup" /\ task'.steps = task.steps /\ task'.at = task.at + 1 /\ task'.session = task.session
        /\ task'.failed = failed /\ task'.calm = task.calm
    BY <1>1, <2>1, IdleShape DEF TaskShape
  <2>3. task'.at \in 1..Len(task'.steps)
    BY <1>2, <1>5, <2>2
  <2>4. ASSUME task'.calm, task'.failed = {}, NEW k \in Key, ItsRow(writer[k], log)', log'[writer'[k]].kept
        PROVE  \E i \in (task.at + 1)..Len(task.steps) : task.steps[i].key = k
    <3>1. how = "ok" /\ task.failed = {} /\ task.calm
      BY <2>2, <2>4 DEF failed
    <3>2. k # s.key /\ writer'[k] = writer[k] /\ writer[k] # 0
      BY <1>1, <1>3, <2>4, <3>1, DeleteTakes DEF ItsRow
    <3>3. log'[writer[k]] = log[writer[k]]
      BY <1>2, <3>2, CleanupLogs
    <3>4. ItsRow(writer[k], log) /\ log[writer[k]].kept
      BY <2>2, <2>4, <3>2, <3>3 DEF ItsRow
    <3>5. PICK i \in task.at..Len(task.steps) : task.steps[i].key = k
      BY <1>1, <3>1, <3>4 DEF Cleans
    <3>6. i # task.at
      BY <3>2, <3>5 DEF s
    <3> QED BY <1>2, <3>5, <3>6
  <2> QED BY <1>2, <2>2, <2>3, <2>4 DEF Cleans
<1> QED BY <1>4, <1>5

LEMMA LiveKeysFinite ==
  ASSUME LogShape, NEW who
  PROVE  IsFiniteSet(LiveKeys(who))
<1> DEFINE Named == {log[i].step.key : i \in 1..Len(log)}
<1>1. DOMAIN log = 1..Len(log) /\ Len(log) \in Nat
  BY DEF LogShape
<1> DEFINE f == [i \in 1..Len(log) |-> log[i].step.key]
<1>2. IsFiniteSet(Named)
  <2>1. f \in Surjection(1..Len(log), Named)
    BY DEF Surjection
  <2> QED BY <1>1, <2>1, FS_Interval, FS_Surjection
<1>3. LiveKeys(who) \subseteq Named
  BY <1>1 DEF LiveKeys, Wrote, Mine, Touches
<1> QED BY <1>2, <1>3, FS_Subset

LEMMA StartCleanupCleans ==
  ASSUME LogShape, Owned, NEW who \in Opened, StartCleanup(who)
  PROVE  Cleans'
<1> DEFINE n == Cardinality(LiveKeys(who))
<1>1. PICK keys \in [1..n -> LiveKeys(who)] :
        /\ keys # <<>> /\ ToSet(keys) = LiveKeys(who) /\ UNCHANGED writer
        /\ task' = [Idle EXCEPT !.kind = "cleanup", !.session = who,
                               !.steps = [i \in DOMAIN keys |-> Step("delete", keys[i], NoRow)]]
  BY DEF StartCleanup
<1>2. LiveKeys(who) \subseteq Key
  BY DEF LiveKeys
<1>3. n \in Nat
  BY LiveKeysFinite, FS_CardinalityType
<1> HIDE DEF n
<1>4. keys \in Seq(LiveKeys(who)) /\ Len(keys) = n /\ DOMAIN keys = 1..n
  BY <1>1, <1>3
<1>5. n # 0
  BY <1>1, <1>4, EmptySeq
<1> DEFINE steps == [i \in 1..n |-> Step("delete", keys[i], NoRow)]
<1>6. /\ task'.steps = steps /\ task'.at = 1 /\ task'.session = who
  BY <1>1, <1>4, IdleShape
<1>7. steps \in Seq(Deletes) /\ Len(steps) = n
  BY <1>2, <1>3, <1>4 DEF Deletes
<1>8. \A i \in 1..n : steps[i].key = keys[i]
  BY DEF Step
<1> HIDE DEF steps
<1>9. ASSUME NEW k \in Key, ItsRow(writer[k], log)', log'[writer'[k]].kept
      PROVE  \E i \in 1..n : steps[i].key = k
  <2>1. UNCHANGED <<log, writer>> /\ task'.session = who
    BY <1>6 DEF StartCleanup
  <2>2. writer[k] # 0 /\ log[writer[k]].session = who /\ log[writer[k]].kept
    BY <1>9, <2>1 DEF ItsRow
  <2>3. k \in LiveKeys(who)
    BY <2>2, OwnedLives
  <2>4. k \in ToSet(keys)
    BY <1>1, <2>3
  <2> QED BY <1>4, <1>8, <2>4 DEF ToSet
<1> QED BY <1>3, <1>5, <1>6, <1>7, <1>9 DEF Cleans

LEMMA StepCleans ==
  ASSUME LogShape, SessionShape, WriterShape, TaskShape, Owned, Cleans, [ReplayNext]_replayVars
  PROVE  Cleans'
<1>1. ASSUME task' = Idle \/ task'.kind \in {"run", "replay"} \/ UNCHANGED <<task, writer, log>>
      PROVE  Cleans'
  BY <1>1, IdleShape DEF Cleans, ItsRow
<1>2. CASE UNCHANGED replayVars \/ OpenSession \/ CloseSession \/ EditMacro \/ DeleteMacro \/ Restart
  <2>1. task' = Idle \/ UNCHANGED <<task, writer, log>>
    BY <1>2 DEF replayVars, OpenSession, CloseSession, EditMacro, DeleteMacro, Restart
  <2> QED BY <1>1, <2>1
<1>3. CASE IsNoOpPut
  <2>1. task' = Idle \/ task'.kind = "run"
    BY <1>3, IdleShape DEF IsNoOpPut, Advanced, TaskShape
  <2> QED BY <1>1, <2>1
<1>4. ASSUME NEW how \in How, RunStep(how) \/ ReplayStep(how)
      PROVE  Cleans'
  <2>1. task.kind \in {"run", "replay"} /\ \E failed, stop : Advanced(failed, stop)
    BY <1>4 DEF RunStep, ReplayStep
  <2>2. task' = Idle \/ task'.kind \in {"run", "replay"}
    BY <2>1, IdleShape DEF Advanced, TaskShape
  <2> QED BY <1>1, <2>2
<1>5. ASSUME Interferes
      PROVE  Cleans'
  <2>1. task' = Idle \/ task' = [task EXCEPT !.calm = FALSE]
    BY <1>5 DEF Interferes
  <2>2. CASE task' = [task EXCEPT !.calm = FALSE]
    <3>1. /\ task'.kind = task.kind /\ task'.calm = FALSE /\ task'.steps = task.steps /\ task'.at = task.at
          /\ task'.session = task.session /\ task'.failed = task.failed
      BY <2>2, IdleShape DEF TaskShape
    <3> QED BY <3>1, KeepsCleans DEF Keeps
  <2> QED BY <1>1, <2>1, <2>2
<1>6. ASSUME NEW who \in 1..begun, StartCleanup(who)
      PROVE  Cleans'
  BY <1>6, StartCleanupCleans DEF SessionShape, Opened
<1>7. ASSUME NEW who \in 1..begun, RecordMacro(who)
      PROVE  Cleans'
  BY <1>1, <1>7 DEF RecordMacro
<1>8. ASSUME NEW who \in 1..begun, NEW all \in BOOLEAN, StartReplay(who, all)
      PROVE  Cleans'
  <2>1. task'.kind = "replay"
    BY <1>8, IdleShape DEF StartReplay
  <2> QED BY <1>1, <2>1
<1>9. ASSUME NEW from \in 1..Len(log), NEW goesOn \in BOOLEAN, StartRun(from, goesOn)
      PROVE  Cleans'
  <2>1. task'.kind = "run"
    BY <1>9, IdleShape DEF StartRun
  <2> QED BY <1>1, <2>1
<1>10. ASSUME NEW how \in How, NEW s \in Steps, Command(s, how)
       PROVE  Cleans'
  BY <1>5, <1>10 DEF Command
<1>11. ASSUME NEW k \in Key, NEW v \in Val, AppWrite(k, v)
       PROVE  Cleans'
  BY <1>5, <1>11 DEF AppWrite
<1>12. ASSUME NEW n \in 1..Len(log), Prune(n)
       PROVE  Cleans'
  <2>1. Pruned /\ UNCHANGED task
    BY <1>12 DEF Prune, Pruned
  <2> QED BY <2>1, PruneCleans
<1> QED BY <1>2, <1>3, <1>4, <1>6, <1>7, <1>8, <1>9, <1>10, <1>11, <1>12, CleanupStepCleans DEF ReplayNext

-----------------------------------------------------------------------------
LEMMA StepReplayInv == ReplayInv /\ [ReplayNext]_replayVars => ReplayInv'
<1> SUFFICES ASSUME ReplayInv, [ReplayNext]_replayVars
             PROVE  ReplayInv'
  OBVIOUS
<1>1. LogShape /\ SessionShape /\ WriterShape /\ TaskShape /\ Owned /\ Cleans
  BY DEF ReplayInv
<1>2. (Dispatched \/ Undisturbed \/ Pruned) /\ WriterShape'
  BY <1>1, StepMoves
<1>3. SessionShape' /\ TaskShape'
  BY <1>1, StepTasks
<1>4. Cleans'
  BY <1>1, StepCleans
<1>5. CASE Dispatched
  <2>1. PICK who \in Opened, via \in {"command", "macro", "replay", "cleanup"}, how \in How :
          \E s : Adds(who, s, via, how) /\ Writes(s, how)
    BY <1>5 DEF Dispatched
  <2>2. PICK s : Adds(who, s, via, how) /\ Writes(s, how)
    BY <2>1
  <2>3. LogShape'
    BY <1>1, <2>2, AddsRow DEF LogShape
  <2>4. Owned'
    BY <1>1, <2>2, OwnedAfterDispatch DEF LogShape
  <2> QED BY <1>2, <1>3, <1>4, <2>3, <2>4 DEF ReplayInv
<1>6. CASE Undisturbed
  <2>1. Owned'
    BY <1>1, <1>6, OwnedStays DEF Undisturbed
  <2>2. LogShape'
    BY <1>1, <1>6 DEF Undisturbed, LogShape
  <2> QED BY <1>2, <1>3, <1>4, <2>1, <2>2 DEF ReplayInv
<1>7. CASE Pruned
  <2>1. LogShape' /\ Owned'
    BY <1>1, <1>7, OwnedPruned
  <2> QED BY <1>2, <1>3, <1>4, <2>1 DEF ReplayInv
<1> QED BY <1>2, <1>5, <1>6, <1>7

LEMMA InitReplayInv == ReplayInit => ReplayInv
<1> SUFFICES ASSUME ReplayInit
             PROVE  ReplayInv
  OBVIOUS
<1>1. LogShape
  BY EmptySeq DEF ReplayInit, LogShape
<1>2. SessionShape /\ WriterShape /\ TaskShape
  BY IdleShape DEF ReplayInit, SessionShape, WriterShape, TaskShape
<1>3. Owned /\ Cleans
  BY IdleShape DEF ReplayInit, Owned, Cleans
<1> QED BY <1>1, <1>2, <1>3 DEF ReplayInv

LEMMA ReplayInvHolds == ReplaySpec => []ReplayInv
BY InitReplayInv, StepReplayInv, PTL DEF ReplaySpec

\* What a dry run shows is what the replay confirmed later does, for any log, however it grew in between.
THEOREM DryRunHolds == ReplaySpec => PlanStays
<1> DEFINE Stays == \A source \in 1..begun, all \in BOOLEAN :
              log' # log /\ (all => Last(log').via = "replay") /\ MayPlan(source, all)
                => Plan(source, all)' = Plan(source, all)
<1>1. ASSUME ReplayInv, [ReplayNext]_replayVars
      PROVE  Stays
  <2> SUFFICES ASSUME NEW source \in 1..begun, NEW all \in BOOLEAN, log' # log, all => Last(log').via = "replay",
                      MayPlan(source, all)
               PROVE  Plan(source, all)' = Plan(source, all)
    OBVIOUS
  <2>0. CASE Pruned
    BY <1>1, <2>0, PlannedPruned DEF ReplayInv
  <2> SUFFICES ASSUME ~Pruned PROVE Plan(source, all)' = Plan(source, all)
    BY <2>0
  <2>1. Dispatched
    BY <1>1, StepMoves DEF ReplayInv, Undisturbed
  <2>2. PICK who \in Opened, via \in {"command", "macro", "replay", "cleanup"}, how \in How :
          \E s : Adds(who, s, via, how) /\ Writes(s, how)
    BY <2>1 DEF Dispatched
  <2>3. PICK s : Adds(who, s, via, how)
    BY <2>2
  <2>4. \E S : log \in Seq(LogRows(S))
    BY <1>1 DEF ReplayInv, LogShape
  <2>5. Last(log').via = via
    <3> DEFINE row == [session |-> who, step |-> s, ok |-> how = "ok", via |-> via, kept |-> TRUE]
    <3>1. Len(log) \in Nat /\ Len(log') = Len(log) + 1 /\ log'[Len(log) + 1] = row
      BY <2>3, <2>4, AddsRow
    <3>2. row.via = via
      OBVIOUS
    <3> HIDE DEF row
    <3> QED BY <3>1, <3>2 DEF Last
  <2>6. all => via = "replay"
    BY <2>5
  <2> QED BY <2>3, <2>4, <2>6, PlannedAfter
<1> HIDE DEF Stays
<1>2. ReplayInv /\ [ReplayNext]_replayVars => [Stays]_replayVars
  BY <1>1
<1>3. [][Stays]_replayVars <=> PlanStays
  BY DEF Stays, PlanStays
<1> QED BY <1>2, <1>3, ReplayInvHolds, PTL DEF ReplaySpec

\* An undisturbed cleanup of which no delete failed leaves, of what its session put, only rows whose reply was pruned,
\* whatever the log and whenever it was pruned.
THEOREM CleanupLeavesNothing == ReplaySpec => CleanupComplete
<1> DEFINE Complete == CleanupEnds => \A k \in Key : ItsRow(writer'[k], log') => ~log'[writer'[k]].kept
<1>1. ASSUME ReplayInv, [ReplayNext]_replayVars
      PROVE  Complete
  <2> SUFFICES ASSUME CleanupEnds, NEW k \in Key, ItsRow(writer'[k], log'), log'[writer'[k]].kept
               PROVE  FALSE
    OBVIOUS
  <2>0. /\ task.kind = "cleanup" /\ task' = Idle /\ task.at = Len(task.steps) /\ task.calm /\ task.failed = {}
        /\ log' # log /\ Last(log').ok
    BY DEF CleanupEnds
  <2>1. task' # [task EXCEPT !.calm = FALSE] /\ task # Idle
    BY <1>1, <2>0, IdleShape DEF ReplayInv, TaskShape
  <2>2. \E how \in How : CleanupStep(how)
    BY <1>1, <2>0, <2>1 DEF ReplayNext, replayVars, OpenSession, CloseSession, RunStep, ReplayStep, Command, Interferes, AppWrite,
      RecordMacro, StartCleanup, StartReplay, EditMacro, DeleteMacro, IsNoOpPut, Restart, StartRun, Prune
  <2>3. PICK how \in How : CleanupStep(how)
    BY <2>2
  <2> DEFINE s == task.steps[task.at]
  <2>4. task.session \in Opened /\ task.steps \in Seq(Deletes) /\ task.at \in 1..Len(task.steps)
    BY <1>1, <2>0 DEF ReplayInv, TaskShape, Cleans
  <2>5. s \in Deletes
    BY <2>4
  <2>6. Adds(task.session, s, "cleanup", how) /\ Writes(s, how)
    BY <2>3 DEF CleanupStep, Dispatch, Adds, Writes
  <2> HIDE DEF s
  <2>7. how = "ok"
    <3>1. PICK who \in Opened, d \in Deletes : who = task.session /\ d = s
      BY <2>4, <2>5
    <3>2. Adds(who, d, "cleanup", how) /\ \E S : log \in Seq(LogRows(S))
      BY <1>1, <2>6, <3>1 DEF ReplayInv, LogShape
    <3> DEFINE row == [session |-> who, step |-> d, ok |-> how = "ok", via |-> "cleanup", kept |-> TRUE]
    <3>3. Len(log) \in Nat /\ Len(log') = Len(log) + 1 /\ log'[Len(log) + 1] = row
      BY <3>2, AddsRow
    <3>4. row.ok => how = "ok"
      OBVIOUS
    <3> HIDE DEF row
    <3> QED BY <2>0, <3>3, <3>4 DEF Last
  <2>8. s.key # k /\ writer'[k] = writer[k] /\ writer[k] # 0
    BY <2>5, <2>6, <2>7, DeleteTakes DEF ItsRow
  <2>9. log'[writer[k]] = log[writer[k]]
    BY <1>1, <2>3, <2>4, <2>8, CleanupLogs DEF ReplayInv
  <2>10. ItsRow(writer[k], log) /\ log[writer[k]].kept
    BY <2>8, <2>9 DEF ItsRow
  <2>11. PICK i \in task.at..Len(task.steps) : task.steps[i].key = k
    BY <1>1, <2>0, <2>10 DEF ReplayInv, Cleans
  <2>12. i = task.at
    BY <2>0, <2>4, <2>11
  <2> QED BY <2>8, <2>11, <2>12 DEF s
<1> HIDE DEF Complete
<1>2. ReplayInv /\ [ReplayNext]_replayVars => [Complete]_replayVars
  BY <1>1
<1>3. [][Complete]_replayVars <=> CleanupComplete
  BY DEF Complete, CleanupComplete
<1> QED BY <1>2, <1>3, ReplayInvHolds, PTL DEF ReplaySpec
=============================================================================

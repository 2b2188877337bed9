----------------------------- MODULE StateTools ------------------------------
(***************************************************************************)
(* Snapshots of the page's IndexedDB and what is built on them: /state/*   *)
(* (routes-state.mjs), crv run and verify (relay.mjs), session cleanup     *)
(* since a snapshot (routes-sessions.mjs), and their storage in db.mjs,    *)
(* which shares rows and whole snapshots by content and drops what it can  *)
(* rebuild.                                                                *)
(*                                                                         *)
(* The application writes whenever it likes.  A snapshot reads store by    *)
(* store, each in a transaction of its own.  A row is its key and one      *)
(* value; a store may or may not call its key "id".                        *)
(***************************************************************************)
EXTENDS Integers, Sequences, FiniteSets

CONSTANTS
  Store, Val, None,
  KeysOf,     \* Store -> the keys a row of it may have
  KeyedById,  \* Store -> whether its keyPath is "id"
  Scoped,     \* whether callers scope snapshots by content (where)
  MaxSnaps, MaxDiffs, MaxWrites, MaxFaults  \* bounds

ASSUME StateAssumption ==
  /\ None \notin Val /\ KeyedById \in [Store -> BOOLEAN] /\ Scoped \in BOOLEAN
  /\ \A s \in Store : KeysOf[s] \subseteq Nat /\ IsFiniteSet(KeysOf[s])
  /\ {MaxSnaps, MaxDiffs, MaxWrites, MaxFaults} \subseteq Nat

VARIABLES
  page,      \* store -> key -> value, None where there is no row
  rowBlobs,  \* table snapshot_rows: the rows stored so far
  snaps,     \* table state_snapshots
  diffs,     \* table state_diffs
  job,       \* the request under way
  writes,    \* writes of the application so far
  faults,    \* requests that failed half-way and relay restarts so far
  lost       \* rows a cleanup deleted that were there when its snapshot was taken (history)

tables == <<rowBlobs, snaps, diffs>>
vars == <<page, rowBlobs, snaps, diffs, job, writes, faults, lost>>

Quiet == [at |-> "none", op |-> "none", stores |-> {}, where |-> None, base |-> 0, got |-> [s \in {} |-> None],
          seen |-> [s \in {} |-> {}], row |-> None, left |-> {}]
Rows(s) == [KeysOf[s] -> Val \cup {None}]

Init ==
  /\ page \in {p \in [Store -> UNION {Rows(s) : s \in Store}] : \A s \in Store : p[s] \in Rows(s)}
  /\ rowBlobs = {} /\ snaps = <<>> /\ diffs = <<>> /\ job = Quiet /\ writes = 0 /\ faults = 0 /\ lost = {}

AppWrite == \E s \in Store, v \in Val \cup {None} : \E k \in KeysOf[s] :
  /\ writes < MaxWrites /\ page[s][k] # v
  /\ page' = [page EXCEPT ![s][k] = v] /\ writes' = writes + 1 /\ UNCHANGED <<tables, job, faults, lost>>

-----------------------------------------------------------------------------
\* Storing rows.

Filled(rows) == {k \in DOMAIN rows : rows[k] # None}
\* The distinct values of a store in the order of the keys that hold them first.
Distinct(rows) ==
  LET first == {k \in Filled(rows) : \A j \in Filled(rows) : rows[j] = rows[k] => k <= j}
  IN [n \in 1..Cardinality(first) |->
        rows[CHOOSE k \in first : Cardinality({j \in first : j <= k}) = n]]
Repeats(rows) == Len(Distinct(rows)) < Cardinality(Filled(rows))

\* buildColumnDictionary: values that repeat become references into a dictionary of the store, if that pays.
Compact(rows, pays) ==
  LET dict == Distinct(rows)
      used == pays /\ Repeats(rows)
      Cell(v) == IF used /\ v # None THEN [d |-> CHOOSE n \in DOMAIN dict : dict[n] = v] ELSE [v |-> v]
  IN [dict |-> IF used THEN dict ELSE <<>>, cells |-> [k \in DOMAIN rows |-> Cell(rows[k])]]

Expanded_raw(entry) == [k \in DOMAIN entry.cells |->
  LET cell == entry.cells[k] IN IF "d" \in DOMAIN cell THEN cell.d ELSE cell.v]
\* resolveStores, expandColumnDictionary: rows come back by hash; a row that is not there reads as null.
Expanded(entry) ==
  [k \in DOMAIN entry.cells |->
     LET cell == entry.cells[k]
     IN IF <<k, cell>> \notin rowBlobs THEN None
        ELSE IF entry.dict # <<>> /\ "d" \in DOMAIN cell THEN entry.dict[cell.d] ELSE cell.v]

\* A store's entry in a dump, and in what is read back from the database, which keeps no keyPath.
Dumped(rows) == [own |-> TRUE, rows |-> rows]
Loaded(entry) == [own |-> FALSE, rows |-> Expanded(entry)]

StoredOf_own(i) == snaps[i].stores
\* getSnapshot: a snapshot that repeats an earlier one keeps a pointer instead of the list of rows.
StoredOf(i) == IF snaps[i].servedFrom = 0 THEN snaps[i].stores ELSE snaps[snaps[i].servedFrom].stores
Read(i) == [s \in DOMAIN StoredOf(i) |-> Loaded(StoredOf(i)[s])]

-----------------------------------------------------------------------------
\* computeDiff

\* The rows by the value at the keyPath.  Without the store's own keyPath "id" is tried; rows that have none all
\* land on one key, where the last stays.
Last(S) == CHOOSE k \in S : \A j \in S : j <= k
Keyed(s, entry, own) ==
  IF own \/ KeyedById[s] THEN [k \in Filled(entry.rows) |-> <<k, entry.rows[k]>>]
  ELSE [k \in {0 : j \in Filled(entry.rows)} |-> <<Last(Filled(entry.rows)), entry.rows[Last(Filled(entry.rows))]>>]

Differences(before, after) ==
  [added |-> {after[k] : k \in DOMAIN after \ DOMAIN before},
   removed |-> {before[k] : k \in DOMAIN before \ DOMAIN after},
   changed |-> {<<before[k], after[k]>> : k \in {j \in DOMAIN before \cap DOMAIN after : before[j] # after[j]}}]
NoDifference == [added |-> {}, removed |-> {}, changed |-> {}]

ComputeDiff_before(before, after) ==
  LET Own(s) == s \in DOMAIN after /\ after[s].own
      Rest(s) == IF s \in DOMAIN after THEN Keyed(s, after[s], Own(s)) ELSE [k \in {} |-> None]
      Of(s) == Differences(Keyed(s, before[s], Own(s)), Rest(s))
  IN [s \in {n \in DOMAIN before : Of(n) # NoDifference} |-> Of(s)]
ComputeDiff(before, after) ==
  LET names == DOMAIN before \cup DOMAIN after
      Entry(dump, s) == IF s \in DOMAIN dump THEN dump[s] ELSE [own |-> FALSE, rows |-> [k \in {} |-> None]]
      Own(s) == Entry(after, s).own \/ Entry(before, s).own
      Of(s) == Differences(Keyed(s, Entry(before, s), Own(s)), Keyed(s, Entry(after, s), Own(s)))
  IN [s \in {n \in names : Of(n) # NoDifference} |-> Of(s)]

-----------------------------------------------------------------------------
\* Requests.  Each starts with the stores to read; base is the snapshot it compares with, or writes back.

Starts(op, stores, where, base) ==
  /\ job = Quiet /\ Len(snaps) < MaxSnaps
  /\ job' = [Quiet EXCEPT !.at = "read", !.op = op, !.stores = stores, !.where = where, !.base = base]
  /\ UNCHANGED <<page, tables, writes, faults, lost>>

SomeStores == (SUBSET Store) \ {{}}
StartSnapshot == \E stores \in SomeStores, where \in {None} \cup (IF Scoped THEN Val ELSE {}) :
  Starts("snapshot", stores, where, 0)
\* POST /crv/run: a snapshot, an action, a verification against that snapshot.
StartRun == \E stores \in SomeStores : Starts("run", stores, None, 0)
\* POST /state/verify reads the stores it is given, scoped as the baseline was.
StartVerify == \E i \in DOMAIN snaps, stores \in SomeStores : Starts("verify", stores, snaps[i].where, i)
\* Cleanup reads the baseline's stores, and reads them whole.
CleanupScope(i) == None
StartCleanup == \E i \in DOMAIN snaps : Starts("cleanup", DOMAIN StoredOf(i), CleanupScope(i), i)

\* dumpAllStores: one store, in a transaction of its own.
ReadStore == \E s \in job.stores :
  /\ job.at = "read" /\ s \notin DOMAIN job.got
  /\ LET done == DOMAIN job.got \cup {s}
         In(x) == IF job.where = None \/ x = job.where THEN x ELSE None
     IN job' = [job EXCEPT
          !.at = IF done = job.stores THEN "save" ELSE "read",
          !.got = [t \in done |-> IF t = s THEN [k \in KeysOf[s] |-> In(page[s][k])] ELSE job.got[t]],
          !.seen = [t \in done |-> IF t = s THEN Filled(page[s]) ELSE job.seen[t]]]
  /\ UNCHANGED <<page, tables, writes, faults, lost>>

\* saveSnapshot: the rows are stored first, then the snapshot that lists them, or points at the newest one of the
\* same content.
Twins == {i \in DOMAIN snaps : snaps[i].content = job.got /\ snaps[i].servedFrom = 0}
SaveRows == \E pays \in BOOLEAN :
  /\ job.at = "save"
  /\ (Twins # {} \/ ~\E s \in job.stores : Repeats(job.got[s])) => ~pays
  /\ LET stores == [s \in job.stores |-> Compact(job.got[s], pays)]
         rows == UNION {{<<k, stores[s].cells[k]>> : k \in Filled(job.got[s])} : s \in job.stores}
     IN /\ rowBlobs' = IF Twins # {} THEN rowBlobs ELSE rowBlobs \cup rows
        /\ job' = [job EXCEPT !.at = "insert",
                      !.row = [content |-> job.got, where |-> job.where, seen |-> job.seen,
                               servedFrom |-> IF Twins = {} THEN 0 ELSE Last(Twins),
                               stores |-> IF Twins = {} THEN stores ELSE [s \in {} |-> None]]]
  /\ UNCHANGED <<page, snaps, diffs, writes, faults, lost>>
InsertSnapshot ==
  /\ job.at = "insert" /\ snaps' = Append(snaps, job.row)
  /\ job' = IF job.op = "snapshot" THEN Quiet
            ELSE [Quiet EXCEPT !.at = "saved", !.op = job.op, !.stores = job.stores, !.base = job.base]
  /\ UNCHANGED <<page, rowBlobs, diffs, writes, faults, lost>>

\* crv run: the baseline is read back, the action is dispatched, and the stores are read once more.
RunAction == \E s \in Store, v \in Val \cup {None} : \E k \in KeysOf[s] :
  /\ job.at = "saved" /\ job.op = "run"
  /\ page' = [page EXCEPT ![s][k] = v]
  /\ job' = IF Len(snaps) = MaxSnaps THEN Quiet
            ELSE [job EXCEPT !.at = "read", !.op = "verify", !.base = Len(snaps)]
  /\ UNCHANGED <<tables, writes, faults, lost>>

\* verifyAgainstBaseline: the baseline from the database, in the stores asked for, against the fresh dump.
Restricted(dump, stores) == [s \in DOMAIN dump \cap stores |-> dump[s]]
Fresh_stored == Read(Len(snaps))
Fresh == [s \in DOMAIN snaps[Len(snaps)].content |-> Dumped(snaps[Len(snaps)].content[s])]
SaveVerify ==
  /\ job.at = "saved" /\ job.op = "verify" /\ Len(diffs) < MaxDiffs
  /\ diffs' = Append(diffs, [from |-> job.base, to |-> Len(snaps), by |-> "verify",
                             diff |-> ComputeDiff(Restricted(Read(job.base), job.stores), Fresh)])
  /\ job' = Quiet /\ UNCHANGED <<page, rowBlobs, snaps, writes, faults, lost>>

\* POST /state/diff: a diff of the same two contents is served again, otherwise the stored snapshots are compared.
Cached(i, j) ==
  {d \in DOMAIN diffs : /\ diffs[d].by # "cache"
                        /\ snaps[diffs[d].from].content = snaps[i].content
                        /\ snaps[diffs[d].to].content = snaps[j].content}
Diff == \E i, j \in DOMAIN snaps :
  /\ job = Quiet /\ Len(diffs) < MaxDiffs /\ i # j
  /\ diffs' = Append(diffs,
       [from |-> i, to |-> j, by |-> IF Cached(i, j) = {} THEN "diff" ELSE "cache",
        diff |-> IF Cached(i, j) = {} THEN ComputeDiff(Read(i), Read(j)) ELSE diffs[Last(Cached(i, j))].diff])
  /\ UNCHANGED <<page, rowBlobs, snaps, job, writes, faults, lost>>

\* Cleanup since a snapshot: what was added since is listed, and deleted row by row when confirmed.
Pending_changed(diff) ==
  UNION {{<<s, row[1]>> : row \in diff[s].added \cup {pair[2] : pair \in diff[s].changed}} : s \in DOMAIN diff}
Pending(diff) == UNION {{<<s, row[1]>> : row \in diff[s].added} : s \in DOMAIN diff}
PlanCleanup ==
  /\ job.at = "saved" /\ job.op = "cleanup"
  /\ LET pending == Pending(ComputeDiff(Read(job.base), Fresh))
     IN job' = IF pending = {} THEN Quiet ELSE [Quiet EXCEPT !.at = "delete", !.base = job.base, !.left = pending]
  /\ UNCHANGED <<page, tables, writes, faults, lost>>
Delete == \E row \in job.left :
  /\ job.at = "delete"
  /\ page' = [page EXCEPT ![row[1]][row[2]] = None]
  /\ lost' = IF row[2] \in snaps[job.base].seen[row[1]] THEN lost \cup {row} ELSE lost
  /\ job' = IF job.left = {row} THEN Quiet ELSE [job EXCEPT !.left = @ \ {row}]
  /\ UNCHANGED <<tables, writes, faults>>

\* POST /state/restore: the snapshot's rows are put back one by one; nothing is deleted.
RowsOf(dump) == UNION {{<<s, k>> : k \in Filled(dump[s].rows)} : s \in DOMAIN dump}
StartRestore == \E i \in DOMAIN snaps :
  /\ job = Quiet /\ RowsOf(Read(i)) # {}
  /\ job' = [Quiet EXCEPT !.at = "put", !.base = i, !.left = RowsOf(Read(i))]
  /\ UNCHANGED <<page, tables, writes, faults, lost>>
Put == \E row \in job.left :
  /\ job.at = "put"
  /\ page' = [page EXCEPT ![row[1]][row[2]] = Read(job.base)[row[1]].rows[row[2]]]
  /\ job' = IF job.left = {row} THEN Quiet ELSE [job EXCEPT !.left = @ \ {row}]
  /\ UNCHANGED <<tables, writes, faults, lost>>

\* One row of a cleanup or restore fails and is reported; the others are still done.
RowFails == \E row \in job.left :
  /\ job.at \in {"delete", "put"} /\ faults < MaxFaults /\ faults' = faults + 1
  /\ job' = IF job.left = {row} THEN Quiet ELSE [job EXCEPT !.left = @ \ {row}]
  /\ UNCHANGED <<page, tables, writes, lost>>

\* The relay ends, or the command fails: the request is over where it was.
Abort ==
  /\ job # Quiet /\ faults < MaxFaults /\ faults' = faults + 1 /\ job' = Quiet
  /\ UNCHANGED <<page, tables, writes, lost>>

Next ==
  \/ AppWrite \/ StartSnapshot \/ StartRun \/ StartVerify \/ StartCleanup \/ ReadStore \/ SaveRows
  \/ InsertSnapshot \/ RunAction \/ SaveVerify \/ Diff \/ PlanCleanup \/ Delete \/ StartRestore \/ Put
  \/ RowFails \/ Abort

Spec == Init /\ [][Next]_vars

-----------------------------------------------------------------------------

\* A snapshot reads back as what the page held when it was taken, however its rows were shared, compacted or
\* pointed at, and wherever an earlier save was cut off (saveSnapshot, getSnapshot).
ReadsBack ==
  \A i \in DOMAIN snaps :
    /\ DOMAIN Read(i) = DOMAIN snaps[i].content
    /\ \A s \in DOMAIN Read(i) : Read(i)[s].rows = snaps[i].content[s]

\* The differences between two contents of a store.
Truth(s, before, after) ==
  LET Full(content) == IF s \in DOMAIN content THEN [k \in Filled(content[s]) |-> <<k, content[s][k]>>]
                       ELSE [k \in {} |-> None]
  IN Differences(Full(before), Full(after))
Reported(d, s) == IF s \in DOMAIN diffs[d].diff THEN diffs[d].diff[s] ELSE NoDifference
Contents(d) == <<snaps[diffs[d].from].content, snaps[diffs[d].to].content>>

\* A verification reports exactly what became of each store it read, whatever the store's keyPath is: it compares
\* the stored baseline with the fresh dump (verifyAgainstBaseline).  A diff of two stored snapshots does so for
\* every store keyed by "id" (POST /state/diff).
DiffTrue ==
  \A d \in DOMAIN diffs :
    LET before == Contents(d)[1]
        after == Contents(d)[2]
    IN /\ diffs[d].by = "verify" => \A s \in DOMAIN after : Reported(d, s) = Truth(s, before, after)
       /\ diffs[d].by = "diff" => \A s \in Store : KeyedById[s] => Reported(d, s) = Truth(s, before, after)

\* Does not hold: a diff is true of every store.  computeDiff says "not every store in this app's IndexedDB layer
\* uses keyPath: 'id'", but the stored snapshots have lost the keyPath.
DiffTrueForEveryKey ==
  \A d \in DOMAIN diffs : diffs[d].by = "diff" =>
    \A s \in Store : Reported(d, s) = Truth(s, Contents(d)[1], Contents(d)[2])

\* Cleanup since a snapshot deletes rows "new since N" only: never one that was there when the snapshot was taken.
CleanupSparesOld == lost = {}
=============================================================================

--------------------------- MODULE StateToolsProofs --------------------------
(***************************************************************************)
(* What StateTools promises, for any stores, keys and bounds.              *)
(***************************************************************************)
EXTENDS StateTools, FiniteSetTheorems, WellFoundedInduction, TLAPS

-----------------------------------------------------------------------------
\* Least and greatest of a set of numbers.

LEMMA Least == ASSUME NEW S \in SUBSET Nat, S # {} PROVE \E m \in S : \A j \in S : m <= j
<1> DEFINE R == {ss \in Nat \X Nat : ss[1] < ss[2]}
<1>1. IsWellFoundedOn(R, Nat)
  BY NatLessThanWellFounded DEF OpToRel
<1>2. PICK m \in S : \A j \in S : ~(<<j, m>> \in R)
  <2> HIDE DEF R
  <2> QED BY <1>1, WFMin
<1>3. ASSUME NEW j \in S PROVE m <= j
  <2>1. <<j, m>> \in Nat \X Nat /\ <<j, m>>[1] = j /\ <<j, m>>[2] = m
    OBVIOUS
  <2>2. ~(j < m)
    BY <1>2, <2>1
  <2> QED BY <2>2
<1> QED BY <1>3

LEMMA LastOf == ASSUME NEW n \in Nat, NEW S \in SUBSET (1..n), S # {} PROVE Last(S) \in S
<1> DEFINE T == {n - k : k \in S}
<1>1. T \subseteq Nat /\ T # {}
  <2>1. ASSUME NEW t \in T PROVE t \in Nat
    <3>1. PICK k \in S : t = n - k
      OBVIOUS
    <3>2. k \in 1..n
      OBVIOUS
    <3> QED BY <3>1, <3>2
  <2>2. PICK k \in S : TRUE
    OBVIOUS
  <2>3. n - k \in T
    OBVIOUS
  <2> QED BY <2>1, <2>3
<1>2. PICK t \in T : \A u \in T : t <= u
  BY <1>1, Least
<1>3. PICK k \in S : t = n - k
  BY <1>2
<1>4. \A j \in S : j <= k
  <2> TAKE j \in S
  <2>1. n - k <= n - j
    BY <1>2, <1>3
  <2> QED BY <2>1
<1> QED BY <1>4 DEF Last

-----------------------------------------------------------------------------
\* The column dictionary.

\* The number of keys up to one of them tells it from the others.
LEMMA RankTells ==
  ASSUME NEW F \in SUBSET Nat, IsFiniteSet(F), NEW k \in F, NEW m \in F,
         Cardinality({j \in F : j <= k}) = Cardinality({j \in F : j <= m})
  PROVE  k = m
<1>1. ASSUME NEW a \in F, NEW b \in F, a < b PROVE Cardinality({j \in F : j <= a}) # Cardinality({j \in F : j <= b})
  <2>1. IsFiniteSet({j \in F : j <= b})
    BY FS_Subset
  <2>2. {j \in F : j <= a} \subseteq {j \in F : j <= b}
    <3>1. ASSUME NEW j \in F, j <= a PROVE j <= b
      <4>1. j \in Nat /\ a \in Nat /\ b \in Nat
        OBVIOUS
      <4> QED BY <1>1, <3>1, <4>1
    <3> QED BY <3>1
  <2>3. b \in {j \in F : j <= b} /\ b \notin {j \in F : j <= a}
    BY <1>1
  <2> DEFINE A == {j \in F : j <= a}
             B == {j \in F : j <= b}
  <2>4. A \in SUBSET B /\ IsFiniteSet(B) /\ A # B
    BY <2>1, <2>2, <2>3
  <2> HIDE DEF A, B
  <2>5. Cardinality(A) # Cardinality(B)
    BY <2>4, FS_Subset
  <2> QED BY <2>5 DEF A, B
<1>2. ~(k < m) /\ ~(m < k)
  BY <1>1
<1> QED BY <1>2

First(rows) == {k \in Filled(rows) : \A j \in Filled(rows) : rows[j] = rows[k] => k <= j}

\* Every value of a store is in the dictionary (buildColumnDictionary).
LEMMA InDictionary ==
  ASSUME NEW rows, DOMAIN rows \subseteq Nat, IsFiniteSet(DOMAIN rows), NEW k \in Filled(rows)
  PROVE  \E n \in DOMAIN Distinct(rows) : Distinct(rows)[n] = rows[k]
<1> DEFINE F == First(rows)
           same == {j \in Filled(rows) : rows[j] = rows[k]}
           upto(m) == {j \in F : j <= m}
<1>1. F \subseteq Nat /\ IsFiniteSet(F)
  BY FS_Subset DEF First, Filled
<1>2. PICK m \in same : \A j \in same : m <= j
  <2>1. same \subseteq Nat /\ same # {}
    BY DEF Filled
  <2> QED BY <2>1, Least
<1>3. m \in F /\ rows[m] = rows[k]
  BY <1>2 DEF First
<1> DEFINE n == Cardinality(upto(m))
<1>4. n \in 1..Cardinality(F)
  <2>1. upto(m) \subseteq F /\ m \in upto(m)
    BY <1>1, <1>3
  <2>2. IsFiniteSet(upto(m)) /\ n <= Cardinality(F)
    BY <1>1, <2>1, FS_Subset
  <2>3. n \in Nat /\ Cardinality(F) \in Nat
    BY <1>1, <2>2, FS_CardinalityType
  <2>4. n # 0
    BY <2>1, <2>2, FS_EmptySet
  <2> QED BY <2>2, <2>3, <2>4
<1>5. (CHOOSE j \in F : Cardinality(upto(j)) = n) = m
  <2> HIDE DEF F
  <2>1. \A j \in F : Cardinality(upto(j)) = n => j = m
    BY <1>1, <1>3, RankTells
  <2> QED BY <1>3, <2>1
<1>6. Distinct(rows) = [i \in 1..Cardinality(F) |-> rows[CHOOSE j \in F : Cardinality(upto(j)) = i]]
  BY DEF Distinct, First
<1> HIDE DEF F, n, upto
<1>7. DOMAIN Distinct(rows) = 1..Cardinality(F)
  BY <1>6
<1>8. Distinct(rows)[n] = rows[CHOOSE j \in F : Cardinality(upto(j)) = n]
  BY <1>4, <1>6
<1> QED BY <1>3, <1>4, <1>5, <1>7, <1>8

\* A store reads back as it was as long as its rows are stored (resolveStores, expandColumnDictionary).
LEMMA ExpandsBack ==
  ASSUME NEW s \in Store, NEW rows \in Rows(s), NEW pays \in BOOLEAN,
         \A k \in Filled(rows) : <<k, Compact(rows, pays).cells[k]>> \in rowBlobs
  PROVE  Expanded(Compact(rows, pays)) = rows
<1> DEFINE dict == Distinct(rows)
           used == pays /\ Repeats(rows)
           cell(v) == IF used /\ v # None THEN [d |-> CHOOSE n \in DOMAIN dict : dict[n] = v] ELSE [v |-> v]
           entry == [dict |-> IF used THEN dict ELSE <<>>, cells |-> [k \in DOMAIN rows |-> cell(rows[k])]]
           at(k) == IF <<k, cell(rows[k])>> \notin rowBlobs THEN None
                    ELSE IF entry.dict # <<>> /\ "d" \in DOMAIN cell(rows[k]) THEN entry.dict[cell(rows[k]).d]
                    ELSE cell(rows[k]).v
<1>1. DOMAIN rows = KeysOf[s] /\ DOMAIN rows \subseteq Nat /\ IsFiniteSet(DOMAIN rows)
  BY StateAssumption DEF StateAssumption, Rows
<1>2. Compact(rows, pays) = entry
  BY DEF Compact
<1>3. Expanded(entry) = [k \in DOMAIN rows |-> at(k)]
  BY DEF Expanded
<1>4. ASSUME NEW k \in DOMAIN rows PROVE at(k) = rows[k]
  <2>1. CASE rows[k] = None
    BY <2>1
  <2>2. CASE rows[k] # None
    <3>1. k \in Filled(rows) /\ <<k, cell(rows[k])>> \in rowBlobs
      <4>1. k \in Filled(rows)
        BY <2>2 DEF Filled
      <4>2. Compact(rows, pays).cells[k] = cell(rows[k])
        BY <1>2
      <4> QED BY <4>1, <4>2
    <3>2. CASE used
      <4>1. PICK n \in DOMAIN dict : dict[n] = rows[k]
        <5> HIDE DEF dict
        <5> QED BY <1>1, <3>1, InDictionary DEF dict
      <4> DEFINE m == CHOOSE i \in DOMAIN dict : dict[i] = rows[k]
      <4>2. m \in DOMAIN dict /\ dict[m] = rows[k]
        BY <4>1
      <4>3. dict # <<>>
        BY <4>2
      <4>4. cell(rows[k]) = [d |-> m] /\ entry.dict = dict
        BY <2>2, <3>2
      <4> HIDE DEF m, dict, used, cell
      <4>5. "d" \in DOMAIN cell(rows[k]) /\ cell(rows[k]).d = m
        BY <4>4
      <4> QED BY <3>1, <4>2, <4>3, <4>4, <4>5
    <3>3. CASE ~used
      <4>1. cell(rows[k]) = [v |-> rows[k]] /\ entry.dict = <<>>
        BY <3>3
      <4> QED BY <3>1, <4>1
    <3> QED BY <3>2, <3>3
  <2> QED BY <2>1, <2>2
<1> HIDE DEF at, entry
<1>5. Expanded(entry) = [k \in DOMAIN rows |-> rows[k]]
  BY <1>3, <1>4
<1>6. rows = [k \in DOMAIN rows |-> rows[k]]
  BY DEF Rows
<1> QED BY <1>2, <1>5, <1>6

-----------------------------------------------------------------------------
\* Differences.

Full(rows) == [k \in Filled(rows) |-> <<k, rows[k]>>]
Entry(dump, s) == IF s \in DOMAIN dump THEN dump[s] ELSE [own |-> FALSE, rows |-> [k \in {} |-> None]]
Own(before, after, s) == Entry(after, s).own \/ Entry(before, s).own
Delta(before, after, s) ==
  Differences(Keyed(s, Entry(before, s), Own(before, after, s)), Keyed(s, Entry(after, s), Own(before, after, s)))
Told(diff, s) == IF s \in DOMAIN diff THEN diff[s] ELSE NoDifference

LEMMA DiffIs ==
  ASSUME NEW before, NEW after
  PROVE  ComputeDiff(before, after) =
           [s \in {n \in DOMAIN before \cup DOMAIN after : Delta(before, after, n) # NoDifference} |-> Delta(before, after, s)]
BY DEF ComputeDiff, Delta, Own, Entry

\* A dump tells the rows of a store.
Tells(dump, content, s) ==
  /\ s \in DOMAIN dump <=> s \in DOMAIN content
  /\ s \in DOMAIN dump => dump[s].rows = content[s]

LEMMA NothingThere == Full([k \in {} |-> None]) = [k \in {} |-> None]
<1>1. Filled([k \in {} |-> None]) = {}
  BY DEF Filled
<1> QED BY <1>1 DEF Full

LEMMA KeyedIs ==
  ASSUME NEW s, NEW dump, NEW content, Tells(dump, content, s), NEW own, own \/ KeyedById[s]
  PROVE  Keyed(s, Entry(dump, s), own) = IF s \in DOMAIN content THEN Full(content[s]) ELSE [k \in {} |-> None]
<1>1. Keyed(s, Entry(dump, s), own) = Full(Entry(dump, s).rows)
  BY DEF Keyed, Full
<1> QED BY <1>1, NothingThere DEF Tells, Entry

\* Where the keys are known, what is told of a store is what became of it (computeDiff).
LEMMA ToldTruly ==
  ASSUME NEW s, NEW before, NEW after, NEW old, NEW new,
         Tells(before, old, s), Tells(after, new, s), Own(before, after, s) \/ KeyedById[s]
  PROVE  Told(ComputeDiff(before, after), s) = Truth(s, old, new)
<1>1. Delta(before, after, s) = Truth(s, old, new)
  BY KeyedIs DEF Delta, Truth, Full
<1>2. CASE s \in DOMAIN before \cup DOMAIN after
  BY <1>1, <1>2, DiffIs DEF Told
<1>3. CASE s \notin DOMAIN before \cup DOMAIN after
  <2>1. Truth(s, old, new) = NoDifference
    BY <1>3 DEF Tells, Truth, Differences, NoDifference
  <2> QED BY <1>3, <2>1, DiffIs DEF Told
<1> QED BY <1>2, <1>3

-----------------------------------------------------------------------------
\* The invariant.

\* A table that grows at its end.
Stored(q) == {q[i] : i \in DOMAIN q}
Listed(q) == q \in Seq(Stored(q))

LEMMA Appended ==
  ASSUME NEW q, Listed(q), NEW e
  PROVE  /\ Listed(Append(q, e))
         /\ Len(q) \in Nat /\ DOMAIN q = 1..Len(q)
         /\ Len(Append(q, e)) = Len(q) + 1 /\ DOMAIN Append(q, e) = 1..(Len(q) + 1)
         /\ Append(q, e)[Len(q) + 1] = e
         /\ \A i \in DOMAIN q : Append(q, e)[i] = q[i]
         /\ Stored(Append(q, e)) = Stored(q) \cup {e}
<1> DEFINE S == Stored(q) \cup {e}
           r == Append(q, e)
<1>1. q \in Seq(S)
  BY DEF Listed
<1>2. /\ r \in Seq(S) /\ Len(q) \in Nat /\ DOMAIN q = 1..Len(q)
      /\ Len(r) = Len(q) + 1 /\ DOMAIN r = 1..(Len(q) + 1)
      /\ r[Len(q) + 1] = e /\ \A i \in 1..Len(q) : r[i] = q[i]
  <2> HIDE DEF S
  <2> QED BY <1>1, e \in S DEF S
<1> HIDE DEF r
<1>3. r \in Seq(Stored(r))
  <2>1. \A i \in 1..Len(r) : r[i] \in Stored(r)
    BY <1>2 DEF Stored
  <2> HIDE DEF S
  <2> QED BY <1>2, <2>1
<1>4. Stored(r) = Stored(q) \cup {e}
  <2>1. 1..(Len(q) + 1) = (1..Len(q)) \cup {Len(q) + 1}
    BY <1>2
  <2> QED BY <1>2, <2>1 DEF Stored
<1> QED BY <1>2, <1>3, <1>4 DEF Listed, r

\* The rows of a snapshot are stored, compacted or not.
Holds(stores, content) ==
  /\ DOMAIN stores = DOMAIN content
  /\ \A s \in DOMAIN content : \E pays \in BOOLEAN :
       /\ stores[s] = Compact(content[s], pays)
       /\ \A k \in Filled(content[s]) : <<k, stores[s].cells[k]>> \in rowBlobs

\* A row of state_snapshots, written or about to be.
GoodRow(r) ==
  /\ DOMAIN r.content \subseteq Store
  /\ \A s \in DOMAIN r.content : r.content[s] \in Rows(s) /\ (r.where = None => r.seen[s] = Filled(r.content[s]))
  /\ ~Scoped => r.where = None
  /\ r.servedFrom = 0 => Holds(r.stores, r.content)
  /\ r.servedFrom # 0 => /\ r.servedFrom \in DOMAIN snaps
                         /\ snaps[r.servedFrom].servedFrom = 0 /\ snaps[r.servedFrom].content = r.content

\* A row of state_diffs.
GoodDiff(e) ==
  /\ e.from \in DOMAIN snaps /\ e.to \in DOMAIN snaps
  /\ e.by = "verify" => \A s \in DOMAIN snaps[e.to].content :
                           Told(e.diff, s) = Truth(s, snaps[e.from].content, snaps[e.to].content)
  /\ e.by = "diff" => \A s \in Store : KeyedById[s] =>
                           Told(e.diff, s) = Truth(s, snaps[e.from].content, snaps[e.to].content)

PageOK == DOMAIN page = Store /\ \A s \in Store : page[s] \in Rows(s)
SnapsOK == Listed(snaps) /\ \A r \in Stored(snaps) : GoodRow(r)
DiffsOK == Listed(diffs) /\ \A e \in Stored(diffs) : GoodDiff(e)

\* The request under way: what it reads and compares with ...
Working == job.at \in {"read", "save", "insert", "saved"} =>
  /\ job.stores \subseteq Store
  /\ job.op \in {"verify", "cleanup"} => job.base \in DOMAIN snaps
  /\ job.op = "cleanup" => job.stores = DOMAIN snaps[job.base].content
\* ... what it has read so far ...
Reading == job.at \in {"read", "save"} =>
  /\ DOMAIN job.got \subseteq job.stores
  /\ job.at = "save" => DOMAIN job.got = job.stores
  /\ \A s \in DOMAIN job.got : job.got[s] \in Rows(s) /\ (job.where = None => job.seen[s] = Filled(job.got[s]))
  /\ ~Scoped => job.where = None
\* ... the snapshot it saves ...
Saving ==
  /\ job.at = "insert" => (\A r \in {job.row} : GoodRow(r)) /\ DOMAIN job.row.content = job.stores
  /\ job.at = "saved" => /\ Len(snaps) \in DOMAIN snaps /\ DOMAIN snaps[Len(snaps)].content = job.stores
                        /\ DOMAIN job.got = {} /\ job.where = None
\* ... and the rows it is to delete or put back.
Changing ==
  /\ job.at = "delete" =>
       /\ job.base \in DOMAIN snaps
       /\ ~Scoped => \A row \in job.left : row[2] \notin snaps[job.base].seen[row[1]]
  /\ job.at = "put" =>
       /\ job.base \in DOMAIN snaps
       /\ \A row \in job.left : row[1] \in DOMAIN snaps[job.base].content /\ row[2] \in KeysOf[row[1]]
Spared == ~Scoped => lost = {}

JobOK == DOMAIN job = DOMAIN Quiet /\ Working /\ Reading /\ Saving /\ Changing
IInv == PageOK /\ SnapsOK /\ DiffsOK /\ JobOK /\ Spared

LEMMA InitHolds == Init => IInv
<1> SUFFICES ASSUME Init PROVE IInv
  OBVIOUS
<1>1. PageOK
  BY DEF Init, PageOK
<1>2. SnapsOK /\ DiffsOK
  BY DEF Init, SnapsOK, DiffsOK, Listed, Stored
<1>3. JobOK
  BY DEF Init, JobOK, Quiet, Working, Reading, Saving, Changing
<1>4. Spared
  BY DEF Init, Spared
<1> QED BY <1>1, <1>2, <1>3, <1>4 DEF IInv

-----------------------------------------------------------------------------
\* The tables.

\* Tables grow at their end, and no blob goes.
Grows ==
  /\ rowBlobs \subseteq rowBlobs'
  /\ \/ snaps' = snaps
     \/ job.at = "insert" /\ snaps' = Append(snaps, job.row)

LEMMA TablesGrow == [Next]_vars => Grows
BY DEF Next, AppWrite, StartSnapshot, StartRun, StartVerify, StartCleanup, Starts, ReadStore, SaveRows, InsertSnapshot,
       RunAction, SaveVerify, Diff, PlanCleanup, Delete, StartRestore, Put, RowFails, Abort, vars, tables, Grows

\* What was in state_snapshots stays as it is.
LEMMA SnapsStay ==
  ASSUME SnapsOK, Grows
  PROVE  /\ DOMAIN snaps \subseteq DOMAIN snaps'
         /\ \A i \in DOMAIN snaps : snaps'[i] = snaps[i]
<1>1. CASE snaps' = snaps
  BY <1>1
<1>2. CASE snaps' = Append(snaps, job.row)
  <2>1. Listed(snaps)
    BY DEF SnapsOK
  <2>2. /\ Len(snaps) \in Nat /\ DOMAIN snaps = 1..Len(snaps) /\ DOMAIN snaps' = 1..(Len(snaps) + 1)
        /\ \A i \in DOMAIN snaps : snaps'[i] = snaps[i]
    BY <1>2, <2>1, Appended
  <2> QED BY <2>2
<1> QED BY <1>1, <1>2 DEF Grows

LEMMA HoldsStill == ASSUME Grows, NEW stores, NEW content, Holds(stores, content) PROVE Holds(stores, content)'
BY DEF Grows, Holds, Compact, Distinct, Repeats, Filled

LEMMA RowStays == ASSUME SnapsOK, Grows, NEW r, GoodRow(r) PROVE GoodRow(r)'
<1>1. r.servedFrom = 0 => Holds(r.stores, r.content)'
  BY HoldsStill DEF GoodRow
<1>2. r.servedFrom # 0 => /\ r.servedFrom \in DOMAIN snaps'
                         /\ snaps'[r.servedFrom].servedFrom = 0 /\ snaps'[r.servedFrom].content = r.content
  BY SnapsStay DEF GoodRow
<1> QED BY <1>1, <1>2 DEF GoodRow, Filled

LEMMA SnapsNext == IInv /\ [Next]_vars => SnapsOK'
<1> SUFFICES ASSUME IInv, [Next]_vars PROVE SnapsOK'
  OBVIOUS
<1>1. SnapsOK /\ Grows /\ Saving
  BY TablesGrow DEF IInv, JobOK
<1>2. \A r \in Stored(snaps) : GoodRow(r)'
  BY <1>1, RowStays DEF SnapsOK
<1>3. CASE snaps' = snaps
  BY <1>1, <1>2, <1>3 DEF SnapsOK, Listed, Stored
<1>4. CASE job.at = "insert" /\ snaps' = Append(snaps, job.row)
  <2>1. Listed(snaps)
    BY <1>1 DEF SnapsOK
  <2>2. Listed(snaps') /\ Stored(snaps') = Stored(snaps) \cup {job.row}
    BY <1>4, <2>1, Appended
  <2>3. PICK r : r = job.row
    OBVIOUS
  <2>4. GoodRow(r)
    BY <1>1, <1>4, <2>3 DEF Saving
  <2>5. GoodRow(r)'
    BY <1>1, <2>4, RowStays
  <2>6. Listed(snaps)' /\ Stored(snaps)' = Stored(snaps) \cup {r}
    BY <2>2, <2>3 DEF Listed, Stored
  <2> QED BY <1>2, <2>5, <2>6 DEF SnapsOK
<1> QED BY <1>1, <1>3, <1>4 DEF Grows

LEMMA RowAt == ASSUME SnapsOK, NEW i \in DOMAIN snaps PROVE GoodRow(snaps[i])
BY DEF SnapsOK, Stored

\* A snapshot reads back as what it was saved for.
LEMMA ReadRow ==
  ASSUME SnapsOK, NEW i \in DOMAIN snaps
  PROVE  /\ DOMAIN StoredOf(i) = DOMAIN snaps[i].content /\ DOMAIN Read(i) = DOMAIN snaps[i].content
         /\ \A s \in DOMAIN snaps[i].content : Read(i)[s].rows = snaps[i].content[s]
<1>1. GoodRow(snaps[i])
  BY RowAt
<1>2. Holds(StoredOf(i), snaps[i].content)
  <2>1. CASE snaps[i].servedFrom = 0
    BY <1>1, <2>1 DEF GoodRow, StoredOf
  <2>2. CASE snaps[i].servedFrom # 0
    <3>1. /\ snaps[i].servedFrom \in DOMAIN snaps /\ snaps[snaps[i].servedFrom].servedFrom = 0
          /\ snaps[snaps[i].servedFrom].content = snaps[i].content
      BY <1>1, <2>2 DEF GoodRow
    <3>2. GoodRow(snaps[snaps[i].servedFrom])
      BY <3>1, RowAt
    <3> QED BY <2>2, <3>1, <3>2 DEF GoodRow, StoredOf
  <2> QED BY <2>1, <2>2
<1>3. ASSUME NEW s \in DOMAIN snaps[i].content PROVE Read(i)[s].rows = snaps[i].content[s]
  <2>1. s \in Store /\ snaps[i].content[s] \in Rows(s)
    BY <1>1 DEF GoodRow
  <2>2. PICK pays \in BOOLEAN :
          /\ StoredOf(i)[s] = Compact(snaps[i].content[s], pays)
          /\ \A k \in Filled(snaps[i].content[s]) : <<k, StoredOf(i)[s].cells[k]>> \in rowBlobs
    BY <1>2 DEF Holds
  <2>3. Expanded(StoredOf(i)[s]) = snaps[i].content[s]
    BY <2>1, <2>2, ExpandsBack
  <2>4. s \in DOMAIN StoredOf(i)
    BY <1>2 DEF Holds
  <2> QED BY <2>3, <2>4 DEF Read, Loaded
<1> QED BY <1>2, <1>3 DEF Holds, Read

-----------------------------------------------------------------------------
\* The diffs.

LEMMA DiffStays == ASSUME SnapsOK, Grows, NEW e, GoodDiff(e) PROVE GoodDiff(e)'
<1>1. /\ e.from \in DOMAIN snaps /\ e.to \in DOMAIN snaps
      /\ e.from \in DOMAIN snaps' /\ e.to \in DOMAIN snaps'
      /\ snaps'[e.from] = snaps[e.from] /\ snaps'[e.to] = snaps[e.to]
  BY SnapsStay DEF GoodDiff
<1> QED BY <1>1 DEF GoodDiff

LEMMA VerifyIsTrue ==
  ASSUME SnapsOK, Working, Saving, job.at = "saved", job.op = "verify"
  PROVE  GoodDiff([from |-> job.base, to |-> Len(snaps), by |-> "verify",
                   diff |-> ComputeDiff(Restricted(Read(job.base), job.stores), Fresh)])
<1> DEFINE before == Restricted(Read(job.base), job.stores)
           old == snaps[job.base].content
           new == snaps[Len(snaps)].content
<1>1. /\ job.base \in DOMAIN snaps /\ Len(snaps) \in DOMAIN snaps /\ DOMAIN new = job.stores
  BY DEF Working, Saving
<1>2. ASSUME NEW s \in DOMAIN new PROVE Told(ComputeDiff(before, Fresh), s) = Truth(s, old, new)
  <2>1. Tells(before, old, s)
    BY <1>1, ReadRow DEF Tells, Restricted
  <2>2. Tells(Fresh, new, s) /\ Own(before, Fresh, s)
    BY DEF Tells, Fresh, Dumped, Own, Entry
  <2> HIDE DEF before, old, new
  <2> QED BY <2>1, <2>2, ToldTruly
<1> QED BY <1>1, <1>2 DEF GoodDiff

LEMMA DiffIsTrue ==
  ASSUME SnapsOK, NEW i \in DOMAIN snaps, NEW j \in DOMAIN snaps
  PROVE  GoodDiff([from |-> i, to |-> j, by |-> "diff", diff |-> ComputeDiff(Read(i), Read(j))])
<1>1. ASSUME NEW s \in Store, KeyedById[s]
      PROVE  Told(ComputeDiff(Read(i), Read(j)), s) = Truth(s, snaps[i].content, snaps[j].content)
  <2>1. Tells(Read(i), snaps[i].content, s) /\ Tells(Read(j), snaps[j].content, s)
    BY ReadRow DEF Tells
  <2> QED BY <1>1, <2>1, ToldTruly
<1> QED BY <1>1 DEF GoodDiff

LEMMA DiffsNext == IInv /\ [Next]_vars => DiffsOK'
<1> SUFFICES ASSUME IInv, [Next]_vars PROVE DiffsOK'
  OBVIOUS
<1>1. SnapsOK /\ Grows /\ Working /\ Saving /\ DiffsOK
  BY TablesGrow DEF IInv, JobOK
<1>2. \A e \in Stored(diffs) : GoodDiff(e)'
  BY <1>1, DiffStays DEF DiffsOK
<1>3. ASSUME NEW e, GoodDiff(e), diffs' = Append(diffs, e) PROVE DiffsOK'
  <2>1. Listed(diffs)
    BY <1>1 DEF DiffsOK
  <2>2. Listed(diffs') /\ Stored(diffs') = Stored(diffs) \cup {e}
    BY <1>3, <2>1, Appended
  <2>3. GoodDiff(e)'
    BY <1>1, <1>3, DiffStays
  <2>4. Listed(diffs)' /\ Stored(diffs)' = Stored(diffs) \cup {e}
    BY <2>2 DEF Listed, Stored
  <2> QED BY <1>2, <2>3, <2>4 DEF DiffsOK
<1>4. CASE SaveVerify
  BY <1>1, <1>3, <1>4, VerifyIsTrue DEF SaveVerify
<1>5. CASE Diff
  <2>1. PICK i \in DOMAIN snaps, j \in DOMAIN snaps :
          diffs' = Append(diffs,
            [from |-> i, to |-> j, by |-> IF Cached(i, j) = {} THEN "diff" ELSE "cache",
             diff |-> IF Cached(i, j) = {} THEN ComputeDiff(Read(i), Read(j)) ELSE diffs[Last(Cached(i, j))].diff])
    BY <1>5 DEF Diff
  <2>2. CASE Cached(i, j) = {}
    BY <1>1, <1>3, <2>1, <2>2, DiffIsTrue
  <2>3. CASE Cached(i, j) # {}
    <3> DEFINE e == [from |-> i, to |-> j, by |-> "cache", diff |-> diffs[Last(Cached(i, j))].diff]
    <3>1. GoodDiff(e)
      BY DEF GoodDiff
    <3>2. diffs' = Append(diffs, e)
      BY <2>1, <2>3
    <3> QED BY <1>3, <3>1, <3>2
  <2> QED BY <2>2, <2>3
<1>6. CASE UNCHANGED diffs
  BY <1>1, <1>2, <1>6 DEF DiffsOK, Listed, Stored
<1>7. SaveVerify \/ Diff \/ UNCHANGED diffs
  BY DEF Next, AppWrite, StartSnapshot, StartRun, StartVerify, StartCleanup, Starts, ReadStore, SaveRows, InsertSnapshot,
         RunAction, PlanCleanup, Delete, StartRestore, Put, RowFails, Abort, vars, tables
<1> QED BY <1>4, <1>5, <1>6, <1>7

-----------------------------------------------------------------------------
\* The request under way.

LEMMA NoRequest == ASSUME job' = Quiet PROVE JobOK'
BY DEF JobOK, Quiet, Working, Reading, Saving, Changing

LEMMA JobStays == ASSUME SnapsOK, JobOK, UNCHANGED <<job, snaps, rowBlobs>> PROVE JobOK'
<1>1. \A r : GoodRow(r) => GoodRow(r)'
  BY RowStays DEF Grows
<1>2. Saving'
  BY <1>1 DEF JobOK, Saving
<1> QED BY <1>2 DEF JobOK, Working, Reading, Changing

LEMMA RequestBegins ==
  ASSUME NEW op, NEW stores \in SUBSET Store, NEW where, NEW base, Starts(op, stores, where, base),
         op \in {"verify", "cleanup"} => base \in DOMAIN snaps,
         op = "cleanup" => stores = DOMAIN snaps[base].content,
         ~Scoped => where = None
  PROVE  JobOK'
<1>1. /\ DOMAIN job' = DOMAIN Quiet
      /\ job'.at = "read" /\ job'.op = op /\ job'.stores = stores /\ job'.where = where /\ job'.base = base
      /\ DOMAIN job'.got = {} /\ snaps' = snaps
  BY DEF Starts, Quiet, tables
<1>2. Reading'
  BY <1>1, StateAssumption DEF Reading
<1> QED BY <1>1, <1>2 DEF JobOK, Working, Saving, Changing

LEMMA StartsOK ==
  ASSUME IInv, StartSnapshot \/ StartRun \/ StartVerify \/ StartCleanup
  PROVE  JobOK'
<1>0. SnapsOK
  BY DEF IInv
<1>1. CASE StartSnapshot
  <2>1. PICK stores \in SUBSET Store, where \in {None} \cup (IF Scoped THEN Val ELSE {}) : Starts("snapshot", stores, where, 0)
    BY <1>1 DEF StartSnapshot, SomeStores
  <2>2. ~Scoped => where = None
    OBVIOUS
  <2> QED BY <2>1, <2>2, RequestBegins
<1>2. CASE StartRun
  <2>1. PICK stores \in SUBSET Store : Starts("run", stores, None, 0)
    BY <1>2 DEF StartRun, SomeStores
  <2> QED BY <2>1, RequestBegins
<1>3. CASE StartVerify
  <2>1. PICK i \in DOMAIN snaps, stores \in SUBSET Store : Starts("verify", stores, snaps[i].where, i)
    BY <1>3 DEF StartVerify, SomeStores
  <2>2. ~Scoped => snaps[i].where = None
    BY <1>0, RowAt DEF GoodRow
  <2> QED BY <2>1, <2>2, RequestBegins
<1>4. CASE StartCleanup
  <2>1. PICK i \in DOMAIN snaps : Starts("cleanup", DOMAIN StoredOf(i), None, i)
    BY <1>4 DEF StartCleanup, CleanupScope
  <2>2. DOMAIN StoredOf(i) = DOMAIN snaps[i].content /\ DOMAIN StoredOf(i) \in SUBSET Store
    BY <1>0, ReadRow, RowAt DEF GoodRow
  <2> QED BY <2>1, <2>2, RequestBegins
<1> QED BY <1>1, <1>2, <1>3, <1>4

LEMMA ReadStoreOK == ASSUME IInv, ReadStore PROVE JobOK'
<1>1. PICK s \in job.stores :
        /\ job.at = "read" /\ s \notin DOMAIN job.got /\ snaps' = snaps
        /\ LET done == DOMAIN job.got \cup {s}
               In(x) == IF job.where = None \/ x = job.where THEN x ELSE None
           IN job' = [job EXCEPT
                !.at = IF done = job.stores THEN "save" ELSE "read",
                !.got = [t \in done |-> IF t = s THEN [k \in KeysOf[s] |-> In(page[s][k])] ELSE job.got[t]],
                !.seen = [t \in done |-> IF t = s THEN Filled(page[s]) ELSE job.seen[t]]]
  BY DEF ReadStore, tables
<1> DEFINE done == DOMAIN job.got \cup {s}
           In(x) == IF job.where = None \/ x = job.where THEN x ELSE None
           new == [k \in KeysOf[s] |-> In(page[s][k])]
<1>2. DOMAIN job = DOMAIN Quiet /\ Working /\ Reading /\ PageOK
  BY DEF IInv, JobOK
<1>3. s \in Store /\ page[s] \in Rows(s)
  BY <1>1, <1>2 DEF Working, PageOK
<1>4. new \in Rows(s) /\ (job.where = None => new = page[s])
  BY <1>3 DEF Rows
<1>5. /\ DOMAIN job' = DOMAIN Quiet
      /\ job'.at = IF done = job.stores THEN "save" ELSE "read"
      /\ job'.op = job.op /\ job'.stores = job.stores /\ job'.where = job.where /\ job'.base = job.base
      /\ job'.got = [t \in done |-> IF t = s THEN new ELSE job.got[t]]
      /\ job'.seen = [t \in done |-> IF t = s THEN Filled(page[s]) ELSE job.seen[t]]
  BY <1>1, <1>2 DEF Quiet
<1> HIDE DEF new
<1>6. \A t \in done : job'.got[t] \in Rows(t) /\ (job'.where = None => job'.seen[t] = Filled(job'.got[t]))
  <2> TAKE t \in done
  <2>1. CASE t = s
    BY <1>4, <1>5, <2>1
  <2>2. CASE t # s
    <3>1. t \in DOMAIN job.got /\ job'.got[t] = job.got[t] /\ job'.seen[t] = job.seen[t]
      BY <1>5, <2>2
    <3> QED BY <1>1, <1>2, <1>5, <3>1 DEF Reading
  <2> QED BY <2>1, <2>2
<1>7. Reading'
  <2>1. DOMAIN job'.got = done /\ done \subseteq job'.stores /\ (job'.at = "save" => done = job'.stores)
    BY <1>1, <1>2, <1>5 DEF Reading
  <2>2. ~Scoped => job'.where = None
    BY <1>1, <1>2, <1>5 DEF Reading
  <2> QED BY <1>6, <2>1, <2>2 DEF Reading, Filled
<1>8. Working' /\ Saving' /\ Changing'
  BY <1>1, <1>2, <1>5 DEF Working, Saving, Changing
<1> QED BY <1>5, <1>7, <1>8 DEF JobOK

LEMMA SaveRowsOK == ASSUME IInv, SaveRows PROVE JobOK'
<1> DEFINE stores(pays) == [s \in job.stores |-> Compact(job.got[s], pays)]
           rows(pays) == UNION {{<<k, stores(pays)[s].cells[k]>> : k \in Filled(job.got[s])} : s \in job.stores}
           row(pays) == [content |-> job.got, where |-> job.where, seen |-> job.seen,
                         servedFrom |-> IF Twins = {} THEN 0 ELSE Last(Twins),
                         stores |-> IF Twins = {} THEN stores(pays) ELSE [s \in {} |-> None]]
<1>1. PICK pays \in BOOLEAN :
        /\ job.at = "save" /\ snaps' = snaps
        /\ rowBlobs' = IF Twins # {} THEN rowBlobs ELSE rowBlobs \cup rows(pays)
        /\ job' = [job EXCEPT !.at = "insert", !.row = row(pays)]
  BY DEF SaveRows
<1>2. DOMAIN job = DOMAIN Quiet /\ Working /\ Reading /\ SnapsOK
  BY DEF IInv, JobOK
<1>3. DOMAIN job.got = job.stores /\ job.stores \subseteq Store
  BY <1>1, <1>2 DEF Reading, Working
<1>4. PICK r : r = row(pays)
  OBVIOUS
<1>5. r.content = job.got /\ r.where = job.where /\ r.seen = job.seen
  BY <1>4
<1>6. /\ \A s \in DOMAIN r.content : r.content[s] \in Rows(s) /\ (r.where = None => r.seen[s] = Filled(r.content[s]))
      /\ ~Scoped => r.where = None
      /\ DOMAIN r.content \subseteq Store
  BY <1>1, <1>2, <1>3, <1>5 DEF Reading
<1>7. GoodRow(r)'
  <2>1. CASE Twins = {}
    <3>1. r.servedFrom = 0 /\ r.stores = stores(pays) /\ rows(pays) \subseteq rowBlobs'
      BY <1>1, <1>4, <2>1
    <3>2. ASSUME NEW s \in DOMAIN r.content, NEW k \in Filled(r.content[s])
          PROVE  <<k, r.stores[s].cells[k]>> \in rowBlobs'
      <4>1. <<k, stores(pays)[s].cells[k]>> \in rows(pays)
        BY <1>3, <1>5, <3>2
      <4> HIDE DEF stores, rows
      <4> QED BY <3>1, <4>1
    <3>3. DOMAIN r.stores = DOMAIN r.content /\ \A s \in DOMAIN r.content : r.stores[s] = Compact(r.content[s], pays)
      BY <1>3, <1>5, <3>1
    <3>4. Holds(r.stores, r.content)'
      BY <3>2, <3>3 DEF Holds
    <3> QED BY <1>6, <3>1, <3>4 DEF GoodRow
  <2>2. CASE Twins # {}
    <3>1. Len(snaps) \in Nat /\ DOMAIN snaps = 1..Len(snaps)
      BY <1>2 DEF SnapsOK, Listed
    <3>2. Twins \in SUBSET (1..Len(snaps))
      BY <3>1 DEF Twins
    <3>3. Last(Twins) \in Twins
      BY <2>2, <3>1, <3>2, LastOf
    <3>4. r.servedFrom \in DOMAIN snaps /\ r.servedFrom # 0
          /\ snaps[r.servedFrom].servedFrom = 0 /\ snaps[r.servedFrom].content = r.content
      BY <1>4, <1>5, <2>2, <3>1, <3>3 DEF Twins
    <3>5. snaps' = snaps
      BY <1>1
    <3> QED BY <1>6, <3>4, <3>5 DEF GoodRow
  <2> QED BY <2>1, <2>2
<1>8. /\ DOMAIN job' = DOMAIN Quiet /\ job'.at = "insert" /\ job'.row = r
      /\ job'.op = job.op /\ job'.stores = job.stores /\ job'.base = job.base
  BY <1>1, <1>2, <1>4 DEF Quiet
<1>9. Saving'
  BY <1>3, <1>5, <1>7, <1>8 DEF Saving
<1>10. Working' /\ Reading' /\ Changing'
  BY <1>1, <1>2, <1>8 DEF Working, Reading, Changing
<1> QED BY <1>8, <1>9, <1>10 DEF JobOK

LEMMA InsertOK == ASSUME IInv, InsertSnapshot PROVE JobOK'
<1>0. /\ job.at = "insert" /\ snaps' = Append(snaps, job.row) /\ SnapsOK /\ Grows /\ Working /\ Saving
      /\ job' = IF job.op = "snapshot" THEN Quiet
                ELSE [Quiet EXCEPT !.at = "saved", !.op = job.op, !.stores = job.stores, !.base = job.base]
  BY DEF InsertSnapshot, IInv, JobOK, Grows
<1>1. CASE job.op = "snapshot"
  BY <1>0, <1>1, NoRequest
<1>2. CASE job.op # "snapshot"
  <2>1. /\ DOMAIN job' = DOMAIN Quiet /\ job'.at = "saved" /\ job'.op = job.op /\ job'.stores = job.stores
        /\ job'.base = job.base /\ DOMAIN job'.got = {} /\ job'.where = None
    BY <1>0, <1>2 DEF Quiet
  <2>2. Listed(snaps)
    BY <1>0 DEF SnapsOK
  <2>3. Len(snaps') \in DOMAIN snaps' /\ snaps'[Len(snaps')] = job.row
    BY <1>0, <2>2, Appended
  <2>4. Saving'
    BY <1>0, <2>1, <2>3 DEF Saving
  <2>5. /\ DOMAIN snaps \subseteq DOMAIN snaps'
        /\ \A i \in DOMAIN snaps : snaps'[i] = snaps[i]
    BY <1>0, SnapsStay
  <2>6. Working'
    BY <1>0, <2>1, <2>5 DEF Working
  <2> QED BY <2>1, <2>4, <2>6 DEF JobOK, Reading, Changing
<1> QED BY <1>1, <1>2

LEMMA RunActionOK == ASSUME IInv, RunAction PROVE JobOK'
<1>0. /\ job.at = "saved" /\ job.op = "run" /\ snaps' = snaps
      /\ job' = IF Len(snaps) = MaxSnaps THEN Quiet
                ELSE [job EXCEPT !.at = "read", !.op = "verify", !.base = Len(snaps)]
      /\ DOMAIN job = DOMAIN Quiet /\ Working /\ Saving
  BY DEF RunAction, IInv, JobOK, tables
<1>1. CASE Len(snaps) = MaxSnaps
  BY <1>0, <1>1, NoRequest
<1>2. CASE Len(snaps) # MaxSnaps
  <2>1. /\ DOMAIN job' = DOMAIN Quiet /\ job'.at = "read" /\ job'.op = "verify" /\ job'.stores = job.stores
        /\ job'.base = Len(snaps) /\ job'.got = job.got /\ job'.where = job.where
    BY <1>0, <1>2 DEF Quiet
  <2>2. Working'
    BY <1>0, <2>1 DEF Working, Saving
  <2>3. Reading'
    BY <1>0, <2>1 DEF Reading, Saving
  <2> QED BY <2>1, <2>2, <2>3 DEF JobOK, Saving, Changing
<1> QED BY <1>1, <1>2

LEMMA PlanOK == ASSUME IInv, PlanCleanup PROVE JobOK'
<1> DEFINE before == Read(job.base)
           pending == Pending(ComputeDiff(before, Fresh))
           old == snaps[job.base]
           new == snaps[Len(snaps)].content
<1>0. /\ job.at = "saved" /\ job.op = "cleanup" /\ snaps' = snaps
      /\ job' = IF pending = {} THEN Quiet ELSE [Quiet EXCEPT !.at = "delete", !.base = job.base, !.left = pending]
      /\ SnapsOK /\ Working /\ Saving
  BY DEF PlanCleanup, IInv, JobOK, tables
<1>1. job.base \in DOMAIN snaps /\ job.stores = DOMAIN old.content /\ DOMAIN new = job.stores
  BY <1>0 DEF Working, Saving
<1>2. ASSUME ~Scoped, NEW row \in pending PROVE row[2] \notin old.seen[row[1]]
  <2>1. PICK s \in DOMAIN ComputeDiff(before, Fresh) : \E x \in ComputeDiff(before, Fresh)[s].added : row = <<s, x[1]>>
    BY DEF Pending
  <2>2. PICK x \in ComputeDiff(before, Fresh)[s].added : row = <<s, x[1]>>
    BY <2>1
  <2>3. s \in DOMAIN old.content /\ s \in DOMAIN new
    BY <1>0, <1>1, ReadRow, DiffIs DEF Fresh
  <2>4. Tells(before, old.content, s) /\ Tells(Fresh, new, s) /\ Own(before, Fresh, s)
    BY <1>0, <1>1, <2>3, ReadRow DEF Tells, Fresh, Dumped, Own, Entry
  <2>5. ComputeDiff(before, Fresh)[s] = Truth(s, old.content, new)
    BY <2>1, <2>4, ToldTruly DEF Told
  <2>6. PICK k \in Filled(new[s]) \ Filled(old.content[s]) : x = <<k, new[s][k]>>
    BY <2>2, <2>3, <2>5 DEF Truth, Differences
  <2>7. old.seen[s] = Filled(old.content[s])
    BY <1>0, <1>1, <1>2, <2>3, RowAt DEF GoodRow
  <2> QED BY <2>2, <2>6, <2>7
<1>3. CASE pending = {}
  BY <1>0, <1>3, NoRequest
<1>4. CASE pending # {}
  <2>1. /\ DOMAIN job' = DOMAIN Quiet /\ job'.at = "delete" /\ job'.base = job.base /\ job'.left = pending
    BY <1>0, <1>4 DEF Quiet
  <2> HIDE DEF pending
  <2> QED BY <1>0, <1>1, <1>2, <2>1 DEF JobOK, Working, Reading, Saving, Changing
<1> QED BY <1>3, <1>4

LEMMA RestoreOK == ASSUME IInv, StartRestore PROVE JobOK'
<1>0. SnapsOK
  BY DEF IInv
<1>1. PICK i \in DOMAIN snaps : snaps' = snaps /\ job' = [Quiet EXCEPT !.at = "put", !.base = i, !.left = RowsOf(Read(i))]
  BY DEF StartRestore, tables
<1>2. ASSUME NEW row \in RowsOf(Read(i)) PROVE row[1] \in DOMAIN snaps[i].content /\ row[2] \in KeysOf[row[1]]
  <2>1. PICK s \in DOMAIN Read(i) : \E k \in Filled(Read(i)[s].rows) : row = <<s, k>>
    BY DEF RowsOf
  <2>2. PICK k \in Filled(Read(i)[s].rows) : row = <<s, k>>
    BY <2>1
  <2>3. s \in DOMAIN snaps[i].content /\ Read(i)[s].rows = snaps[i].content[s] /\ snaps[i].content[s] \in Rows(s)
    BY <1>0, ReadRow, RowAt DEF GoodRow
  <2> QED BY <2>2, <2>3 DEF Filled, Rows
<1>3. DOMAIN job' = DOMAIN Quiet /\ job'.at = "put" /\ job'.base = i /\ job'.left = RowsOf(Read(i))
  BY <1>1 DEF Quiet
<1> QED BY <1>1, <1>2, <1>3 DEF JobOK, Working, Reading, Saving, Changing

LEMMA JobNext == IInv /\ [Next]_vars => JobOK'
<1> SUFFICES ASSUME IInv, [Next]_vars PROVE JobOK'
  OBVIOUS
<1>0. JobOK /\ SnapsOK
  BY DEF IInv
<1>1. CASE AppWrite \/ Diff \/ UNCHANGED vars
  BY <1>0, <1>1, JobStays DEF AppWrite, Diff, tables, vars
<1>2. CASE SaveVerify \/ Abort
  BY <1>2, NoRequest DEF SaveVerify, Abort
<1>3. CASE Delete \/ Put \/ RowFails
  <2>1. PICK row \in job.left :
          /\ job.at \in {"delete", "put"} /\ snaps' = snaps
          /\ job' = IF job.left = {row} THEN Quiet ELSE [job EXCEPT !.left = @ \ {row}]
    BY <1>3 DEF Delete, Put, RowFails, tables
  <2>2. CASE job.left = {row}
    BY <2>1, <2>2, NoRequest
  <2>3. CASE job.left # {row}
    <3>1. DOMAIN job' = DOMAIN Quiet /\ job'.at = job.at /\ job'.base = job.base /\ job'.left = job.left \ {row}
      BY <1>0, <2>1, <2>3 DEF JobOK, Quiet
    <3> QED BY <1>0, <2>1, <3>1 DEF JobOK, Working, Reading, Saving, Changing
  <2> QED BY <2>2, <2>3
<1> QED BY <1>1, <1>2, <1>3, StartsOK, ReadStoreOK, SaveRowsOK, InsertOK, RunActionOK, PlanOK, RestoreOK DEF Next

-----------------------------------------------------------------------------
\* The page, and what a cleanup may take.

LEMMA PageWritten ==
  ASSUME PageOK, NEW s, NEW k, NEW v \in Val \cup {None}, page' = [page EXCEPT ![s][k] = v]
  PROVE  PageOK'
<1>1. DOMAIN page' = Store
  BY DEF PageOK
<1>2. ASSUME NEW t \in Store PROVE page'[t] \in Rows(t)
  <2>1. page[t] \in Rows(t)
    BY DEF PageOK
  <2>2. CASE t # s
    BY <2>1, <2>2 DEF PageOK
  <2>3. CASE t = s
    <3>1. page'[t] = [page[t] EXCEPT ![k] = v]
      BY <2>3 DEF PageOK
    <3> QED BY <2>1, <3>1 DEF Rows
  <2> QED BY <2>2, <2>3
<1> QED BY <1>1, <1>2 DEF PageOK, Rows

LEMMA PageNext == IInv /\ [Next]_vars => PageOK'
<1> SUFFICES ASSUME IInv, [Next]_vars PROVE PageOK'
  OBVIOUS
<1>0. PageOK /\ SnapsOK /\ Changing
  BY DEF IInv, JobOK
<1>1. CASE AppWrite
  BY <1>0, <1>1, PageWritten DEF AppWrite
<1>2. CASE RunAction
  BY <1>0, <1>2, PageWritten DEF RunAction
<1>3. CASE Delete
  <2>1. PICK row \in job.left : page' = [page EXCEPT ![row[1]][row[2]] = None]
    BY <1>3 DEF Delete
  <2> QED BY <1>0, <2>1, PageWritten
<1>4. CASE Put
  <2>1. PICK row \in job.left : job.at = "put" /\ page' = [page EXCEPT ![row[1]][row[2]] = Read(job.base)[row[1]].rows[row[2]]]
    BY <1>4 DEF Put
  <2>2. job.base \in DOMAIN snaps /\ row[1] \in DOMAIN snaps[job.base].content /\ row[2] \in KeysOf[row[1]]
    BY <1>0, <2>1 DEF Changing
  <2>3. snaps[job.base].content[row[1]] \in Rows(row[1])
    BY <1>0, <2>2, RowAt DEF GoodRow
  <2>4. Read(job.base)[row[1]].rows[row[2]] = snaps[job.base].content[row[1]][row[2]]
    BY <1>0, <2>2, ReadRow
  <2>5. Read(job.base)[row[1]].rows[row[2]] \in Val \cup {None}
    BY <2>2, <2>3, <2>4 DEF Rows
  <2> QED BY <1>0, <2>1, <2>5, PageWritten
<1>5. CASE UNCHANGED page
  BY <1>0, <1>5 DEF PageOK, Rows
<1>6. AppWrite \/ RunAction \/ Delete \/ Put \/ UNCHANGED page
  BY DEF Next, StartSnapshot, StartRun, StartVerify, StartCleanup, Starts, ReadStore, SaveRows, InsertSnapshot,
         SaveVerify, Diff, PlanCleanup, StartRestore, RowFails, Abort, vars
<1> QED BY <1>1, <1>2, <1>3, <1>4, <1>5, <1>6

LEMMA SparedNext == IInv /\ [Next]_vars => Spared'
<1> SUFFICES ASSUME IInv, [Next]_vars PROVE Spared'
  OBVIOUS
<1>0. Spared /\ Changing
  BY DEF IInv, JobOK
<1>1. CASE Delete
  <2>1. PICK row \in job.left :
          job.at = "delete" /\ lost' = IF row[2] \in snaps[job.base].seen[row[1]] THEN lost \cup {row} ELSE lost
    BY <1>1 DEF Delete
  <2>2. ~Scoped => row[2] \notin snaps[job.base].seen[row[1]]
    BY <1>0, <2>1 DEF Changing
  <2> QED BY <1>0, <2>1, <2>2 DEF Spared
<1>2. Delete \/ UNCHANGED lost
  BY DEF Next, AppWrite, StartSnapshot, StartRun, StartVerify, StartCleanup, Starts, ReadStore, SaveRows, InsertSnapshot,
         RunAction, SaveVerify, Diff, PlanCleanup, StartRestore, Put, RowFails, Abort, vars
<1> QED BY <1>0, <1>1, <1>2 DEF Spared

-----------------------------------------------------------------------------
\* The results.

LEMMA Always == Spec => []IInv
<1>1. IInv /\ [Next]_vars => IInv'
  BY SnapsNext, DiffsNext, JobNext, PageNext, SparedNext DEF IInv
<1> QED BY <1>1, InitHolds, PTL DEF Spec

\* db.mjs, saveSnapshot and getSnapshot: a snapshot reads back as what the page held when it was taken, for any
\* stores and keys, whatever was compacted, shared with an earlier save or only pointed at.
THEOREM SnapshotsReadBack == Spec => []ReadsBack
<1>1. IInv => ReadsBack
  BY ReadRow DEF IInv, ReadsBack
<1> QED BY <1>1, Always, PTL

\* relay.mjs, verifyAgainstBaseline and computeDiff, with POST /state/diff: what they report is what became of the
\* stores, but for a diff of stored snapshots in stores not keyed by "id".
THEOREM DiffsTrue == Spec => []DiffTrue
<1>1. ASSUME IInv PROVE DiffTrue
  <2>1. \A d \in DOMAIN diffs : GoodDiff(diffs[d])
    BY <1>1 DEF IInv, DiffsOK, Stored
  <2> QED BY <2>1 DEF GoodDiff, DiffTrue, Contents, Reported, Told
<1> QED BY <1>1, Always, PTL

\* routes-sessions.mjs, POST /sessions/:id/cleanup since a snapshot: unless baselines are scoped by content, it
\* deletes no row that was there when the snapshot was taken.
THEOREM OldRowsSpared == ~Scoped => (Spec => []CleanupSparesOld)
<1> SUFFICES ASSUME ~Scoped PROVE Spec => []CleanupSparesOld
  OBVIOUS
<1>1. IInv => CleanupSparesOld
  BY DEF IInv, Spared, CleanupSparesOld
<1> QED BY <1>1, Always, PTL
=============================================================================

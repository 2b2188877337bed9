------------------------ MODULE BrowserHarnessProofs ------------------------
(* Slots and browsers for any processes, calls and cap: who holds a slot,  *)
(* how many browsers run, and that no sweep touches a launch in progress.  *)
(* In the second part, the feed of a page's events for any entries, kinds, *)
(* sockets and bounds: what is stored of it, and what a wait sees.         *)
EXTENDS BrowserHarness, EventFeed, FiniteSetTheorems, TLAPS

AllAlive == \A p \in Procs : alive[p]

\* The calls of a process that count a reference.
Having(p) == {c \in Calls : Owner[c] = p /\ call[c] = "has"}
IsHeld(p, n) == held[p] # NotHeld /\ held[p].slot = n

\* A process scans for one of its own calls that still waits; what is held is a slot, with a reference.
Scans ==
  /\ \A p \in Procs : Busy(p) /\ alive[p] => Owner[scan[p].call] = p /\ call[scan[p].call] \in {"new", "wait"}
  /\ \A p \in Procs : held[p] # NotHeld => held[p].slot \in Slots /\ held[p].refs > 0
  /\ \A p \in Procs : IsFiniteSet(Having(p))

\* Until a process dies, nobody is about to remove a file, what is held has its file, and a process either has
\* lost sight of a file of its own or counts one reference per call that has a slot.
Lost(p) == \E n \in Slots : file[n] = p /\ ~IsHeld(p, n)
Settled ==
  /\ \A p \in Procs : scan[p].at # "remove"
  /\ \A p \in Procs : held[p] # NotHeld => file[held[p].slot] = p
  /\ \A p \in Procs : Lost(p) \/ Cardinality(Having(p)) = held[p].refs

SlotInv == TypeOK /\ Scans /\ (AllAlive => Settled)

-----------------------------------------------------------------------------
InProgress == {"made", "marked", "started", "up", "closed"}

\* A launch in progress has its slot, its process and the profile its steps gave it; none has left anything before
\* it started; and what a sweep has found stale is of a launch that is over.
Launch(c) ==
  /\ at[c] \in {"idle", "sweep", "acquire"} => dir[c] = "none" /\ run[c] = "none"
  /\ at[c] = "made" => dir[c] = "bare" /\ run[c] = "none"
  /\ at[c] \in {"marked", "started", "up", "closed"} => dir[c] = "marked"
  /\ at[c] = "marked" => run[c] = "none"
  /\ at[c] \in InProgress \cup {"disposed"} => alive[Owner[c]] /\ call[c] = "has"
Launches == \A c \in Calls \ Legacy : Launch(c)
Over == {"disposed", "done", "failed", "gone"}
StaleIsOver == \A p \in Procs : \A c \in sweep[p].stale \ Legacy : at[c] \in Over

HarnessShape ==
  /\ at \in [Calls -> {"idle", "sweep", "acquire", "made", "marked", "started", "up", "closed", "disposed", "done",
                       "failed", "gone"}]
  /\ dir \in [Calls -> {"none", "marked", "bare", "old"}] /\ run \in [Calls -> {"none", "job", "tramp", "child"}]
  /\ sweep \in [Procs -> [at : {"off", "look", "act"}, kind : {"launch", "reap", "legacy"}, stale : SUBSET Calls]]

HInv == SlotInv /\ HarnessShape /\ Launches /\ StaleIsOver

-----------------------------------------------------------------------------
\* The slots.

ScanState == [call: Calls \cup {NoCall}, mode: {"take", "tell", "fail"}, n: Slots, at: {"look", "remove", "create"}]
Waiting == {"new", "wait"}

\* A scan that goes on to the next slot, or ends, is looking or at rest, and its call waits or has failed.
LEMMA NextSlotOutcome ==
  ASSUME TypeOK, NEW p \in Procs, Busy(p), call[scan[p].call] \in Waiting, NextSlot(p)
  PROVE  /\ \E s \in ScanState : /\ scan' = [scan EXCEPT ![p] = s] /\ s.at = "look" /\ s.call \in {scan[p].call, NoCall}
                                 /\ s.call = scan[p].call => call'[scan[p].call] \in Waiting
         /\ \E w \in {"new", "wait", "failed"} : call' = [call EXCEPT ![scan[p].call] = w]
<1> DEFINE c == scan[p].call
<1>0. scan[p] \in ScanState /\ c \in Calls /\ 0 \in Slots
  BY SlotsAssumption DEF TypeOK, ScanState, Busy, Slots, SlotsAssumption
<1>1. CASE scan[p].n + 1 < Cap
  <2> DEFINE s == [scan[p] EXCEPT !.n = scan[p].n + 1, !.at = "look"]
  <2>1. scan[p].n + 1 \in Slots
    BY <1>0, <1>1, SlotsAssumption DEF ScanState, Slots, SlotsAssumption
  <2>2. s \in ScanState /\ s.at = "look" /\ s.call = c
    BY <1>0, <2>1 DEF ScanState
  <2>3. scan' = [scan EXCEPT ![p] = s] /\ call' = call
    BY <1>1 DEF NextSlot, TypeOK
  <2>4. call' = [call EXCEPT ![c] = call[c]]
    BY <2>3 DEF TypeOK
  <2> QED BY <2>2, <2>3, <2>4 DEF Waiting
<1>2. CASE ~(scan[p].n + 1 < Cap)
  <2>1. Resting \in ScanState /\ \A m \in {"take", "tell", "fail"} : Scanning(c, m) \in ScanState
    BY <1>0 DEF ScanState, Resting, Scanning
  <2>2. /\ Resting.at = "look" /\ Resting.call = NoCall
        /\ \A m : Scanning(c, m).at = "look" /\ Scanning(c, m).call = c
    BY DEF Resting, Scanning
  <2>3. c # NoCall
    BY DEF Busy
  <2>4. \E s \in ScanState, w \in {"new", "wait", "failed"} :
          /\ scan' = [scan EXCEPT ![p] = s] /\ (s = Resting \/ \E m : s = Scanning(c, m))
          /\ call' = [call EXCEPT ![c] = w] /\ (s # Resting => w \in Waiting)
    <3>1. EndOfScan(p) /\ call = [call EXCEPT ![c] = call[c]]
      BY <1>2 DEF NextSlot, TypeOK
    <3>2. CASE scan' = [scan EXCEPT ![p] = Scanning(c, "tell")] /\ call' = call
      BY <2>1, <3>1, <3>2 DEF Waiting
    <3>3. CASE scan' = [scan EXCEPT ![p] = Resting] /\ call' = [call EXCEPT ![c] = "wait"]
      BY <2>1, <3>3
    <3>4. CASE scan' = [scan EXCEPT ![p] = Scanning(c, "fail")] /\ call' = [call EXCEPT ![c] = "wait"]
      BY <2>1, <3>4 DEF Waiting
    <3>5. CASE scan' = [scan EXCEPT ![p] = Resting] /\ call' = [call EXCEPT ![c] = "failed"]
      BY <2>1, <3>5
    <3> QED BY <3>1, <3>2, <3>3, <3>4, <3>5 DEF EndOfScan
  <2> QED BY <1>0, <2>2, <2>3, <2>4 DEF TypeOK
<1> QED BY <1>1, <1>2

\* A call that gets or gives a slot counts for its process, and for no other.
LEMMA HavingSame ==
  ASSUME TypeOK, NEW c \in Calls, NEW w, call' = [call EXCEPT ![c] = w], call[c] # "has", w # "has", NEW q
  PROVE  Having(q)' = Having(q)
BY DEF Having, TypeOK

LEMMA HavingMore ==
  ASSUME TypeOK, NEW c \in Calls, call' = [call EXCEPT ![c] = "has"], call[c] # "has", NEW q, IsFiniteSet(Having(q))
  PROVE  /\ IsFiniteSet(Having(q)') /\ Cardinality(Having(q)) \in Nat
         /\ Cardinality(Having(q)') = IF q = Owner[c] THEN Cardinality(Having(q)) + 1 ELSE Cardinality(Having(q))
<1>1. Having(q)' = (IF q = Owner[c] THEN Having(q) \cup {c} ELSE Having(q)) /\ c \notin Having(q)
  BY DEF Having, TypeOK
<1> QED BY <1>1, FS_AddElement, FS_CardinalityType

LEMMA HavingFewer ==
  ASSUME TypeOK, NEW c \in Calls, NEW w, call' = [call EXCEPT ![c] = w], call[c] = "has", w # "has", NEW q,
         IsFiniteSet(Having(q))
  PROVE  /\ IsFiniteSet(Having(q)') /\ Cardinality(Having(q)) \in Nat
         /\ Cardinality(Having(q)') = IF q = Owner[c] THEN Cardinality(Having(q)) - 1 ELSE Cardinality(Having(q))
         /\ q = Owner[c] => Cardinality(Having(q)) > 0
<1>1. Having(q)' = (IF q = Owner[c] THEN Having(q) \ {c} ELSE Having(q)) /\ (c \in Having(q) <=> q = Owner[c])
  BY DEF Having, TypeOK
<1>2. Cardinality(Having(q)) \in Nat /\ (Having(q) # {} => Cardinality(Having(q)) # 0)
  BY FS_CardinalityType, FS_EmptySet
<1> QED BY <1>1, <1>2, FS_RemoveElement

\* A step that takes no slot, gives none and touches no file.
LEMMA SettledKept ==
  ASSUME Settled, UNCHANGED <<file, held>>, \A q \in Procs : Having(q)' = Having(q) /\ scan'[q].at # "remove"
  PROVE  Settled'
BY DEF Settled, Lost, IsHeld

\* A scan that goes on concerns nobody else.
LEMMA ScanGoesOn ==
  ASSUME TypeOK, Scans, NEW p \in Procs, alive[p], Busy(p), NextSlot(p), UNCHANGED <<alive, held>>,
         file' \in [Slots -> Procs \cup {NoFile, Torn}]
  PROVE  /\ (TypeOK /\ Scans)'
         /\ Settled /\ file' = file => Settled'
<1> DEFINE c == scan[p].call
<1>0. c \in Calls /\ Owner[c] = p /\ call[c] \in Waiting
  BY DEF Scans, Busy, TypeOK, Waiting
<1>1. PICK s \in ScanState : /\ scan' = [scan EXCEPT ![p] = s] /\ s.at = "look" /\ s.call \in {c, NoCall}
                             /\ s.call = c => call'[c] \in Waiting
  BY <1>0, NextSlotOutcome
<1>2. PICK w \in {"new", "wait", "failed"} : call' = [call EXCEPT ![c] = w]
  BY <1>0, NextSlotOutcome
<1>3. TypeOK'
  BY <1>0, <1>1, <1>2 DEF TypeOK, ScanState
<1>4. \A q \in Procs : Having(q)' = Having(q)
  BY <1>0, <1>2, HavingSame DEF Waiting
<1>5. Scans'
  <2>1. \A q \in Procs : Busy(q)' /\ alive[q] => Owner[scan'[q].call] = q /\ call'[scan'[q].call] \in {"new", "wait"}
    <3> TAKE q \in Procs
    <3>1. CASE q = p
      BY <1>0, <1>1, <3>1 DEF TypeOK, Busy, Waiting
    <3>2. CASE q # p
      <4>1. scan'[q] = scan[q]
        BY <1>1, <3>2 DEF TypeOK
      <4>2. Busy(q)' = Busy(q)
        BY <4>1 DEF Busy
      <4>3. Busy(q) /\ alive[q] => scan[q].call # c /\ scan[q].call \in Calls
        BY <1>0, <3>2 DEF Scans, Busy, TypeOK
      <4> QED BY ZenonT(40), <1>2, <4>1, <4>2, <4>3 DEF Scans, TypeOK
    <3> QED BY <3>1, <3>2
  <2> QED BY <1>4, <2>1 DEF Scans
<1>6. Settled /\ file' = file => Settled'
  BY <1>1, <1>4, SettledKept DEF TypeOK, Settled
<1> QED BY <1>3, <1>5, <1>6

LEMMA SlotInit == Init => SlotInv
<1> SUFFICES ASSUME Init PROVE SlotInv
  OBVIOUS
<1>1. 0 \in Slots
  BY SlotsAssumption DEF Slots, SlotsAssumption
<1>2. TypeOK
  BY <1>1 DEF Init, TypeOK, Resting, NotHeld
<1>3. \A p \in Procs : Having(p) = {} /\ held[p] = NotHeld /\ scan[p] = Resting
  BY DEF Init, Having
<1>4. NotHeld.refs = 0 /\ Resting.at = "look" /\ Resting.call = NoCall
  BY DEF NotHeld, Resting
<1>5. IsFiniteSet({}) /\ Cardinality({}) = 0
  BY FS_EmptySet
<1>6. Scans
  BY <1>3, <1>4, <1>5 DEF Scans, Busy
<1>7. Settled
  BY <1>3, <1>4, <1>5 DEF Settled
<1> QED BY <1>2, <1>6, <1>7 DEF SlotInv

LEMMA SlotNext == SlotInv /\ [Next]_vars => SlotInv'
<1> SUFFICES ASSUME SlotInv, [Next]_vars PROVE SlotInv'
  OBVIOUS
<1> USE DEF SlotInv
<1>0. Owner \in [Calls -> Procs]
  BY SlotsAssumption DEF SlotsAssumption
<1>1. ASSUME NEW c \in Calls, Acquire(c) PROVE SlotInv'
  <2> DEFINE p == Owner[c]
  <2>0. p \in Procs /\ ~Busy(p) /\ call[c] = "idle" /\ UNCHANGED <<file, alive>>
    BY <1>0, <1>1 DEF Acquire
  <2>1. CASE held[p] # NotHeld
    <3>1. held' = [held EXCEPT ![p].refs = @ + 1] /\ call' = [call EXCEPT ![c] = "has"] /\ scan' = scan
      BY <1>1, <2>1 DEF Acquire
    <3>2. held[p].refs \in Nat /\ held[p] \in [slot: Slots \cup {-1}, refs: Nat]
      BY <2>0 DEF TypeOK
    <3>3. /\ held'[p] \in [slot: Slots \cup {-1}, refs: Nat] /\ held'[p].slot = held[p].slot
          /\ held'[p].refs = held[p].refs + 1
          /\ \A q \in Procs \ {p} : held'[q] = held[q]
      BY <2>0, <3>1, <3>2 DEF TypeOK
    <3>4. TypeOK'
      BY <2>0, <3>1, <3>3 DEF TypeOK
    <3>5. held'[p] # NotHeld
      BY <3>2, <3>3 DEF NotHeld
    <3>6. \A q \in Procs : IsFiniteSet(Having(q)')
      BY <2>0, <3>1, HavingMore DEF Scans
    <3>7. Scans'
      BY <2>0, <2>1, <3>1, <3>3, <3>2, <3>6 DEF Scans, TypeOK, Busy
    <3>8. ASSUME AllAlive' PROVE Settled'
      <4>1. Settled
        BY <2>0, <3>8 DEF AllAlive
      <4>2. \A q \in Procs : Lost(q)' <=> Lost(q)
        BY <2>0, <2>1, <3>3, <3>5 DEF Lost, IsHeld
      <4>3. \A q \in Procs : Cardinality(Having(q)) = held[q].refs => Cardinality(Having(q)') = held'[q].refs
        <5> TAKE q \in Procs
        <5>1. IsFiniteSet(Having(q)) /\ call[c] # "has"
          BY <2>0 DEF Scans
        <5>2. Cardinality(Having(q)') = IF q = p THEN Cardinality(Having(q)) + 1 ELSE Cardinality(Having(q))
          BY <3>1, <5>1, HavingMore
        <5> QED BY <3>2, <3>3, <5>2
      <4> QED BY <2>0, <2>1, <3>1, <3>3, <4>1, <4>2, <4>3 DEF Settled
    <3> QED BY <3>4, <3>7, <3>8
  <2>2. CASE held[p] = NotHeld
    <3>1. /\ held' = held /\ call' = [call EXCEPT ![c] = "new"]
          /\ scan' = [scan EXCEPT ![p] = Scanning(c, "take")]
      BY <1>1, <2>2 DEF Acquire
    <3>2. Scanning(c, "take") \in ScanState /\ Scanning(c, "take").at = "look" /\ Scanning(c, "take").call = c
      <4>1. 0 \in Slots
        BY SlotsAssumption DEF Slots, SlotsAssumption
      <4> QED BY <4>1 DEF Scanning, ScanState
    <3>3. TypeOK'
      BY <2>0, <3>1, <3>2 DEF TypeOK, ScanState
    <3>4. \A q \in Procs : Having(q)' = Having(q)
      BY <2>0, <3>1, HavingSame
    <3>5. Scans'
      BY <2>0, <3>1, <3>2, <3>4 DEF Scans, TypeOK, Busy
    <3>6. AllAlive' => Settled'
      BY <2>0, <3>1, <3>2, <3>4, SettledKept DEF TypeOK, AllAlive, Settled
    <3> QED BY <3>3, <3>5, <3>6
  <2> QED BY <2>1, <2>2
<1>2. ASSUME NEW c \in Calls, Wake(c) PROVE SlotInv'
  <2> DEFINE p == Owner[c]
  <2>0. p \in Procs /\ ~Busy(p) /\ call[c] = "wait" /\ UNCHANGED <<file, alive, held, call>>
    BY <1>0, <1>2 DEF Wake
  <2>1. scan' = [scan EXCEPT ![p] = Scanning(c, "take")]
    BY <1>2 DEF Wake
  <2>2. Scanning(c, "take") \in ScanState /\ Scanning(c, "take").at = "look" /\ Scanning(c, "take").call = c
    <3>1. 0 \in Slots
      BY SlotsAssumption DEF Slots, SlotsAssumption
    <3> QED BY <3>1 DEF Scanning, ScanState
  <2>3. TypeOK'
    BY <2>0, <2>1, <2>2 DEF TypeOK, ScanState
  <2>4. \A q \in Procs : Having(q)' = Having(q)
    BY <2>0 DEF Having
  <2>5. Scans'
    BY <2>0, <2>1, <2>2, <2>4 DEF Scans, TypeOK, Busy
  <2>6. AllAlive' => Settled'
    BY <2>0, <2>1, <2>2, <2>4, SettledKept DEF TypeOK, AllAlive, Settled
  <2> QED BY <2>3, <2>5, <2>6
<1>3. ASSUME NEW p \in Procs, alive[p], Busy(p), UNCHANGED <<file, alive, held>>, NextSlot(p) PROVE SlotInv'
  <2>1. (TypeOK /\ Scans)' /\ (Settled => Settled')
    BY <1>3, ScanGoesOn DEF TypeOK
  <2> QED BY <1>3, <2>1 DEF AllAlive
<1>4. ASSUME NEW p \in Procs, Look(p) PROVE SlotInv'
  <2>1. CASE LooksStale(scan[p].n)
    <3>1. /\ ~AllAlive /\ UNCHANGED <<file, alive, held, call>>
          /\ scan' = [scan EXCEPT ![p].at = "remove"]
      BY <1>4, <2>1 DEF Look, LooksStale, Dead, AllAlive
    <3>2. TypeOK'
      BY <3>1 DEF TypeOK
    <3>3. Scans'
      BY <3>1 DEF Scans, TypeOK, Busy, Having
    <3> QED BY <3>1, <3>2, <3>3 DEF AllAlive
  <2>2. CASE ~LooksStale(scan[p].n) /\ scan[p].mode = "take"
    <3>1. UNCHANGED <<file, alive, held, call>> /\ scan' = [scan EXCEPT ![p].at = "create"]
      BY <1>4, <2>2 DEF Look
    <3>2. TypeOK'
      BY <3>1 DEF TypeOK
    <3>3. Scans'
      BY <3>1 DEF Scans, TypeOK, Busy, Having
    <3>4. AllAlive' => Settled'
      BY ZenonT(40), <3>1, SettledKept DEF TypeOK, AllAlive, Settled, Having
    <3> QED BY <3>2, <3>3, <3>4
  <2>3. CASE ~LooksStale(scan[p].n) /\ scan[p].mode # "take"
    BY <1>3, <1>4, <2>3 DEF Look
  <2> QED BY <2>1, <2>2, <2>3
<1>5. ASSUME NEW p \in Procs, RemoveFile(p) PROVE SlotInv'
  <2>0. ~AllAlive
    BY <1>5 DEF RemoveFile, Settled, AllAlive
  <2>1. file' \in [Slots -> Procs \cup {NoFile, Torn}] /\ UNCHANGED <<alive, held>>
    BY <1>5 DEF RemoveFile, Unlink, TypeOK
  <2>2. CASE scan[p].mode = "take"
    <3>1. UNCHANGED call /\ scan' = [scan EXCEPT ![p].at = "create"]
      BY <1>5, <2>2 DEF RemoveFile
    <3>2. TypeOK'
      BY <2>1, <3>1 DEF TypeOK
    <3>3. Scans'
      BY <2>1, <3>1 DEF Scans, TypeOK, Busy, Having
    <3> QED BY <2>0, <2>1, <3>2, <3>3 DEF AllAlive
  <2>3. CASE scan[p].mode # "take"
    <3> DEFINE c == scan[p].call
    <3>0. c \in Calls /\ Owner[c] = p /\ call[c] \in Waiting /\ alive[p] /\ Busy(p) /\ NextSlot(p)
      BY <1>5, <2>3 DEF Scans, Busy, TypeOK, Waiting, RemoveFile
    <3>1. (TypeOK /\ Scans)'
      BY <2>1, <3>0, ScanGoesOn
    <3> QED BY <2>0, <2>1, <3>1 DEF AllAlive
  <2> QED BY <2>2, <2>3
<1>6. ASSUME NEW p \in Procs, Create(p) PROVE SlotInv'
  <2> DEFINE c == scan[p].call
             n == scan[p].n
  <2>0. c \in Calls /\ Owner[c] = p /\ call[c] \in Waiting /\ n \in Slots /\ alive[p] /\ Busy(p)
    BY <1>6 DEF Create, Scans, Busy, TypeOK, Waiting
  <2>1. CASE ~Creatable(n)
    <3>1. NextSlot(p) /\ UNCHANGED <<file, held, alive>>
      BY <1>6, <2>1 DEF Create
    <3>2. (TypeOK /\ Scans)' /\ (Settled => Settled')
      BY <2>0, <3>1, ScanGoesOn DEF TypeOK
    <3> QED BY <3>1, <3>2 DEF AllAlive
  <2>2. CASE Creatable(n)
    <3> DEFINE h == [slot |-> n, refs |-> 1]
    <3>1. /\ file[n] = NoFile /\ file' = [file EXCEPT ![n] = p] /\ held' = [held EXCEPT ![p] = h]
          /\ call' = [call EXCEPT ![c] = "has"] /\ scan' = [scan EXCEPT ![p] = Resting] /\ alive' = alive
      BY <1>6, <2>2 DEF Create, Creatable
    <3>2. Resting \in ScanState /\ Resting.at = "look" /\ Resting.call = NoCall
      <4>1. 0 \in Slots
        BY SlotsAssumption DEF Slots, SlotsAssumption
      <4> QED BY <4>1 DEF Resting, ScanState
    <3>3. h \in [slot: Slots \cup {-1}, refs: Nat] /\ h # NotHeld /\ h.slot = n /\ h.refs = 1
      BY <2>0 DEF NotHeld
    <3>4. TypeOK'
      BY <2>0, <3>1, <3>2, <3>3 DEF TypeOK, ScanState
    <3>5. /\ \A q \in Procs : IsFiniteSet(Having(q)') /\ Cardinality(Having(q)) \in Nat
          /\ \A q \in Procs : Cardinality(Having(q)') =
                                IF q = p THEN Cardinality(Having(q)) + 1 ELSE Cardinality(Having(q))
      <4>1. \A q \in Procs : IsFiniteSet(Having(q)) /\ call[c] # "has"
        BY <2>0 DEF Scans, Waiting
      <4> QED BY <2>0, <3>1, <4>1, HavingMore
    <3>6. Scans'
      <4>1. \A q \in Procs \ {p} : Busy(q) /\ alive[q] => scan[q].call # c /\ scan[q].call \in Calls
        BY <2>0 DEF Scans, Busy, TypeOK
      <4>2. \A q \in Procs : held'[q] # NotHeld => held'[q].slot \in Slots /\ held'[q].refs > 0
        BY <2>0, <3>1, <3>3 DEF Scans, TypeOK
      <4>3. \A q \in Procs : Busy(q)' /\ alive[q] => Owner[scan'[q].call] = q /\ call'[scan'[q].call] \in {"new", "wait"}
        BY <2>0, <3>1, <3>2, <4>1 DEF Scans, TypeOK, Busy
      <4> QED BY <3>1, <3>5, <4>2, <4>3 DEF Scans
    <3>7. ASSUME AllAlive' PROVE Settled'
      <4>0. Settled
        BY <3>1, <3>7 DEF AllAlive
      <4>1. \A q \in Procs : scan'[q].at # "remove"
        BY <3>1, <3>2, <4>0 DEF Settled, TypeOK
      <4>2. \A q \in Procs : held'[q] # NotHeld => file'[held'[q].slot] = q
        <5> TAKE q \in Procs
        <5>1. CASE q = p
          BY <2>0, <3>1, <3>3, <5>1 DEF TypeOK
        <5>2. CASE q # p
          <6>1. held'[q] = held[q]
            BY <3>1, <5>2 DEF TypeOK
          <6>2. ASSUME held[q] # NotHeld PROVE file[held[q].slot] = q /\ held[q].slot # n /\ held[q].slot \in Slots
            BY <3>1, <4>0, <6>2, SlotsAssumption DEF Settled, Scans, SlotsAssumption
          <6> QED BY <3>1, <6>1, <6>2 DEF TypeOK
        <5> QED BY <5>1, <5>2
      <4>3. ASSUME NEW q \in Procs PROVE (Lost(q) \/ Cardinality(Having(q)) = held[q].refs)'
        <5>1. CASE Lost(q)
          <6>1. PICK m \in Slots : file[m] = q /\ ~IsHeld(q, m)
            BY <5>1 DEF Lost
          <6>2. m # n
            BY <3>1, <6>1, SlotsAssumption DEF SlotsAssumption
          <6>3. file'[m] = q /\ ~IsHeld(q, m)'
            BY <3>1, <3>3, <6>1, <6>2 DEF IsHeld, TypeOK
          <6> QED BY <6>3 DEF Lost
        <5>2. CASE q # p /\ Cardinality(Having(q)) = held[q].refs
          BY <3>1, <3>5, <5>2 DEF TypeOK
        <5>3. CASE q = p /\ Cardinality(Having(q)) = held[q].refs /\ held[q] = NotHeld
          BY <2>0, <3>1, <3>3, <3>5, <5>3 DEF TypeOK, NotHeld
        <5>4. CASE q = p /\ held[q] # NotHeld
          <6>1. PICK m \in Slots : m = held[q].slot /\ file[m] = q
            BY <4>0, <5>4 DEF Settled, Scans
          <6>2. m # n
            BY <3>1, <6>1, SlotsAssumption DEF SlotsAssumption
          <6>3. file'[m] = q /\ ~IsHeld(q, m)'
            BY <3>1, <3>3, <5>4, <6>1, <6>2 DEF IsHeld, TypeOK
          <6> QED BY <6>3 DEF Lost
        <5> QED BY <4>0, <5>1, <5>2, <5>3, <5>4 DEF Settled
      <4> QED BY <4>1, <4>2, <4>3 DEF Settled
    <3> QED BY <3>4, <3>6, <3>7
  <2> QED BY <2>1, <2>2
<1>7. ASSUME NEW c \in Calls, Release(c) PROVE SlotInv'
  <2> DEFINE p == Owner[c]
  <2>0. /\ p \in Procs /\ alive[p] /\ ~Busy(p) /\ call[c] = "has" /\ call' = [call EXCEPT ![c] = "done"]
        /\ UNCHANGED <<alive, scan>>
    BY <1>0, <1>7 DEF Release
  <2>1. \A q \in Procs : /\ IsFiniteSet(Having(q)') /\ Cardinality(Having(q)) \in Nat
                         /\ Cardinality(Having(q)') =
                              IF q = p THEN Cardinality(Having(q)) - 1 ELSE Cardinality(Having(q))
                         /\ q = p => Cardinality(Having(q)) > 0
    <3>1. \A q \in Procs : IsFiniteSet(Having(q))
      BY DEF Scans
    <3> QED BY <2>0, <3>1, HavingFewer
  <2>2. \A q \in Procs : Busy(q)' /\ alive'[q] => Owner[scan'[q].call] = q /\ call'[scan'[q].call] \in {"new", "wait"}
    BY <2>0 DEF Scans, Busy, TypeOK
  <2>3. CASE held[p] = NotHeld /\ UNCHANGED <<file, held>>
    <3>1. TypeOK'
      BY <2>0, <2>3 DEF TypeOK
    <3>2. Scans'
      BY <2>0, <2>1, <2>2, <2>3 DEF Scans
    <3>3. Settled => Settled'
      BY <2>0, <2>1, <2>3 DEF Settled, Lost, IsHeld, NotHeld
    <3> QED BY <2>0, <3>1, <3>2, <3>3 DEF AllAlive
  <2>4. CASE held[p].refs > 1 /\ held' = [held EXCEPT ![p].refs = @ - 1] /\ UNCHANGED file
    <3>0. held[p] \in [slot: Slots \cup {-1}, refs: Nat] /\ held[p] # NotHeld
      BY <2>0, <2>4 DEF TypeOK, NotHeld
    <3>1. /\ held'[p] \in [slot: Slots \cup {-1}, refs: Nat] /\ held'[p].slot = held[p].slot
          /\ held'[p].refs = held[p].refs - 1 /\ held'[p].refs > 0
          /\ \A q \in Procs \ {p} : held'[q] = held[q]
      BY <2>0, <2>4, <3>0 DEF TypeOK
    <3>2. TypeOK'
      BY <2>0, <2>4, <3>1 DEF TypeOK
    <3>3. held'[p] # NotHeld
      BY <3>1 DEF NotHeld
    <3>4. Scans'
      BY <2>1, <2>2, <3>0, <3>1, <3>3 DEF Scans
    <3>5. ASSUME Settled PROVE Settled'
      <4>1. \A q \in Procs : Lost(q)' <=> Lost(q)
        BY <2>4, <3>0, <3>1, <3>3 DEF Lost, IsHeld
      <4>2. \A q \in Procs : Cardinality(Having(q)) = held[q].refs => Cardinality(Having(q)') = held'[q].refs
        BY <2>1, <3>0, <3>1
      <4> QED BY <2>0, <2>4, <3>0, <3>1, <3>5, <4>1, <4>2 DEF Settled
    <3> QED BY <2>0, <3>2, <3>4, <3>5 DEF AllAlive
  <2>5. CASE held[p].refs = 1 /\ file' = FileAfterRelease(p) /\ held' = [held EXCEPT ![p] = NotHeld]
    <3>0. held[p] # NotHeld /\ held[p].slot \in Slots
      BY <2>0, <2>5 DEF NotHeld, Scans
    <3>1. NotHeld \in [slot: Slots \cup {-1}, refs: Nat] /\ NotHeld.refs = 0
      BY DEF NotHeld
    <3>2. /\ file' \in [Slots -> Procs \cup {NoFile, Torn}]
          /\ \A m \in Slots : file[m] # p \/ m # held[p].slot => file'[m] = file[m]
      BY <2>5 DEF FileAfterRelease, OwnFile, Unlink, TypeOK
    <3>3. TypeOK'
      BY <2>0, <2>5, <3>1, <3>2 DEF TypeOK
    <3>4. Scans'
      BY <2>0, <2>1, <2>2, <2>5 DEF Scans, TypeOK
    <3>5. ASSUME Settled PROVE Settled'
      <4>1. \A q \in Procs \ {p} : held'[q] = held[q]
        BY <2>5 DEF TypeOK
      <4>2. \A q \in Procs : held'[q] # NotHeld => file'[held'[q].slot] = q
        <5> TAKE q \in Procs
        <5>1. CASE q = p
          BY <2>0, <2>5, <5>1 DEF TypeOK
        <5>2. CASE q # p
          BY <3>2, <3>5, <4>1, <5>2 DEF Settled, Scans
        <5> QED BY <5>1, <5>2
      <4>3. ASSUME NEW q \in Procs PROVE (Lost(q) \/ Cardinality(Having(q)) = held[q].refs)'
        <5>1. CASE Lost(q)
          <6>1. PICK m \in Slots : file[m] = q /\ ~IsHeld(q, m)
            BY <5>1 DEF Lost
          <6>2. file'[m] = q
            BY <3>0, <3>2, <6>1 DEF IsHeld
          <6>3. ~IsHeld(q, m)'
            BY <2>0, <2>5, <4>1, <6>1 DEF IsHeld, TypeOK
          <6> QED BY <6>2, <6>3 DEF Lost
        <5>2. CASE q # p /\ Cardinality(Having(q)) = held[q].refs
          BY <2>1, <4>1, <5>2
        <5>3. CASE q = p /\ Cardinality(Having(q)) = held[q].refs
          BY <2>0, <2>1, <2>5, <3>1, <5>3 DEF TypeOK
        <5> QED BY <3>5, <5>1, <5>2, <5>3 DEF Settled
      <4> QED BY <2>0, <3>5, <4>2, <4>3 DEF Settled
    <3> QED BY <2>0, <3>3, <3>4, <3>5 DEF AllAlive
  <2> QED BY <1>7, <2>3, <2>4, <2>5 DEF Release
<1>8. ASSUME NEW p \in Procs, alive' = [alive EXCEPT ![p] = FALSE], call' = Gone(p), UNCHANGED <<scan, held>>,
             file' \in [Slots -> Procs \cup {NoFile, Torn}]
      PROVE  SlotInv'
  <2>1. TypeOK'
    BY <1>8 DEF TypeOK, Gone
  <2>2. ~AllAlive'
    BY <1>8 DEF AllAlive, TypeOK
  <2>3. \A q \in Procs : IsFiniteSet(Having(q)')
    <3>1. \A q \in Procs : Having(q)' \in SUBSET Having(q)
      BY <1>8 DEF Having, Gone
    <3> QED BY <3>1, FS_Subset DEF Scans
  <2>4. \A q \in Procs : Busy(q)' /\ alive'[q] => Owner[scan'[q].call] = q /\ call'[scan'[q].call] \in {"new", "wait"}
    <3> SUFFICES ASSUME NEW q \in Procs, Busy(q), alive'[q]
                 PROVE  Owner[scan[q].call] = q /\ call'[scan[q].call] \in {"new", "wait"}
      BY <1>8 DEF Busy
    <3>1. q # p /\ alive[q] /\ scan[q].call \in Calls
      BY <1>8 DEF TypeOK, Busy
    <3> QED BY <1>8, <3>1 DEF Scans, Gone
  <2> QED BY <1>8, <2>1, <2>2, <2>3, <2>4 DEF Scans
<1>9. ASSUME NEW p \in Procs, Exit(p) PROVE SlotInv'
  <2>1. file' \in [Slots -> Procs \cup {NoFile, Torn}]
    BY <1>9 DEF Exit, FileAfterRelease, OwnFile, Unlink, TypeOK
  <2> QED BY <1>8, <1>9, <2>1 DEF Exit
<1>10. ASSUME NEW p \in Procs, Crash(p) PROVE SlotInv'
  <2>1. file' \in [Slots -> Procs \cup {NoFile, Torn}]
    BY <1>10 DEF Crash, TypeOK
  <2> QED BY <1>8, <1>10, <2>1 DEF Crash
<1>11. CASE UNCHANGED vars
  BY <1>11 DEF vars, TypeOK, Scans, Settled, AllAlive, Busy, Having, Lost, IsHeld
<1> QED BY <1>1, <1>2, <1>4, <1>5, <1>6, <1>7, <1>9, <1>10, <1>11 DEF Next

LEMMA SlotsHold == Spec => []SlotInv
BY SlotInit, SlotNext, PTL DEF Spec

-----------------------------------------------------------------------------
\* What the browsers do to the slots is what the slots allow.
LEMMA HarnessStepsSlots == [HarnessNext]_all => [Next]_vars
<1> SUFFICES ASSUME [HarnessNext]_all PROVE [Next]_vars
  OBVIOUS
<1>1. ASSUME NEW c \in Calls, StartLaunch(c) \/ TakeSlot(c) \/ TryAgain(c) \/ MakeDir(c) \/ Mark(c) \/ LaunchFails(c)
             \/ Start(c) \/ Watch(c) \/ Close(c) \/ Dispose(c) \/ GiveSlot(c) \/ LegacyLaunch(c)
             \/ BrowserEnds(c) \/ JobEnds(c) \/ GuardLeaves(c) \/ GuardActs(c) \/ Age(c)
      PROVE  [Next]_vars
  BY <1>1 DEF StartLaunch, TakeSlot, TryAgain, MakeDir, Mark, LaunchFails, Start, Watch, Close, Dispose, GiveSlot,
              LegacyLaunch, BrowserEnds, JobEnds, GuardLeaves, GuardActs, Age, Step, slots, Next
<1>2. ASSUME NEW p \in Procs, Scan(p) \/ StartReap(p) \/ SweepLook(p) \/ SweepAct(p) \/ ProcessExit(p) \/ ProcessCrash(p)
      PROVE  [Next]_vars
  BY <1>2 DEF Scan, StartReap, SweepLook, SweepAct, ProcessExit, ProcessCrash, slots, Next
<1> QED BY <1>1, <1>2 DEF HarnessNext, all, slots

\* The composition keeps to the specification of the slots (acquireSlot and releaseSync are all it calls of them).
THEOREM HarnessUsesSlots == HarnessSpec => Spec
BY HarnessStepsSlots, PTL DEF HarnessSpec, HarnessInit, Spec

\* As long as no process has died, every holder's slot file is there and names it: no two processes hold one slot,
\* however many processes scan, take and give (tryTake, releaseSync).
THEOREM SlotsExclusive == HarnessSpec => []ExclusiveUntilADeath
<1>1. SlotInv => ExclusiveUntilADeath
  BY DEF SlotInv, Settled, AllAlive, ExclusiveUntilADeath
<1> QED BY <1>1, HarnessUsesSlots, SlotsHold, PTL

-----------------------------------------------------------------------------
\* The launches.

\* What a launch in progress is not: stale, in any of the three ways.
LEMMA InProgressSpared ==
  ASSUME HarnessShape, Launches, NEW c \in Calls \ Legacy, NEW kind, c \in Stale(kind)
  PROVE  at[c] \in Over
BY DEF HarnessShape, Over, Launches, Launch, Stale, Orphan, DeadMarked, Unmarked, RootOrphan, Orphaned, InProgress

LEMMA EmptiedType ==
  ASSUME NEW c \in Calls, NEW mode, NEW d \in Emptied(c, mode), dir \in [Calls -> {"none", "marked", "bare", "old"}]
  PROVE  d \in {"none", "marked", "bare", "old"}
BY DEF Emptied

LEMMA LaunchesInit == HarnessInit => HarnessShape /\ Launches /\ StaleIsOver
BY DEF HarnessInit, HarnessShape, Launches, Launch, StaleIsOver, NoSweep, InProgress

\* On to the next pass: a sweep is looking again or off, with nothing in its hands; a launch it held up goes on.
LEMMA NextPassOutcome ==
  ASSUME HarnessShape, NEW p \in Procs, NEW found, NextPass(p, found)
  PROVE  /\ sweep' \in [Procs -> [at : {"off", "look", "act"}, kind : {"launch", "reap", "legacy"}, stale : SUBSET Calls]]
         /\ sweep'[p].stale = {} /\ \A q \in Procs \ {p} : sweep'[q] = sweep[q]
         /\ DOMAIN at' = Calls /\ \A c \in Calls : at'[c] = at[c] \/ (at[c] = "sweep" /\ at'[c] = "acquire")
         /\ at' \in [Calls -> {"idle", "sweep", "acquire", "made", "marked", "started", "up", "closed", "disposed",
                               "done", "failed", "gone"}]
<1>1. NoSweep.stale = {} /\ NoSweep \in [at : {"off", "look", "act"}, kind : {"launch", "reap", "legacy"}, stale : SUBSET Calls]
  BY DEF NoSweep
<1>2. CASE sweep' = [sweep EXCEPT ![p] = [at |-> "look", kind |-> "legacy", stale |-> {}]] /\ UNCHANGED at
  BY <1>2 DEF HarnessShape
<1>3. CASE sweep' = [sweep EXCEPT ![p] = NoSweep] /\ at' = Swept(p)
  BY <1>1, <1>3 DEF HarnessShape, Swept
<1> QED BY <1>2, <1>3 DEF NextPass

LEMMA ShapeNext == HarnessShape /\ [HarnessNext]_all => HarnessShape'
<1> SUFFICES ASSUME HarnessShape, [HarnessNext]_all PROVE HarnessShape'
  OBVIOUS
<1> USE DEF HarnessShape
<1>1. ASSUME NEW c \in Calls, StartLaunch(c) \/ TakeSlot(c) \/ TryAgain(c) \/ MakeDir(c) \/ Mark(c) \/ LaunchFails(c)
             \/ Start(c) \/ Watch(c) \/ Close(c) \/ GiveSlot(c) \/ LegacyLaunch(c)
             \/ BrowserEnds(c) \/ JobEnds(c) \/ GuardLeaves(c) \/ Age(c)
      PROVE  HarnessShape'
  BY <1>1 DEF StartLaunch, TakeSlot, TryAgain, MakeDir, Mark, LaunchFails, Start, Watch, Close, GiveSlot,
              LegacyLaunch, BrowserEnds, JobEnds, GuardLeaves, Age, Step, harness, NoSweep, Modes, Killed
<1>2. ASSUME NEW c \in Calls, Dispose(c) \/ GuardActs(c) PROVE HarnessShape'
  BY <1>2, EmptiedType DEF Dispose, GuardActs, Step
<1>3. ASSUME NEW p \in Procs, Scan(p) \/ StartReap(p) \/ ProcessCrash(p) PROVE HarnessShape'
  <2>1. NoSweep \in [at : {"off", "look", "act"}, kind : {"launch", "reap", "legacy"}, stale : SUBSET Calls]
    BY DEF NoSweep
  <2>2. CASE Scan(p)
    BY <2>2 DEF Scan, harness
  <2>3. CASE StartReap(p)
    BY <2>1, <2>3 DEF StartReap
  <2>4. CASE ProcessCrash(p)
    BY <2>1, <2>4 DEF ProcessCrash, Broken
  <2> QED BY <1>3, <2>2, <2>3, <2>4
<1>4. ASSUME NEW p \in Procs, SweepLook(p) PROVE HarnessShape'
  <2>1. Stale(sweep[p].kind) \in SUBSET Calls
    BY DEF Stale
  <2>2. CASE NextPass(p, FALSE)
    BY <1>4, <2>2, NextPassOutcome DEF SweepLook
  <2>3. CASE sweep' = [sweep EXCEPT ![p].at = "act", ![p].stale = Stale(sweep[p].kind)] /\ UNCHANGED at
    BY ZenonT(40), <1>4, <2>1, <2>3 DEF SweepLook
  <2> QED BY <1>4, <2>2, <2>3 DEF SweepLook
<1>5. ASSUME NEW p \in Procs, SweepAct(p) PROVE HarnessShape'
  <2>1. /\ dir' \in [Calls -> {"none", "marked", "bare", "old"}]
        /\ run' \in [Calls -> {"none", "job", "tramp", "child"}]
    BY <1>5 DEF SweepAct
  <2>2. NextPass(p, TRUE)
    BY <1>5 DEF SweepAct
  <2> QED BY <2>1, <2>2, NextPassOutcome
<1>6. ASSUME NEW p \in Procs, ProcessExit(p) PROVE HarnessShape'
  BY <1>6 DEF ProcessExit, Broken
<1>7. CASE UNCHANGED all
  BY <1>7 DEF all, harness
<1> QED BY <1>1, <1>2, <1>3, <1>4, <1>5, <1>6, <1>7 DEF HarnessNext

LEMMA LaunchesNext ==
  ASSUME SlotInv, HarnessShape, Launches, StaleIsOver, [HarnessNext]_all
  PROVE  (Launches /\ StaleIsOver)'
<1>0. Owner \in [Calls -> Procs]
  BY SlotsAssumption DEF SlotsAssumption
<1>1. ASSUME NEW c \in Calls, MakeDir(c) \/ Mark(c) \/ LaunchFails(c) \/ Start(c) \/ Watch(c) \/ Close(c) \/ Dispose(c)
      PROVE  (Launches /\ StaleIsOver)'
  <2>0. /\ at[c] \in {"acquire", "made", "marked", "started", "up", "closed"} /\ alive[Owner[c]] /\ call[c] = "has"
        /\ UNCHANGED <<call, alive, sweep>>
    BY <1>1 DEF MakeDir, Mark, LaunchFails, Start, Watch, Close, Dispose, Step, Holds, Idle, slots, vars
  <2>1. \A d \in Calls \ {c} : at'[d] = at[d] /\ dir'[d] = dir[d] /\ run'[d] = run[d]
    BY <1>1 DEF MakeDir, Mark, LaunchFails, Start, Watch, Close, Dispose, Step, HarnessShape
  <2>2. \A d \in Calls \ Legacy : d # c => Launch(d)'
    BY <2>0, <2>1 DEF Launches, Launch
  <2>3. c \notin Legacy => Launch(c)'
    <3>1. CASE MakeDir(c) \/ Mark(c) \/ LaunchFails(c) \/ Start(c) \/ Watch(c) \/ Close(c)
      BY <2>0, <3>1 DEF Launches, Launch, InProgress, MakeDir, Mark, LaunchFails, Start, Watch, Close, Step, HarnessShape
    <3>2. CASE Dispose(c)
      BY <2>0, <3>2 DEF Launch, InProgress, Dispose, Step, HarnessShape
    <3> QED BY <1>1, <3>1, <3>2
  <2>4. StaleIsOver'
    BY <2>0, <2>1 DEF StaleIsOver, Over, HarnessShape
  <2> QED BY <2>2, <2>3, <2>4 DEF Launches
<1>2. ASSUME NEW c \in Calls, BrowserEnds(c) \/ JobEnds(c) \/ GuardLeaves(c) \/ GuardActs(c) \/ Age(c) \/ LegacyLaunch(c)
      PROVE  (Launches /\ StaleIsOver)'
  <2>1. /\ UNCHANGED <<call, alive, sweep>> /\ \A d \in Calls \ Legacy : at'[d] = at[d]
    BY <1>2 DEF BrowserEnds, JobEnds, GuardLeaves, GuardActs, Age, LegacyLaunch, slots, vars, HarnessShape
  <2>2. \A d \in Calls \ Legacy : at[d] \in InProgress => dir'[d] = dir[d]
    <3>1. CASE GuardActs(c)
      BY <3>1, <1>0 DEF GuardActs, Orphaned, Launches, Launch, HarnessShape
    <3>2. CASE Age(c)
      BY <3>2 DEF Age, Launches, Launch, HarnessShape, InProgress
    <3>3. CASE BrowserEnds(c) \/ JobEnds(c) \/ GuardLeaves(c) \/ LegacyLaunch(c)
      BY <3>3 DEF BrowserEnds, JobEnds, GuardLeaves, LegacyLaunch, HarnessShape
    <3> QED BY <1>2, <3>1, <3>2, <3>3
  <2>3. \A d \in Calls \ Legacy : /\ run[d] = "none" => run'[d] = "none"
                                  /\ dir[d] = "none" => dir'[d] = "none"
    BY <1>2 DEF BrowserEnds, JobEnds, GuardLeaves, GuardActs, Age, LegacyLaunch, HarnessShape
  <2>4. Launches'
    BY <2>1, <2>2, <2>3 DEF Launches, Launch, InProgress
  <2>5. StaleIsOver'
    BY <2>1, <1>2 DEF StaleIsOver, HarnessShape
  <2> QED BY <2>4, <2>5
<1>3. ASSUME NEW c \in Calls, StartLaunch(c) \/ TakeSlot(c) \/ TryAgain(c) PROVE (Launches /\ StaleIsOver)'
  <2>1. /\ at[c] \in {"idle", "acquire"} \/ call' = call
        /\ UNCHANGED <<alive, dir, run>>
        /\ \A d \in Calls \ {c} : call'[d] = call[d] /\ at'[d] = at[d]
        /\ at'[c] = at[c] \/ (at[c] = "idle" /\ at'[c] = "sweep")
    BY <1>3 DEF StartLaunch, TakeSlot, TryAgain, Acquire, Wake, harness, slots, vars, HarnessShape, SlotInv, TypeOK
  <2>2. \A p \in Procs : sweep'[p] = sweep[p] \/ sweep'[p].stale = {}
    BY SMTT(20), <1>0, <1>3 DEF StartLaunch, TakeSlot, TryAgain, harness, HarnessShape, NoSweep
  <2>3. Launches'
    BY <2>1 DEF Launches, Launch, InProgress
  <2>4. StaleIsOver'
    BY <2>1, <2>2 DEF StaleIsOver, Over, HarnessShape
  <2> QED BY <2>3, <2>4
<1>4. ASSUME NEW c \in Calls, GiveSlot(c) PROVE (Launches /\ StaleIsOver)'
  <2>1. /\ UNCHANGED <<alive, dir, run, sweep>> /\ at[c] = "disposed" /\ at'[c] = "done"
        /\ \A d \in Calls \ {c} : call'[d] = call[d] /\ at'[d] = at[d]
    BY <1>4 DEF GiveSlot, MayRelease, Release, HarnessShape, SlotInv, TypeOK
  <2>2. Launches'
    BY <2>1 DEF Launches, Launch, InProgress
  <2>3. StaleIsOver'
    BY <2>1 DEF StaleIsOver, Over, HarnessShape
  <2> QED BY <2>2, <2>3
<1>5. ASSUME NEW p \in Procs, Scan(p) PROVE (Launches /\ StaleIsOver)'
  <2>1. UNCHANGED <<alive, at, dir, run, sweep>>
    BY <1>5 DEF Scan, Look, RemoveFile, Create, harness
  <2>2. \A d \in Calls : call[d] = "has" => call'[d] = "has"
    <3>1. alive[p] /\ Busy(p) /\ call[scan[p].call] \in Waiting
      BY <1>5 DEF Scan, Look, RemoveFile, Create, SlotInv, Scans, Waiting
    <3>2. CASE NextSlot(p)
      BY <3>1, <3>2, NextSlotOutcome DEF SlotInv, TypeOK, Waiting
    <3>3. CASE call' = call \/ call' = [call EXCEPT ![scan[p].call] = "has"]
      BY <3>3 DEF SlotInv, TypeOK
    <3> QED BY <1>5, <3>2, <3>3 DEF Scan, Look, RemoveFile, Create
  <2> QED BY <2>1, <2>2 DEF Launches, Launch, StaleIsOver
<1>6. ASSUME NEW p \in Procs, StartReap(p) \/ SweepLook(p) PROVE (Launches /\ StaleIsOver)'
  <2>1. UNCHANGED <<call, alive, dir, run>>
    BY <1>6 DEF StartReap, SweepLook, slots, vars
  <2>2. \A c \in Calls : at'[c] = at[c] \/ (at[c] = "sweep" /\ at'[c] = "acquire")
    BY <1>6, NextPassOutcome DEF StartReap, SweepLook
  <2>3. Launches'
    BY <2>1, <2>2 DEF Launches, Launch, InProgress
  <2>4. \A q \in Procs : \A c \in sweep'[q].stale \ Legacy : at[c] \in Over
    <3>1. CASE StartReap(p)
      BY <3>1 DEF StartReap, NoSweep, HarnessShape, StaleIsOver
    <3>2. CASE SweepLook(p) /\ NextPass(p, FALSE)
      BY <3>2, NextPassOutcome DEF StaleIsOver
    <3>3. CASE sweep' = [sweep EXCEPT ![p].at = "act", ![p].stale = Stale(sweep[p].kind)]
      <4>1. sweep'[p].stale = Stale(sweep[p].kind) /\ \A q \in Procs \ {p} : sweep'[q] = sweep[q]
        BY <3>3 DEF HarnessShape
      <4>2. \A c \in Stale(sweep[p].kind) \ Legacy : at[c] \in Over
        BY InProgressSpared DEF Stale
      <4> QED BY <4>1, <4>2 DEF StaleIsOver
    <3> QED BY <1>6, <3>1, <3>2, <3>3 DEF SweepLook
  <2>5. StaleIsOver'
    BY <2>2, <2>4, ShapeNext DEF StaleIsOver, Over, HarnessShape
  <2> QED BY <2>3, <2>5
<1>7. ASSUME NEW p \in Procs, SweepAct(p) PROVE (Launches /\ StaleIsOver)'
  <2>1. UNCHANGED <<call, alive>>
    BY <1>7 DEF SweepAct, slots, vars
  <2>2. NextPass(p, TRUE)
    BY <1>7 DEF SweepAct
  <2>3. /\ \A c \in Calls : at'[c] = at[c] \/ (at[c] = "sweep" /\ at'[c] = "acquire")
        /\ sweep'[p].stale = {} /\ \A q \in Procs \ {p} : sweep'[q] = sweep[q]
    BY <2>2, NextPassOutcome
  <2>4. \A c \in Calls : c \notin sweep[p].stale => dir'[c] = dir[c] /\ run'[c] = run[c]
    BY <1>7 DEF SweepAct, HarnessShape
  <2>5. \A c \in Calls \ Legacy : c \in sweep[p].stale => at[c] \in Over
    BY DEF StaleIsOver
  <2>6. \A c \in Calls \ Legacy : c \in sweep[p].stale /\ at[c] = "disposed" => at'[c] = "disposed"
    BY <2>3
  <2>7. Launches'
    BY <2>1, <2>3, <2>4, <2>5 DEF Launches, Launch, InProgress, Over
  <2>8. StaleIsOver'
    BY <2>3 DEF StaleIsOver, Over, HarnessShape
  <2> QED BY <2>7, <2>8
<1>8. ASSUME NEW p \in Procs, ProcessExit(p) \/ ProcessCrash(p) PROVE (Launches /\ StaleIsOver)'
  <2>1. at' = Broken(p) /\ call' = Gone(p) /\ alive' = [alive EXCEPT ![p] = FALSE]
    BY <1>8 DEF ProcessExit, ProcessCrash, Exit, Crash
  <2>2. \A c \in Calls \ Legacy : Owner[c] # p \/ at[c] = "idle" => dir'[c] = dir[c] /\ run'[c] = run[c]
    <3>1. CASE ProcessCrash(p)
      BY <3>1 DEF ProcessCrash
    <3>2. CASE ProcessExit(p)
      <4> DEFINE mine == {c \in Calls \ Legacy : Owner[c] = p /\ at[c] \in {"marked", "started", "up", "closed"}}
      <4>1. \A c \in Calls : c \notin mine => dir'[c] = dir[c] /\ run'[c] = run[c]
        BY <3>2 DEF ProcessExit
      <4> QED BY <4>1
    <3> QED BY <1>8, <3>1, <3>2
  <2>3. \A q \in Procs : sweep'[q] = sweep[q] \/ sweep'[q].stale = {}
    BY <1>8 DEF ProcessExit, ProcessCrash, HarnessShape, NoSweep
  <2>4. Launches'
    <3> SUFFICES ASSUME NEW c \in Calls \ Legacy PROVE Launch(c)'
      BY DEF Launches
    <3>1. CASE Owner[c] = p
      BY <2>1, <2>2, <3>1 DEF Launches, Launch, Broken, InProgress
    <3>2. CASE Owner[c] # p
      BY <1>0, <2>1, <2>2, <3>2 DEF Launches, Launch, Broken, Gone, SlotInv, TypeOK
    <3> QED BY <3>1, <3>2
  <2>5. StaleIsOver'
    BY <2>1, <2>3 DEF StaleIsOver, Over, Broken, HarnessShape
  <2> QED BY <2>4, <2>5
<1>9. CASE UNCHANGED all
  BY <1>9 DEF all, slots, vars, harness, Launches, Launch, StaleIsOver
<1> QED BY <1>1, <1>2, <1>3, <1>4, <1>5, <1>6, <1>7, <1>8, <1>9 DEF HarnessNext

LEMMA HarnessHolds == HarnessSpec => []HInv
<1>1. HarnessInit => HInv
  BY SlotInit, LaunchesInit DEF HarnessInit, HInv
<1>2. HInv /\ [HarnessNext]_all => HInv'
  BY HarnessStepsSlots, SlotNext, ShapeNext, LaunchesNext DEF HInv
<1> QED BY <1>1, <1>2, PTL DEF HarnessSpec

-----------------------------------------------------------------------------
\* A process whose call has a slot has a slot file.
LEMMA HaverHasFile ==
  ASSUME SlotInv, Settled, NEW c \in Calls, call[c] = "has"
  PROVE  \E n \in Slots : file[n] = Owner[c]
<1> DEFINE p == Owner[c]
<1>0. p \in Procs
  BY SlotsAssumption DEF SlotsAssumption
<1>1. CASE Lost(p)
  BY <1>1 DEF Lost
<1>2. CASE Cardinality(Having(p)) = held[p].refs
  <2>1. c \in Having(p) /\ IsFiniteSet(Having(p))
    BY <1>0 DEF Having, SlotInv, Scans
  <2>2. held[p].refs # 0
    BY <1>2, <2>1, FS_EmptySet
  <2>3. held[p] # NotHeld
    BY <2>2 DEF NotHeld
  <2> QED BY <1>0, <2>3 DEF Settled, SlotInv, Scans
<1> QED BY <1>0, <1>1, <1>2 DEF Settled

\* As long as no process has died, the processes with a browser they launched and have not closed are no more than
\* the slots, although a process may forget a slot it holds (acquireSlot, launchBrowser and its close).
THEOREM RunsWithinCap == HarnessSpec => []WithinCap
<1>1. ASSUME SlotInv, Launches PROVE WithinCap
  <2> DEFINE running == {d \in Calls \ Legacy : run[d] # "none" /\ at[d] \in {"started", "up", "closed"}}
             owners == {Owner[c] : c \in running}
             named == {file[n] : n \in Slots}
  <2> SUFFICES ASSUME AllAlive PROVE Cardinality(owners) <= Cap
    BY DEF WithinCap, AllAlive
  <2>1. Settled
    BY <1>1 DEF SlotInv
  <2>2. \A c \in running : call[c] = "has"
    BY <1>1 DEF Launches, Launch, InProgress
  <2>3. owners \in SUBSET named
    <3>1. \A c \in running : \E n \in Slots : file[n] = Owner[c]
      BY <1>1, <2>1, <2>2, HaverHasFile
    <3> QED BY <3>1
  <2>4. file \in Surjection(Slots, named)
    BY <1>1 DEF SlotInv, TypeOK, Surjection
  <2>5. IsFiniteSet(Slots) /\ Cardinality(Slots) = Cap
    BY FS_Interval, SlotsAssumption DEF Slots, SlotsAssumption
  <2>6. IsFiniteSet(named) /\ Cardinality(named) <= Cap
    BY <2>4, <2>5, FS_Surjection
  <2>7. Cardinality(owners) <= Cardinality(named)
    BY <2>3, <2>6, FS_Subset
  <2>8. Cardinality(owners) \in Nat /\ Cardinality(named) \in Nat
    BY <2>3, <2>6, FS_Subset, FS_CardinalityType
  <2> HIDE DEF owners, named
  <2> QED BY <2>6, <2>7, <2>8, SlotsAssumption DEF SlotsAssumption
<1>2. HInv => WithinCap
  BY <1>1 DEF HInv
<1> QED BY <1>2, HarnessHolds, PTL

\* Nobody but its process ends a launch: whatever sweep, reaper, guard or exit of another process runs between its
\* steps, the profile and the browser of a call in progress stay as they are (sweepStale, groupBrowsers, scratch-guard).
THEOREM LivingSpared == HarnessSpec => SparesTheLiving
<1> DEFINE Spared == \A c \in Calls \ Legacy :
      /\ at[c] \in {"made", "marked", "started", "up", "closed"} /\ at'[c] = at[c]
      => dir'[c] = dir[c] /\ (run'[c] = run[c] \/ BrowserEnds(c))
<1>1. ASSUME SlotInv, HarnessShape, Launches, StaleIsOver, [HarnessNext]_all PROVE Spared
  <2> SUFFICES ASSUME NEW c \in Calls \ Legacy, at[c] \in InProgress, at'[c] = at[c]
               PROVE  dir'[c] = dir[c] /\ (run'[c] = run[c] \/ BrowserEnds(c))
    BY DEF InProgress
  <2> USE DEF HarnessShape
  <2>0. alive[Owner[c]] /\ call[c] = "has"
    BY <1>1 DEF Launches, Launch
  <2>1. ASSUME NEW d \in Calls, StartLaunch(d) \/ TakeSlot(d) \/ TryAgain(d) \/ GuardLeaves(d) \/ GiveSlot(d)
        PROVE  dir' = dir /\ run' = run
    BY <2>1 DEF StartLaunch, TakeSlot, TryAgain, GuardLeaves, GiveSlot, harness
  <2>2. ASSUME NEW d \in Calls, MakeDir(d) \/ Mark(d) \/ LaunchFails(d) \/ Start(d) \/ Watch(d) \/ Close(d) \/ Dispose(d)
        PROVE  d # c /\ dir'[c] = dir[c] /\ run'[c] = run[c]
    <3>1. d # c
      BY <1>1, <2>2 DEF MakeDir, Mark, LaunchFails, Start, Watch, Close, Dispose, Step
    <3> QED BY <1>1, <2>2, <3>1 DEF MakeDir, Mark, LaunchFails, Start, Watch, Close, Dispose, Step
  <2>3. ASSUME NEW d \in Calls, LegacyLaunch(d) \/ Age(d) \/ GuardActs(d)
        PROVE  dir'[c] = dir[c] /\ run'[c] = run[c]
    <3>1. CASE LegacyLaunch(d)
      BY <1>1, <3>1 DEF LegacyLaunch
    <3>2. CASE Age(d)
      BY <1>1, <3>2 DEF Age, Launches, Launch, InProgress
    <3>3. CASE GuardActs(d)
      BY <1>1, <2>0, <3>3 DEF GuardActs, Orphaned
    <3> QED BY <2>3, <3>1, <3>2, <3>3
  <2>4. ASSUME NEW d \in Calls, BrowserEnds(d) \/ JobEnds(d)
        PROVE  dir'[c] = dir[c] /\ (run'[c] = run[c] \/ BrowserEnds(c))
    BY <1>1, <2>4 DEF BrowserEnds, JobEnds
  <2>5. ASSUME NEW p \in Procs, Scan(p) \/ StartReap(p) \/ SweepLook(p) \/ ProcessCrash(p)
        PROVE  dir' = dir /\ run' = run
    BY <2>5 DEF Scan, StartReap, SweepLook, ProcessCrash, harness
  <2>6. ASSUME NEW p \in Procs, SweepAct(p) PROVE dir'[c] = dir[c] /\ run'[c] = run[c]
    <3>1. c \notin sweep[p].stale
      BY <1>1 DEF StaleIsOver, Over, InProgress
    <3> QED BY <1>1, <2>6, <3>1 DEF SweepAct
  <2>7. ASSUME NEW p \in Procs, ProcessExit(p) PROVE dir'[c] = dir[c] /\ run'[c] = run[c]
    <3>1. at' = Broken(p)
      BY <2>7 DEF ProcessExit
    <3>2. Owner[c] # p
      BY <3>1 DEF Broken, InProgress
    <3> QED BY <1>1, <2>7, <3>2 DEF ProcessExit
  <2>8. CASE UNCHANGED all
    BY <2>8 DEF all, harness
  <2> QED BY <1>1, <2>1, <2>2, <2>3, <2>4, <2>5, <2>6, <2>7, <2>8 DEF HarnessNext
<1>2. HInv /\ [HarnessNext]_all => [Spared]_all
  BY <1>1 DEF HInv
<1> QED BY <1>2, HarnessHolds, PTL DEF HarnessSpec, SparesTheLiving

-----------------------------------------------------------------------------
\* The event feed.  What its variables hold.

Entry == [kind : Kind, text : Text, in : Nat]
Batch == [kind : Kind, entries : Seq(Nat), half : {1, 2}]
FeedRow == [session : Nat, kind : Kind, entry : Nat, hash : Text, text : Text \cup {""}]

FeedTypes ==
  /\ made \in Seq(Entry)
  /\ ring \in [Kind -> Seq(Nat)] /\ queue \in [Kind -> Seq(Nat)]
  /\ conns \in 0..MaxConn /\ conn \in {0, conns} /\ reg \in {0, conns}
  /\ wire \in [1..MaxConn -> Seq(Batch)] /\ buf \in Seq(Batch)
  /\ begun \in Nat /\ active \in {0, begun}
  /\ rows \in Seq(Seq(FeedRow))
  /\ wait.at = "poll" => wait.kind \in Kind

\* The sockets that are not open yet are empty, and so is the buffer of an agent without a socket.
Sockets ==
  /\ reg = 0 => buf = <<>>
  /\ \A c \in 1..MaxConn : c > conns => wire[c] = <<>>

\* An entry belongs to a session that has begun; a row to that one or a later one, and its text is in text_blobs.
Sessions == \A e \in DOMAIN made : made[e].in <= begun
Texted ==
  \A t \in DOMAIN rows : \A i \in DOMAIN rows[t] :
    LET r == rows[t][i]
    IN r.session >= made[r.entry].in /\ r.hash = made[r.entry].text /\ r.hash \in blobs /\ r.text \in {"", r.hash}

\* What a wait has not seen in the ring has gone out of it.
Searched ==
  wait.at = "poll" => \A e \in DOMAIN made : made[e].kind = wait.kind => e \in ToSet(ring[wait.kind]) \cup passed

\* What the relay has and will have of the frames of the registered socket.
Bytes(b, w, c) == IF c = 0 THEN <<>> ELSE b \o w[c]

Increasing(s) == \A i, j \in DOMAIN s : i < j => s[i] < s[j]
Below(S, T) == \A x \in S, y \in T : x < y

\* The entries of a kind on their way: stored before received, received before queued.
QueueOK(q, n) == \A k \in Kind : Increasing(q[k]) /\ ToSet(q[k]) \subseteq 1..n
BytesOK(b, n) == Len(b) % 2 = 0 /\ \A p \in DOMAIN b : Increasing(b[p].entries) /\ ToSet(b[p].entries) \subseteq 1..n
Frames(b) ==
  \A p, o \in DOMAIN b : p < o /\ b[p].kind = b[o].kind /\ (p % 2 = 0 \/ o > p + 1)
                         => Below(ToSet(b[p].entries), ToSet(b[o].entries))
Unsent(b, q) == \A p \in DOMAIN b : Below(ToSet(b[p].entries), ToSet(q[b[p].kind]))
RowsOK(r, n) == \A t \in DOMAIN r : \A i \in DOMAIN r[t] : r[t][i].entry \in 1..n
Unqueued(r, q) == \A t \in DOMAIN r : \A i \in DOMAIN r[t] : Below({r[t][i].entry}, ToSet(q[r[t][i].kind]))
Unread(r, b) ==
  \A t \in DOMAIN r : \A i \in DOMAIN r[t] : \A p \in DOMAIN b :
    b[p].kind = r[t][i].kind => Below({r[t][i].entry}, ToSet(b[p].entries))
Ordered(r) ==
  \A t, u \in DOMAIN r : \A i \in DOMAIN r[t], j \in DOMAIN r[u] :
    (t < u \/ (t = u /\ i < j)) /\ r[t][i].kind = r[u][j].kind => r[t][i].entry < r[u][j].entry

Flow(q, b, r, n) ==
  /\ QueueOK(q, n) /\ BytesOK(b, n) /\ Frames(b) /\ Unsent(b, q)
  /\ RowsOK(r, n) /\ Unqueued(r, q) /\ Unread(r, b) /\ Ordered(r)

FeedInv ==
  FeedTypes /\ Sockets /\ Sessions /\ Texted /\ Flow(queue, Bytes(buf, wire, reg), rows, Len(made))

-----------------------------------------------------------------------------
Queues == [Kind -> Seq(Nat)]
Tables == Seq(Seq(FeedRow))

IsJoin(u, s, t, S) ==
  /\ Len(s) \in Nat /\ Len(t) \in Nat /\ DOMAIN s = 1..Len(s) /\ DOMAIN t = 1..Len(t)
  /\ u \in Seq(S) /\ Len(u) = Len(s) + Len(t) /\ DOMAIN u = 1..(Len(s) + Len(t))
  /\ \A i \in 1..Len(s) : u[i] = s[i]
  /\ \A i \in (Len(s) + 1)..(Len(s) + Len(t)) : i - Len(s) \in 1..Len(t) /\ u[i] = t[i - Len(s)]

LEMMA Joined ==
  ASSUME NEW S, NEW s \in Seq(S), NEW t \in Seq(S), NEW u, u = s \o t
  PROVE  IsJoin(u, s, t, S)
<1>1. Len(s) \in Nat /\ Len(t) \in Nat /\ DOMAIN s = 1..Len(s) /\ DOMAIN t = 1..Len(t)
  OBVIOUS
<1>2. u \in Seq(S) /\ Len(u) = Len(s) + Len(t)
  OBVIOUS
<1>3. DOMAIN u = 1..(Len(s) + Len(t))
  BY <1>2
<1>4. \A i \in 1..Len(s) : u[i] = s[i]
  BY <1>1
<1>5. \A i \in (Len(s) + 1)..(Len(s) + Len(t)) : i - Len(s) \in 1..Len(t) /\ u[i] = t[i - Len(s)]
  BY <1>1
<1> QED BY <1>1, <1>2, <1>3, <1>4, <1>5 DEF IsJoin

LEMMA Suffix ==
  ASSUME NEW S, NEW s \in Seq(S), NEW m \in 0..Len(s)
  PROVE  LET t == SubSeq(s, m + 1, Len(s))
         IN /\ t \in Seq(S) /\ Len(t) = Len(s) - m /\ DOMAIN t = 1..(Len(s) - m)
            /\ \A i \in 1..(Len(s) - m) : i + m \in 1..Len(s) /\ t[i] = s[i + m]
<1>1. Len(s) \in Nat /\ m \in Nat /\ m <= Len(s)
  OBVIOUS
<1>2. \A i \in (m + 1)..Len(s) : s[i] \in S
  BY <1>1
<1>3. SubSeq(s, m + 1, Len(s)) = [i \in 1..(Len(s) - m) |-> s[i + m]]
  BY <1>1
<1>4. \A i \in 1..(Len(s) - m) : i + m \in 1..Len(s) /\ s[i + m] \in S
  BY <1>1, <1>2
<1> DEFINE t == [i \in 1..(Len(s) - m) |-> s[i + m]]
<1>5. t \in Seq(S) /\ Len(t) = Len(s) - m /\ DOMAIN t = 1..(Len(s) - m)
  BY <1>1, <1>4
<1> QED BY <1>3, <1>4, <1>5

\* queueEvent: what is kept of a queue is in order, with the new entry at its end.
LEMMA QueueKept ==
  ASSUME NEW s \in Seq(Nat), NEW n \in Nat, Increasing(s), ToSet(s) \subseteq 1..n, NEW cap \in Nat \ {0}
  PROVE  LET t == Bounded(Append(s, n + 1), cap)
         IN t \in Seq(Nat) /\ Increasing(t) /\ ToSet(t) \subseteq ToSet(s) \cup {n + 1} /\ n + 1 \in ToSet(t)
<1> DEFINE a == Append(s, n + 1)
<1>1. a \in Seq(Nat) /\ Len(a) = Len(s) + 1 /\ a[Len(s) + 1] = n + 1 /\ \A i \in 1..Len(s) : a[i] = s[i]
  OBVIOUS
<1>2. \A i \in 1..Len(s) : s[i] \in 1..n
  BY DEF ToSet
<1>3. Increasing(a)
  <2>1. \A i, j \in 1..(Len(s) + 1) : i < j => a[i] < a[j]
    <3> TAKE i, j \in 1..(Len(s) + 1)
    <3> HAVE i < j
    <3>1. CASE j = Len(s) + 1
      BY <1>1, <1>2, <3>1
    <3>2. CASE j \in 1..Len(s)
      BY <1>1, <3>2 DEF Increasing
    <3> QED BY <3>1, <3>2
  <2> QED BY <1>1, <2>1 DEF Increasing
<1>4. ToSet(a) \subseteq ToSet(s) \cup {n + 1} /\ n + 1 \in ToSet(a)
  BY <1>1 DEF ToSet
<1> HIDE DEF a
<1>5. CASE Len(a) <= cap
  BY <1>1, <1>3, <1>4, <1>5 DEF Bounded, a
<1>6. CASE Len(a) > cap
  <2> DEFINE m == Len(a) - cap
             t == SubSeq(a, m + 1, Len(a))
  <2>1. m \in 0..Len(a) /\ m < Len(a) /\ Len(a) - cap + 1 = m + 1 /\ Len(a) \in Nat
    BY <1>1, <1>6
  <2>2. t \in Seq(Nat) /\ Len(t) = Len(a) - m /\ DOMAIN t = 1..(Len(a) - m)
        /\ \A i \in 1..(Len(a) - m) : i + m \in 1..Len(a) /\ t[i] = a[i + m]
    BY <1>1, <2>1, Suffix
  <2>3. Bounded(a, cap) = t
    BY <1>6, <2>1 DEF Bounded, Newest
  <2> HIDE DEF t, m
  <2>4. Increasing(t)
    <3> SUFFICES ASSUME NEW i \in 1..(Len(a) - m), NEW j \in 1..(Len(a) - m), i < j PROVE t[i] < t[j]
      BY <2>2 DEF Increasing
    <3>1. t[i] = a[i + m] /\ t[j] = a[j + m] /\ i + m \in 1..Len(a) /\ j + m \in 1..Len(a)
      BY <2>2
    <3>2. i + m < j + m /\ DOMAIN a = 1..Len(a)
      BY <1>1, <2>1
    <3> QED BY <1>3, <3>1, <3>2 DEF Increasing
  <2>5. \A i \in DOMAIN t : t[i] \in ToSet(a)
    <3>1. \A i \in 1..Len(a) : a[i] \in ToSet(a)
      BY <1>1 DEF ToSet
    <3> QED BY <2>2, <3>1
  <2>6. n + 1 \in ToSet(t)
    <3>1. Len(a) - m \in 1..(Len(a) - m) /\ (Len(a) - m) + m = Len(a)
      BY <2>1
    <3>2. t[Len(a) - m] = n + 1
      BY <1>1, <2>2, <3>1
    <3> QED BY <2>2, <3>1, <3>2 DEF ToSet
  <2> QED BY <1>4, <2>2, <2>3, <2>4, <2>5, <2>6 DEF ToSet, a
<1> QED BY <1>1, <1>5, <1>6

LEMMA BatchAt ==
  ASSUME NEW b \in Seq(Batch), NEW p \in DOMAIN b
  PROVE  b[p].kind \in Kind /\ b[p].entries \in Seq(Nat)
<1>1. b[p] \in Batch
  OBVIOUS
<1> QED BY <1>1 DEF Batch

LEMMA RowAt ==
  ASSUME NEW r \in Tables, NEW t \in DOMAIN r, NEW i \in DOMAIN r[t]
  PROVE  r[t] \in Seq(FeedRow) /\ r[t][i] \in FeedRow /\ r[t][i].kind \in Kind
<1>1. r[t] \in Seq(FeedRow)
  BY DEF Tables
<1>2. r[t][i] \in FeedRow
  BY <1>1
<1> QED BY <1>1, <1>2 DEF FeedRow

\* An entry is recorded.
LEMMA FlowRecord ==
  ASSUME NEW q \in Queues, NEW b \in Seq(Batch), NEW r \in Tables, NEW n \in Nat, NEW k \in Kind, Flow(q, b, r, n)
  PROVE  Flow([q EXCEPT ![k] = Queued(Append(q[k], n + 1))], b, r, n + 1)
<1> DEFINE t == Queued(Append(q[k], n + 1))
           p == [q EXCEPT ![k] = t]
<1> USE DEF Flow
<1>1. Increasing(t) /\ ToSet(t) \subseteq ToSet(q[k]) \cup {n + 1}
  BY FeedAssumption, QueueKept DEF QueueOK, Queued, Queues
<1> HIDE DEF t
<1>2. p[k] = t /\ \A l \in Kind : l # k => p[l] = q[l]
  BY DEF Queues
<1>3. 1..n \subseteq 1..(n + 1) /\ \A x \in 1..n : x \in Nat /\ x < n + 1
  OBVIOUS
<1> HIDE DEF p
<1>4. \A l \in Kind : ToSet(p[l]) \subseteq ToSet(q[l]) \cup {n + 1}
  BY <1>1, <1>2
<1>5. QueueOK(p, n + 1)
  <2> SUFFICES ASSUME NEW l \in Kind PROVE Increasing(p[l]) /\ ToSet(p[l]) \subseteq 1..(n + 1)
    BY DEF QueueOK
  <2>1. Increasing(p[l])
    BY <1>1, <1>2 DEF QueueOK
  <2>2. ToSet(q[l]) \subseteq 1..n /\ n + 1 \in 1..(n + 1)
    BY DEF QueueOK
  <2> QED BY <1>3, <1>4, <2>1, <2>2
<1>6. BytesOK(b, n + 1)
  BY <1>3 DEF BytesOK
<1>7. Unsent(b, p)
  <2> SUFFICES ASSUME NEW o \in DOMAIN b, NEW x \in ToSet(b[o].entries), NEW y \in ToSet(p[b[o].kind]) PROVE x < y
    BY DEF Unsent, Below
  <2>1. b[o].kind \in Kind /\ x \in 1..n
    BY BatchAt DEF BytesOK
  <2>2. y \in ToSet(q[b[o].kind]) \/ y = n + 1
    BY <1>4, <2>1
  <2>3. y \in ToSet(q[b[o].kind]) => x < y
    BY DEF Unsent, Below
  <2> QED BY <1>3, <2>1, <2>2, <2>3
<1>8. RowsOK(r, n + 1)
  BY <1>3 DEF RowsOK
<1>9. Unqueued(r, p)
  <2> SUFFICES ASSUME NEW u \in DOMAIN r, NEW i \in DOMAIN r[u], NEW y \in ToSet(p[r[u][i].kind]) PROVE r[u][i].entry < y
    BY DEF Unqueued, Below
  <2>1. r[u][i].kind \in Kind /\ r[u][i].entry \in 1..n
    BY RowAt DEF RowsOK
  <2>2. y \in ToSet(q[r[u][i].kind]) \/ y = n + 1
    BY <1>4, <2>1
  <2>3. y \in ToSet(q[r[u][i].kind]) => r[u][i].entry < y
    BY DEF Unqueued, Below
  <2> QED BY <1>3, <2>1, <2>2, <2>3
<1> QED BY <1>5, <1>6, <1>7, <1>8, <1>9 DEF p, t

\* A queue is emptied, or all are, or the socket is gone.
LEMMA FlowForget ==
  ASSUME NEW q \in Queues, NEW p \in Queues, NEW b, NEW r \in Tables, NEW n \in Nat, Flow(q, b, r, n),
         b \in Seq(Batch), \A k \in Kind : p[k] \in {q[k], <<>>}
  PROVE  Flow(p, b, r, n) /\ Flow(q, <<>>, r, n)
<1> USE DEF Flow
<1>1. ToSet(<<>>) = {} /\ Increasing(<<>>)
  BY DEF ToSet, Increasing
<1>2. \A k \in Kind : ToSet(p[k]) \subseteq ToSet(q[k]) /\ (Increasing(q[k]) => Increasing(p[k]))
  BY <1>1
<1>3. QueueOK(p, n)
  BY <1>2 DEF QueueOK
<1>4. Unsent(b, p)
  <2> SUFFICES ASSUME NEW o \in DOMAIN b, NEW x \in ToSet(b[o].entries), NEW y \in ToSet(p[b[o].kind]) PROVE x < y
    BY DEF Unsent, Below
  <2>1. b[o].kind \in Kind
    BY BatchAt
  <2> QED BY <1>2, <2>1 DEF Unsent, Below
<1>5. Unqueued(r, p)
  <2> SUFFICES ASSUME NEW u \in DOMAIN r, NEW i \in DOMAIN r[u], NEW y \in ToSet(p[r[u][i].kind]) PROVE r[u][i].entry < y
    BY DEF Unqueued, Below
  <2>1. r[u][i].kind \in Kind
    BY RowAt
  <2> QED BY <1>2, <2>1 DEF Unqueued, Below
<1>6. BytesOK(<<>>, n) /\ Frames(<<>>) /\ Unsent(<<>>, q) /\ Unread(r, <<>>)
  BY DEF BytesOK, Frames, Unsent, Unread
<1> QED BY <1>3, <1>4, <1>5, <1>6

\* A queue is sent.
LEMMA FlowSend ==
  ASSUME NEW q \in Queues, NEW b \in Seq(Batch), NEW r \in Tables, NEW n \in Nat, NEW k \in Kind, Flow(q, b, r, n)
  PROVE  Flow([q EXCEPT ![k] = <<>>], b \o Frame(k, q[k]), r, n) /\ b \o Frame(k, q[k]) \in Seq(Batch)
<1> DEFINE f == Frame(k, q[k])
           d == b \o f
           p == [q EXCEPT ![k] = <<>>]
<1> USE DEF Flow
<1>1. q[k] \in Seq(Nat)
  BY DEF Queues
<1>2. f \in Seq(Batch) /\ Len(f) = 2 /\ f[1].kind = k /\ f[2].kind = k /\ f[1].entries = q[k] /\ f[2].entries = q[k]
  BY <1>1 DEF Frame, Batch
<1> HIDE DEF f
<1>3. /\ d \in Seq(Batch) /\ Len(b) \in Nat /\ DOMAIN b = 1..Len(b) /\ Len(d) = Len(b) + 2 /\ DOMAIN d = 1..(Len(b) + 2)
      /\ \A o \in 1..Len(b) : d[o] = b[o]
      /\ \A o \in {Len(b) + 1, Len(b) + 2} : d[o].kind = k /\ d[o].entries = q[k]
  <2>0. d = b \o f
    OBVIOUS
  <2> HIDE DEF d
  <2>1. IsJoin(d, b, f, Batch)
    BY <1>2, <2>0, Joined
  <2>2. d[Len(b) + 1] = f[1] /\ d[Len(b) + 2] = f[2]
    BY <1>2, <2>1 DEF IsJoin
  <2> QED BY <1>2, <2>1, <2>2 DEF IsJoin
<1> HIDE DEF d
<1>4. p[k] = <<>> /\ \A l \in Kind : p[l] \in {q[l], <<>>}
  BY DEF Queues
<1>5. p \in Queues
  BY DEF Queues
<1> HIDE DEF p
<1>6. Flow(p, b, r, n)
  BY <1>4, <1>5, FlowForget
<1>7. \A o \in DOMAIN d : o \in 1..Len(b) \/ o = Len(b) + 1 \/ o = Len(b) + 2
  BY <1>3
<1>8. BytesOK(d, n)
  <2>1. Len(d) % 2 = 0
    BY <1>3 DEF BytesOK
  <2>2. \A o \in DOMAIN d : Increasing(d[o].entries) /\ ToSet(d[o].entries) \subseteq 1..n
    BY <1>3, <1>7 DEF BytesOK, QueueOK
  <2> QED BY <2>1, <2>2 DEF BytesOK
<1>9. Frames(d)
  <2> SUFFICES ASSUME NEW u \in DOMAIN d, NEW o \in DOMAIN d, u < o, d[u].kind = d[o].kind, u % 2 = 0 \/ o > u + 1
               PROVE  Below(ToSet(d[u].entries), ToSet(d[o].entries))
    BY DEF Frames
  <2>1. u \in 1..Len(b)
    <3>1. u # Len(b) + 2
      BY <1>3
    <3>2. Len(b) % 2 = 0
      BY DEF BytesOK
    <3>3. u # Len(b) + 1
      BY <1>3, <3>2
    <3> QED BY <1>7, <3>1, <3>3
  <2>2. CASE o \in 1..Len(b)
    BY <1>3, <2>1, <2>2 DEF Frames
  <2>3. CASE o \notin 1..Len(b)
    <3>1. d[o].kind = k /\ d[o].entries = q[k] /\ d[u] = b[u]
      BY <1>3, <1>7, <2>1, <2>3
    <3> QED BY <1>3, <2>1, <3>1 DEF Unsent
  <2> QED BY <2>2, <2>3
<1>10. Unsent(d, p)
  <2> SUFFICES ASSUME NEW o \in DOMAIN d PROVE Below(ToSet(d[o].entries), ToSet(p[d[o].kind]))
    BY DEF Unsent
  <2>1. CASE o \in 1..Len(b)
    BY <1>3, <1>6, <2>1 DEF Unsent
  <2>2. CASE o \notin 1..Len(b)
    BY <1>3, <1>4, <1>7, <2>2 DEF Below, ToSet
  <2> QED BY <2>1, <2>2
<1>11. Unread(r, d)
  <2> SUFFICES ASSUME NEW t \in DOMAIN r, NEW i \in DOMAIN r[t], NEW o \in DOMAIN d, d[o].kind = r[t][i].kind
               PROVE  Below({r[t][i].entry}, ToSet(d[o].entries))
    BY DEF Unread
  <2>1. CASE o \in 1..Len(b)
    BY <1>3, <2>1 DEF Unread
  <2>2. CASE o \notin 1..Len(b)
    BY ZenonT(40), <1>3, <1>7, <2>2 DEF Unqueued
  <2> QED BY <2>1, <2>2
<1> QED BY <1>3, <1>6, <1>8, <1>9, <1>10, <1>11 DEF d, f, p

\* The frames that are complete are stored, or dropped: a transaction holds entries of its batch in the batch's order.
TakenFrom(T, b, C) ==
  \A i \in 1..C : \A j \in DOMAIN T[i] :
    /\ j \in DOMAIN b[2 * i].entries /\ T[i][j].entry = b[2 * i].entries[j] /\ T[i][j].kind = b[2 * i].kind

LEMMA FlowTake ==
  ASSUME NEW q \in Queues, NEW b \in Seq(Batch), NEW r \in Tables, NEW n \in Nat, Flow(q, b, r, n),
         NEW C \in Nat, 2 * C <= Len(b), NEW T \in Tables, Len(T) = C, TakenFrom(T, b, C)
  PROVE  Flow(q, SubSeq(b, 2 * C + 1, Len(b)), r \o T, n)
<1> DEFINE d == SubSeq(b, 2 * C + 1, Len(b))
           s == r \o T
<1> USE DEF Flow
<1>1. Len(b) \in Nat /\ DOMAIN b = 1..Len(b) /\ 2 * C \in 0..Len(b)
  OBVIOUS
<1>2. d \in Seq(Batch) /\ Len(d) = Len(b) - 2 * C /\ DOMAIN d = 1..(Len(b) - 2 * C)
      /\ \A p \in 1..(Len(b) - 2 * C) : p + 2 * C \in 1..Len(b) /\ d[p] = b[p + 2 * C]
  BY <1>1, Suffix
<1> HIDE DEF d
<1>3. /\ Len(r) \in Nat /\ DOMAIN r = 1..Len(r) /\ DOMAIN T = 1..C /\ s \in Tables /\ DOMAIN s = 1..(Len(r) + C)
      /\ \A t \in 1..Len(r) : s[t] = r[t]
      /\ \A t \in (Len(r) + 1)..(Len(r) + C) : t - Len(r) \in 1..C /\ s[t] = T[t - Len(r)]
  <2>0. s = r \o T
    OBVIOUS
  <2> HIDE DEF s
  <2>1. r \in Seq(Seq(FeedRow)) /\ T \in Seq(Seq(FeedRow))
    BY DEF Tables
  <2>2. IsJoin(s, r, T, Seq(FeedRow))
    BY <2>0, <2>1, Joined
  <2> QED BY <2>2 DEF Tables, IsJoin
<1> HIDE DEF s
<1>4. \A i \in 1..C : 2 * i \in 1..Len(b)
  BY <1>1
\* A row that is added: where it comes from.
<1>5. ASSUME NEW i \in 1..C, NEW j \in DOMAIN T[i]
      PROVE  /\ T[i][j].entry \in ToSet(b[2 * i].entries) /\ T[i][j].entry \in 1..n /\ 2 * i \in DOMAIN b
             /\ T[i][j].kind = b[2 * i].kind
  <2>1. 2 * i \in DOMAIN b /\ j \in DOMAIN b[2 * i].entries /\ T[i][j].entry = b[2 * i].entries[j] /\ T[i][j].kind = b[2 * i].kind
    BY <1>1, <1>4 DEF TakenFrom
  <2>2. T[i][j].entry \in ToSet(b[2 * i].entries)
    BY <2>1 DEF ToSet
  <2>3. ToSet(b[2 * i].entries) \subseteq 1..n
    BY <2>1 DEF BytesOK
  <2> QED BY <2>1, <2>2, <2>3
<1>6. BytesOK(d, n)
  <2>1. Len(b) % 2 = 0
    BY DEF BytesOK
  <2>2. Len(d) % 2 = 0
    BY <1>1, <1>2, <2>1
  <2>3. \A p \in DOMAIN d : Increasing(d[p].entries) /\ ToSet(d[p].entries) \subseteq 1..n
    BY <1>1, <1>2 DEF BytesOK
  <2> QED BY <2>2, <2>3 DEF BytesOK
<1>7. Frames(d)
  <2> SUFFICES ASSUME NEW p \in DOMAIN d, NEW o \in DOMAIN d, p < o, d[p].kind = d[o].kind, p % 2 = 0 \/ o > p + 1
               PROVE  Below(ToSet(d[p].entries), ToSet(d[o].entries))
    BY DEF Frames
  <2>1. d[p] = b[p + 2 * C] /\ d[o] = b[o + 2 * C] /\ p + 2 * C \in DOMAIN b /\ o + 2 * C \in DOMAIN b
    BY <1>1, <1>2
  <2>2. p + 2 * C < o + 2 * C /\ ((p + 2 * C) % 2 = 0 \/ o + 2 * C > (p + 2 * C) + 1)
    BY <1>1, <1>2
  <2> QED BY <2>1, <2>2 DEF Frames
<1>8. Unsent(d, q)
  BY <1>1, <1>2 DEF Unsent
<1>9. RowsOK(s, n)
  <2> SUFFICES ASSUME NEW t \in DOMAIN s, NEW i \in DOMAIN s[t] PROVE s[t][i].entry \in 1..n
    BY DEF RowsOK
  <2>1. CASE t \in 1..Len(r)
    BY <1>3, <2>1 DEF RowsOK
  <2>2. CASE t \in (Len(r) + 1)..(Len(r) + C)
    BY <1>3, <1>5, <2>2
  <2> QED BY <1>3, <2>1, <2>2
<1>10. Unqueued(s, q)
  <2> SUFFICES ASSUME NEW t \in DOMAIN s, NEW i \in DOMAIN s[t] PROVE Below({s[t][i].entry}, ToSet(q[s[t][i].kind]))
    BY DEF Unqueued
  <2>1. CASE t \in 1..Len(r)
    BY <1>3, <2>1 DEF Unqueued
  <2>2. CASE t \in (Len(r) + 1)..(Len(r) + C)
    <3> DEFINE m == t - Len(r)
    <3>1. m \in 1..C /\ s[t] = T[m] /\ i \in DOMAIN T[m]
      BY <1>3, <2>2
    <3> HIDE DEF m
    <3>2. T[m][i].entry \in ToSet(b[2 * m].entries) /\ 2 * m \in DOMAIN b /\ T[m][i].kind = b[2 * m].kind
      BY <1>5, <3>1
    <3> QED BY <3>1, <3>2 DEF Unsent, Below
  <2> QED BY <1>3, <2>1, <2>2
<1>11. Unread(s, d)
  <2> SUFFICES ASSUME NEW t \in DOMAIN s, NEW i \in DOMAIN s[t], NEW p \in DOMAIN d, d[p].kind = s[t][i].kind
               PROVE  Below({s[t][i].entry}, ToSet(d[p].entries))
    BY DEF Unread
  <2>0. d[p] = b[p + 2 * C] /\ p + 2 * C \in DOMAIN b
    BY <1>1, <1>2
  <2>1. CASE t \in 1..Len(r)
    BY ZenonT(40), <1>3, <2>0, <2>1 DEF Unread
  <2>2. CASE t \in (Len(r) + 1)..(Len(r) + C)
    <3> DEFINE m == t - Len(r)
    <3>1. m \in 1..C /\ s[t] = T[m] /\ i \in DOMAIN T[m]
      BY <1>3, <2>2
    <3> HIDE DEF m
    <3>2. T[m][i].entry \in ToSet(b[2 * m].entries) /\ 2 * m \in DOMAIN b /\ T[m][i].kind = b[2 * m].kind
      BY <1>5, <3>1
    <3>3. 2 * m < p + 2 * C /\ (2 * m) % 2 = 0
      BY <1>2, <3>1
    <3>4. Below(ToSet(b[2 * m].entries), ToSet(d[p].entries))
      BY <2>0, <3>1, <3>2, <3>3 DEF Frames
    <3> QED BY <3>1, <3>2, <3>4 DEF Below
  <2> QED BY <1>3, <2>1, <2>2
<1>12. Ordered(s)
  <2> SUFFICES ASSUME NEW t \in DOMAIN s, NEW u \in DOMAIN s, NEW i \in DOMAIN s[t], NEW j \in DOMAIN s[u],
                      t < u \/ (t = u /\ i < j), s[t][i].kind = s[u][j].kind
               PROVE  s[t][i].entry < s[u][j].entry
    BY DEF Ordered
  <2>1. CASE u \in 1..Len(r)
    <3>1. t \in 1..Len(r)
      BY <1>3, <2>1
    <3> QED BY <1>3, <2>1, <3>1 DEF Ordered
  <2>2. CASE u \in (Len(r) + 1)..(Len(r) + C)
    <3> DEFINE m == u - Len(r)
    <3>1. m \in 1..C /\ s[u] = T[m] /\ j \in DOMAIN T[m]
      BY <1>3, <2>2
    <3>2. T[m][j].entry \in ToSet(b[2 * m].entries) /\ 2 * m \in DOMAIN b /\ T[m][j].kind = b[2 * m].kind
      BY <1>5, <3>1
    <3>3. CASE t \in 1..Len(r)
      <4>1. s[t] = r[t] /\ t \in DOMAIN r
        BY <1>3, <3>3
      <4> HIDE DEF m
      <4> QED BY <3>1, <3>2, <4>1 DEF Unread, Below
    <3>4. CASE t \in (Len(r) + 1)..(Len(r) + C)
      <4> DEFINE o == t - Len(r)
      <4>1. o \in 1..C /\ s[t] = T[o] /\ i \in DOMAIN T[o] /\ o <= m /\ (o = m <=> t = u)
        BY <1>3, <2>2, <3>4
      <4>2. T[o][i].entry \in ToSet(b[2 * o].entries) /\ 2 * o \in DOMAIN b /\ T[o][i].kind = b[2 * o].kind
        BY <1>5, <4>1
      <4> HIDE DEF m, o
      <4>3. CASE o = m
        <5>1. i < j /\ i \in DOMAIN b[2 * m].entries /\ j \in DOMAIN b[2 * m].entries
              /\ T[m][i].entry = b[2 * m].entries[i] /\ T[m][j].entry = b[2 * m].entries[j]
          <6>1. i < j
            BY <4>1, <4>3, <1>3
          <6>2. i \in DOMAIN T[m] /\ j \in DOMAIN T[m] /\ m \in 1..C
            BY <3>1, <4>1, <4>3
          <6> QED BY <6>1, <6>2 DEF TakenFrom
        <5> QED BY <3>1, <3>2, <4>1, <4>3, <5>1 DEF BytesOK, Increasing
      <4>4. CASE o # m
        <5>1. 2 * o < 2 * m /\ (2 * o) % 2 = 0
          BY <3>1, <4>1, <4>4
        <5>2. Below(ToSet(b[2 * o].entries), ToSet(b[2 * m].entries))
          BY <3>1, <3>2, <4>1, <4>2, <5>1 DEF Frames
        <5> QED BY <3>1, <3>2, <4>1, <4>2, <5>2 DEF Below
      <4> QED BY <4>3, <4>4
    <3> QED BY <1>3, <3>3, <3>4
  <2> QED BY <1>3, <2>1, <2>2
<1> QED BY <1>6, <1>7, <1>8, <1>9, <1>10, <1>11, <1>12 DEF d, s

-----------------------------------------------------------------------------
LEMMA SameSeq ==
  ASSUME NEW S, NEW s \in Seq(S), NEW t \in Seq(S), Len(s) = Len(t), \A i \in 1..Len(s) : s[i] = t[i]
  PROVE  s = t
OBVIOUS

\* socket 'data': what decodeFrame takes off the bytes, and what it leaves.
Took(got, C, B, more) ==
  /\ C \in Nat /\ 2 * C <= Len(B) /\ got.batches \in Seq(Batch) /\ Len(got.batches) = C
  /\ \A i \in 1..C : 2 * i \in DOMAIN B /\ got.batches[i] = B[2 * i]
  /\ got.rest \in Seq(Batch) /\ got.rest \o more = SubSeq(B, 2 * C + 1, Len(B))

LEMMA Halves ==
  ASSUME NEW b \in Seq(Batch), NEW w \in Seq(Batch), NEW n \in 1..Len(w)
  PROVE  LET bytes == b \o SubSeq(w, 1, n)
         IN /\ Took(Decoded(bytes), Complete(bytes), b \o w, SubSeq(w, n + 1, Len(w)))
            /\ SubSeq(w, n + 1, Len(w)) \in Seq(Batch) /\ b \o w \in Seq(Batch)
<1> DEFINE chunk == SubSeq(w, 1, n)
           more == SubSeq(w, n + 1, Len(w))
           bytes == b \o chunk
           B == b \o w
           C == Complete(bytes)
           rest == SubSeq(bytes, 2 * C + 1, Len(bytes))
           last == SubSeq(B, 2 * C + 1, Len(B))
<1>1. Len(w) \in Nat /\ n \in Nat /\ n <= Len(w) /\ n \in 0..Len(w) /\ DOMAIN w = 1..Len(w)
  OBVIOUS
<1>2. chunk \in Seq(Batch) /\ Len(chunk) = n /\ \A i \in 1..n : chunk[i] = w[i]
  BY <1>1
<1>3. more \in Seq(Batch) /\ Len(more) = Len(w) - n /\ \A i \in 1..(Len(w) - n) : i + n \in 1..Len(w) /\ more[i] = w[i + n]
  BY <1>1, Suffix
<1> HIDE DEF chunk, more
<1>4. IsJoin(bytes, b, chunk, Batch)
  BY <1>2, Joined
<1>5. IsJoin(B, b, w, Batch)
  BY Joined
<1> HIDE DEF bytes, B
<1>6. Len(b) \in Nat /\ Len(bytes) = Len(b) + n /\ Len(B) = Len(b) + Len(w) /\ bytes \in Seq(Batch) /\ B \in Seq(Batch)
  BY <1>2, <1>4, <1>5 DEF IsJoin
<1>7. C \in Nat /\ 2 * C <= Len(bytes)
  BY <1>1, <1>6 DEF Complete
<1> HIDE DEF C
<1>8. \A i \in 1..Len(bytes) : bytes[i] = B[i]
  <2> SUFFICES ASSUME NEW i \in 1..Len(bytes) PROVE bytes[i] = B[i]
    OBVIOUS
  <2>1. CASE i \in 1..Len(b)
    BY <1>4, <1>5, <2>1 DEF IsJoin
  <2>2. CASE i \notin 1..Len(b)
    <3>1. i \in (Len(b) + 1)..(Len(b) + Len(chunk)) /\ i \in (Len(b) + 1)..(Len(b) + Len(w)) /\ i - Len(b) \in 1..n
      BY <1>1, <1>2, <1>6, <2>2
    <3>2. bytes[i] = chunk[i - Len(b)] /\ B[i] = w[i - Len(b)]
      BY <1>4, <1>5, <3>1 DEF IsJoin
    <3> QED BY <1>2, <3>1, <3>2
  <2> QED BY <2>1, <2>2
<1>9. rest \in Seq(Batch) /\ Len(rest) = Len(bytes) - 2 * C
      /\ \A i \in 1..(Len(bytes) - 2 * C) : i + 2 * C \in 1..Len(bytes) /\ rest[i] = bytes[i + 2 * C]
  <2>1. 2 * C \in 0..Len(bytes)
    BY <1>6, <1>7
  <2> QED BY <1>6, <2>1, Suffix
<1>10. last \in Seq(Batch) /\ Len(last) = Len(B) - 2 * C
       /\ \A i \in 1..(Len(B) - 2 * C) : i + 2 * C \in 1..Len(B) /\ last[i] = B[i + 2 * C]
  <2>1. 2 * C \in 0..Len(B)
    BY <1>1, <1>6, <1>7
  <2> QED BY <1>6, <2>1, Suffix
<1> HIDE DEF rest, last
<1> DEFINE u == rest \o more
<1>11. IsJoin(u, rest, more, Batch)
  BY <1>3, <1>9, Joined
<1> HIDE DEF u
<1>12. Len(u) = Len(last)
  <2>1. Len(u) = Len(rest) + Len(more)
    BY <1>11 DEF IsJoin
  <2>2. Len(rest) = (Len(b) + n) - 2 * C /\ Len(more) = Len(w) - n /\ Len(last) = (Len(b) + Len(w)) - 2 * C
    BY <1>3, <1>6, <1>9, <1>10
  <2>3. Len(b) \in Int /\ Len(w) \in Int /\ n \in Int /\ 2 * C \in Int
    BY <1>1, <1>6, <1>7
  <2> QED BY <2>1, <2>2, <2>3
<1>13. \A i \in 1..Len(u) : u[i] = last[i]
  <2> SUFFICES ASSUME NEW i \in 1..Len(u) PROVE u[i] = last[i]
    OBVIOUS
  <2>0. i \in 1..(Len(B) - 2 * C) /\ last[i] = B[i + 2 * C] /\ Len(u) = Len(rest) + Len(more)
    BY <1>10, <1>11, <1>12 DEF IsJoin
  <2>1. CASE i \in 1..Len(rest)
    BY <1>6, <1>7, <1>8, <1>9, <1>11, <2>0, <2>1 DEF IsJoin
  <2>2. CASE i \notin 1..Len(rest)
    <3> DEFINE j == i - Len(rest)
    <3>0. Len(rest) \in Nat /\ Len(more) \in Nat /\ Len(more) = Len(w) - n
      BY <1>3, <1>9
    <3>1. i \in (Len(rest) + 1)..(Len(rest) + Len(more)) /\ j \in 1..(Len(w) - n)
      BY <2>0, <2>2, <3>0
    <3>2. u[i] = more[j] /\ more[j] = w[j + n]
      BY <1>3, <1>11, <3>1 DEF IsJoin
    <3>3. i + 2 * C = Len(b) + (j + n) /\ i + 2 * C \in (Len(b) + 1)..(Len(b) + Len(w)) /\ (i + 2 * C) - Len(b) = j + n
      BY <1>1, <1>6, <1>7, <1>9, <3>1
    <3> HIDE DEF j
    <3>4. B[i + 2 * C] = w[(i + 2 * C) - Len(b)]
      BY <1>5, <3>3 DEF IsJoin
    <3> QED BY <2>0, <3>2, <3>3, <3>4
  <2> QED BY <2>1, <2>2
<1>14. u = last
  BY <1>10, <1>11, <1>12, <1>13, SameSeq DEF IsJoin
<1> DEFINE batches == [i \in 1..C |-> bytes[2 * i]]
<1>15. \A i \in 1..C : 2 * i \in 1..Len(bytes) /\ 2 * i \in DOMAIN B /\ bytes[2 * i] \in Batch
  BY <1>1, <1>6, <1>7
<1>16. batches \in Seq(Batch) /\ Len(batches) = C /\ \A i \in 1..C : batches[i] = B[2 * i]
  BY <1>7, <1>8, <1>15
<1> HIDE DEF batches
<1>17. Decoded(bytes) = [batches |-> batches, rest |-> rest]
  BY DEF Decoded, batches, rest, C
<1>18. Took(Decoded(bytes), C, B, more)
  BY SMTT(20), <1>1, <1>6, <1>7, <1>9, <1>14, <1>15, <1>16, <1>17 DEF Took, u, last
<1> QED BY <1>3, <1>6, <1>18 DEF C, bytes, B, chunk, more

-----------------------------------------------------------------------------
\* What holds at first.
LEMMA FeedStarts == FeedInit => FeedInv /\ Searched
<1> SUFFICES ASSUME FeedInit PROVE FeedInv /\ Searched
  OBVIOUS
<1> USE DEF FeedInit
<1>0. MaxConn \in Nat \ {0} /\ "console" \in Kind
  BY FeedAssumption
<1>1. ToSet(<<>>) = {} /\ Increasing(<<>>)
  BY DEF ToSet, Increasing
<1>2. FeedTypes
  <2>1. Empty \in [Kind -> Seq(Nat)]
    BY DEF Empty
  <2>2. wire \in [1..MaxConn -> Seq(Batch)]
    OBVIOUS
  <2>3. wait.at # "poll"
    BY DEF NoWait
  <2> QED BY <1>0, <2>1, <2>2, <2>3 DEF FeedTypes
<1>3. Sockets /\ Sessions /\ Texted
  BY DEF Sockets, Sessions, Texted
<1>4. QueueOK(Empty, 0)
  BY <1>1 DEF QueueOK, Empty
<1>5. BytesOK(<<>>, 0) /\ Frames(<<>>) /\ Unsent(<<>>, Empty)
  BY DEF BytesOK, Frames, Unsent
<1>6. RowsOK(<<>>, 0) /\ Unqueued(<<>>, Empty) /\ Unread(<<>>, <<>>) /\ Ordered(<<>>)
  BY DEF RowsOK, Unqueued, Unread, Ordered
<1>7. Bytes(buf, wire, reg) = <<>> /\ Len(made) = 0
  BY DEF Bytes
<1>8. Searched
  BY DEF Searched, NoWait
<1> QED BY <1>2, <1>3, <1>4, <1>5, <1>6, <1>7, <1>8 DEF FeedInv, Flow

LEMMA BytesTyped == ASSUME FeedTypes PROVE Bytes(buf, wire, reg) \in Seq(Batch)
<1>1. CASE reg = 0
  BY <1>1 DEF Bytes
<1>2. CASE reg # 0
  <2>1. reg \in 1..MaxConn /\ buf \in Seq(Batch)
    BY <1>2, FeedAssumption DEF FeedTypes
  <2>2. wire[reg] \in Seq(Batch)
    BY <2>1 DEF FeedTypes
  <2>3. IsJoin(buf \o wire[reg], buf, wire[reg], Batch)
    BY <2>1, <2>2, Joined
  <2> QED BY <1>2, <2>3 DEF Bytes, IsJoin
<1> QED BY <1>1, <1>2

\* A frame is written to the page's socket: it reaches the relay's bytes if that socket is still registered.
LEMMA Written ==
  ASSUME FeedTypes, Sockets, conn # 0, NEW f \in Seq(Batch), wire' = [wire EXCEPT ![conn] = @ \o f], UNCHANGED <<conns, reg, buf>>
  PROVE  /\ wire' \in [1..MaxConn -> Seq(Batch)] /\ Sockets'
         /\ Bytes(buf', wire', reg') \in {Bytes(buf, wire, reg), Bytes(buf, wire, reg) \o f}
<1>1. conn \in 1..MaxConn /\ conn = conns /\ reg \in {0, conn}
  BY FeedAssumption DEF FeedTypes
<1>2. wire[conn] \in Seq(Batch) /\ buf \in Seq(Batch)
  BY <1>1 DEF FeedTypes
<1>3. IsJoin(wire[conn] \o f, wire[conn], f, Batch)
  BY <1>2, Joined
<1>4. wire[conn] \o f \in Seq(Batch)
  BY <1>3 DEF IsJoin
<1>5. wire' \in [1..MaxConn -> Seq(Batch)] /\ wire'[conn] = wire[conn] \o f /\ \A c \in 1..MaxConn : c # conn => wire'[c] = wire[c]
  BY <1>1, <1>4 DEF FeedTypes
<1>6. Sockets'
  BY <1>1, <1>5 DEF Sockets
<1>7. CASE reg = 0
  <2>1. Bytes(buf', wire', reg') = Bytes(buf, wire, reg)
    BY <1>7 DEF Bytes
  <2> QED BY <1>5, <1>6, <2>1
<1>8. CASE reg = conn /\ reg # 0
  <2>1. \A s, t, u \in Seq(Batch) : (s \o t) \o u = s \o (t \o u)
    OBVIOUS
  <2>2. (buf \o wire[conn]) \o f = buf \o (wire[conn] \o f)
    BY <1>2, <2>1, Zenon
  <2>3. Bytes(buf', wire', reg') = Bytes(buf, wire, reg) \o f
    BY <1>5, <1>8, <2>2 DEF Bytes
  <2> QED BY <1>5, <1>6, <2>3
<1> QED BY <1>1, <1>5, <1>6, <1>7, <1>8

LEMMA LastKept ==
  ASSUME NEW s \in Seq(Nat), NEW x \in Nat, NEW cap \in Nat \ {0}
  PROVE  Bounded(Append(s, x), cap) \in Seq(Nat) /\ x \in ToSet(Bounded(Append(s, x), cap))
<1> DEFINE a == Append(s, x)
           m == Len(a) - cap
<1>1. a \in Seq(Nat) /\ Len(a) \in Nat /\ DOMAIN a = 1..Len(a) /\ Len(a) \in DOMAIN a /\ a[Len(a)] = x
  OBVIOUS
<1> HIDE DEF a
<1>2. CASE Len(a) <= cap
  BY <1>1, <1>2 DEF Bounded, ToSet, a
<1>3. CASE Len(a) > cap
  <2>1. m \in 0..Len(a) /\ Len(a) - cap + 1 = m + 1 /\ Len(a) - m \in 1..(Len(a) - m) /\ (Len(a) - m) + m = Len(a)
    BY <1>1, <1>3
  <2> DEFINE t == SubSeq(a, m + 1, Len(a))
  <2>2. t \in Seq(Nat) /\ DOMAIN t = 1..(Len(a) - m) /\ \A i \in 1..(Len(a) - m) : i + m \in 1..Len(a) /\ t[i] = a[i + m]
    BY <1>1, <2>1, Suffix
  <2>3. Bounded(a, cap) = t
    BY <1>3, <2>1 DEF Bounded, Newest
  <2> HIDE DEF t, m
  <2>4. t[Len(a) - m] = x
    BY <1>1, <2>1, <2>2
  <2> QED BY <2>1, <2>2, <2>3, <2>4 DEF ToSet, a
<1> QED BY <1>1, <1>2, <1>3

\* recordNet, recordConsole.
LEMMA Recording ==
  ASSUME FeedInv, NEW k \in Kind, NEW x \in Text, Recorded(k, x),
         UNCHANGED <<conn, conns, reg, buf, active, begun, rows, blobs>>, wait' = wait \/ wait'.at # "poll"
  PROVE  FeedInv'
<1> DEFINE n == Len(made)
           e == n + 1
           kept == Queued(Append(queue[k], e))
           mid == [queue EXCEPT ![k] = kept]
           sent == Len(kept) >= BatchCap /\ conn # 0
           B == Bytes(buf, wire, reg)
           C == Bytes(buf', wire', reg')
<1> USE DEF FeedInv
<1>1. made \in Seq(Entry) /\ ring \in Queues /\ queue \in Queues /\ active \in Nat /\ active <= begun /\ rows \in Tables
  BY DEF FeedTypes, Queues, Tables
<1>2. made' = Append(made, [kind |-> k, text |-> x, in |-> active])
  BY DEF Recorded
<1>3. /\ made' \in Seq(Entry) /\ n \in Nat /\ Len(made') = e /\ DOMAIN made = 1..n /\ DOMAIN made' = 1..e
      /\ made'[e].in = active /\ \A i \in 1..n : made'[i] = made[i]
  <2>1. [kind |-> k, text |-> x, in |-> active] \in Entry
    BY <1>1 DEF Entry
  <2> QED BY <1>1, <1>2, <2>1
<1>4. queue[k] \in Seq(Nat) /\ ring[k] \in Seq(Nat) /\ MaxPending \in Nat \ {0} /\ MaxRing \in Nat \ {0} /\ e \in Nat
  BY <1>1, <1>3, FeedAssumption DEF Queues
<1>5. kept \in Seq(Nat)
  BY <1>4, LastKept DEF Queued
<1>6. ring' \in Queues
  <2>1. Bounded(Append(ring[k], e), MaxRing) \in Seq(Nat)
    BY <1>4, LastKept
  <2>2. ring' = [ring EXCEPT ![k] = Bounded(Append(@, e), MaxRing)]
    BY DEF Recorded
  <2> QED BY <1>1, <2>1, <2>2 DEF Queues
<1>7. queue' = [queue EXCEPT ![k] = IF sent THEN <<>> ELSE kept]
  BY DEF Recorded
<1>8. wire' = IF sent THEN [wire EXCEPT ![conn] = @ \o Frame(k, kept)] ELSE wire
  BY DEF Recorded
<1>9. B \in Seq(Batch)
  BY BytesTyped
<1>10. Flow(mid, B, rows, e)
  <2>1. Flow(queue, B, rows, n)
    OBVIOUS
  <2> HIDE DEF B, n
  <2> QED BY <1>1, <1>3, <1>9, <2>1, FlowRecord DEF n
<1> HIDE DEF kept, B, n
<1>11. mid \in Queues /\ mid[k] = kept /\ [mid EXCEPT ![k] = <<>>] = [queue EXCEPT ![k] = <<>>]
  BY <1>1, <1>5 DEF Queues
<1>12. queue' \in Queues
  BY <1>1, <1>5, <1>7 DEF Queues
<1>13. \A l \in Kind : [mid EXCEPT ![k] = <<>>][l] \in {mid[l], <<>>}
  BY <1>11 DEF Queues
<1> HIDE DEF mid, sent
<1>14. wire' \in [1..MaxConn -> Seq(Batch)] /\ Sockets' /\ Flow(queue', C, rows, e)
  <2>1. CASE sent
    <3> DEFINE f == Frame(k, kept)
    <3>1. f \in Seq(Batch)
      BY <1>5 DEF Frame, Batch
    <3>2. wire' = [wire EXCEPT ![conn] = @ \o f] /\ queue' = [mid EXCEPT ![k] = <<>>] /\ conn # 0
      BY <1>7, <1>8, <1>11, <2>1 DEF sent
    <3> HIDE DEF f
    <3>3. wire' \in [1..MaxConn -> Seq(Batch)] /\ Sockets' /\ C \in {B, B \o f}
      BY <3>1, <3>2, Written DEF B
    <3>4. Flow(queue', B \o f, rows, e)
      BY <1>1, <1>4, <1>9, <1>10, <1>11, <3>2, FlowSend DEF f
    <3>5. Flow(queue', B, rows, e)
      BY <1>1, <1>4, <1>9, <1>10, <1>11, <1>12, <1>13, <3>2, FlowForget
    <3> HIDE DEF C
    <3> QED BY <3>3, <3>4, <3>5
  <2>2. CASE ~sent
    <3>1. wire' = wire /\ queue' = mid
      BY <1>7, <1>8, <2>2 DEF mid
    <3>2. C = B
      BY <3>1 DEF B
    <3>3. Sockets' /\ wire' \in [1..MaxConn -> Seq(Batch)]
      BY <3>1 DEF Sockets, FeedTypes
    <3> HIDE DEF C
    <3> QED BY <1>10, <3>1, <3>2, <3>3
  <2> QED BY <2>1, <2>2
<1>15. FeedTypes'
  <2>1. wait'.at = "poll" => wait'.kind \in Kind
    BY DEF FeedTypes
  <2> QED BY <1>3, <1>6, <1>12, <1>14, <2>1 DEF FeedTypes, Queues
<1>16. Sessions'
  <2> SUFFICES ASSUME NEW i \in DOMAIN made' PROVE made'[i].in <= begun
    BY DEF Sessions
  <2>1. CASE i = e
    BY <1>1, <1>3, <2>1
  <2>2. CASE i \in 1..n
    BY <1>3, <2>2 DEF Sessions
  <2> QED BY <1>3, <2>1, <2>2
<1>17. Texted'
  <2> SUFFICES ASSUME NEW t \in DOMAIN rows, NEW i \in DOMAIN rows[t]
               PROVE  LET r == rows[t][i]
                      IN r.session >= made'[r.entry].in /\ r.hash = made'[r.entry].text /\ r.hash \in blobs /\ r.text \in {"", r.hash}
    BY DEF Texted
  <2>1. rows[t][i].entry \in 1..n
    BY DEF Flow, RowsOK, n
  <2>2. made'[rows[t][i].entry] = made[rows[t][i].entry]
    BY <1>3, <2>1
  <2> QED BY <2>2 DEF Texted
<1> HIDE DEF C
<1>18. Flow(queue', C, rows', Len(made'))
  BY <1>3, <1>14
<1> QED BY <1>14, <1>15, <1>16, <1>17, <1>18 DEF C

\* handleAgentMessage, insertConsoleEntries, insertNetEntries: what a transaction holds.
RowFrom(r, b, j, known) ==
  /\ active # 0 /\ j \in DOMAIN b.entries /\ r.entry = b.entries[j] /\ r.kind = b.kind
  /\ r.session = active /\ r.hash = made[r.entry].text /\ r.hash \in known /\ r.text \in {"", r.hash}
Inserts(T, batches, C) ==
  T \in Tables /\ Len(T) = C /\ \A i \in 1..C : \A j \in DOMAIN T[i] : RowFrom(T[i][j], batches[i], j, Known(batches, C + 1))

LEMMA Inserted ==
  ASSUME FeedTypes, NEW batches \in Seq(Batch), NEW C \in Nat, Len(batches) = C,
         \A i \in 1..C : ToSet(batches[i].entries) \subseteq DOMAIN made,
         NEW T, T = [i \in DOMAIN batches |-> Transaction(batches, i)]
  PROVE  Inserts(T, batches, C)
<1>1. DOMAIN batches = 1..C /\ C + 1 - 1 = C
  OBVIOUS
<1>2. ASSUME NEW i \in 1..C
      PROVE  T[i] \in Seq(FeedRow) /\ \A j \in DOMAIN T[i] : RowFrom(T[i][j], batches[i], j, Known(batches, C + 1))
  <2> DEFINE b == batches[i]
             Text1(j) == made[b.entries[j]].text
             Seen(j) == Text1(j) \in Known(batches, i) \/ \E h \in 1..(j - 1) : Text1(h) = Text1(j)
             new(j) == [session |-> active, kind |-> b.kind, entry |-> b.entries[j], hash |-> Text1(j),
                        text |-> IF Seen(j) THEN "" ELSE Text1(j)]
  <2>1. b.entries \in Seq(Nat) /\ b.kind \in Kind /\ i \in DOMAIN batches
    BY <1>1, BatchAt
  <2>2. T[i] = IF ~Stores(b) THEN <<>> ELSE [j \in DOMAIN b.entries |-> new(j)]
    BY <2>1 DEF Transaction
  <2>3. CASE ~Stores(b)
    BY <2>2, <2>3
  <2>4. CASE Stores(b)
    <3>1. active # 0 /\ active \in Nat /\ i \in 1..(C + 1 - 1)
      BY <1>1, <2>4 DEF Stores, FeedTypes
    <3>2. ASSUME NEW j \in DOMAIN b.entries
          PROVE  b.entries[j] \in Nat /\ Text1(j) \in Text /\ Text1(j) \in Known(batches, C + 1)
      <4>1. b.entries[j] \in Nat /\ b.entries[j] \in ToSet(b.entries)
        BY <2>1 DEF ToSet
      <4>2. b.entries[j] \in DOMAIN made
        BY <4>1
      <4>3. made[b.entries[j]] \in Entry
        BY <4>2 DEF FeedTypes
      <4>4. Text1(j) \in Texts(b)
        BY <4>1 DEF Texts
      <4>5. i \in {m \in 1..(C + 1 - 1) : Stores(batches[m])}
        BY <2>4, <3>1
      <4>6. Text1(j) \in Known(batches, C + 1)
        BY <4>4, <4>5 DEF Known
      <4> QED BY <4>1, <4>3, <4>6 DEF Entry
    <3> HIDE DEF Text1, Seen
    <3>3. \A j \in DOMAIN b.entries : new(j) \in FeedRow
      BY <2>1, <3>1, <3>2 DEF FeedRow
    <3> HIDE DEF new
    <3>4. T[i] = [j \in DOMAIN b.entries |-> new(j)]
      BY <2>2, <2>4
    <3>5. T[i] \in Seq(FeedRow) /\ DOMAIN T[i] = DOMAIN b.entries /\ \A j \in DOMAIN b.entries : T[i][j] = new(j)
      <4>1. DOMAIN b.entries = 1..Len(b.entries) /\ Len(b.entries) \in Nat
        BY <2>1
      <4>2. DOMAIN T[i] = DOMAIN b.entries /\ \A j \in DOMAIN b.entries : T[i][j] = new(j)
        BY <3>4
      <4>3. T[i] \in [1..Len(b.entries) -> FeedRow]
        BY <3>3, <3>4, <4>1
      <4> QED BY <4>1, <4>2, <4>3
    <3>6. ASSUME NEW j \in DOMAIN b.entries PROVE RowFrom(new(j), b, j, Known(batches, C + 1))
      <4>1. new(j).session = active /\ new(j).kind = b.kind /\ new(j).entry = b.entries[j] /\ new(j).hash = Text1(j)
            /\ new(j).text \in {"", Text1(j)}
        BY DEF new
      <4>2. Text1(j) = made[b.entries[j]].text
        BY DEF Text1
      <4> QED BY <3>1, <3>2, <4>1, <4>2 DEF RowFrom
    <3> QED BY <3>5, <3>6
  <2> QED BY <2>3, <2>4
<1>3. T \in [1..C -> Seq(FeedRow)]
  <2>1. DOMAIN T = 1..C
    BY <1>1
  <2>2. T = [i \in 1..C |-> T[i]]
    BY <1>1
  <2> QED BY <1>2, <2>2
<1>4. T \in Tables /\ Len(T) = C
  BY <1>3 DEF Tables
<1> QED BY <1>2, <1>4 DEF Inserts

\* socket 'data'.
LEMMA Delivering == ASSUME FeedInv, NEW c \in 1..MaxConn, Deliver(c) PROVE FeedInv'
<1> USE DEF FeedInv
<1>1. PICK n \in 1..Len(wire[c]) :
        LET got == Decoded(buf \o SubSeq(wire[c], 1, n))
        IN /\ wire' = [wire EXCEPT ![c] = SubSeq(wire[c], n + 1, Len(wire[c]))]
           /\ c = reg => /\ buf' = got.rest /\ rows' = rows \o [i \in DOMAIN got.batches |-> Transaction(got.batches, i)]
                         /\ blobs' = Known(got.batches, Len(got.batches) + 1)
           /\ c # reg => UNCHANGED <<buf, rows, blobs>>
  BY DEF Deliver, Ours
<1>2. UNCHANGED <<made, ring, queue, conn, conns, reg, active, begun, wait, passed>>
  BY DEF Deliver, tab, waiting
<1> DEFINE w == wire[c]
           bytes == buf \o SubSeq(w, 1, n)
           got == Decoded(bytes)
           C == Complete(bytes)
           B == Bytes(buf, wire, reg)
           more == SubSeq(w, n + 1, Len(w))
<1>3. w \in Seq(Batch) /\ buf \in Seq(Batch) /\ n \in 1..Len(w)
  BY DEF FeedTypes
<1>4. Took(got, C, buf \o w, more) /\ more \in Seq(Batch)
  <2> HIDE DEF w
  <2> QED BY <1>3, Halves
<1>5. wire' = [wire EXCEPT ![c] = more]
  BY <1>1
<1>5a. c = reg => /\ buf' = got.rest /\ rows' = rows \o [i \in DOMAIN got.batches |-> Transaction(got.batches, i)]
                 /\ blobs' = Known(got.batches, Len(got.batches) + 1)
  BY <1>1
<1>5b. c # reg => UNCHANGED <<buf, rows, blobs>>
  BY <1>1
<1> HIDE DEF got, C, more
<1>6. wire' \in [1..MaxConn -> Seq(Batch)] /\ wire'[c] = more /\ \A d \in 1..MaxConn : d # c => wire'[d] = wire[d]
  BY <1>4, <1>5 DEF FeedTypes
<1>7. c <= conns /\ c # 0
  <2>1. w # <<>>
    BY <1>3
  <2>2. c > conns => w = <<>>
    BY DEF Sockets
  <2> QED BY <2>1, <2>2 DEF FeedTypes
<1>8. Sessions'
  BY <1>2 DEF Sessions
<1>9. Sockets'
  <2>1. reg' = 0 => buf' = <<>>
    BY <1>2, <1>5b, <1>7 DEF Sockets
  <2>2. \A d \in 1..MaxConn : d > conns' => wire'[d] = <<>>
    <3> SUFFICES ASSUME NEW d \in 1..MaxConn, d > conns PROVE wire'[d] = <<>>
      BY <1>2
    <3>1. d # c
      BY <1>7 DEF FeedTypes
    <3> QED BY <1>6, <3>1 DEF Sockets
  <2> QED BY <2>1, <2>2 DEF Sockets
<1>10. CASE c # reg
  <2>1. Bytes(buf', wire', reg') = B
    <3>1. CASE reg = 0
      BY <1>2, <3>1 DEF Bytes
    <3>2. CASE reg # 0
      <4>1. reg \in 1..MaxConn
        BY <3>2, FeedAssumption DEF FeedTypes
      <4>2. wire'[reg] = wire[reg]
        BY <1>6, <1>10, <4>1
      <4> QED BY <1>2, <1>5b, <1>10, <3>2, <4>2 DEF Bytes
    <3> QED BY <3>1, <3>2
  <2>2. Flow(queue', Bytes(buf', wire', reg'), rows', Len(made'))
    <3> HIDE DEF B
    <3>1. Flow(queue, B, rows, Len(made))
      BY DEF B
    <3> QED BY <1>2, <1>5b, <1>10, <2>1, <3>1
  <2>3. Texted'
    <3>1. UNCHANGED <<rows, made, blobs>>
      BY <1>2, <1>5b, <1>10
    <3> QED BY <3>1 DEF Texted
  <2>4. FeedTypes'
    BY <1>2, <1>5b, <1>6, <1>10 DEF FeedTypes
  <2> QED BY <1>8, <1>9, <2>2, <2>3, <2>4
<1>11. CASE c = reg
  <2> DEFINE T == [i \in DOMAIN got.batches |-> Transaction(got.batches, i)]
  <2>1. B = buf \o w /\ B \in Seq(Batch)
    BY <1>7, <1>11, BytesTyped DEF Bytes
  <2> HIDE DEF B
  <2>2. Flow(queue, B, rows, Len(made)) /\ queue \in Queues /\ rows \in Tables /\ made \in Seq(Entry) /\ Len(made) \in Nat
    BY DEF B, FeedTypes, Queues, Tables
  <2>3. /\ C \in Nat /\ 2 * C <= Len(B) /\ got.batches \in Seq(Batch) /\ Len(got.batches) = C
        /\ \A i \in 1..C : 2 * i \in DOMAIN B /\ got.batches[i] = B[2 * i]
        /\ got.rest \in Seq(Batch) /\ got.rest \o more = SubSeq(B, 2 * C + 1, Len(B))
    BY <1>4, <2>1 DEF Took
  <2>4. \A i \in 1..C : ToSet(got.batches[i].entries) \subseteq DOMAIN made
    <3>1. \A p \in DOMAIN B : ToSet(B[p].entries) \subseteq 1..Len(made)
      BY <2>2 DEF Flow, BytesOK
    <3>2. DOMAIN made = 1..Len(made)
      BY <2>2
    <3> QED BY <2>3, <3>1, <3>2
  <2>0. T = [i \in DOMAIN got.batches |-> Transaction(got.batches, i)]
    OBVIOUS
  <2>6. buf' = got.rest /\ rows' = rows \o T /\ blobs' = Known(got.batches, C + 1)
    BY <1>5a, <1>11, <2>3
  <2> HIDE DEF T
  <2>5a. Inserts(T, got.batches, C)
    BY <2>0, <2>3, <2>4, Inserted
  <2>5. T \in Tables /\ Len(T) = C /\ \A i \in 1..C : \A j \in DOMAIN T[i] : RowFrom(T[i][j], got.batches[i], j, blobs')
    BY <2>5a, <2>6 DEF Inserts
  <2>7. TakenFrom(T, B, C)
    <3> SUFFICES ASSUME NEW i \in 1..C, NEW j \in DOMAIN T[i]
                 PROVE  j \in DOMAIN B[2 * i].entries /\ T[i][j].entry = B[2 * i].entries[j] /\ T[i][j].kind = B[2 * i].kind
      BY DEF TakenFrom
    <3>1. got.batches[i] = B[2 * i]
      BY <2>3
    <3>2. RowFrom(T[i][j], B[2 * i], j, blobs')
      BY <2>5, <3>1
    <3> QED BY <3>2 DEF RowFrom
  <2>8. Bytes(buf', wire', reg') = SubSeq(B, 2 * C + 1, Len(B))
    BY <1>2, <1>6, <1>7, <1>11, <2>3, <2>6 DEF Bytes
  <2>9. Flow(queue, SubSeq(B, 2 * C + 1, Len(B)), rows \o T, Len(made))
    BY <2>1, <2>2, <2>3, <2>5, <2>7, FlowTake
  <2>10. IsJoin(rows', rows, T, Seq(FeedRow))
    BY <2>2, <2>5, <2>6, Joined DEF Tables
  <2>11. FeedTypes'
    BY <1>2, <1>6, <2>3, <2>6, <2>10 DEF FeedTypes, IsJoin
  <2>12. Texted'
    <3> SUFFICES ASSUME NEW t \in DOMAIN rows', NEW i \in DOMAIN rows'[t]
                 PROVE  LET r == rows'[t][i]
                        IN r.session >= made[r.entry].in /\ r.hash = made[r.entry].text /\ r.hash \in blobs' /\ r.text \in {"", r.hash}
      BY <1>2 DEF Texted
    <3>0. blobs \subseteq blobs'
      BY <2>6 DEF Known
    <3>1. CASE t \in 1..Len(rows)
      <4>1. rows'[t] = rows[t] /\ t \in DOMAIN rows
        BY <2>10, <3>1 DEF IsJoin
      <4> QED BY <3>0, <4>1 DEF Texted
    <3>2. CASE t \in (Len(rows) + 1)..(Len(rows) + Len(T))
      <4> DEFINE m == t - Len(rows)
      <4>1. m \in 1..C /\ rows'[t] = T[m] /\ i \in DOMAIN T[m]
        BY <2>5, <2>10, <3>2 DEF IsJoin
      <4> HIDE DEF m
      <4>2. RowFrom(T[m][i], got.batches[m], i, blobs')
        BY <2>5, <4>1
      <4>3. T[m][i].entry \in DOMAIN made
        BY <2>4, <4>1, <4>2 DEF ToSet, RowFrom
      <4>4. active = begun /\ T[m][i].session = active
        BY <4>2 DEF RowFrom, FeedTypes
      <4>5. made[T[m][i].entry].in <= begun
        BY <4>3 DEF Sessions
      <4> HIDE DEF FeedInv
      <4> QED BY <4>1, <4>2, <4>4, <4>5 DEF RowFrom
    <3>3. t \in 1..Len(rows) \/ t \in (Len(rows) + 1)..(Len(rows) + Len(T))
      BY <2>10 DEF IsJoin
    <3> QED BY <3>1, <3>2, <3>3
  <2>13. Flow(queue', Bytes(buf', wire', reg'), rows', Len(made'))
    <3> HIDE DEF C
    <3> QED BY <1>2, <2>6, <2>8, <2>9
  <2> QED BY <1>8, <1>9, <2>11, <2>12, <2>13
<1> QED BY <1>10, <1>11

-----------------------------------------------------------------------------
\* The other actions.

\* Nothing of what the relay stores or the page sends is touched.
LEMMA FlowStands ==
  ASSUME FeedInv, UNCHANGED <<made, queue, wire, reg, buf, rows>>
  PROVE  Flow(queue', Bytes(buf', wire', reg'), rows', Len(made'))
<1>1. Bytes(buf', wire', reg') = Bytes(buf, wire, reg)
  BY DEF Bytes
<1>2. Flow(queue, Bytes(buf, wire, reg), rows, Len(made))
  BY DEF FeedInv
<1> QED BY <1>1, <1>2

LEMMA Flushing == ASSUME FeedInv, NEW k \in Kind, Flush(k) PROVE FeedInv'
<1> DEFINE f == Frame(k, queue[k])
           B == Bytes(buf, wire, reg)
           C == Bytes(buf', wire', reg')
<1> USE DEF FeedInv
<1>1. UNCHANGED <<made, ring, conn, conns, reg, buf, active, begun, rows, blobs, wait, passed>> /\ conn # 0
      /\ wire' = [wire EXCEPT ![conn] = @ \o f] /\ queue' = [queue EXCEPT ![k] = <<>>]
  BY DEF Flush, waiting
<1>2. queue \in Queues /\ queue[k] \in Seq(Nat) /\ rows \in Tables /\ Len(made) \in Nat
  BY DEF FeedTypes, Queues, Tables
<1>3. f \in Seq(Batch)
  BY <1>2 DEF Frame, Batch
<1> HIDE DEF f
<1>4. wire' \in [1..MaxConn -> Seq(Batch)] /\ Sockets' /\ C \in {B, B \o f}
  BY <1>1, <1>3, Written
<1>5. queue' \in Queues /\ \A l \in Kind : queue'[l] \in {queue[l], <<>>}
  BY <1>1, <1>2 DEF Queues
<1>6. B \in Seq(Batch) /\ Flow(queue, B, rows, Len(made))
  BY BytesTyped
<1> HIDE DEF B, C
<1>7. Flow(queue', B \o f, rows, Len(made))
  BY <1>1, <1>2, <1>6, FlowSend DEF f
<1>8. Flow(queue', B, rows, Len(made))
  BY <1>2, <1>5, <1>6, FlowForget
<1>9. Flow(queue', C, rows', Len(made'))
  BY <1>1, <1>4, <1>7, <1>8
<1>10. FeedTypes'
  BY <1>1, <1>4, <1>5 DEF FeedTypes, Queues
<1>11. Sessions' /\ Texted'
  BY <1>1 DEF Sessions, Texted
<1> QED BY <1>4, <1>9, <1>10, <1>11 DEF C

LEMMA PageActs ==
  ASSUME FeedInv, (\E k \in Kind : Clear(k)) \/ (\E k \in Kind, x \in Text : BeginWait(k, x)) \/ Poll \/ LoseSocket
                  \/ StartSession \/ EndSession
  PROVE  FeedInv'
<1> USE DEF FeedInv
<1>1. ASSUME UNCHANGED <<made, queue, conns, wire, reg, buf, rows, blobs>>, conn' \in {conn, 0}, ring' \in Queues,
             begun <= begun', begun' \in Nat, active' \in {0, begun'}, wait'.at = "poll" => wait'.kind \in Kind
      PROVE  FeedInv'
  <2>1. FeedTypes'
    BY <1>1 DEF FeedTypes, Queues
  <2>2. Sockets' /\ Texted'
    BY <1>1 DEF Sockets, Texted
  <2>3. Sessions'
    <3> SUFFICES ASSUME NEW e \in DOMAIN made PROVE made[e].in <= begun'
      BY <1>1 DEF Sessions
    <3>1. made[e] \in Entry
      BY DEF FeedTypes
    <3>2. made[e].in \in Nat /\ made[e].in <= begun /\ begun \in Nat
      BY <3>1 DEF Entry, Sessions, FeedTypes
    <3> QED BY <1>1, <3>2
  <2> QED BY <1>1, <2>1, <2>2, <2>3, FlowStands
<1>2. ring \in Queues /\ begun \in Nat /\ active \in {0, begun} /\ (wait.at = "poll" => wait.kind \in Kind)
  BY DEF FeedTypes, Queues
<1>3. ASSUME NEW k \in Kind, Clear(k) PROVE FeedInv'
  <2>1. ring' \in Queues
    BY <1>2, <1>3 DEF Clear, Queues
  <2>2. UNCHANGED <<made, queue, conns, wire, reg, buf, rows, blobs, conn, begun, active, wait>>
    BY <1>3 DEF Clear
  <2> HIDE DEF FeedInv
  <2> QED BY <1>1, <1>2, <2>1, <2>2
<1>4. ASSUME NEW k \in Kind, NEW x \in Text, BeginWait(k, x) PROVE FeedInv'
  <2>1. UNCHANGED <<made, queue, conns, wire, reg, buf, rows, blobs, conn, begun, active, ring>>
    BY <1>4 DEF BeginWait, tab
  <2>2. wait'.at = "poll" => wait'.kind \in Kind
    <3>1. PICK since \in 1..(Len(made) + 1) :
            \/ wait' = Ended("failed") \/ wait' = Ended("found")
            \/ wait' = [at |-> "poll", kind |-> k, text |-> x, since |-> since]
      BY <1>4 DEF BeginWait
    <3> QED BY <3>1 DEF Ended, NoWait
  <2> HIDE DEF FeedInv
  <2> QED BY <1>1, <1>2, <2>1, <2>2
<1>5. ASSUME Poll PROVE FeedInv'
  <2>1. UNCHANGED <<made, queue, conns, wire, reg, buf, rows, blobs, conn, begun, active, ring>>
    BY <1>5 DEF Poll, tab
  <2>2. wait'.at # "poll"
    BY <1>5 DEF Poll, Ended, NoWait
  <2> HIDE DEF FeedInv
  <2> QED BY <1>1, <1>2, <2>1, <2>2
<1>6. ASSUME LoseSocket PROVE FeedInv'
  <2>1. UNCHANGED <<made, queue, conns, wire, reg, buf, rows, blobs, begun, active, ring, wait>> /\ conn' = 0
    BY <1>6 DEF LoseSocket, waiting
  <2> HIDE DEF FeedInv
  <2> QED BY <1>1, <1>2, <2>1
<1>7. ASSUME StartSession PROVE FeedInv'
  <2>1. UNCHANGED <<made, queue, conns, wire, reg, buf, rows, blobs, conn, ring, wait>> /\ begun' = begun + 1 /\ active' = begun + 1
    BY <1>7 DEF StartSession, tab, waiting
  <2> HIDE DEF FeedInv
  <2> QED BY <1>1, <1>2, <2>1
<1>8. ASSUME EndSession PROVE FeedInv'
  <2>1. UNCHANGED <<made, queue, conns, wire, reg, buf, rows, blobs, conn, begun, ring, wait>> /\ active' = 0
    BY <1>8 DEF EndSession, tab, waiting
  <2> HIDE DEF FeedInv
  <2> QED BY <1>1, <1>2, <2>1
<1> QED BY <1>3, <1>4, <1>5, <1>6, <1>7, <1>8

\* A reload, a new socket, a socket the relay gives up.
LEMMA Breaking == ASSUME FeedInv, LoadPage \/ Connect \/ RelayCloses PROVE FeedInv'
<1> USE DEF FeedInv
<1> DEFINE B == Bytes(buf, wire, reg)
<1>1. B \in Seq(Batch) /\ queue \in Queues /\ rows \in Tables /\ Len(made) \in Nat /\ Empty \in Queues
  BY BytesTyped DEF FeedTypes, Queues, Tables, Empty
<1>2. Flow(Empty, B, rows, Len(made)) /\ Flow(queue, <<>>, rows, Len(made))
  <2>1. \A k \in Kind : Empty[k] \in {queue[k], <<>>}
    BY DEF Empty
  <2>2. Flow(queue, B, rows, Len(made))
    OBVIOUS
  <2> HIDE DEF B, FeedInv
  <2> QED BY <1>1, <2>1, <2>2, FlowForget
<1>3. ASSUME LoadPage PROVE FeedInv'
  <2>1. /\ UNCHANGED <<made, conns, wire, reg, buf, active, begun, rows, blobs>> /\ conn' = 0 /\ ring' = Empty /\ queue' = Empty
        /\ (wait' = wait \/ wait' = Ended("gone"))
    BY <1>3 DEF LoadPage
  <2>2. wait'.at = "poll" => wait'.kind \in Kind
    BY <2>1 DEF FeedTypes, Ended, NoWait
  <2>3. FeedTypes'
    BY <1>1, <2>1, <2>2 DEF FeedTypes, Queues
  <2>4. Sockets' /\ Sessions' /\ Texted'
    BY <2>1 DEF Sockets, Sessions, Texted
  <2>5. Bytes(buf', wire', reg') = B
    BY <2>1 DEF Bytes
  <2> HIDE DEF B
  <2>6. Flow(queue', Bytes(buf', wire', reg'), rows', Len(made'))
    BY <1>2, <2>1, <2>5
  <2> QED BY <2>3, <2>4, <2>6
<1>4. ASSUME Connect PROVE FeedInv'
  <2>1. /\ UNCHANGED <<made, ring, queue, wire, active, begun, rows, blobs, wait>> /\ buf' = <<>> /\ conns < MaxConn
        /\ conns' = conns + 1 /\ conn' = conns + 1 /\ reg' = conns + 1
    BY <1>4 DEF Connect, waiting
  <2>2. conns \in Nat /\ conns + 1 \in 1..MaxConn /\ MaxConn \in Nat
    BY <2>1, FeedAssumption DEF FeedTypes
  <2>3. FeedTypes'
    BY <2>1, <2>2 DEF FeedTypes
  <2>4. wire[conns + 1] = <<>>
    BY <2>2 DEF Sockets
  <2>5a. \A c \in 1..MaxConn : c > conns' => wire'[c] = <<>>
    <3> SUFFICES ASSUME NEW c \in 1..MaxConn, c > conns + 1 PROVE wire[c] = <<>>
      BY <2>1
    <3>1. c > conns
      BY <2>2
    <3> QED BY <3>1 DEF Sockets
  <2>5. Sockets' /\ Sessions' /\ Texted'
    BY <2>1, <2>5a DEF Sockets, Sessions, Texted
  <2>6. Bytes(buf', wire', reg') = <<>>
    BY <2>1, <2>2, <2>4 DEF Bytes
  <2>7. Flow(queue', Bytes(buf', wire', reg'), rows', Len(made'))
    BY <1>2, <2>1, <2>6
  <2> QED BY <2>3, <2>5, <2>7
<1>5. ASSUME RelayCloses PROVE FeedInv'
  <2>1. UNCHANGED <<made, ring, queue, conn, conns, wire, active, begun, rows, blobs, wait>> /\ buf' = <<>> /\ reg' = 0
    BY <1>5 DEF RelayCloses, tab, waiting
  <2>2. FeedTypes'
    BY <2>1 DEF FeedTypes
  <2>3. Sockets' /\ Sessions' /\ Texted'
    BY <2>1 DEF Sockets, Sessions, Texted
  <2>4. Bytes(buf', wire', reg') = <<>>
    BY <2>1 DEF Bytes
  <2>5. Flow(queue', Bytes(buf', wire', reg'), rows', Len(made'))
    BY <1>2, <2>1, <2>4
  <2> QED BY <2>2, <2>3, <2>5
<1> QED BY <1>3, <1>4, <1>5

LEMMA FeedKeeps == FeedInv /\ [FeedNext]_feedVars => FeedInv'
<1> SUFFICES ASSUME FeedInv, [FeedNext]_feedVars PROVE FeedInv'
  OBVIOUS
<1>1. ASSUME NEW k \in Kind, NEW x \in Text, Record(k, x) PROVE FeedInv'
  BY <1>1, Recording DEF Record
<1>2. ASSUME NEW x \in Text, PollThrows(x) PROVE FeedInv'
  <2>1. "console" \in Kind /\ wait'.at # "poll"
    BY <1>2, FeedAssumption DEF PollThrows, Ended, NoWait
  <2> QED BY <1>2, <2>1, Recording DEF PollThrows
<1>3. CASE UNCHANGED feedVars
  <2>1. FeedTypes' /\ Sockets' /\ Sessions' /\ Texted'
    BY <1>3 DEF feedVars, FeedInv, FeedTypes, Sockets, Sessions, Texted
  <2> QED BY <1>3, <2>1, FlowStands DEF feedVars, FeedInv
<1> QED BY <1>1, <1>2, <1>3, Flushing, PageActs, Breaking, Delivering DEF FeedNext

LEMMA FeedAlways == FeedSpec => []FeedInv
<1>1. FeedInit => FeedInv
  BY FeedStarts
<1> QED BY <1>1, FeedKeeps, PTL DEF FeedSpec

\* inject.js, queueEvent; relay.mjs, socket 'data'; db.mjs, insertConsoleEntries: however the sockets die and the
\* frames are cut, the entries of a kind are stored at most once and in the order they were recorded.
THEOREM FeedStored == FeedSpec => []StoredInOrder
<1>1. FeedInv => StoredInOrder
  <2> SUFFICES ASSUME FeedInv, NEW t \in DOMAIN rows, NEW i \in DOMAIN rows[t]
               PROVE  /\ \A u \in DOMAIN rows : \A j \in DOMAIN rows[u] :
                           (t < u \/ (t = u /\ i < j)) /\ rows[u][j].kind = rows[t][i].kind => rows[t][i].entry < rows[u][j].entry
                      /\ rows[t][i].session >= made[rows[t][i].entry].in /\ TextOf(rows[t][i]) = made[rows[t][i].entry].text
    BY DEF StoredInOrder
  <2>1. Ordered(rows)
    BY DEF FeedInv, Flow
  <2>2. \A u \in DOMAIN rows : \A j \in DOMAIN rows[u] :
          (t < u \/ (t = u /\ i < j)) /\ rows[u][j].kind = rows[t][i].kind => rows[t][i].entry < rows[u][j].entry
    BY <2>1 DEF Ordered
  <2> DEFINE r == rows[t][i]
  <2>3. r.session >= made[r.entry].in /\ r.hash = made[r.entry].text /\ r.hash \in blobs /\ r.text \in {"", r.hash}
    BY DEF FeedInv, Texted
  <2> HIDE DEF r
  <2>4. TextOf(r) = made[r.entry].text
    BY <2>3 DEF TextOf
  <2> QED BY <2>2, <2>3, <2>4 DEF r
<1> QED BY <1>1, FeedAlways, PTL

-----------------------------------------------------------------------------
\* The commands that wait.

\* An entry is recorded while a command waits.
LEMMA RecordSeen ==
  ASSUME FeedTypes, Searched, NEW k \in Kind, NEW x \in Text, Record(k, x) PROVE Searched'
<1> DEFINE e == Len(made) + 1
           entry == [kind |-> k, text |-> x, in |-> active]
<1>1. /\ made' = Append(made, entry) /\ ring' = [ring EXCEPT ![k] = Bounded(Append(ring[k], e), MaxRing)]
      /\ passed' = Passed(ToSet(ring[k]) \ ToSet(ring'[k])) /\ wait' = wait
  BY DEF Record, Recorded
<1>2. made \in Seq(Entry) /\ ring \in [Kind -> Seq(Nat)] /\ ring[k] \in Seq(Nat) /\ e \in Nat /\ MaxRing \in Nat \ {0}
  BY FeedAssumption DEF FeedTypes
<1>3. DOMAIN made' = DOMAIN made \cup {e} /\ made'[e] = entry /\ (\A i \in DOMAIN made : made'[i] = made[i])
  BY <1>1, <1>2
<1>4. ring'[k] = Bounded(Append(ring[k], e), MaxRing) /\ \A l \in Kind : l # k => ring'[l] = ring[l]
  BY <1>1, <1>2
<1>5. e \in ToSet(ring'[k])
  BY <1>2, <1>4, LastKept
<1> SUFFICES ASSUME wait.at = "poll", NEW i \in DOMAIN made', made'[i].kind = wait.kind
             PROVE  i \in ToSet(ring'[wait.kind]) \cup passed'
  BY <1>1 DEF Searched
<1>6. passed' = passed \cup (ToSet(ring[k]) \ ToSet(ring'[k])) /\ wait.kind \in Kind
  BY <1>1 DEF Passed, FeedTypes
<1>7. CASE i = e
  BY <1>3, <1>5, <1>7
<1>8. CASE i \in DOMAIN made
  <2>1. i \in ToSet(ring[wait.kind]) \cup passed
    BY <1>3, <1>8 DEF Searched
  <2> QED BY <1>4, <1>6, <2>1
<1> QED BY <1>3, <1>7, <1>8

LEMMA SearchedKeeps == FeedTypes /\ Searched /\ [FeedNext]_feedVars => Searched'
<1> SUFFICES ASSUME FeedTypes, Searched, [FeedNext]_feedVars PROVE Searched'
  OBVIOUS
<1>1. ASSUME UNCHANGED <<made, ring>>, UNCHANGED <<wait, passed>> \/ wait'.at # "poll" PROVE Searched'
  BY <1>1 DEF Searched
<1>2. ASSUME wait'.at # "poll" PROVE Searched'
  BY <1>2 DEF Searched
<1>3. ASSUME NEW k \in Kind, Clear(k) PROVE Searched'
  <2>1. ring' = [ring EXCEPT ![k] = <<>>] /\ passed' = Passed(ToSet(ring[k])) /\ UNCHANGED <<made, wait>>
    BY <1>3 DEF Clear
  <2> SUFFICES ASSUME wait.at = "poll", NEW e \in DOMAIN made, made[e].kind = wait.kind
               PROVE  e \in ToSet(ring'[wait.kind]) \cup passed'
    BY <2>1 DEF Searched
  <2>2. passed' = passed \cup ToSet(ring[k]) /\ wait.kind \in Kind /\ e \in ToSet(ring[wait.kind]) \cup passed
    BY <2>1 DEF Passed, FeedTypes, Searched
  <2>3. wait.kind # k => ring'[wait.kind] = ring[wait.kind]
    BY <2>1, <2>2 DEF FeedTypes
  <2> QED BY <2>2, <2>3
<1>4. ASSUME NEW k \in Kind, NEW x \in Text, BeginWait(k, x) PROVE Searched'
  <2>1. UNCHANGED <<made, ring>>
    BY <1>4 DEF BeginWait, tab
  <2>2. PICK since \in 1..(Len(made) + 1) :
          \/ wait' = Ended("failed") \/ wait' = Ended("found")
          \/ /\ wait' = [at |-> "poll", kind |-> k, text |-> x, since |-> since]
             /\ passed' = DOMAIN made \ ToSet(ring[k])
    BY <1>4 DEF BeginWait
  <2>3. CASE wait' = Ended("failed") \/ wait' = Ended("found")
    BY <1>2, <2>3 DEF Ended, NoWait
  <2>4. CASE wait' = [at |-> "poll", kind |-> k, text |-> x, since |-> since] /\ passed' = DOMAIN made \ ToSet(ring[k])
    BY <2>1, <2>4 DEF Searched
  <2> QED BY <2>2, <2>3, <2>4
<1>5. ASSUME NEW x \in Text, PollThrows(x) PROVE Searched'
  BY <1>2, <1>5 DEF PollThrows, Ended, NoWait
<1>6. CASE LoadPage
  <2>1. wait'.at # "poll"
    BY <1>6 DEF LoadPage, Ended, NoWait
  <2> QED BY <1>2, <2>1
<1>7. CASE Poll
  BY <1>2, <1>7 DEF Poll, Ended, NoWait
<1>8. CASE Connect \/ LoseSocket \/ RelayCloses \/ StartSession \/ EndSession \/ UNCHANGED feedVars
  <2>1. UNCHANGED <<made, ring, wait, passed>>
    BY <1>8 DEF Connect, LoseSocket, RelayCloses, StartSession, EndSession, feedVars, tab, waiting
  <2> QED BY <1>1, <2>1
<1>9. ASSUME NEW k \in Kind, Flush(k) PROVE Searched'
  <2>1. UNCHANGED <<made, ring, wait, passed>>
    BY <1>9 DEF Flush, waiting
  <2> QED BY <1>1, <2>1
<1>10. ASSUME NEW c \in 1..MaxConn, Deliver(c) PROVE Searched'
  <2>1. UNCHANGED <<made, ring, wait, passed>>
    BY <1>10 DEF Deliver, tab, waiting
  <2> QED BY <1>1, <2>1
<1> QED BY <1>3, <1>4, <1>5, <1>6, <1>7, <1>8, <1>9, <1>10, RecordSeen DEF FeedNext

LEMMA SearchedAlways == FeedSpec => [](FeedTypes /\ Searched)
<1>1. FeedInit => Searched
  BY FeedStarts
<1>2. FeedInv => FeedTypes
  BY DEF FeedInv
<1> QED BY <1>1, <1>2, SearchedKeeps, FeedAlways, PTL DEF FeedSpec

\* inject.js, net.wait and console.wait: a wait that reports a timeout overlooked no entry that was still to be seen.
THEOREM WaitOverlooksNothing == FeedSpec => WaitSees
<1>1. ASSUME FeedTypes, Searched, [FeedNext]_feedVars, wait.at = "poll", wait'.at = "timeout",
             NEW e \in DOMAIN made, made[e].kind = wait.kind, made[e].text = wait.text, e >= wait.since
      PROVE  e \in passed
  <2>1. Poll
    <3>1. wait' # wait
      BY <1>1
    <3>2. ASSUME NEW k \in Kind, NEW x \in Text, BeginWait(k, x) PROVE FALSE
      BY <1>1, <3>2 DEF BeginWait
    <3>3. ASSUME NEW x \in Text, PollThrows(x) PROVE FALSE
      BY <1>1, <3>3 DEF PollThrows, Ended, NoWait
    <3>4. ASSUME LoadPage PROVE FALSE
      BY <1>1, <3>4 DEF LoadPage, Ended, NoWait
    <3>5. ASSUME \/ \E k \in Kind, x \in Text : Record(k, x)
                 \/ \E k \in Kind : Flush(k) \/ Clear(k)
                 \/ Connect \/ LoseSocket \/ RelayCloses \/ (\E c \in 1..MaxConn : Deliver(c)) \/ StartSession \/ EndSession
                 \/ UNCHANGED feedVars
          PROVE  wait' = wait
      BY <3>5 DEF Record, Flush, Clear, Connect, LoseSocket, RelayCloses, Deliver, StartSession, EndSession, feedVars, waiting, tab
    <3> QED BY <1>1, <3>1, <3>2, <3>3, <3>4, <3>5 DEF FeedNext
  <2>2. Hits(wait) = {}
    <3>1. PICK late \in BOOLEAN : wait' = Ended(Verdict(wait, late))
      BY <2>1 DEF Poll
    <3>2. Verdict(wait, late) = "timeout"
      BY <1>1, <3>1 DEF Ended, NoWait
    <3> QED BY <3>2 DEF Verdict
  <2>3. e \notin ToSet(ring[wait.kind])
    <3> SUFFICES ASSUME NEW i \in DOMAIN ring[wait.kind], ring[wait.kind][i] = e PROVE FALSE
      BY DEF ToSet
    <3>1. i \in Hits(wait)
      BY <1>1 DEF Hits
    <3> QED BY <2>2, <3>1
  <2> QED BY <1>1, <2>3 DEF Searched
<1>2. FeedTypes /\ Searched /\ [FeedNext]_feedVars
      => [wait.at = "poll" /\ wait'.at = "timeout" =>
            \A e \in DOMAIN made : made[e].kind = wait.kind /\ made[e].text = wait.text /\ e >= wait.since => e \in passed]_feedVars
  BY <1>1
<1> QED BY <1>2, SearchedAlways, PTL DEF FeedSpec, WaitSees
=============================================================================

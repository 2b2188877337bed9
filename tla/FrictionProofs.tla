---------------------------- MODULE FrictionProofs ---------------------------
(***************************************************************************)
(* What the friction tracker of Friction promises, for any agents, targets *)
(* and thresholds.                                                         *)
(***************************************************************************)
EXTENDS Friction, FiniteSetTheorems, TLAPS

-----------------------------------------------------------------------------
\* The counters of a log.

Row == [session : Nat, target : Target, ok : BOOLEAN, at : Nat, origin : {OriginOf[a] : a \in Agent}]
Counters == [fails : Nat, unresolved : Nat, ok : BOOLEAN]

LEMMA FailedFinite ==
  ASSUME NEW rows \in Seq(Row), NEW s, NEW t
  PROVE  /\ IsFiniteSet(Failed(rows, s, t)) /\ IsFiniteSet(Open(rows, s, t))
         /\ Cardinality(Failed(rows, s, t)) \in Nat /\ Cardinality(Open(rows, s, t)) \in Nat
<1>1. IsFiniteSet(1..Len(rows))
  BY FS_Interval
<1>2. Failed(rows, s, t) \in SUBSET (1..Len(rows)) /\ Open(rows, s, t) \in SUBSET (1..Len(rows))
  BY DEF Failed, Open, Calls
<1>3. IsFiniteSet(Failed(rows, s, t)) /\ IsFiniteSet(Open(rows, s, t))
  BY <1>1, <1>2, FS_Subset
<1> QED BY <1>3, FS_CardinalityType

LEMMA ReplayedType == ASSUME NEW rows \in Seq(Row), NEW s, NEW t PROVE Replayed(rows, s, t) \in Counters
BY FailedFinite DEF Replayed, Counters

\* Without a row of the session there is nothing to count.
LEMMA NothingLogged ==
  ASSUME NEW rows \in Seq(Row), NEW s, NEW t, \A i \in DOMAIN rows : rows[i].session # s
  PROVE  Replayed(rows, s, t) = NoCount /\ Cardinality(Failed(rows, s, t)) = 0
<1>1. Calls(rows, s, t) = {} /\ Failed(rows, s, t) = {} /\ Open(rows, s, t) = {}
  BY DEF Calls, Failed, Open
<1> QED BY <1>1, FS_EmptySet DEF Replayed, NoCount

\* One more row changes the counters as the tracker notes it (createFrictionTracker).
LEMMA OneMore ==
  ASSUME NEW rows \in Seq(Row), NEW r \in Row, NEW s, NEW t
  PROVE  /\ r.session = s /\ r.target = t => Replayed(Append(rows, r), s, t) = Noted(Replayed(rows, s, t), r.ok)
         /\ ~(r.session = s /\ r.target = t) => Replayed(Append(rows, r), s, t) = Replayed(rows, s, t)
<1> DEFINE more == Append(rows, r)
           n == Len(rows) + 1
<1>1. /\ Len(rows) \in Nat /\ DOMAIN rows = 1..Len(rows) /\ DOMAIN more = 1..n
      /\ more[n] = r /\ \A i \in DOMAIN rows : more[i] = rows[i]
  OBVIOUS
<1> HIDE DEF more
<1>2. DOMAIN more = DOMAIN rows \cup {n} /\ n \notin DOMAIN rows /\ \A i \in DOMAIN rows : i < n /\ ~(n < i)
  BY <1>1
<1>3. ~(n < n)
  BY <1>1
<1> HIDE DEF n
<1>4. CASE ~(r.session = s /\ r.target = t)
  <2>1. Calls(more, s, t) = Calls(rows, s, t)
    BY <1>1, <1>2, <1>4 DEF Calls
  <2>2. \A i \in Calls(rows, s, t) : more[i] = rows[i]
    BY <1>1 DEF Calls
  <2>3. Failed(more, s, t) = Failed(rows, s, t)
    BY <2>1, <2>2 DEF Failed
  <2>4. Open(more, s, t) = Open(rows, s, t)
    <3>1. \A i \in Failed(rows, s, t) :
            (\A j \in Calls(more, s, t) : i < j => ~more[j].ok) <=> (\A j \in Calls(rows, s, t) : i < j => ~rows[j].ok)
      BY <2>1, <2>2
    <3> QED BY <2>3, <3>1 DEF Open
  <2>5. (\E i \in Calls(more, s, t) : more[i].ok) <=> (\E i \in Calls(rows, s, t) : rows[i].ok)
    BY <2>1, <2>2
  <2> QED BY <1>4, <2>3, <2>4, <2>5 DEF Replayed, more
<1>5. CASE r.session = s /\ r.target = t
  <2>1. Calls(more, s, t) = Calls(rows, s, t) \cup {n}
    BY <1>1, <1>2, <1>5 DEF Calls
  <2>2. (\A i \in Calls(rows, s, t) : more[i] = rows[i] /\ i < n /\ ~(n < i) /\ i # n) /\ more[n] = r
    BY <1>1, <1>2 DEF Calls
  <2>3. CASE r.ok
    <3>1. Failed(more, s, t) = Failed(rows, s, t)
      BY <2>1, <2>2, <2>3 DEF Failed
    <3>2. Open(more, s, t) = {}
      <4>1. \A i \in Failed(rows, s, t) : i < n /\ n \in Calls(more, s, t) /\ more[n].ok
        BY <2>1, <2>2, <2>3 DEF Failed
      <4> QED BY <3>1, <4>1 DEF Open
    <3>3. \E i \in Calls(more, s, t) : more[i].ok
      BY <2>1, <2>2, <2>3
    <3> QED BY <1>5, <2>3, <3>1, <3>2, <3>3, FS_EmptySet DEF Replayed, Noted, more
  <2>4. CASE ~r.ok
    <3>1. Failed(more, s, t) = Failed(rows, s, t) \cup {n} /\ n \notin Failed(rows, s, t)
      BY <2>1, <2>2, <2>4 DEF Failed
    <3>2. Open(more, s, t) = Open(rows, s, t) \cup {n} /\ n \notin Open(rows, s, t)
      <4>1. \A i \in Failed(rows, s, t) :
              (\A j \in Calls(more, s, t) : i < j => ~more[j].ok) <=> (\A j \in Calls(rows, s, t) : i < j => ~rows[j].ok)
        BY <2>1, <2>2, <2>4
      <4>2. \A j \in Calls(more, s, t) : n < j => ~more[j].ok
        BY <1>3, <2>1, <2>2
      <4> QED BY <3>1, <4>1, <4>2 DEF Open
    <3>3. /\ Cardinality(Failed(more, s, t)) = Cardinality(Failed(rows, s, t)) + 1
          /\ Cardinality(Open(more, s, t)) = Cardinality(Open(rows, s, t)) + 1
      BY <3>1, <3>2, FailedFinite, FS_AddElement
    <3>4. (\E i \in Calls(more, s, t) : more[i].ok) <=> (\E i \in Calls(rows, s, t) : rows[i].ok)
      BY <2>1, <2>2, <2>4
    <3> QED BY <1>5, <2>4, <3>3, <3>4 DEF Replayed, Noted, more
  <2> QED BY <2>3, <2>4 DEF Row
<1> QED BY <1>4, <1>5

-----------------------------------------------------------------------------
\* The invariant.

Shape ==
  /\ log \in Seq(Row) /\ clock \in Nat /\ begun \in 0..MaxSession /\ active \in {0, begun}
  /\ live \in [Session -> [Target -> Counters]]
  /\ warned \in [Session -> [Target -> Int]] /\ storedWarn \in [Session -> [Target -> Int]]
  /\ heard \in [Session -> [Target -> Seq(Nat)]]

\* Only sessions that began have commands, rows or counters, and a command of the running one had them hydrated.
Carried ==
  /\ DOMAIN call = Agent /\ \A a \in Agent : DOMAIN call[a] = DOMAIN Idle
  /\ \A a \in Agent : call[a].at # "idle" =>
       /\ call[a].session \in 1..begun /\ call[a].target \in Target /\ call[a].started \in Nat
       /\ call[a].session = active => active \in hydrated
Begun ==
  /\ hydrated \subseteq 1..begun
  /\ \A i \in DOMAIN log : log[i].session \in 1..begun
  /\ \A s \in Session : s > begun => live[s] = [t \in Target |-> NoCount] /\ warned[s] = [t \in Target |-> -1]
                                   /\ heard[s] = [t \in Target |-> <<>>]
\* Before the running session is hydrated nothing is counted of it.
Cold ==
  active # 0 /\ active \notin hydrated =>
    live[active] = [t \in Target |-> NoCount] /\ warned[active] = [t \in Target |-> -1]

\* What was counted when a warning was said is still in the log.
Counted == \A s \in Session, t \in Target : \A i \in DOMAIN heard[s][t] : heard[s][t][i] <= Failures(s, t)
\* Once a warning counted failures, the streak has outgrown the warned one by no more than the failures since, and
\* the database remembers the warning, as the memory does once it is hydrated.
Remembered ==
  active # 0 => \A t \in Target :
    heard[active][t] # <<>> /\ Last(heard[active][t]) # 0 =>
      /\ storedWarn[active][t] >= 0
      /\ Replayed(log, active, t).unresolved - storedWarn[active][t] <= Failures(active, t) - Last(heard[active][t])
      /\ active \in hydrated => warned[active][t] = storedWarn[active][t]

IInv == Shape /\ Carried /\ Begun /\ Cold /\ LiveIsLog /\ Counted /\ WarnNeedsNews /\ Remembered

LEMMA Constants == MaxSession \in Nat \ {0} /\ Session = 1..MaxSession
BY ThresholdAssumption DEF ThresholdAssumption, Session

LEMMA InitHolds == Init => IInv
<1> SUFFICES ASSUME Init PROVE IInv
  OBVIOUS
<1>1. NoCount \in Counters /\ <<>> \in Seq(Row) /\ <<>> \in Seq(Nat)
  BY DEF NoCount, Counters
<1>2. Shape
  <2>1. 0 \in 0..MaxSession
    BY Constants
  <2> QED BY <1>1, <2>1 DEF Init, Shape, PerTarget
<1>3. Carried
  BY DEF Init, Carried, Idle
<1>4. Begun
  BY DEF Init, Begun, PerTarget
<1>5. Cold /\ LiveIsLog /\ Remembered
  BY DEF Init, Cold, LiveIsLog, Remembered
<1>6. Counted /\ WarnNeedsNews
  BY DEF Init, Counted, WarnNeedsNews, PerTarget
<1> QED BY <1>2, <1>3, <1>4, <1>5, <1>6 DEF IInv

-----------------------------------------------------------------------------
\* What a command of the running session begins with.

LEMMA Running == ASSUME Shape, active # 0 PROVE active \in Session /\ active = begun /\ begun \in Nat
BY Constants DEF Shape

LEMMA AtBegin ==
  ASSUME IInv, active # 0, NEW t \in Target
  PROVE  /\ LiveOf(active, t) = Replayed(log, active, t)
         /\ heard[active][t] # <<>> /\ Last(heard[active][t]) # 0 => WarnedOf(active, t) = storedWarn[active][t]
         /\ WarnedOf(active, t) \in Int
<1>0. Shape /\ Cold /\ LiveIsLog /\ Remembered /\ Counted /\ active \in Session /\ log \in Seq(Row)
  BY Running DEF IInv, Shape
<1>1. CASE active \in hydrated
  BY <1>0, <1>1 DEF Hydrates, LiveOf, WarnedOf, LiveIsLog, Remembered, Shape
<1>2. CASE Hydrates(active)
  BY <1>0, <1>2 DEF LiveOf, WarnedOf, Shape
<1>3. CASE active \notin hydrated /\ ~Hydrates(active)
  <2>1. live[active][t] = NoCount /\ ~Tracked(active)
    BY <1>0, <1>3 DEF Cold, Tracked
  <2>2. \A i \in DOMAIN log : log[i].session # active
    BY <1>3, <2>1 DEF Hydrates, Range
  <2>3. Replayed(log, active, t) = NoCount /\ Failures(active, t) = 0
    BY <1>0, <2>2, NothingLogged DEF Failures
  <2>4. heard[active][t] # <<>> => Last(heard[active][t]) = 0
    <3> SUFFICES ASSUME heard[active][t] # <<>> PROVE Last(heard[active][t]) = 0
      OBVIOUS
    <3>1. heard[active][t] \in Seq(Nat)
      BY <1>0 DEF Shape
    <3>2. Len(heard[active][t]) \in DOMAIN heard[active][t] /\ Last(heard[active][t]) = heard[active][t][Len(heard[active][t])]
      BY <3>1 DEF Last
    <3>3. heard[active][t][Len(heard[active][t])] \in Nat /\ heard[active][t][Len(heard[active][t])] <= 0
      BY <1>0, <2>3, <3>1, <3>2 DEF Counted
    <3> QED BY <3>2, <3>3
  <2> QED BY <1>0, <1>3, <2>1, <2>3, <2>4 DEF LiveOf, WarnedOf, Shape
<1> QED BY <1>1, <1>2, <1>3

-----------------------------------------------------------------------------
\* The steps.

Rising(h) == \A i, j \in DOMAIN h : i < j => h[i] < h[j] \/ h[i] = 0

LEMMA Grown ==
  ASSUME NEW h \in Seq(Nat), NEW f \in Nat, \A i \in DOMAIN h : h[i] <= f, Rising(h),
         h # <<>> /\ Last(h) # 0 => Last(h) < f
  PROVE  /\ Append(h, f) \in Seq(Nat) /\ Append(h, f) # <<>> /\ Last(Append(h, f)) = f
         /\ Rising(Append(h, f)) /\ \A i \in DOMAIN Append(h, f) : Append(h, f)[i] <= f
<1> DEFINE n == Len(h)
           g == Append(h, f)
<1>1. /\ n \in Nat /\ DOMAIN h = 1..n /\ g \in Seq(Nat) /\ Len(g) = n + 1 /\ DOMAIN g = 1..(n + 1)
      /\ g[n + 1] = f /\ \A i \in 1..n : g[i] = h[i] /\ h[i] \in Nat
  OBVIOUS
<1> HIDE DEF g, n
<1>2. Last(g) = f /\ g # <<>>
  <2>1. n + 1 \in DOMAIN g
    BY <1>1
  <2> QED BY <1>1, <2>1 DEF Last
<1>3. \A i \in DOMAIN g : g[i] <= f
  BY <1>1
<1>4. ASSUME NEW i \in 1..n PROVE h[i] < f \/ h[i] = 0
  <2>1. n \in DOMAIN h /\ Last(h) = h[n] /\ h # <<>> /\ h[n] \in Nat /\ h[i] \in Nat
    BY <1>1 DEF Last, n
  <2>2. i = n \/ h[i] < h[n] \/ h[i] = 0
    <3>1. i \in DOMAIN h /\ (i = n \/ i < n)
      BY <1>1
    <3> QED BY <2>1, <3>1 DEF Rising
  <2>3. h[n] = 0 \/ h[n] < f
    BY <2>1
  <2> QED BY <2>1, <2>2, <2>3
<1>5. Rising(g)
  <2> SUFFICES ASSUME NEW i \in 1..(n + 1), NEW j \in 1..(n + 1), i < j PROVE g[i] < g[j] \/ g[i] = 0
    BY <1>1 DEF Rising
  <2>1. i \in 1..n /\ g[i] = h[i] /\ g[i] \in Nat
    BY <1>1
  <2>2. CASE j = n + 1
    BY <1>1, <1>4, <2>1, <2>2
  <2>3. CASE j \in 1..n
    <3>1. g[j] = h[j] /\ i \in DOMAIN h /\ j \in DOMAIN h
      BY <1>1, <2>1, <2>3
    <3> QED BY <2>1, <3>1 DEF Rising
  <2> QED BY <1>1, <2>2, <2>3
<1> QED BY <1>1, <1>2, <1>3, <1>5 DEF g

LEMMA BeginHolds == ASSUME IInv, NEW a \in Agent, Begin(a) PROVE IInv'
<1> DEFINE s == active
           known == [x \in Target |-> Replayed(log, s, x)]
           last == [x \in Target |-> WarnedOf(s, x)]
<1>0. Shape /\ Carried /\ Begun /\ Cold /\ LiveIsLog /\ Counted /\ WarnNeedsNews /\ Remembered /\ active # 0
  BY DEF IInv, Begin
<1>1. s \in Session /\ s = begun /\ begun \in Nat /\ log \in Seq(Row)
  BY <1>0, Running DEF Shape
<1>2. \A x \in Target : LiveOf(s, x) = Replayed(log, s, x) /\ Replayed(log, s, x) \in Counters
  BY <1>0, <1>1, AtBegin, ReplayedType
<1>3. PICK t \in Target, ack \in BOOLEAN :
        /\ clock' = clock + 1 /\ hydrated' = hydrated \cup {s} /\ live' = Hydrated(s).live
        /\ IF Speaks(s, t, a)
           THEN /\ warned' = [Hydrated(s).warned EXCEPT ![s][t] = LiveOf(s, t).unresolved]
                /\ storedWarn' = [storedWarn EXCEPT ![s][t] = LiveOf(s, t).unresolved]
                /\ heard' = [heard EXCEPT ![s][t] = Append(@, Failures(s, t))]
           ELSE warned' = Hydrated(s).warned /\ UNCHANGED <<storedWarn, heard>>
        /\ call' \in {call, [call EXCEPT ![a] = [at |-> "sent", target |-> t, session |-> s, started |-> clock, ack |-> ack]]}
        /\ UNCHANGED <<log, active, begun>>
  BY DEF Begin
<1> DEFINE u == Replayed(log, s, t).unresolved
           f == Failures(s, t)
           h == heard[s][t]
<1>4. /\ Hydrated(s).live = [live EXCEPT ![s] = known] /\ Hydrated(s).warned = [warned EXCEPT ![s] = last]
      /\ known \in [Target -> Counters] /\ last \in [Target -> Int] /\ u \in Nat /\ LiveOf(s, t).unresolved = u
  <2>1. \A x \in Target : WarnedOf(s, x) \in Int
    BY <1>0, AtBegin
  <2>2. [x \in Target |-> LiveOf(s, x)] = known
    BY <1>2
  <2> QED BY <1>2, <2>1, <2>2 DEF Hydrated, Counters
<1>5. f \in Nat /\ \A x \in Target : Failures(s, x)' = Failures(s, x)
  BY <1>1, <1>3, FailedFinite DEF Failures
<1> HIDE DEF known, last
<1>6. live' = [live EXCEPT ![s] = known] /\ \A x \in Target : known[x] = Replayed(log, s, x)
  BY <1>3, <1>4 DEF known
<1>7. \A x \in Target : /\ last[x] = WarnedOf(s, x)
                        /\ heard[s][x] # <<>> /\ Last(heard[s][x]) # 0 => last[x] = storedWarn[s][x]
  BY <1>0, AtBegin DEF last
<1>8. Carried'
  <2> DEFINE sent == [at |-> "sent", target |-> t, session |-> s, started |-> clock, ack |-> ack]
  <2>1. \A b \in Agent : call'[b] = call[b] \/ call'[b] = sent
    BY <1>0, <1>3 DEF Carried
  <2>2. sent.session \in 1..begun' /\ sent.target \in Target /\ sent.started \in Nat /\ active \in hydrated'
    BY <1>0, <1>1, <1>3, Constants DEF Shape
  <2>3. DOMAIN call' = Agent /\ DOMAIN sent = DOMAIN Idle
    BY <1>0, <1>3 DEF Carried, Idle
  <2> HIDE DEF sent
  <2> QED BY <1>0, <1>3, <2>1, <2>2, <2>3 DEF Carried
<1>9. Cold' /\ LiveIsLog'
  <2>1. active' \in hydrated' /\ active' = s /\ log' = log
    BY <1>3
  <2>2. \A x \in Target : live'[s][x] = Replayed(log, s, x)
    BY <1>0, <1>1, <1>6 DEF Shape
  <2> QED BY <2>1, <2>2 DEF Cold, LiveIsLog
<1>10. CASE ~Speaks(s, t, a)
  <2>1. warned' = [warned EXCEPT ![s] = last] /\ storedWarn' = storedWarn /\ heard' = heard
    BY <1>3, <1>4, <1>10
  <2>2. Shape'
    BY <1>0, <1>1, <1>3, <1>4, <1>6, <2>1 DEF Shape
  <2>3. Begun'
    <3>1. \A r \in Session : r > begun => r # s
      BY <1>1, Constants
    <3>2. \A r \in Session : r # s => warned'[r] = warned[r] /\ heard'[r] = heard[r] /\ live'[r] = live[r]
      BY <1>0, <1>6, <2>1 DEF Shape
    <3>3. hydrated' \subseteq 1..begun
      BY <1>0, <1>1, <1>3, Constants DEF Begun
    <3> QED BY <1>0, <1>3, <3>1, <3>2, <3>3 DEF Begun
  <2>4. Counted' /\ WarnNeedsNews'
    BY <1>0, <1>3, <2>1 DEF Counted, WarnNeedsNews, Failures
  <2>5. Remembered'
    <3>1. \A x \in Target : warned'[s][x] = last[x]
      BY <1>0, <1>1, <2>1 DEF Shape
    <3> QED BY <1>0, <1>3, <1>7, <2>1, <3>1 DEF Remembered, Failures
  <2> QED BY <1>8, <1>9, <2>2, <2>3, <2>4, <2>5 DEF IInv
<1>11. CASE Speaks(s, t, a)
  <2>1. /\ warned' = [[warned EXCEPT ![s] = last] EXCEPT ![s][t] = u]
        /\ storedWarn' = [storedWarn EXCEPT ![s][t] = u] /\ heard' = [heard EXCEPT ![s][t] = Append(h, f)]
    BY <1>3, <1>4, <1>11
  <2>2. last[t] = -1 \/ u > last[t]
    BY <1>4, <1>7, <1>11 DEF Speaks
  <2>3. h \in Seq(Nat) /\ (\A i \in DOMAIN h : h[i] <= f) /\ Rising(h)
    BY <1>0, <1>1 DEF Shape, Counted, WarnNeedsNews, Rising
  <2>4. h # <<>> /\ Last(h) # 0 => Last(h) < f
    <3> SUFFICES ASSUME h # <<>>, Last(h) # 0 PROVE Last(h) < f
      OBVIOUS
    <3>1. /\ storedWarn[s][t] >= 0 /\ u - storedWarn[s][t] <= f - Last(h) /\ last[t] = storedWarn[s][t]
      BY <1>0, <1>7 DEF Remembered
    <3>2. storedWarn[s][t] \in Int
      BY <1>0, <1>1 DEF Shape
    <3>3. Last(h) \in Nat
      BY <2>3 DEF Last
    <3>4. u > storedWarn[s][t]
      BY <2>2, <3>1, <3>2
    <3> HIDE DEF u, f, h
    <3> QED BY <1>4, <1>5, <3>1, <3>2, <3>3, <3>4
  <2> DEFINE g == Append(h, f)
  <2>5. g \in Seq(Nat) /\ g # <<>> /\ Last(g) = f /\ Rising(g) /\ \A i \in DOMAIN g : g[i] <= f
    <3> HIDE DEF h, f
    <3> QED BY <1>5, <2>3, <2>4, Grown
  <2> HIDE DEF g, u, f, h
  <2>6. heard' = [heard EXCEPT ![s][t] = g]
    BY <2>1 DEF g
  <2>7. /\ \A x \in Target : warned'[s][x] = IF x = t THEN u ELSE last[x]
        /\ \A r \in Session : r # s => warned'[r] = warned[r] /\ heard'[r] = heard[r] /\ live'[r] = live[r]
        /\ \A x \in Target : storedWarn'[s][x] = IF x = t THEN u ELSE storedWarn[s][x]
        /\ \A x \in Target : heard'[s][x] = IF x = t THEN g ELSE heard[s][x]
    <3>1. /\ live \in [Session -> [Target -> Counters]] /\ warned \in [Session -> [Target -> Int]]
          /\ storedWarn \in [Session -> [Target -> Int]] /\ heard \in [Session -> [Target -> Seq(Nat)]]
      BY <1>0 DEF Shape
    <3>2. \A r \in Session : r # s => warned'[r] = warned[r] /\ heard'[r] = heard[r] /\ live'[r] = live[r]
      BY <1>6, <2>1, <2>6, <3>1
    <3>3. \A x \in Target : warned'[s][x] = IF x = t THEN u ELSE last[x]
      BY <1>1, <1>4, <2>1, <3>1
    <3>4. \A x \in Target : storedWarn'[s][x] = IF x = t THEN u ELSE storedWarn[s][x]
      BY <1>1, <2>1, <3>1
    <3>5. \A x \in Target : heard'[s][x] = IF x = t THEN g ELSE heard[s][x]
      BY <1>1, <2>6, <3>1
    <3> QED BY <3>2, <3>3, <3>4, <3>5
  <2>8. Shape'
    <3>1. live' \in [Session -> [Target -> Counters]]
      BY <1>0, <1>1, <1>4, <1>6 DEF Shape
    <3>2. warned' \in [Session -> [Target -> Int]] /\ storedWarn' \in [Session -> [Target -> Int]]
      <4>1. u \in Int /\ [warned EXCEPT ![s] = last] \in [Session -> [Target -> Int]]
        BY <1>0, <1>1, <1>4 DEF Shape
      <4> QED BY <1>0, <1>1, <2>1, <4>1 DEF Shape
    <3>3. heard' \in [Session -> [Target -> Seq(Nat)]]
      BY <1>0, <1>1, <2>5, <2>6 DEF Shape
    <3>4. clock' \in Nat
      BY <1>0, <1>3 DEF Shape
    <3> QED BY <1>0, <1>3, <3>1, <3>2, <3>3, <3>4 DEF Shape
  <2>9. Begun'
    <3>1. \A r \in Session : r > begun => r # s
      BY <1>1, Constants
    <3> QED BY <1>0, <1>1, <1>3, <2>7, <3>1, Constants DEF Begun
  <2>10. Counted'
    <3> SUFFICES ASSUME NEW r \in Session, NEW x \in Target, NEW i \in DOMAIN heard'[r][x]
                 PROVE  heard'[r][x][i] <= Failures(r, x)'
      BY DEF Counted
    <3>1. Failures(r, x)' = Failures(r, x)
      BY <1>3 DEF Failures
    <3>2. CASE r = s /\ x = t
      BY <2>5, <2>7, <3>1, <3>2 DEF f
    <3>3. CASE ~(r = s /\ x = t)
      BY <1>0, <2>7, <3>1, <3>3 DEF Counted
    <3> QED BY <3>2, <3>3
  <2>11. WarnNeedsNews'
    <3> SUFFICES ASSUME NEW r \in Session, NEW x \in Target PROVE Rising(heard'[r][x])
      BY DEF WarnNeedsNews, Rising
    <3>1. Rising(heard[r][x])
      BY <1>0 DEF WarnNeedsNews, Rising
    <3> QED BY <2>5, <2>7, <3>1
  <2>12. Remembered'
    <3> SUFFICES ASSUME NEW x \in Target, heard'[s][x] # <<>>, Last(heard'[s][x]) # 0
                 PROVE  /\ storedWarn'[s][x] >= 0
                        /\ Replayed(log, s, x).unresolved - storedWarn'[s][x] <= Failures(s, x) - Last(heard'[s][x])
                        /\ warned'[s][x] = storedWarn'[s][x]
      BY <1>3 DEF Remembered, Failures
    <3>1. CASE x = t
      BY <1>4, <1>5, <2>5, <2>7, <3>1 DEF u, f
    <3>2. CASE x # t
      BY <1>0, <1>7, <2>7, <3>2 DEF Remembered
    <3> QED BY <3>1, <3>2
  <2> QED BY <1>8, <1>9, <2>8, <2>9, <2>10, <2>11, <2>12 DEF IInv
<1> QED BY <1>10, <1>11

LEMMA LoggedMore ==
  ASSUME NEW rows \in Seq(Row), NEW r \in Row, NEW s, NEW t
  PROVE  /\ r.session = s /\ r.target = t => Replayed(Append(rows, r), s, t) = Noted(Replayed(rows, s, t), r.ok)
         /\ ~(r.session = s /\ r.target = t) => Replayed(Append(rows, r), s, t) = Replayed(rows, s, t)
         /\ Cardinality(Failed(Append(rows, r), s, t)) =
              IF r.session = s /\ r.target = t /\ ~r.ok THEN Cardinality(Failed(rows, s, t)) + 1
                                                        ELSE Cardinality(Failed(rows, s, t))
         /\ Cardinality(Failed(rows, s, t)) \in Nat
<1>1. /\ r.session = s /\ r.target = t => Replayed(Append(rows, r), s, t) = Noted(Replayed(rows, s, t), r.ok)
      /\ ~(r.session = s /\ r.target = t) => Replayed(Append(rows, r), s, t) = Replayed(rows, s, t)
  BY OneMore
<1>2. \A x : Cardinality(Failed(x, s, t)) = Replayed(x, s, t).fails
  BY DEF Replayed
<1>3. Replayed(rows, s, t) \in Counters /\ r.ok \in BOOLEAN
  BY ReplayedType DEF Row
<1>4. Noted(Replayed(rows, s, t), r.ok).fails =
        IF r.ok THEN Replayed(rows, s, t).fails ELSE Replayed(rows, s, t).fails + 1
  BY <1>3 DEF Noted, Counters
<1>5. Replayed(rows, s, t).fails \in Nat
  BY <1>3 DEF Counters
<1> QED BY <1>1, <1>2, <1>3, <1>4, <1>5

LEMMA NotedType == ASSUME NEW c \in Counters, NEW ok \in BOOLEAN PROVE Noted(c, ok) \in Counters
<1>1. c.fails \in Nat /\ c.unresolved \in Nat /\ c = [fails |-> c.fails, unresolved |-> c.unresolved, ok |-> c.ok] /\ c.ok \in BOOLEAN
  BY DEF Counters
<1>2. c.fails + 1 \in Nat /\ c.unresolved + 1 \in Nat /\ 0 \in Nat
  BY <1>1
<1>3. CASE ok
  <2>1. Noted(c, ok) = [fails |-> c.fails, unresolved |-> 0, ok |-> TRUE]
    BY <1>1, <1>3 DEF Noted
  <2> QED BY <1>1, <1>2, <2>1 DEF Counters
<1>4. CASE ~ok
  <2>1. Noted(c, ok) = [fails |-> c.fails + 1, unresolved |-> c.unresolved + 1, ok |-> c.ok]
    BY <1>1, <1>4 DEF Noted
  <2> QED BY <1>1, <1>2, <2>1 DEF Counters
<1> QED BY <1>3, <1>4

LEMMA FinishHolds == ASSUME IInv, NEW a \in Agent, Finish(a) PROVE IInv'
<1> DEFINE s == call[a].session
           t == call[a].target
<1>0. Shape /\ Carried /\ Begun /\ Cold /\ LiveIsLog /\ Counted /\ WarnNeedsNews /\ Remembered
  BY DEF IInv
<1>1. PICK ok \in BOOLEAN :
        /\ call[a].at = "sent"
        /\ log' = Append(log, [session |-> s, target |-> t, ok |-> ok, at |-> call[a].started, origin |-> OriginOf[a]])
        /\ live' = [live EXCEPT ![s][t] = Noted(@, ok)]
        /\ call' = [call EXCEPT ![a] = IF ok THEN Idle ELSE [call[a] EXCEPT !.at = "failed"]]
        /\ UNCHANGED <<active, begun, clock, hydrated, warned, storedWarn, heard>>
  BY DEF Finish, said
<1>2. s \in 1..begun /\ t \in Target /\ call[a].started \in Nat /\ (s = active => active \in hydrated)
  BY <1>0, <1>1 DEF Carried
<1>3. s \in Session /\ begun \in Nat /\ begun <= MaxSession
  BY <1>0, <1>2, Constants DEF Shape
<1> HIDE DEF s, t
<1>4. PICK r \in Row : log' = Append(log, r) /\ r.session = s /\ r.target = t /\ r.ok = ok
  <2> DEFINE r == [session |-> s, target |-> t, ok |-> ok, at |-> call[a].started, origin |-> OriginOf[a]]
  <2>1. r \in Row
    BY <1>2 DEF Row
  <2> QED BY <1>1, <2>1
<1>5. \A x, y : /\ x = s /\ y = t => Replayed(log', x, y) = Noted(Replayed(log, x, y), ok)
                /\ ~(x = s /\ y = t) => Replayed(log', x, y) = Replayed(log, x, y)
                /\ Cardinality(Failed(log', x, y)) = IF x = s /\ y = t /\ ~ok THEN Cardinality(Failed(log, x, y)) + 1
                                                    ELSE Cardinality(Failed(log, x, y))
                /\ Cardinality(Failed(log, x, y)) \in Nat
  <2>1. log \in Seq(Row)
    BY <1>0 DEF Shape
  <2> QED BY <1>4, <2>1, LoggedMore
<1>6. /\ live[s][t] \in Counters /\ Noted(live[s][t], ok) \in Counters
      /\ live' \in [Session -> [Target -> Counters]]
      /\ live'[s][t] = Noted(live[s][t], ok)
      /\ \A x \in Session : x # s => live'[x] = live[x]
      /\ \A y \in Target : y # t => live'[s][y] = live[s][y]
  <2>1. live \in [Session -> [Target -> Counters]]
    BY <1>0 DEF Shape
  <2>2. live[s][t] \in Counters
    BY <1>2, <1>3, <2>1
  <2>3. Noted(live[s][t], ok) \in Counters
    BY <2>2, NotedType
  <2> HIDE DEF Counters
  <2>4. live' = [live EXCEPT ![s][t] = Noted(live[s][t], ok)]
    BY <1>1, <1>2, <1>3, <2>1
  <2>5. live' \in [Session -> [Target -> Counters]]
    BY <1>2, <1>3, <2>1, <2>3, <2>4
  <2> QED BY <1>2, <1>3, <2>1, <2>2, <2>3, <2>4, <2>5
<1>7. Shape'
  <2>1. log' \in Seq(Row)
    BY <1>0, <1>4 DEF Shape
  <2> QED BY <1>0, <1>1, <1>6, <2>1 DEF Shape
<1>8. Carried'
  <2>1. \A b \in Agent : b # a => call'[b] = call[b]
    BY <1>0, <1>1 DEF Carried
  <2>2. call'[a] = IF ok THEN Idle ELSE [call[a] EXCEPT !.at = "failed"]
    BY <1>0, <1>1 DEF Carried
  <2>3. DOMAIN call[a] = DOMAIN Idle /\ DOMAIN call' = Agent
    BY <1>0, <1>1 DEF Carried
  <2>4. CASE ok
    <3>1. call'[a].at = "idle" /\ DOMAIN call'[a] = DOMAIN Idle
      BY <2>2, <2>4 DEF Idle
    <3> QED BY <1>0, <1>1, <2>1, <2>3, <3>1 DEF Carried
  <2>5. CASE ~ok
    <3>1. /\ DOMAIN call'[a] = DOMAIN Idle
          /\ call'[a].session = s /\ call'[a].target = t /\ call'[a].started = call[a].started
      BY <2>2, <2>3, <2>5 DEF Idle, s, t
    <3> QED BY <1>0, <1>1, <1>2, <2>1, <2>3, <3>1 DEF Carried
  <2> QED BY <2>4, <2>5
<1>9. Begun'
  <2>1. \A i \in DOMAIN log' : log'[i].session \in 1..begun
    <3>1. log \in Seq(Row)
      BY <1>0 DEF Shape
    <3>2. \A i \in DOMAIN log' : (i \in DOMAIN log /\ log'[i] = log[i]) \/ log'[i] = r
      BY <1>4, <3>1
    <3> QED BY <1>0, <1>2, <1>4, <3>2 DEF Begun
  <2>2. \A x \in Session : x > begun => x # s
    BY <1>2, <1>3, Constants
  <2> QED BY <1>0, <1>1, <1>6, <2>1, <2>2 DEF Begun
<1>10. Cold'
  BY <1>0, <1>1, <1>2, <1>6, Running DEF Cold
<1>11. LiveIsLog'
  <2> SUFFICES ASSUME active \in hydrated, NEW x \in Target PROVE live'[active][x] = Replayed(log', active, x)
    BY <1>1 DEF LiveIsLog
  <2>1. active \in Session /\ live[active][x] = Replayed(log, active, x)
    BY <1>0, <1>3, Constants DEF LiveIsLog, Begun
  <2>2. CASE active = s /\ x = t
    BY <1>5, <1>6, <2>1, <2>2
  <2>3. CASE ~(active = s /\ x = t)
    BY <1>5, <1>6, <2>1, <2>3
  <2> QED BY <2>2, <2>3
<1>12. Counted' /\ WarnNeedsNews'
  <2>1. WarnNeedsNews'
    BY <1>0, <1>1 DEF WarnNeedsNews
  <2>2. ASSUME NEW x \in Session, NEW y \in Target, NEW i \in DOMAIN heard[x][y] PROVE heard[x][y][i] <= Cardinality(Failed(log', x, y))
    <3>1. heard[x][y][i] <= Cardinality(Failed(log, x, y)) /\ heard[x][y] \in Seq(Nat)
      BY <1>0 DEF Counted, Shape, Failures
    <3>2. heard[x][y][i] \in Nat
      BY <3>1
    <3>3. /\ Cardinality(Failed(log, x, y)) \in Nat
          /\ Cardinality(Failed(log', x, y)) \in {Cardinality(Failed(log, x, y)), Cardinality(Failed(log, x, y)) + 1}
      BY <1>5
    <3> QED BY <3>1, <3>2, <3>3
  <2> QED BY <1>1, <2>1, <2>2 DEF Counted, Failures
<1>13. Remembered'
  <2> SUFFICES ASSUME active # 0, NEW x \in Target, heard[active][x] # <<>>, Last(heard[active][x]) # 0
               PROVE  /\ storedWarn[active][x] >= 0
                      /\ Replayed(log', active, x).unresolved - storedWarn[active][x]
                            <= Cardinality(Failed(log', active, x)) - Last(heard[active][x])
                      /\ active \in hydrated => warned[active][x] = storedWarn[active][x]
    BY <1>1 DEF Remembered, Failures
  <2> DEFINE w == storedWarn[active][x]
             h == Last(heard[active][x])
             u == Replayed(log, active, x).unresolved
             f == Cardinality(Failed(log, active, x))
  <2>1. w >= 0 /\ u - w <= f - h /\ (active \in hydrated => warned[active][x] = w)
    BY <1>0 DEF Remembered, Failures
  <2>2. active \in Session /\ f \in Nat /\ w \in Int
    BY <1>0, <1>5, Running DEF Shape
  <2>3. u \in Nat /\ Replayed(log, active, x) \in Counters
    BY <1>0, ReplayedType DEF Shape, Counters
  <2>4. h \in Nat /\ h <= f
    <3>1. heard[active][x] \in Seq(Nat)
      BY <1>0, <2>2 DEF Shape
    <3>2. Len(heard[active][x]) \in DOMAIN heard[active][x] /\ h = heard[active][x][Len(heard[active][x])]
      BY <3>1 DEF Last
    <3> QED BY <1>0, <2>2, <3>1, <3>2 DEF Counted, Failures
  <2>5. CASE active = s /\ x = t
    <3>1. Replayed(log', active, x) = Noted(Replayed(log, active, x), ok)
      BY <1>5, <2>5
    <3>2. CASE ok
      <4>1. Replayed(log', active, x).unresolved = 0 /\ Cardinality(Failed(log', active, x)) = f
        BY <1>5, <2>3, <2>5, <3>1, <3>2 DEF Noted, Counters
      <4> HIDE DEF w, h, u, f
      <4>2. 0 - w <= f - h
        BY <2>1, <2>2, <2>4
      <4> QED BY <2>1, <4>1, <4>2 DEF w, h
    <3>3. CASE ~ok
      <4>1. Replayed(log', active, x).unresolved = u + 1 /\ Cardinality(Failed(log', active, x)) = f + 1
        BY <1>5, <2>3, <2>5, <3>1, <3>3 DEF Noted, Counters
      <4> HIDE DEF w, h, u, f
      <4>2. (u + 1) - w <= (f + 1) - h
        BY <2>1, <2>2, <2>3, <2>4
      <4> QED BY <2>1, <4>1, <4>2 DEF w, h
    <3> QED BY <3>2, <3>3
  <2>6. CASE ~(active = s /\ x = t)
    BY <1>5, <2>1, <2>6
  <2> QED BY <2>5, <2>6
<1> QED BY <1>7, <1>8, <1>9, <1>10, <1>11, <1>12, <1>13 DEF IInv

LEMMA ReportHolds == ASSUME IInv, NEW a \in Agent, Report(a) PROVE IInv'
<1> DEFINE s == call[a].session
           known == [x \in Target |-> LiveOf(s, x)]
           last == [x \in Target |-> WarnedOf(s, x)]
<1>0. Shape /\ Carried /\ Begun /\ Cold /\ LiveIsLog /\ Counted /\ WarnNeedsNews /\ Remembered
  BY DEF IInv
<1>1. /\ call[a].at = "failed" /\ hydrated' = hydrated \cup {s}
      /\ live' = [live EXCEPT ![s] = known] /\ warned' = [warned EXCEPT ![s] = last]
      /\ call' = [call EXCEPT ![a] = Idle] /\ UNCHANGED <<log, active, begun, clock, storedWarn, heard>>
  BY DEF Report, Hydrated
<1>2. s \in 1..begun /\ s \in Session /\ begun \in Nat /\ (s = active => active \in hydrated)
  BY <1>0, <1>1, Constants DEF Carried, Shape
<1>3. known \in [Target -> Counters] /\ last \in [Target -> Int]
  BY <1>0, <1>2, ReplayedType DEF Shape, LiveOf, WarnedOf
<1>4. active = s => \A x \in Target : known[x] = live[s][x] /\ last[x] = warned[s][x]
  BY <1>2 DEF LiveOf, WarnedOf, Hydrates
<1> HIDE DEF s, known, last
<1>5. Shape'
  BY <1>0, <1>1, <1>2, <1>3 DEF Shape
<1>6. /\ live'[s] = known /\ warned'[s] = last
      /\ \A x \in Session : x # s => live'[x] = live[x] /\ warned'[x] = warned[x]
  BY <1>0, <1>1, <1>2 DEF Shape
<1>7. Carried'
  <2>1. \A b \in Agent : call'[b] = call[b] \/ call'[b] = Idle
    BY <1>0, <1>1 DEF Carried
  <2>2. Idle.at = "idle"
    BY DEF Idle
  <2> QED BY <1>0, <1>1, <2>1, <2>2 DEF Carried
<1>8. Begun'
  <2>1. \A x \in Session : x > begun => x # s
    BY <1>2, Constants
  <2> QED BY <1>0, <1>1, <1>2, <1>6, <2>1 DEF Begun
<1>9. Cold'
  BY <1>0, <1>1, <1>2, <1>6, Running DEF Cold
<1>10. LiveIsLog'
  <2> SUFFICES ASSUME active \in hydrated', NEW x \in Target PROVE live'[active][x] = Replayed(log, active, x)
    BY <1>1 DEF LiveIsLog
  <2>1. active \in hydrated /\ active \in Session
    BY <1>0, <1>1, <1>2, Constants DEF Begun, Shape
  <2> QED BY <1>0, <1>4, <1>6, <2>1 DEF LiveIsLog
<1>11. Counted' /\ WarnNeedsNews'
  BY <1>0, <1>1 DEF Counted, WarnNeedsNews, Failures
<1>12. Remembered'
  <2>1. active # 0 => (active \in hydrated' <=> active \in hydrated) /\ \A x \in Target : warned'[active][x] = warned[active][x]
    BY <1>0, <1>1, <1>2, <1>4, <1>6, Running
  <2> QED BY <1>0, <1>1, <2>1 DEF Remembered, Failures
<1> QED BY <1>5, <1>7, <1>8, <1>9, <1>10, <1>11, <1>12 DEF IInv

LEMMA SessionHolds == ASSUME IInv, StartSession \/ EndSession PROVE IInv'
<1>0. Shape /\ Carried /\ Begun /\ Cold /\ LiveIsLog /\ Counted /\ WarnNeedsNews /\ Remembered
  BY DEF IInv
<1>1. CASE StartSession
  <2>1. /\ active = 0 /\ begun < MaxSession /\ begun' = begun + 1 /\ active' = begun + 1
        /\ storedWarn' = PerTarget(-1) /\ UNCHANGED <<log, clock, live, hydrated, warned, call, heard>>
    BY <1>1 DEF StartSession, memory
  <2>2. begun \in Nat /\ begun + 1 \in Session /\ 1..begun \subseteq 1..(begun + 1) /\ begun + 1 \notin 1..begun
    BY <1>0, <2>1, Constants DEF Shape
  <2>3. Shape'
    BY <1>0, <2>1, <2>2, Constants DEF Shape, PerTarget
  <2>4. Carried'
    BY <1>0, <2>1, <2>2 DEF Carried
  <2>5. Begun'
    <3>1. \A s \in Session : s > begun + 1 => s > begun
      BY <2>2, Constants
    <3> QED BY <1>0, <2>1, <2>2, <3>1 DEF Begun
  <2>6. \A t \in Target : live[begun + 1] = [x \in Target |-> NoCount] /\ warned[begun + 1] = [x \in Target |-> -1]
                           /\ heard[begun + 1][t] = <<>>
    BY <1>0, <2>2 DEF Begun
  <2>7. live[begun + 1] = [x \in Target |-> NoCount] /\ warned[begun + 1] = [x \in Target |-> -1]
    BY <1>0, <2>2 DEF Begun
  <2>8. Cold' /\ LiveIsLog' /\ Remembered'
    BY <1>0, <2>1, <2>2, <2>6, <2>7 DEF Cold, LiveIsLog, Remembered, Begun
  <2>9. Counted' /\ WarnNeedsNews'
    BY <1>0, <2>1 DEF Counted, WarnNeedsNews, Failures
  <2> QED BY <2>3, <2>4, <2>5, <2>8, <2>9 DEF IInv
<1>2. CASE EndSession
  <2>1. /\ active # 0 /\ active' = 0 /\ clock' \in {clock, clock + 1}
        /\ live' = [live EXCEPT ![active] = [t \in Target |-> NoCount]]
        /\ warned' = [warned EXCEPT ![active] = [t \in Target |-> -1]]
        /\ hydrated' = hydrated \ {active}
        /\ storedWarn' = [storedWarn EXCEPT ![active] = [t \in Target |-> -1]]
        /\ UNCHANGED <<log, begun, call, heard>>
    BY <1>2 DEF EndSession
  <2>2. active \in Session /\ active = begun /\ begun \in Nat
    BY <1>0, <2>1, Running
  <2>3. [t \in Target |-> NoCount] \in [Target -> Counters] /\ [t \in Target |-> -1] \in [Target -> Int]
    BY DEF NoCount, Counters
  <2>4. Shape'
    BY <1>0, <2>1, <2>2, <2>3 DEF Shape
  <2>5. Carried'
    BY <1>0, <2>1, <2>2 DEF Carried
  <2>6. Begun'
    <3>1. \A s \in Session : s > begun => live'[s] = live[s] /\ warned'[s] = warned[s]
      BY <1>0, <2>1, <2>2, Constants DEF Shape
    <3> QED BY <1>0, <2>1, <3>1 DEF Begun
  <2>7. Cold' /\ LiveIsLog' /\ Remembered'
    BY <1>0, <2>1, <2>2 DEF Cold, LiveIsLog, Remembered, Begun
  <2>8. Counted' /\ WarnNeedsNews'
    BY <1>0, <2>1 DEF Counted, WarnNeedsNews, Failures
  <2> QED BY <2>4, <2>5, <2>6, <2>7, <2>8 DEF IInv
<1> QED BY <1>1, <1>2

LEMMA RestartHolds == ASSUME IInv, Restart PROVE IInv'
<1>0. Shape /\ Carried /\ Begun /\ Cold /\ LiveIsLog /\ Counted /\ WarnNeedsNews /\ Remembered
  BY DEF IInv
<1>1. /\ live' = PerTarget(NoCount) /\ hydrated' = {} /\ warned' = PerTarget(-1) /\ call' = [a \in Agent |-> Idle]
      /\ UNCHANGED <<log, active, begun, clock, storedWarn, heard>>
  BY DEF Restart, said
<1>2. Shape'
  <2>1. NoCount \in Counters
    BY DEF NoCount, Counters
  <2> QED BY <1>0, <1>1, <2>1 DEF Shape, PerTarget
<1>3. Carried'
  BY <1>1 DEF Carried, Idle
<1>4. Begun' /\ Cold'
  BY <1>0, <1>1, Running DEF Begun, Cold, PerTarget
<1>5. LiveIsLog' /\ Remembered'
  BY <1>0, <1>1 DEF LiveIsLog, Remembered, Failures
<1>6. Counted' /\ WarnNeedsNews'
  BY <1>0, <1>1 DEF Counted, WarnNeedsNews, Failures
<1> QED BY <1>2, <1>3, <1>4, <1>5, <1>6 DEF IInv

LEMMA DecideHolds ==
  ASSUME IInv, UNCHANGED vars \/ \E t \in Target : Resolve(t) \/ Unresolve(t) \/ Import(t) \/ Snooze(t)
  PROVE  IInv'
<1>0. Shape /\ Carried /\ Begun /\ Cold /\ LiveIsLog /\ Counted /\ WarnNeedsNews /\ Remembered
  BY DEF IInv
<1>1. clock' \in {clock, clock + 1} /\ UNCHANGED <<log, active, begun, live, hydrated, warned, storedWarn, call, heard>>
  BY DEF Resolve, Unresolve, Import, Snooze, Decides, Rest, memory, said, vars
<1>2. Shape'
  BY <1>0, <1>1 DEF Shape
<1>3. Carried' /\ Begun' /\ Cold'
  BY <1>0, <1>1 DEF Carried, Begun, Cold
<1>4. LiveIsLog' /\ Counted' /\ WarnNeedsNews' /\ Remembered'
  BY <1>0, <1>1 DEF LiveIsLog, Counted, WarnNeedsNews, Remembered, Failures
<1> QED BY <1>2, <1>3, <1>4 DEF IInv

LEMMA Always == Spec => []IInv
<1>1. IInv /\ [Next]_vars => IInv'
  BY BeginHolds, FinishHolds, ReportHolds, SessionHolds, RestartHolds, DecideHolds DEF Next
<1> QED BY <1>1, InitHolds, PTL DEF Spec

-----------------------------------------------------------------------------
\* friction.mjs, createFrictionTracker, with ensureFrictionSession: once a session's counters are hydrated they are
\* those of its logged actions, whatever commands overlap, fail or outlive a session, and after any restart.
THEOREM CountersAreLog == Spec => []LiveIsLog
<1>1. IInv => LiveIsLog
  BY DEF IInv
<1> QED BY <1>1, Always, PTL

\* friction.mjs, evaluateSelectorRisk and recordWarn: a warning that counted failures is repeated only after more.
THEOREM WarningsNeedNews == Spec => []WarnNeedsNews
<1>1. IInv => WarnNeedsNews
  BY DEF IInv
<1> QED BY <1>1, Always, PTL

\* friction.mjs, evaluateSelectorRisk: a warning is said of a target that is not snoozed, and the log, not what memory
\* kept of it, has the failures it is about: in this session, or together with those the other sessions left open.
THEOREM WarningsBacked ==
  Spec => [][\A s \in Session, t \in Target :
               heard'[s][t] # heard[s][t] =>
                 /\ t \notin snoozed
                 /\ \E a \in Agent :
                      \/ Replayed(log, s, t).unresolved >= LiveFails
                      \/ History(s, t).unresolved[OriginOf[a]] + Replayed(log, s, t).unresolved >= RiskyFails]_vars
<1>1. ASSUME IInv, [Next]_vars, NEW s \in Session, NEW t \in Target, heard'[s][t] # heard[s][t]
      PROVE  /\ t \notin snoozed
             /\ \E a \in Agent :
                  \/ Replayed(log, s, t).unresolved >= LiveFails
                  \/ History(s, t).unresolved[OriginOf[a]] + Replayed(log, s, t).unresolved >= RiskyFails
  <2>1. PICK a \in Agent : Begin(a)
    BY <1>1 DEF Next, Finish, Report, StartSession, EndSession, Restart, Resolve, Unresolve, Import, Snooze, Decides,
                Rest, vars
  <2>2. PICK x \in Target :
          active # 0 /\ Speaks(active, x, a) /\ heard' = [heard EXCEPT ![active][x] = Append(@, Failures(active, x))]
    BY <1>1, <2>1 DEF Begin
  <2>3. heard \in [Session -> [Target -> Seq(Nat)]] /\ active \in Session
    BY <1>1, <2>2, Running DEF IInv, Shape
  <2>4. s = active /\ t = x
    BY <1>1, <2>2, <2>3
  <2>5. LiveOf(active, x) = Replayed(log, active, x)
    BY <1>1, <2>2, AtBegin
  <2> QED BY <2>2, <2>4, <2>5 DEF Speaks, Risky, Unresolved
<1>2. IInv /\ [Next]_vars =>
        [\A s \in Session, t \in Target :
           heard'[s][t] # heard[s][t] =>
             /\ t \notin snoozed
             /\ \E a \in Agent :
                  \/ Replayed(log, s, t).unresolved >= LiveFails
                  \/ History(s, t).unresolved[OriginOf[a]] + Replayed(log, s, t).unresolved >= RiskyFails]_vars
  BY <1>1
<1> QED BY <1>2, Always, PTL DEF Spec

\* relay.mjs, maybeRiskySelectorWarn with WEBSCOUT_RISKY_BLOCK: what failed too often in a row in the running session
\* is not dispatched again unless acknowledged.
THEOREM EscalatedRefused == Spec => EscalatedStaysRefused
<1>1. ASSUME IInv, [Next]_vars, NEW a \in Agent, call[a].at = "idle", call'[a].at = "sent", Block, ~call'[a].ack
      PROVE  Replayed(log, active, call'[a].target).unresolved < EscalateFails
  <2>1. Carried
    BY <1>1 DEF IInv
  <2>2. ASSUME NEW b \in Agent, Finish(b) \/ Report(b) PROVE FALSE
    <3>1. call[b].at # "idle" /\ DOMAIN call = Agent /\ DOMAIN call[b] = DOMAIN Idle
      BY <2>1, <2>2 DEF Finish, Report, Carried
    <3>2. PICK c \in {Idle, [call[b] EXCEPT !.at = "failed"]} : call' = [call EXCEPT ![b] = c]
      BY <2>2 DEF Finish, Report
    <3>3. c.at # "sent"
      BY <3>1, <3>2 DEF Idle
    <3> QED BY <1>1, <3>1, <3>2, <3>3
  <2>3. \E b \in Agent : Begin(b)
    <3>1. call' # call
      BY <1>1
    <3>2. call' # [b \in Agent |-> Idle]
      BY <1>1 DEF Idle
    <3> QED BY <1>1, <2>2, <3>1, <3>2 DEF Next, StartSession, EndSession, Restart, Resolve, Unresolve, Import, Snooze, Rest, vars
  <2>4. PICK b \in Agent : Begin(b)
    BY <2>3
  <2>5. PICK t \in Target, ack \in BOOLEAN :
          /\ active # 0
          /\ IF Refuses(active, t, ack) THEN UNCHANGED call
             ELSE call' = [call EXCEPT ![b] = [at |-> "sent", target |-> t, session |-> active, started |-> clock, ack |-> ack]]
    BY <2>4 DEF Begin
  <2>6. ~Refuses(active, t, ack) /\ call'[a].target = t /\ call'[a].ack = ack
    BY <1>1, <2>1, <2>5 DEF Carried
  <2>7. LiveOf(active, t) = Replayed(log, active, t)
    BY <1>1, <2>5, AtBegin
  <2>8. Replayed(log, active, t) \in Counters
    BY <1>1, ReplayedType DEF IInv, Shape
  <2>9. ~(Replayed(log, active, t).unresolved >= EscalateFails)
    BY <1>1, <2>6, <2>7 DEF Refuses
  <2>10. Replayed(log, active, t).unresolved \in Nat /\ EscalateFails \in Nat
    BY <2>8, ThresholdAssumption DEF Counters, ThresholdAssumption
  <2>11. Replayed(log, active, t).unresolved < EscalateFails
    BY <2>9, <2>10
  <2> QED BY <2>6, <2>11
<1>2. IInv /\ [Next]_vars =>
        [\A a \in Agent :
           call[a].at = "idle" /\ call'[a].at = "sent" /\ Block /\ ~call'[a].ack
             => Replayed(log, active, call'[a].target).unresolved < EscalateFails]_vars
  BY <1>1
<1> QED BY <1>2, Always, PTL DEF Spec, EscalatedStaysRefused
=============================================================================

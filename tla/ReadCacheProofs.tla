-------------------------- MODULE ReadCacheProofs --------------------------
(* For any tabs, callers and lengths of a run: an entry of the read cache  *)
(* that both counters vouch for is current, and a hit is no older than     *)
(* what the page showed when its caller asked.                             *)
EXTENDS ReadCache, TLAPS

Log(t) == <<t, "log">>
Row(t) == <<t, "row">>

\* Every id in use is below the next one.
IdsUsed ==
  /\ \A c \in Clients : req[c].pc # "idle" => req[c].id < nextId
  /\ \A t \in Tabs : \A i \in DOMAIN inbox[t] : inbox[t][i].id < nextId
  /\ \A t \in Tabs : \A i \in DOMAIN outbox[t] : outbox[t][i].id < nextId
  /\ \A j \in running : j.from # NoClient => j.id < nextId

\* What the relay awaits is on its way through the tab that was asked.
Routed ==
  /\ \A c \in Clients : req[c].pc # "idle" => req[c].tab \in Tabs /\ req[c].op \in Ops
  /\ \A c \in Clients : req[c].pc = "probe" => req[c].op \in ReadOps /\ req[c].entry \in Cached
  /\ \A t \in Tabs : \A i \in DOMAIN inbox[t] : Awaited(inbox[t][i]) =>
       LET q == req[inbox[t][i].from] IN
       q.tab = t /\ inbox[t][i].op = IF q.pc = "probe" THEN "page.epoch" ELSE q.op
  /\ \A t \in Tabs : \A i \in DOMAIN outbox[t] : Awaited(outbox[t][i]) => req[outbox[t][i].from].tab = t
  /\ \A j \in running : j.op = "row" => j.from # NoClient
  /\ \A j \in running : j.from # NoClient /\ Awaited(j) =>
       LET q == req[j.from] IN q.pc = "wait" /\ q.tab = j.tab /\ q.op = j.op

\* A clear that is awaited is on its way once; one that is not has its log lapsed.
IsClear(r) == Awaited(r) /\ req[r.from].pc = "wait" /\ req[r.from].op = "clear"
Same(a, b) == a.from = b.from /\ a.id = b.id
ClearOnce ==
  \A t \in Tabs :
    /\ \A i, n \in DOMAIN inbox[t] : IsClear(inbox[t][i]) /\ Same(inbox[t][n], inbox[t][i]) => n = i
    /\ \A i, n \in DOMAIN outbox[t] : IsClear(outbox[t][i]) /\ Same(outbox[t][n], outbox[t][i]) => n = i
    /\ \A i \in DOMAIN inbox[t], n \in DOMAIN outbox[t] : IsClear(inbox[t][i]) => ~Same(outbox[t][n], inbox[t][i])
    /\ \A i \in DOMAIN inbox[t] : inbox[t][i].op = "clear" => Awaited(inbox[t][i]) \/ Log(t) \in lapsed

\* A value read of k when the epoch was e: if that is still the epoch, it is current or there is an excuse.
Current(k, v, e, excuse) ==
  k \in lapsed \/ (e <= epoch[k[1]] /\ (e = epoch[k[1]] => v = Now(k) \/ excuse))

CacheGood ==
  \A k \in DOMAIN cache :
    /\ cache[k].counter <= counter
    /\ cache[k].counter = counter => Current(k, cache[k].val, cache[k].epoch, k[2] = "log" /\ Clearing(k[1]))

RowsGood ==
  \A j \in running : j.op = "row" /\ Awaited(j) => Current(Row(j.tab), j.val, j.epoch, j.at = "begun")

\* A log read before a clear is answered before it.
ClearAfter(t, i) == \E n \in DOMAIN outbox[t] : n > i /\ IsClear(outbox[t][n])
Reads(r, op) == Awaited(r) /\ req[r.from].pc = "wait" /\ req[r.from].op = op
RepliesGood ==
  \A t \in Tabs, op \in ReadOps : \A i \in DOMAIN outbox[t] :
    Reads(outbox[t][i], op)
    => Current(<<t, op>>, outbox[t][i].val, outbox[t][i].epoch, op = "log" /\ ClearAfter(t, i))

\* A probe is about an entry that is fresh enough or that the page has moved on from.
Fresh(c) == req[c].entry.val >= req[c].floor \/ Key(c) \in lapsed
ProbesGood ==
  /\ \A c \in Clients : req[c].pc = "probe" => Fresh(c) \/ req[c].entry.epoch < epoch[req[c].tab]
  /\ \A t \in Tabs : \A i \in DOMAIN outbox[t] :
       LET r == outbox[t][i] IN
       Awaited(r) /\ req[r.from].pc = "probe" => Fresh(r.from) \/ req[r.from].entry.epoch < r.epoch

IInv == TypeOK /\ IdsUsed /\ Routed /\ ClearOnce /\ CacheGood /\ RowsGood /\ RepliesGood /\ ProbesGood

-----------------------------------------------------------------------------
\* Sequences, types and the first state.
LEMMA Appended ==
  ASSUME NEW S, NEW s \in Seq(S), NEW x \in S
  PROVE  /\ Append(s, x) \in Seq(S)
         /\ DOMAIN Append(s, x) = DOMAIN s \cup {Len(s) + 1}
         /\ Len(s) + 1 \notin DOMAIN s /\ Append(s, x)[Len(s) + 1] = x
         /\ \A i \in DOMAIN s : i \in Nat /\ i < Len(s) + 1 /\ Append(s, x)[i] = s[i]
OBVIOUS

LEMMA Tailed ==
  ASSUME NEW S, NEW s \in Seq(S), s # <<>>
  PROVE  /\ Tail(s) \in Seq(S) /\ Head(s) \in S /\ 1 \in DOMAIN s /\ Head(s) = s[1]
         /\ \A i \in DOMAIN Tail(s) : i \in Nat /\ i + 1 > 1 /\ i + 1 \in DOMAIN s /\ Tail(s)[i] = s[i + 1]
         /\ \A i \in DOMAIN s : i # 1 => i - 1 \in DOMAIN Tail(s) /\ Tail(s)[i - 1] = s[i] /\ i \in Nat
OBVIOUS

Command  == [from: Clients, id: Nat, op: Ops \cup {"page.epoch"}]
Answered == [from: Clients, id: Nat, val: Nat, epoch: Nat]
JobState == [tab: Tabs, op: {"row", "put"}, from: Clients \cup {NoClient}, id: Nat, epoch: Nat,
             at: {"begun", "read"}, val: Nat]
ReqState == [pc: {"idle", "probe", "wait"}, op: Ops \cup {"none"}, tab: Tabs \cup {NoTab}, id: Nat,
             entry: Cached \cup {NoEntry}, floor: Nat]

\* The type invariant, each variable by name.
Types ==
  /\ db \in Nat /\ nextId \in Nat /\ counter \in Nat /\ moves \in 0..MaxMoves
  /\ log \in [Tabs -> Nat] /\ epoch \in [Tabs -> Nat]
  /\ running \subseteq JobState
  /\ inbox \in [Tabs -> Seq(Command)] /\ outbox \in [Tabs -> Seq(Answered)]
  /\ req \in [Clients -> ReqState]
  /\ DOMAIN cache \subseteq Keys /\ \A k \in DOMAIN cache : cache[k] \in Cached
  /\ lapsed \subseteq Keys

LEMMA TypesOK == TypeOK <=> Types
BY DEF TypeOK, Types, Command, Answered, JobState, ReqState

LEMMA InitHolds == Init => IInv
<1> SUFFICES ASSUME Init PROVE IInv
  OBVIOUS
<1> USE DEF Init
<1>1. 0 \in 0..MaxMoves
  BY CacheAssumption DEF CacheAssumption
<1>2. Idle \in ReqState
  BY DEF Idle, ReqState
<1>3. TypeOK
  BY <1>1, <1>2, TypesOK DEF Types
<1>4. IdsUsed /\ Routed /\ ClearOnce
  BY DEF IdsUsed, Routed, ClearOnce, Idle
<1>5. CacheGood /\ RowsGood /\ RepliesGood /\ ProbesGood
  BY DEF CacheGood, RowsGood, RepliesGood, ProbesGood, Idle
<1> QED BY <1>3, <1>4, <1>5 DEF IInv

LEMMA KeysOf == \A t \in Tabs, op \in ReadOps : <<t, op>> \in Keys /\ <<t, op>>[1] = t /\ <<t, op>>[2] = op
BY DEF Keys, ReadOps

LEMMA NowIsNat == ASSUME Types, NEW k \in Keys PROVE Now(k) \in Nat
BY DEF Types, Now, Keys

\* A command sent, and an answer given, keep the types of the queues.
LEMMA SentTypes ==
  ASSUME Types, NEW c \in Clients, NEW t \in Tabs, NEW op \in Ops \cup {"page.epoch"}, Sent(c, op, t)
  PROVE  inbox' \in [Tabs -> Seq(Command)] /\ nextId' \in Nat
<1>1. [from |-> c, id |-> nextId, op |-> op] \in Command
  BY DEF Types, Command
<1>2. Append(inbox[t], [from |-> c, id |-> nextId, op |-> op]) \in Seq(Command)
  BY <1>1, Appended DEF Types
<1> QED BY <1>2 DEF Types, Sent

LEMMA ReplyTypes ==
  ASSUME Types, NEW t \in Tabs, NEW r, r.from \in Clients, r.id \in Nat, NEW v \in Nat, NEW e \in Nat, Reply(t, r, v, e)
  PROVE  outbox' \in [Tabs -> Seq(Answered)]
<1>1. [from |-> r.from, id |-> r.id, val |-> v, epoch |-> e] \in Answered
  BY DEF Answered
<1>2. Append(outbox[t], [from |-> r.from, id |-> r.id, val |-> v, epoch |-> e]) \in Seq(Answered)
  BY <1>1, Appended DEF Types
<1> QED BY <1>2 DEF Types, Reply

LEMMA MissTypes ==
  ASSUME Types, Routed, NEW c \in Clients, req[c].pc = "probe", Miss(c)
  PROVE  /\ inbox' \in [Tabs -> Seq(Command)] /\ nextId' \in Nat /\ counter' = counter
         /\ req' \in [Clients -> ReqState]
         /\ DOMAIN cache' \subseteq Keys /\ \A k \in DOMAIN cache' : cache'[k] \in Cached
<1>1. req[c].tab \in Tabs /\ req[c].op \in Ops /\ req[c] \in ReqState
  BY DEF Routed, Types
<1>2. inbox' \in [Tabs -> Seq(Command)] /\ nextId' \in Nat
  BY <1>1, SentTypes DEF Miss
<1>3. [req[c] EXCEPT !.pc = "wait", !.id = nextId, !.entry = NoEntry, !.floor = 0] \in ReqState
  BY <1>1 DEF ReqState, Types
<1>4. req' \in [Clients -> ReqState]
  BY <1>3 DEF Miss, Types
<1> QED BY <1>2, <1>4 DEF Miss, Without, Types

LEMMA TypeNext == TypeOK /\ Routed /\ [Next]_vars => TypeOK'
<1> SUFFICES ASSUME Types, Routed, [Next]_vars PROVE Types'
  <2>1. Types' <=> TypeOK'
    BY TypesOK, PTL
  <2> QED BY <2>1, TypesOK
<1> USE DEF page
<1>0. Idle \in ReqState
  BY DEF Idle, ReqState
<1>1. ASSUME NEW c \in Clients, NEW op \in Ops, NEW t \in Tabs, Ask(c, op, t) PROVE Types'
  <2> DEFINE k == <<t, op>>
             probe == Cacheable(op) /\ Valid(k)
             q == [pc    |-> IF probe THEN "probe" ELSE "wait",
                   op    |-> op,
                   tab   |-> t,
                   id    |-> nextId,
                   entry |-> IF probe THEN cache[k] ELSE NoEntry,
                   floor |-> IF probe THEN Floor(k) ELSE 0]
  <2>1. probe => cache[k] \in Cached /\ k \in Keys
    BY DEF Valid, Types
  <2>2. probe => Floor(k) \in Nat
    BY <2>1, NowIsNat DEF Floor
  <2>3. q \in ReqState
    <3> HIDE DEF probe, k
    <3> QED BY <2>1, <2>2 DEF ReqState, Types
  <2>4. req' \in [Clients -> ReqState]
    BY <1>1, <2>3 DEF Ask, Types
  <2>5. inbox' \in [Tabs -> Seq(Command)] /\ nextId' \in Nat
    BY <1>1, SentTypes DEF Ask
  <2> QED BY <1>1, <2>4, <2>5 DEF Ask, Types
<1>2. ASSUME NEW c \in Clients, Timeout(c) PROVE Types'
  <2>0. db' = db /\ log' = log /\ epoch' = epoch /\ running' = running /\ outbox' = outbox /\ moves' = moves
    BY <1>2 DEF Timeout
  <2>1. CASE req[c].pc = "probe" /\ Miss(c) /\ UNCHANGED lapsed
    BY <2>0, <2>1, MissTypes DEF Types
  <2>2. CASE /\ req[c].pc = "wait" /\ Done(c)
             /\ lapsed' = IF req[c].op = "clear" THEN lapsed \cup {<<req[c].tab, "log">>} ELSE lapsed
             /\ UNCHANGED <<cache, counter, nextId, inbox>>
    <3>1. req[c].tab \in Tabs
      BY <2>2 DEF Routed
    <3>2. lapsed' \subseteq Keys
      BY <2>2, <3>1, KeysOf DEF Types, ReadOps
    <3> QED BY <1>0, <2>0, <2>2, <3>2 DEF Types, Done
  <2> QED BY <1>2, <2>1, <2>2 DEF Timeout
<1>3. ASSUME NEW t \in Tabs, HandleReply(t) PROVE Types'
  <2> DEFINE m == Head(outbox[t])
             c == m.from
  <2>0. outbox[t] \in Seq(Answered) /\ outbox[t] # <<>>
    <3>1. outbox \in [Tabs -> Seq(Answered)]
      BY DEF Types
    <3> QED BY <1>3, <3>1 DEF HandleReply
  <2>1. m \in Answered /\ Tail(outbox[t]) \in Seq(Answered) /\ c \in Clients
    <3>1. Head(outbox[t]) \in Answered /\ Tail(outbox[t]) \in Seq(Answered)
      BY <2>0, Tailed
    <3> QED BY <3>1 DEF Answered
  <2>2. outbox' \in [Tabs -> Seq(Answered)] /\ db' = db /\ log' = log /\ epoch' = epoch /\ running' = running
        /\ moves' = moves /\ lapsed' = lapsed
    BY <1>3, <2>1 DEF HandleReply, Types
  <2>3. CASE UNCHANGED <<req, nextId, cache, counter, inbox>>
    BY <2>2, <2>3 DEF Types
  <2>4. CASE req[c].pc = "probe" /\ ProbeAnswered(c, m)
    <3>1. CASE SameEpoch(c, m)
      BY <1>0, <2>1, <2>2, <2>4, <3>1 DEF ProbeAnswered, Done, Types
    <3>2. CASE ~SameEpoch(c, m)
      BY <2>1, <2>2, <2>4, <3>2, MissTypes DEF ProbeAnswered, Types
    <3> QED BY <3>1, <3>2
  <2>5. CASE req[c].pc = "wait" /\ ResultArrived(c, m)
    <3>1. counter' \in Nat /\ counter' = Bumped(req[c].op)
      BY <2>5 DEF ResultArrived, Bumped, Types
    <3>2. req' \in [Clients -> ReqState] /\ nextId' = nextId /\ inbox' = inbox
      BY <1>0, <2>1, <2>5 DEF ResultArrived, Done, Types
    <3>3. DOMAIN cache' \subseteq Keys /\ \A k \in DOMAIN cache' : cache'[k] \in Cached
      <4>1. CASE Cacheable(req[c].op)
        <5>1. Key(c) \in Keys
          BY <2>1, <2>5, <4>1, KeysOf DEF Routed, Cacheable, Key
        <5>2. Entry(m, req[c].op) \in Cached
          BY <2>1, <3>1 DEF Entry, Cached, Answered
        <5> QED BY <2>5, <4>1, <5>1, <5>2 DEF ResultArrived, With, Types
      <4>2. CASE ~Cacheable(req[c].op)
        BY <2>5, <4>2 DEF ResultArrived, Types
      <4> QED BY <4>1, <4>2
    <3> QED BY <2>2, <3>1, <3>2, <3>3 DEF Types
  <2> QED BY <1>3, <2>3, <2>4, <2>5 DEF HandleReply
<1>4. ASSUME NEW t \in Tabs, NEW op \in {"row", "put"}, NEW m, m.from \in Clients \cup {NoClient}, m.id \in Nat
      PROVE  Job(t, op, m) \in JobState
  BY <1>4 DEF Job, JobState, Types
<1>5. ASSUME NEW t \in Tabs, Serve(t) PROVE Types'
  <2> DEFINE m == Head(inbox[t])
  <2>1. m \in Command /\ Tail(inbox[t]) \in Seq(Command)
    BY <1>5, Tailed DEF Serve, Types
  <2>2. inbox' \in [Tabs -> Seq(Command)] /\ req' = req /\ nextId' = nextId /\ cache' = cache /\ counter' = counter
        /\ moves' = moves /\ lapsed' = lapsed
    BY <1>5, <2>1 DEF Serve, Types
  <2>3. m.from \in Clients /\ m.id \in Nat
    BY <2>1 DEF Command
  <2> HIDE DEF m
  <2>4. CASE Reply(t, m, 0, epoch[t]) /\ UNCHANGED <<db, log, epoch, running>>
    BY <2>2, <2>3, <2>4, ReplyTypes DEF Types
  <2>5. CASE Reply(t, m, log[t], epoch[t]) /\ UNCHANGED <<db, log, epoch, running>>
    BY <2>2, <2>3, <2>5, ReplyTypes DEF Types
  <2>6. CASE log' = [log EXCEPT ![t] = @ + 1] /\ Reply(t, m, 0, epoch[t]) /\ UNCHANGED <<db, epoch, running>>
    BY <2>2, <2>3, <2>6, ReplyTypes DEF Types
  <2>7. CASE running' = running \cup {Job(t, "row", m)} /\ UNCHANGED <<db, log, epoch, outbox>>
    BY <1>4, <2>2, <2>3, <2>7 DEF Types
  <2>8. CASE CallPut(t, m) /\ UNCHANGED <<db, log, outbox>>
    BY <1>4, <2>2, <2>3, <2>8 DEF Types, CallPut
  <2> QED BY <1>5, <2>4, <2>5, <2>6, <2>7, <2>8 DEF Serve, m
<1>6. ASSUME NEW j \in running, ReadRow(j) PROVE Types'
  <2>1. [j EXCEPT !.at = "read", !.val = db] \in JobState
    BY DEF Types, JobState
  <2> QED BY <1>6, <2>1 DEF ReadRow, Types
<1>7. ASSUME NEW j \in running, FinishRead(j), j.from \in Clients PROVE Types'
  <2>1. j.tab \in Tabs /\ j.id \in Nat /\ j.val \in Nat /\ j.epoch \in Nat
    BY DEF Types, JobState
  <2>2. outbox' \in [Tabs -> Seq(Answered)]
    BY <1>7, <2>1, ReplyTypes DEF FinishRead, EpochBefore
  <2> QED BY <1>7, <2>2 DEF FinishRead, Types
<1>8. ASSUME NEW j \in running, Commit(j) PROVE Types'
  <2>1. j.tab \in Tabs /\ j.id \in Nat /\ j.epoch \in Nat /\ j.from \in Clients \cup {NoClient}
    BY DEF Types, JobState
  <2>2. outbox' \in [Tabs -> Seq(Answered)]
    <3>1. CASE j.from = NoClient
      BY <1>8, <3>1 DEF Commit, Types
    <3>2. CASE j.from # NoClient
      BY <1>8, <2>1, <3>2, ReplyTypes DEF Commit, EpochBefore
    <3> QED BY <3>1, <3>2
  <2>3. epoch' \in [Tabs -> Nat]
    BY <1>8, <2>1 DEF Commit, CountedCommit, Types
  <2>4. lapsed' \subseteq Keys
    BY <1>8, KeysOf DEF Commit, Types, ReadOps
  <2> QED BY <1>8, <2>2, <2>3, <2>4 DEF Commit, Types
<1>9. ASSUME NEW kind, Move(kind) PROVE moves' \in 0..MaxMoves /\ moves \in Nat
  BY <1>9, CacheAssumption DEF Move, Types, CacheAssumption
<1>10. ASSUME NEW t \in Tabs, AppWrite(t) PROVE Types'
  <2>1. Job(t, "put", [from |-> NoClient, id |-> moves]) \in JobState
    BY <1>4, <1>9, <1>10 DEF AppWrite
  <2> QED BY <1>9, <1>10, <2>1 DEF AppWrite, CallPut, Types
<1>11. ASSUME NEW t \in Tabs, AppFetch(t) PROVE Types'
  BY <1>9, <1>11 DEF AppFetch, Types
<1>12. ASSUME NEW t \in Tabs, Reload(t) PROVE Types'
  <2>1. lapsed' \subseteq Keys
    BY <1>12, KeysOf DEF Reload, Types
  <2>2. <<>> \in Seq(Command)
    OBVIOUS
  <2> QED BY <1>9, <1>12, <2>1, <2>2 DEF Reload, Types
<1>13. CASE UNCHANGED vars
  BY <1>13 DEF vars, Types
<1>14. \A j \in running : j.op = "row" => j.from \in Clients
  BY DEF Routed, Types, JobState
<1> QED BY <1>1, <1>2, <1>3, <1>5, <1>6, <1>7, <1>8, <1>10, <1>11, <1>12, <1>13, <1>14 DEF Next, FinishRead

-----------------------------------------------------------------------------
\* A step of a page: what the relay knows stays, a value that was current is current, or the epoch has moved on, or
\* the key has lapsed, except for the log that is being cleared.
Steady(k) == k \in lapsed' \/ (epoch[k[1]] <= epoch'[k[1]] /\ (epoch'[k[1]] = epoch[k[1]] => Now(k)' = Now(k)))
Adds(u, m) == outbox' = [outbox EXCEPT ![u] = Append(@, m)]
Cleared(u) == epoch' = epoch /\ (Log(u) \in lapsed \/ \E m \in Answered : Adds(u, m) /\ IsClear(m) /\ req[m.from].tab = u)
Frame == req' = req /\ nextId' = nextId /\ cache' = cache /\ counter' = counter /\ lapsed \subseteq lapsed'
AllSteady(u) == \A k \in Keys : Steady(k) \/ (k = Log(u) /\ Cleared(u))

InStep == \A t \in Tabs : inbox'[t] = inbox[t] \/ inbox'[t] = <<>> \/ (inbox[t] # <<>> /\ inbox'[t] = Tail(inbox[t]))

AnswerOK(u, m) ==
  LET q == req[m.from] IN
  /\ m.id < nextId
  /\ Awaited(m) => q.tab = u
  /\ IsClear(m) => /\ \A n \in DOMAIN outbox[u] : ~Same(outbox[u][n], m)
                   /\ \A n \in DOMAIN inbox'[u] : ~Same(inbox'[u][n], m)
  /\ \A op \in ReadOps : Reads(m, op) => Current(<<u, op>>, m.val, m.epoch, FALSE)'
  /\ Awaited(m) /\ q.pc = "probe" => m.epoch = epoch[u]
OutStep(u) == outbox' = outbox \/ \E m \in Answered : Adds(u, m) /\ AnswerOK(u, m)

JobOK(j) ==
  /\ j.from # NoClient => j.id < nextId
  /\ j.op = "row" => j.from # NoClient
  /\ j.from # NoClient /\ Awaited(j) => req[j.from].pc = "wait" /\ req[j.from].tab = j.tab /\ req[j.from].op = j.op
  /\ j.op = "row" /\ Awaited(j) => Current(Row(j.tab), j.val, j.epoch, j.at = "begun")'
JobStep == \A j \in running' : j \in running \/ JobOK(j)

PageStep(u) == Frame /\ AllSteady(u) /\ InStep /\ OutStep(u) /\ JobStep

\* What was current stays so.
LEMMA CurrentStays ==
  ASSUME Types, Types', NEW k \in Keys, NEW v, NEW e \in Nat, NEW x \in BOOLEAN, lapsed \subseteq lapsed', Steady(k),
         Current(k, v, e, x)
  PROVE  Current(k, v, e, x)'
<1>1. epoch[k[1]] \in Nat /\ epoch'[k[1]] \in Nat
  BY DEF Types, Keys
<1> QED BY <1>1 DEF Current, Steady

LEMMA CurrentExcused ==
  ASSUME NEW k, NEW v, NEW e, NEW x, Current(k, v, e, x), epoch' = epoch, lapsed \subseteq lapsed'
  PROVE  Current(k, v, e, TRUE)'
BY DEF Current

LEMMA InAfter ==
  ASSUME Types, InStep, NEW t \in Tabs, NEW i \in DOMAIN inbox'[t]
  PROVE  \E d \in {0, 1} : /\ i + d \in DOMAIN inbox[t] /\ inbox'[t][i] = inbox[t][i + d] /\ i \in Nat
                           /\ \A n \in DOMAIN inbox'[t] : n \in Nat /\ n + d \in DOMAIN inbox[t] /\ inbox'[t][n] = inbox[t][n + d]
                           /\ d = 1 => inbox[t] # <<>> /\ inbox'[t] = Tail(inbox[t])
<1>0. inbox[t] \in Seq(Command)
  BY DEF Types
<1>1. CASE inbox'[t] = inbox[t]
  BY <1>0, <1>1
<1>2. CASE inbox[t] # <<>> /\ inbox'[t] = Tail(inbox[t])
  BY <1>0, <1>2, Tailed
<1> QED BY <1>1, <1>2 DEF InStep

LEMMA OutAfter ==
  ASSUME Types, NEW u \in Tabs, NEW m \in Answered, Adds(u, m), NEW t \in Tabs
  PROVE  /\ \A i \in DOMAIN outbox[t] : i \in Nat /\ i \in DOMAIN outbox'[t] /\ outbox'[t][i] = outbox[t][i]
         /\ \A i \in DOMAIN outbox'[t] : i \in DOMAIN outbox[t] \/ (t = u /\ outbox'[t][i] = m /\ i = Len(outbox[t]) + 1)
         /\ Len(outbox[u]) + 1 \in DOMAIN outbox'[u] /\ outbox'[u][Len(outbox[u]) + 1] = m
         /\ \A i \in DOMAIN outbox[u] : i < Len(outbox[u]) + 1
<1>0. outbox[t] \in Seq(Answered) /\ outbox[u] \in Seq(Answered)
  BY DEF Types
<1>1. outbox'[u] = Append(outbox[u], m) /\ (t # u => outbox'[t] = outbox[t])
  BY DEF Adds, Types
<1> QED BY <1>0, <1>1, Appended

LEMMA PageIds == ASSUME Types, IdsUsed, NEW u \in Tabs, PageStep(u) PROVE IdsUsed'
<1>1. \A t \in Tabs : \A i \in DOMAIN inbox'[t] : inbox'[t][i].id < nextId
  BY InAfter DEF IdsUsed, PageStep
<1>2. \A t \in Tabs : \A i \in DOMAIN outbox'[t] : outbox'[t][i].id < nextId
  <2>1. CASE outbox' = outbox
    BY <2>1 DEF IdsUsed
  <2>2. ASSUME NEW m \in Answered, Adds(u, m), AnswerOK(u, m) PROVE \A t \in Tabs : \A i \in DOMAIN outbox'[t] : outbox'[t][i].id < nextId
    BY <2>2, OutAfter DEF IdsUsed, AnswerOK
  <2> QED BY <2>1, <2>2 DEF PageStep, OutStep
<1> QED BY <1>1, <1>2 DEF IdsUsed, PageStep, Frame, JobStep, JobOK

LEMMA AwaitedStays == ASSUME req' = req PROVE /\ \A r : Awaited(r)' <=> Awaited(r)
                                              /\ \A r : IsClear(r)' <=> IsClear(r)
                                              /\ \A t : Clearing(t)' <=> Clearing(t)
BY DEF Awaited, IsClear, Clearing

LEMMA PageRouted == ASSUME Types, Routed, NEW u \in Tabs, PageStep(u) PROVE Routed'
<1>0. req' = req
  BY DEF PageStep, Frame
<1>1. ASSUME NEW t \in Tabs, NEW i \in DOMAIN inbox'[t], Awaited(inbox'[t][i])
      PROVE  LET q == req[inbox'[t][i].from] IN
             q.tab = t /\ inbox'[t][i].op = IF q.pc = "probe" THEN "page.epoch" ELSE q.op
  BY <1>1, InAfter DEF Routed, PageStep
<1>2. ASSUME NEW t \in Tabs, NEW i \in DOMAIN outbox'[t], Awaited(outbox'[t][i]) PROVE req[outbox'[t][i].from].tab = t
  <2>1. CASE outbox' = outbox
    BY <1>2, <2>1 DEF Routed
  <2>3. ASSUME NEW m \in Answered, Adds(u, m), AnswerOK(u, m) PROVE req[outbox'[t][i].from].tab = t
    BY <1>2, <2>3, OutAfter DEF Routed, AnswerOK
  <2> QED BY <2>1, <2>3 DEF PageStep, OutStep
<1>3. \A j \in running' : (j.op = "row" => j.from # NoClient) /\
        (j.from # NoClient /\ Awaited(j) => req[j.from].pc = "wait" /\ req[j.from].tab = j.tab /\ req[j.from].op = j.op)
  BY DEF PageStep, JobStep, JobOK, Routed
<1> QED BY <1>0, <1>1, <1>2, <1>3, AwaitedStays DEF Routed

LEMMA PageClearOnce == ASSUME Types, Routed, ClearOnce, NEW u \in Tabs, PageStep(u) PROVE ClearOnce'
<1>0. req' = req /\ lapsed \subseteq lapsed' /\ InStep
  BY DEF PageStep, Frame
<1>1. ASSUME NEW t \in Tabs, NEW i \in DOMAIN inbox'[t], NEW n \in DOMAIN inbox'[t], IsClear(inbox'[t][i]),
             Same(inbox'[t][n], inbox'[t][i])
      PROVE  n = i
  <2>1. PICK d \in {0, 1} : /\ i + d \in DOMAIN inbox[t] /\ inbox'[t][i] = inbox[t][i + d] /\ i \in Nat
                            /\ \A l \in DOMAIN inbox'[t] : l \in Nat /\ l + d \in DOMAIN inbox[t] /\ inbox'[t][l] = inbox[t][l + d]
    BY <1>0, InAfter
  <2>2. n + d \in DOMAIN inbox[t] /\ inbox'[t][n] = inbox[t][n + d] /\ n \in Nat
    BY <2>1
  <2>3. n + d = i + d
    BY <1>1, <2>1, <2>2 DEF ClearOnce
  <2> QED BY <2>1, <2>2, <2>3
<1>2. ASSUME NEW t \in Tabs, NEW i \in DOMAIN inbox'[t], inbox'[t][i].op = "clear"
      PROVE  Awaited(inbox'[t][i]) \/ Log(t) \in lapsed
  BY <1>0, <1>2, InAfter DEF ClearOnce
<1>3. CASE outbox' = outbox
  <2>1. ASSUME NEW t \in Tabs, NEW i \in DOMAIN inbox'[t], NEW n \in DOMAIN outbox[t], IsClear(inbox'[t][i])
        PROVE  ~Same(outbox[t][n], inbox'[t][i])
    BY <1>0, <2>1, InAfter DEF ClearOnce
  <2> QED BY <1>0, <1>1, <1>2, <1>3, <2>1, AwaitedStays DEF ClearOnce
<1>4. ASSUME NEW m \in Answered, Adds(u, m), AnswerOK(u, m) PROVE ClearOnce'
  <2>1. ASSUME NEW t \in Tabs, NEW i \in DOMAIN inbox'[t], NEW n \in DOMAIN outbox'[t], IsClear(inbox'[t][i])
        PROVE  ~Same(outbox'[t][n], inbox'[t][i])
    <3>1. CASE n \in DOMAIN outbox[t]
      <4>1. outbox'[t][n] = outbox[t][n]
        BY <1>4, <3>1, OutAfter
      <4> QED BY <1>0, <2>1, <3>1, <4>1, InAfter DEF ClearOnce
    <3>2. CASE n \notin DOMAIN outbox[t]
      <4>1. t = u /\ outbox'[t][n] = m
        BY <1>4, <3>2, OutAfter
      <4>2. Same(m, inbox'[t][i]) => IsClear(m) /\ Same(inbox'[t][i], m)
        BY <2>1 DEF Same, IsClear, Awaited
      <4> QED BY <1>4, <4>1, <4>2 DEF AnswerOK
    <3> QED BY <3>1, <3>2
  <2>2. ASSUME NEW t \in Tabs, NEW i \in DOMAIN outbox'[t], NEW n \in DOMAIN outbox'[t], IsClear(outbox'[t][i]),
               Same(outbox'[t][n], outbox'[t][i])
        PROVE  n = i
    <3>0. IsClear(outbox'[t][n]) /\ Same(outbox'[t][i], outbox'[t][n])
      BY <2>2 DEF IsClear, Same, Awaited
    <3>1. CASE i \in DOMAIN outbox[t] /\ n \in DOMAIN outbox[t]
      <4>1. outbox'[t][n] = outbox[t][n] /\ outbox'[t][i] = outbox[t][i]
        BY <1>4, <3>1, OutAfter
      <4> QED BY <2>2, <3>1, <4>1 DEF ClearOnce
    <3>2. CASE i \notin DOMAIN outbox[t] /\ n \notin DOMAIN outbox[t]
      BY <1>4, <3>2, OutAfter
    <3>3. CASE i \notin DOMAIN outbox[t] /\ n \in DOMAIN outbox[t]
      <4>1. t = u /\ outbox'[t][i] = m /\ outbox'[t][n] = outbox[t][n]
        BY <1>4, <3>3, OutAfter
      <4> QED BY <1>4, <2>2, <3>3, <4>1 DEF AnswerOK
    <3>4. CASE i \in DOMAIN outbox[t] /\ n \notin DOMAIN outbox[t]
      <4>1. t = u /\ outbox'[t][n] = m /\ outbox'[t][i] = outbox[t][i]
        BY <1>4, <3>4, OutAfter
      <4> QED BY <1>4, <3>0, <3>4, <4>1 DEF AnswerOK
    <3> QED BY <3>1, <3>2, <3>3, <3>4
  <2> QED BY <1>0, <1>1, <1>2, <2>1, <2>2, AwaitedStays DEF ClearOnce
<1> QED BY <1>3, <1>4 DEF PageStep, OutStep

\* The excuse of a log that is being cleared, or current as before.
LEMMA PageCurrent ==
  ASSUME Types, Types', NEW u \in Tabs, PageStep(u), NEW k \in Keys, NEW v, NEW e \in Nat, NEW x \in BOOLEAN, Current(k, v, e, x)
  PROVE  \/ Current(k, v, e, x)'
         \/ /\ k = Log(u) /\ Current(k, v, e, TRUE)'
            /\ \E m \in Answered : Adds(u, m) /\ IsClear(m) /\ req[m.from].tab = u
<1>1. CASE Steady(k)
  BY <1>1, CurrentStays DEF PageStep, Frame
<1>2. CASE k = Log(u) /\ Cleared(u)
  <2>1. CASE Log(u) \in lapsed
    BY <1>2, <2>1 DEF PageStep, Frame, Current
  <2>2. CASE Log(u) \notin lapsed
    BY <1>2, <2>2, CurrentExcused DEF PageStep, Frame, Cleared
  <2> QED BY <2>1, <2>2
<1> QED BY <1>1, <1>2 DEF PageStep, AllSteady

LEMMA PageCache == ASSUME Types, Types', CacheGood, NEW u \in Tabs, PageStep(u) PROVE CacheGood'
<1>0. req' = req /\ cache' = cache /\ counter' = counter
  BY DEF PageStep, Frame
<1> SUFFICES ASSUME NEW k \in DOMAIN cache, cache[k].counter = counter
             PROVE  Current(k, cache[k].val, cache[k].epoch, k[2] = "log" /\ Clearing(k[1]))'
  BY <1>0 DEF CacheGood
<1> DEFINE v == cache[k].val
           e == cache[k].epoch
           x == k[2] = "log" /\ Clearing(k[1])
<1>1. k \in Keys /\ v \in Nat /\ e \in Nat
  BY DEF Types, Cached
<1>2. Current(k, v, e, x)
  BY DEF CacheGood
<1>3. (k[2] = "log" /\ Clearing(k[1]))' <=> x
  BY <1>0, AwaitedStays
<1>4a. PICK x1 \in BOOLEAN : x1 <=> x
  <2>1. CASE x
    BY <2>1
  <2>2. CASE ~x
    BY <2>2
  <2> QED BY <2>1, <2>2
<1>4b. PICK v1, e1 \in Nat : v1 = v /\ e1 = e
  BY <1>1
<1>4. v1 = v /\ e1 = e /\ (x1 <=> x)
  BY <1>4a, <1>4b
<1>5. Current(k, v1, e1, x1)
  BY <1>2, <1>4 DEF Current
<1>6. CASE Current(k, v1, e1, x1)'
  <2>1. cache'[k].val = v1 /\ cache'[k].epoch = e1 /\ ((k[2] = "log" /\ Clearing(k[1]))' <=> x1)
    BY <1>0, <1>3, <1>4
  <2> QED BY <1>6, <2>1 DEF Current
<1>7. ASSUME k = Log(u), Current(k, v1, e1, TRUE)', NEW m \in Answered, IsClear(m), req[m.from].tab = u
      PROVE  Current(k, cache[k].val, cache[k].epoch, k[2] = "log" /\ Clearing(k[1]))'
  <2>1. Clearing(u)
    BY <1>7 DEF Clearing, IsClear, Answered
  <2>2. cache'[k].val = v1 /\ cache'[k].epoch = e1 /\ (k[2] = "log" /\ Clearing(k[1]))'
    BY <1>0, <1>3, <1>4, <1>7, <2>1 DEF Log
  <2>3. k \in lapsed' \/ e1 <= epoch'[k[1]]
    BY <1>7 DEF Current
  <2> QED BY <2>2, <2>3, Zenon DEF Current
<1>8. \/ Current(k, v1, e1, x1)'
      \/ k = Log(u) /\ Current(k, v1, e1, TRUE)' /\ \E m \in Answered : IsClear(m) /\ req[m.from].tab = u
  <2> HIDE DEF v, e, x
  <2> QED BY <1>1, <1>5, PageCurrent
<1> QED BY <1>6, <1>7, <1>8

LEMMA PageRows == ASSUME Types, Types', Routed, RowsGood, NEW u \in Tabs, PageStep(u) PROVE RowsGood'
<1>0. req' = req
  BY DEF PageStep, Frame
<1> SUFFICES ASSUME NEW j \in running', j.op = "row", Awaited(j) PROVE Current(Row(j.tab), j.val, j.epoch, j.at = "begun")'
  BY <1>0, AwaitedStays DEF RowsGood
<1>1. CASE j \in running
  <2>1. j \in JobState
    BY <1>1 DEF Types
  <2>2. Row(j.tab) \in Keys /\ j.epoch \in Nat /\ Row(j.tab) # Log(u)
    BY <2>1, KeysOf DEF JobState, Row, Log, ReadOps
  <2>3. Current(Row(j.tab), j.val, j.epoch, j.at = "begun")
    BY <1>1 DEF RowsGood
  <2>4. PICK x \in BOOLEAN : x <=> j.at = "begun"
    OBVIOUS
  <2>5. Current(Row(j.tab), j.val, j.epoch, x)
    BY <2>3, <2>4 DEF Current
  <2>6. Current(Row(j.tab), j.val, j.epoch, x)'
    BY <2>2, <2>5, PageCurrent
  <2> QED BY <2>4, <2>6 DEF Current
<1>2. CASE JobOK(j)
  BY <1>2 DEF JobOK
<1> QED BY <1>1, <1>2 DEF PageStep, JobStep

\* A reply in the queue keeps its place, and the clear that excuses it stays behind it.
LEMMA PageReplies == ASSUME Types, Types', RepliesGood, NEW u \in Tabs, PageStep(u) PROVE RepliesGood'
<1>0. req' = req
  BY DEF PageStep, Frame
<1> SUFFICES ASSUME NEW t \in Tabs, NEW op \in ReadOps, NEW i \in DOMAIN outbox'[t], Reads(outbox'[t][i], op)
             PROVE  Current(<<t, op>>, outbox[t][i].val, outbox[t][i].epoch, op = "log" /\ ClearAfter(t, i))'
  BY <1>0, AwaitedStays DEF RepliesGood, Reads
<1>1. PICK r : r = outbox'[t][i]
  OBVIOUS
<1>2. SUFFICES \E x \in BOOLEAN : (x => op = "log" /\ ClearAfter(t, i)') /\ Current(<<t, op>>, r.val, r.epoch, x)'
  BY <1>1 DEF Current
<1>3. <<t, op>> \in Keys
  BY KeysOf
<1>4. ASSUME i \in DOMAIN outbox[t], outbox[t][i] = r, ClearAfter(t, i) => ClearAfter(t, i)',
             ASSUME NEW m \in Answered, Adds(u, m), IsClear(m), <<t, op>> = Log(u) PROVE ClearAfter(t, i)'
      PROVE  \E x \in BOOLEAN : (x => op = "log" /\ ClearAfter(t, i)') /\ Current(<<t, op>>, r.val, r.epoch, x)'
  <2>1. Current(<<t, op>>, r.val, r.epoch, op = "log" /\ ClearAfter(t, i)) /\ r.epoch \in Nat
    <3>1. r \in Answered
      BY <1>4 DEF Types
    <3> QED BY <1>1, <1>4, <3>1 DEF RepliesGood, Answered
  <2>2. PICK x \in BOOLEAN : x <=> (op = "log" /\ ClearAfter(t, i))
    <3>1. CASE op = "log" /\ ClearAfter(t, i)
      BY <3>1
    <3>2. CASE ~(op = "log" /\ ClearAfter(t, i))
      BY <3>2
    <3> QED BY <3>1, <3>2
  <2>3. Current(<<t, op>>, r.val, r.epoch, x)
    BY <2>1, <2>2 DEF Current
  <2>4. \/ Current(<<t, op>>, r.val, r.epoch, x)'
        \/ <<t, op>> = Log(u) /\ Current(<<t, op>>, r.val, r.epoch, TRUE)' /\ \E m \in Answered : Adds(u, m) /\ IsClear(m)
    <3>1. PICK k \in Keys, e \in Nat : k = <<t, op>> /\ e = r.epoch
      BY <1>3, <2>1
    <3>2. Current(k, r.val, e, x)
      BY <2>3, <3>1
    <3>3. \/ Current(k, r.val, e, x)'
          \/ k = Log(u) /\ Current(k, r.val, e, TRUE)' /\ \E m \in Answered : Adds(u, m) /\ IsClear(m) /\ req[m.from].tab = u
      BY <3>2, PageCurrent
    <3> QED BY <3>1, <3>3
  <2>5. CASE Current(<<t, op>>, r.val, r.epoch, x)'
    BY <1>4, <2>2, <2>5
  <2>6. CASE <<t, op>> = Log(u) /\ Current(<<t, op>>, r.val, r.epoch, TRUE)' /\ \E m \in Answered : Adds(u, m) /\ IsClear(m)
    <3>1. op = "log" /\ ClearAfter(t, i)'
      BY <1>4, <2>6 DEF Log
    <3> QED BY <2>6, <3>1
  <2> QED BY <2>4, <2>5, <2>6
<1>5. CASE outbox' = outbox
  <2>1. ClearAfter(t, i) => ClearAfter(t, i)'
    BY <1>0, <1>5, AwaitedStays DEF ClearAfter
  <2>2. ASSUME NEW m \in Answered, Adds(u, m) PROVE FALSE
    <3>1. Len(outbox[u]) + 1 \in DOMAIN outbox[u] /\ Len(outbox[u]) + 1 < Len(outbox[u]) + 1
      BY <1>5, <2>2, OutAfter
    <3>2. Len(outbox[u]) \in Nat
      BY DEF Types
    <3> QED BY <3>1, <3>2
  <2> QED BY <1>1, <1>4, <1>5, <2>1, <2>2
<1>6. ASSUME NEW m \in Answered, Adds(u, m), AnswerOK(u, m)
      PROVE  \E x \in BOOLEAN : (x => op = "log" /\ ClearAfter(t, i)') /\ Current(<<t, op>>, r.val, r.epoch, x)'
  <2>1. CASE i \in DOMAIN outbox[t]
    <3>1. outbox[t][i] = r
      BY <1>1, <1>6, <2>1, OutAfter
    <3>2. ClearAfter(t, i) => ClearAfter(t, i)'
      BY <1>0, <1>6, OutAfter, AwaitedStays DEF ClearAfter
    <3>3. ASSUME NEW l \in Answered, Adds(u, l), IsClear(l), <<t, op>> = Log(u) PROVE ClearAfter(t, i)'
      <4>1. t = u
        BY <3>3 DEF Log
      <4>2. Len(outbox[u]) + 1 \in DOMAIN outbox'[u] /\ outbox'[u][Len(outbox[u]) + 1] = l /\ i < Len(outbox[u]) + 1
        BY <2>1, <3>3, <4>1, OutAfter
      <4>3. (IsClear(outbox[u][Len(outbox[u]) + 1]))' \/ \A n \in {Len(outbox[u]) + 1} : IsClear(outbox'[u][n])
        BY <3>3, <4>2
      <4>4. \A n \in DOMAIN outbox'[u] : IsClear(outbox'[u][n]) => (n > i => ClearAfter(t, i)')
        BY <1>0, <4>1, AwaitedStays DEF ClearAfter
      <4>5. Len(outbox[u]) + 1 > i /\ IsClear(outbox'[u][Len(outbox[u]) + 1])
        BY <3>3, <4>2, OutAfter, <2>1, <4>1
      <4> QED BY <4>2, <4>4, <4>5
    <3> QED BY <1>4, <2>1, <3>1, <3>2, <3>3
  <2>2. CASE i \notin DOMAIN outbox[t]
    <3>1. t = u /\ r = m
      BY <1>1, <1>6, <2>2, OutAfter
    <3>2. Current(<<t, op>>, r.val, r.epoch, FALSE)'
      BY <1>1, <1>6, <3>1 DEF AnswerOK
    <3> QED BY <3>2
  <2> QED BY <2>1, <2>2
<1> QED BY <1>5, <1>6 DEF PageStep, OutStep

LEMMA PageProbes == ASSUME Types, Types', Routed, ProbesGood, NEW u \in Tabs, PageStep(u) PROVE ProbesGood'
<1>0. req' = req /\ lapsed \subseteq lapsed'
  BY DEF PageStep, Frame
<1>1. ASSUME NEW c \in Clients, req[c].pc = "probe" PROVE req[c].entry.epoch \in Nat
  BY <1>1 DEF Routed, Cached
<1>2. ASSUME NEW c \in Clients, Fresh(c) PROVE Fresh(c)'
  BY <1>0, <1>2 DEF Fresh, Key
<1>3. ASSUME NEW c \in Clients, req[c].pc = "probe" PROVE Fresh(c)' \/ req[c].entry.epoch < epoch'[req[c].tab]
  <2>1. Key(c) \in Keys /\ Key(c)[1] = req[c].tab
    BY <1>3, KeysOf DEF Routed, Key
  <2>2. epoch[req[c].tab] \in Nat /\ epoch'[req[c].tab] \in Nat
    BY <1>3 DEF Routed, Types
  <2>3. Key(c) \in lapsed' \/ epoch[req[c].tab] <= epoch'[req[c].tab]
    BY <2>1, <2>2 DEF PageStep, AllSteady, Steady, Cleared
  <2>4. Key(c) \in lapsed' => Fresh(c)'
    BY <1>0 DEF Fresh, Key
  <2> QED BY <1>1, <1>2, <1>3, <2>2, <2>3, <2>4 DEF ProbesGood
<1>4. ASSUME NEW t \in Tabs, NEW i \in DOMAIN outbox'[t], NEW r \in Answered, r = outbox'[t][i], Awaited(r),
             req[r.from].pc = "probe"
      PROVE  Fresh(r.from)' \/ req[r.from].entry.epoch < r.epoch
  <2>0. r.from \in Clients
    BY DEF Answered
  <2>1. CASE i \in DOMAIN outbox[t] /\ outbox'[t][i] = outbox[t][i]
    <3>1. Fresh(r.from) \/ req[r.from].entry.epoch < r.epoch
      BY <1>4, <2>1 DEF ProbesGood
    <3> QED BY <1>2, <2>0, <3>1
  <2>2. CASE AnswerOK(u, r) /\ t = u
    <3>1. r.epoch = epoch[u] /\ req[r.from].tab = u
      BY <1>4, <2>2 DEF AnswerOK
    <3>2. Fresh(r.from) \/ req[r.from].entry.epoch < epoch[u]
      BY <1>4, <2>0, <3>1 DEF ProbesGood
    <3> QED BY <1>2, <2>0, <3>1, <3>2
  <2>3. CASE outbox' = outbox
    BY <2>1, <2>3
  <2>4. ASSUME NEW m \in Answered, Adds(u, m), AnswerOK(u, m)
        PROVE  (i \in DOMAIN outbox[t] /\ outbox'[t][i] = outbox[t][i]) \/ (t = u /\ AnswerOK(u, r))
    BY <1>4, <2>4, OutAfter
  <2> QED BY <2>1, <2>2, <2>3, <2>4 DEF PageStep, OutStep
<1>5. \A t \in Tabs : \A i \in DOMAIN outbox'[t] : outbox'[t][i] \in Answered
  <2>1. \A t \in Tabs : outbox'[t] \in Seq(Answered)
    BY DEF Types
  <2> QED BY <2>1
<1>6. ASSUME NEW t \in Tabs, NEW i \in DOMAIN outbox'[t], Awaited(outbox'[t][i]), req[outbox'[t][i].from].pc = "probe"
      PROVE  (LET r == outbox[t][i] IN Fresh(r.from) \/ req[r.from].entry.epoch < r.epoch)'
  <2>1. PICK r \in Answered : r = outbox'[t][i]
    BY <1>5
  <2>2. Fresh(r.from)' \/ req[r.from].entry.epoch < r.epoch
    BY <1>4, <1>6, <2>1
  <2> QED BY <1>0, <2>1, <2>2 DEF Fresh, Key
<1> QED BY <1>0, <1>3, <1>6, AwaitedStays DEF ProbesGood

-----------------------------------------------------------------------------
\* Every step of a page is one.
Known == Types /\ Types' /\ IdsUsed /\ Routed /\ ClearOnce /\ RowsGood

LEMMA SteadyWhole == ASSUME Types, db' = db, log' = log, epoch' = epoch PROVE \A k \in Keys : Steady(k)
BY DEF Types, Steady, Now, Keys

LEMMA SteadyMoved ==
  ASSUME Types, NEW t \in Tabs, epoch' = [epoch EXCEPT ![t] = @ + 1], \A u \in Tabs : u # t => log'[u] = log[u],
         db' = db \/ \A u \in Tabs : u # t => Row(u) \in lapsed'
  PROVE  \A k \in Keys : Steady(k)
<1> TAKE k \in Keys
<1>1. k[1] \in Tabs /\ k[2] \in ReadOps /\ k = <<k[1], k[2]>> /\ epoch[k[1]] \in Nat
  BY DEF Keys, Types
<1>2. CASE k[1] = t
  <2>1. epoch'[t] = epoch[t] + 1
    BY DEF Types
  <2> QED BY <1>1, <1>2, <2>1 DEF Steady
<1>3. CASE k[1] # t
  <2>1. epoch'[k[1]] = epoch[k[1]]
    BY <1>1, <1>3 DEF Types
  <2>2. k[2] = "row" => db' = db \/ k \in lapsed'
    BY <1>1, <1>3 DEF Row
  <2> QED BY <1>1, <1>3, <2>1, <2>2 DEF Steady, Now
<1> QED BY <1>2, <1>3

LEMMA Given ==
  ASSUME NEW t, NEW r, NEW v, NEW e, Reply(t, r, v, e)
  PROVE  Adds(t, [from |-> r.from, id |-> r.id, val |-> v, epoch |-> e])
BY DEF Reply, Adds

\* The reply to the command at the head of the queue.
LEMMA ServedReply ==
  ASSUME Known, NEW t \in Tabs, inbox[t] # <<>>, inbox' = [inbox EXCEPT ![t] = Tail(@)], NEW m, m = Head(inbox[t]),
         NEW v \in Nat, NEW e \in Nat, e = epoch[t], Reply(t, m, v, e),
         \A op \in ReadOps : Reads(m, op) => Current(<<t, op>>, v, e, FALSE)'
  PROVE  OutStep(t)
<1> DEFINE r == [from |-> m.from, id |-> m.id, val |-> v, epoch |-> e]
<1>0. inbox \in [Tabs -> Seq(Command)]
  BY DEF Known, Types
<1>1. m \in Command /\ 1 \in DOMAIN inbox[t] /\ m = inbox[t][1] /\ inbox'[t] = Tail(inbox[t])
      /\ \A i \in DOMAIN Tail(inbox[t]) : i \in Nat /\ i + 1 > 1 /\ i + 1 \in DOMAIN inbox[t] /\ Tail(inbox[t])[i] = inbox[t][i + 1]
  BY <1>0, Tailed
<1>2. r \in Answered /\ Adds(t, r)
  <2>1. m.from \in Clients /\ m.id \in Nat
    BY <1>1 DEF Command
  <2> QED BY <2>1, Given DEF Answered
<1>3. (Awaited(r) <=> Awaited(m)) /\ (IsClear(r) <=> IsClear(m)) /\ \A op : Reads(r, op) <=> Reads(m, op)
  BY DEF Awaited, IsClear, Reads
<1>4. r.id < nextId /\ (Awaited(r) => req[r.from].tab = t)
  <2>1. m.id < nextId
    BY <1>1 DEF Known, IdsUsed
  <2>2. Awaited(m) => req[m.from].tab = t
    BY <1>1 DEF Known, Routed
  <2> QED BY <1>3, <2>1, <2>2
<1>5. ASSUME IsClear(r)
      PROVE  /\ \A n \in DOMAIN outbox[t] : ~Same(outbox[t][n], r)
             /\ \A n \in DOMAIN inbox'[t] : ~Same(inbox'[t][n], r)
  <2>1. IsClear(inbox[t][1])
    BY <1>1, <1>3, <1>5
  <2>2. \A a : Same(a, r) <=> Same(a, inbox[t][1])
    BY <1>1 DEF Same
  <2>3. \A n \in DOMAIN outbox[t] : ~Same(outbox[t][n], inbox[t][1])
    BY <1>1, <2>1 DEF Known, ClearOnce
  <2>4. \A n \in DOMAIN inbox[t] : Same(inbox[t][n], inbox[t][1]) => n = 1
    BY <1>1, <2>1 DEF Known, ClearOnce
  <2>5. ASSUME NEW n \in DOMAIN inbox'[t] PROVE ~Same(inbox'[t][n], inbox[t][1])
    <3>1. n \in Nat /\ n + 1 > 1 /\ n + 1 \in DOMAIN inbox[t] /\ inbox'[t][n] = inbox[t][n + 1]
      BY <1>1
    <3>2. Same(inbox[t][n + 1], inbox[t][1]) => n + 1 = 1
      BY <2>4, <3>1
    <3>3. n + 1 # 1
      BY <3>1
    <3> QED BY <3>1, <3>2, <3>3
  <2> QED BY <2>2, <2>3, <2>5
<1>6. \A op \in ReadOps : Reads(r, op) => Current(<<t, op>>, r.val, r.epoch, FALSE)'
  BY <1>3
<1>7. r.epoch = epoch[t]
  OBVIOUS
<1> HIDE DEF r
<1> QED BY <1>2, <1>4, <1>5, <1>6, <1>7 DEF OutStep, AnswerOK

LEMMA InTail ==
  ASSUME Types, NEW t \in Tabs, inbox[t] # <<>>, inbox' = [inbox EXCEPT ![t] = Tail(@)] PROVE InStep
BY DEF InStep, Types

LEMMA ServeSteps == ASSUME Known, NEW t \in Tabs, Serve(t) PROVE PageStep(t)
<1>0. Types /\ inbox[t] # <<>> /\ inbox' = [inbox EXCEPT ![t] = Tail(@)] /\ Frame
  BY DEF Known, Serve, Frame
<1>1. PICK m : m = Head(inbox[t])
  OBVIOUS
<1>2. PICK e \in Nat : e = epoch[t]
  BY <1>0 DEF Types
<1>3. inbox[t] \in Seq(Command)
  BY <1>0 DEF Types
<1>4. m \in Command /\ 1 \in DOMAIN inbox[t] /\ m = inbox[t][1]
  BY <1>0, <1>1, <1>3, Tailed
<1>5. Awaited(m) => req[m.from].tab = t /\ m.op = IF req[m.from].pc = "probe" THEN "page.epoch" ELSE req[m.from].op
  BY <1>4 DEF Known, Routed
<1>6. m.id < nextId /\ m.from \in Clients /\ NoClient \notin Clients
  BY <1>4, CacheAssumption DEF Known, IdsUsed, Command, CacheAssumption
<1>7. InStep
  BY <1>0, InTail
<1>8. CASE m.op = "page.epoch" /\ Reply(t, m, 0, epoch[t]) /\ UNCHANGED page
  <2>1. ASSUME NEW op \in ReadOps, Reads(m, op) PROVE FALSE
    BY <1>5, <1>8, <2>1 DEF Reads, ReadOps
  <2>2. OutStep(t)
    BY <1>0, <1>1, <1>2, <1>8, <2>1, ServedReply
  <2> QED BY <1>0, <1>7, <1>8, <2>2, SteadyWhole DEF page, PageStep, AllSteady, JobStep
<1>9. CASE m.op = "log" /\ Reply(t, m, log[t], epoch[t]) /\ UNCHANGED page
  <2>0. PICK v \in Nat : v = log[t]
    BY <1>0 DEF Types
  <2>1. ASSUME NEW op \in ReadOps, Reads(m, op) PROVE Current(<<t, op>>, v, e, FALSE)'
    <3>1. op = "log"
      BY <1>5, <1>9, <2>1 DEF Reads
    <3> QED BY <1>2, <1>9, <2>0, <3>1 DEF Current, Now, page
  <2>2. OutStep(t)
    BY <1>0, <1>1, <1>2, <1>9, <2>0, <2>1, ServedReply
  <2> QED BY <1>0, <1>7, <1>9, <2>2, SteadyWhole DEF page, PageStep, AllSteady, JobStep
<1>10. CASE /\ m.op = "clear" /\ log' = [log EXCEPT ![t] = @ + 1] /\ Reply(t, m, 0, epoch[t])
            /\ UNCHANGED <<db, epoch, running>>
  <2>1. ASSUME NEW op \in ReadOps, Reads(m, op) PROVE FALSE
    BY <1>5, <1>10, <2>1 DEF Reads, ReadOps
  <2>2. OutStep(t)
    BY <1>0, <1>1, <1>2, <1>10, <2>1, ServedReply
  <2>3. Cleared(t)
    <3> DEFINE r == [from |-> m.from, id |-> m.id, val |-> 0, epoch |-> e]
    <3>1. r \in Answered /\ Adds(t, r)
      BY <1>2, <1>4, <1>10, Given DEF Answered, Command
    <3>2. Awaited(m) => IsClear(r) /\ req[r.from].tab = t
      <4>1. req[m.from].pc \in {"idle", "probe", "wait"}
        BY <1>0, <1>6 DEF Types, ReqState
      <4> QED BY <1>5, <1>10, <4>1 DEF Awaited, IsClear
    <3>3. Awaited(m) \/ Log(t) \in lapsed
      BY <1>4, <1>10 DEF Known, ClearOnce
    <3> HIDE DEF r
    <3> QED BY <1>10, <3>1, <3>2, <3>3 DEF Cleared
  <2>4. ASSUME NEW k \in Keys, k # Log(t) PROVE Steady(k)
    <3>1. k[1] \in Tabs /\ k[2] \in ReadOps /\ k = <<k[1], k[2]>> /\ epoch[k[1]] \in Nat
      BY <1>0 DEF Keys, Types
    <3>2. k[2] = "row" \/ k[1] # t
      BY <2>4, <3>1 DEF Log, ReadOps
    <3>3. Now(k)' = Now(k)
      BY <1>0, <1>10, <3>1, <3>2 DEF Now, Types
    <3> QED BY <1>10, <3>1, <3>3 DEF Steady
  <2> QED BY <1>0, <1>7, <1>10, <2>2, <2>3, <2>4 DEF PageStep, AllSteady, JobStep
<1>11. ASSUME NEW op \in {"row", "put"}, m.op = op, running' = running \cup {Job(t, op, m)},
              (op = "row" /\ Awaited(m)) => epoch' = epoch
       PROVE  JobStep
  <2>1. PICK j : j = Job(t, op, m)
    OBVIOUS
  <2>2. j.from = m.from /\ j.id = m.id /\ j.op = op /\ j.tab = t /\ j.at = "begun" /\ j.epoch = e
    BY <1>2, <2>1 DEF Job
  <2>3. Awaited(j) <=> Awaited(m)
    BY <2>2 DEF Awaited
  <2>4. Awaited(m) => req[m.from].pc = "wait" /\ req[m.from].tab = t /\ req[m.from].op = op
    <3>1. Awaited(m) => req[m.from].pc \in {"probe", "wait"}
      BY <1>0, <1>6 DEF Awaited, Types, ReqState
    <3> QED BY <1>5, <1>11, <3>1
  <2>5. op = "row" /\ Awaited(m) => Current(Row(j.tab), j.val, j.epoch, TRUE)'
    BY <1>2, <1>11, <2>2 DEF Current, Row
  <2>6. JobOK(j)
    <3>1. (j.at = "begun") = TRUE
      BY <2>2
    <3> QED BY <1>6, <2>2, <2>3, <2>4, <2>5, <3>1 DEF JobOK
  <2> QED BY <1>11, <2>1, <2>6 DEF JobStep
<1>12. CASE m.op = "row" /\ running' = running \cup {Job(t, "row", m)} /\ UNCHANGED <<db, log, epoch, outbox>>
  BY <1>0, <1>7, <1>11, <1>12, SteadyWhole DEF PageStep, AllSteady, OutStep
<1>13. CASE m.op = "put" /\ CallPut(t, m) /\ UNCHANGED <<db, log, outbox>>
  <2>1. \A k \in Keys : Steady(k)
    BY <1>0, <1>13, SteadyMoved DEF CallPut
  <2>2. JobStep
    BY <1>11, <1>13 DEF CallPut
  <2> QED BY <1>0, <1>7, <1>13, <2>1, <2>2 DEF PageStep, AllSteady, OutStep
<1> QED BY <1>1, <1>8, <1>9, <1>10, <1>12, <1>13 DEF Serve

\* The answer of asynchronous work.
LEMMA JobAnswer ==
  ASSUME Known, NEW j \in running, j.from \in Clients, NEW v \in Nat, inbox' = inbox, Reply(j.tab, j, v, j.epoch),
         \A op \in ReadOps : Reads(j, op) => Current(<<j.tab, op>>, v, j.epoch, FALSE)'
  PROVE  OutStep(j.tab)
<1> DEFINE r == [from |-> j.from, id |-> j.id, val |-> v, epoch |-> j.epoch]
<1>1. j \in JobState /\ j.from # NoClient
  BY CacheAssumption DEF Known, Types, CacheAssumption
<1>2. r \in Answered /\ Adds(j.tab, r)
  BY <1>1, Given DEF Answered, JobState
<1>3. (Awaited(r) <=> Awaited(j)) /\ (IsClear(r) <=> IsClear(j)) /\ \A op : Reads(r, op) <=> Reads(j, op)
  BY DEF Awaited, IsClear, Reads
<1>4. Awaited(j) => req[j.from].pc = "wait" /\ req[j.from].tab = j.tab /\ req[j.from].op = j.op
  BY <1>1 DEF Known, Routed
<1>5. ~IsClear(j)
  BY <1>1, <1>4 DEF IsClear, JobState
<1>6. j.id < nextId
  BY <1>1 DEF Known, IdsUsed
<1>7. r.id = j.id /\ r.from = j.from /\ r.val = v /\ r.epoch = j.epoch
  OBVIOUS
<1> HIDE DEF r
<1> QED BY <1>2, <1>3, <1>4, <1>5, <1>6, <1>7 DEF OutStep, AnswerOK

LEMMA JobSteps == ASSUME Known, NEW j \in running, ReadRow(j) \/ FinishRead(j) \/ Commit(j) PROVE PageStep(j.tab)
<1>0. Types /\ Types' /\ j \in JobState /\ j.tab \in Tabs /\ Frame
  BY DEF Known, Types, JobState, ReadRow, FinishRead, Commit, Frame
<1>1. /\ j.op = "row" => j.from \in Clients /\ j.from # NoClient
      /\ j.from # NoClient => j.from \in Clients /\ j.id < nextId
  BY <1>0 DEF Known, Routed, IdsUsed, JobState
<1>2. j.from # NoClient /\ Awaited(j) => req[j.from].pc = "wait" /\ req[j.from].tab = j.tab /\ req[j.from].op = j.op
  BY DEF Known, Routed
<1>3. j.op = "row" /\ Awaited(j) => Current(Row(j.tab), j.val, j.epoch, j.at = "begun")
  BY DEF Known, RowsGood
<1>4. InStep
  BY DEF InStep, ReadRow, FinishRead, Commit
<1>5. CASE ReadRow(j)
  <2>1. PICK l : l = [j EXCEPT !.at = "read", !.val = db]
    OBVIOUS
  <2>2. l.from = j.from /\ l.id = j.id /\ l.op = j.op /\ l.tab = j.tab /\ l.epoch = j.epoch /\ l.val = db
    BY <1>0, <2>1 DEF JobState
  <2>3. Awaited(l) <=> Awaited(j)
    BY <2>2 DEF Awaited
  <2>4. l.op = "row" /\ Awaited(l) => Current(Row(l.tab), l.val, l.epoch, FALSE)'
    BY <1>3, <1>5, <2>2, <2>3 DEF Current, Row, Now, ReadRow
  <2>5. l.op = "row" /\ Awaited(l) => Current(Row(l.tab), l.val, l.epoch, l.at = "begun")'
    BY <2>4 DEF Current
  <2>6. JobOK(l)
    <3>1. l.from # NoClient => l.id < nextId
      BY <1>1, <2>2
    <3>2. l.op = "row" => l.from # NoClient
      BY <1>1, <2>2
    <3>3. l.from # NoClient /\ Awaited(l) => req[l.from].pc = "wait" /\ req[l.from].tab = l.tab /\ req[l.from].op = l.op
      BY <1>2, <2>2, <2>3
    <3> QED BY <2>5, <3>1, <3>2, <3>3 DEF JobOK
  <2>7. JobStep
    BY <1>5, <2>1, <2>6 DEF JobStep, ReadRow
  <2> QED BY <1>0, <1>4, <1>5, <2>7, SteadyWhole DEF PageStep, AllSteady, OutStep, ReadRow
<1>6. CASE FinishRead(j)
  <2>1. ASSUME NEW op \in ReadOps, Reads(j, op) PROVE Current(<<j.tab, op>>, j.val, j.epoch, FALSE)'
    <3>1. op = "row" /\ Awaited(j)
      BY <1>1, <1>2, <1>6, <2>1 DEF Reads, FinishRead
    <3>2. j.at # "begun" /\ db' = db /\ log' = log /\ epoch' = epoch /\ lapsed' = lapsed
      BY <1>6 DEF FinishRead
    <3> QED BY <1>3, <1>6, <3>1, <3>2 DEF Current, Row, Now, FinishRead
  <2>2. OutStep(j.tab)
    <3>1. j.val \in Nat /\ j.epoch \in Nat
      BY <1>0 DEF JobState
    <3> QED BY <1>1, <1>6, <2>1, <3>1, JobAnswer DEF FinishRead, EpochBefore
  <2> QED BY <1>0, <1>4, <1>6, <2>2, SteadyWhole DEF PageStep, AllSteady, JobStep, FinishRead
<1>7. CASE Commit(j)
  <2>1. OutStep(j.tab)
    <3>1. CASE j.from = NoClient
      BY <1>7, <3>1 DEF Commit, OutStep
    <3>2. CASE j.from # NoClient
      <4>1. ASSUME NEW op \in ReadOps, Reads(j, op) PROVE FALSE
        BY <1>2, <1>7, <3>2, <4>1 DEF Reads, Commit, ReadOps
      <4> QED BY <1>1, <1>7, <3>2, <4>1, JobAnswer DEF Commit, EpochBefore
    <3> QED BY <3>1, <3>2
  <2>2. \A k \in Keys : Steady(k)
    BY <1>0, <1>7, SteadyMoved DEF Commit, CountedCommit, Row
  <2> QED BY <1>0, <1>4, <1>7, <2>1, <2>2 DEF PageStep, AllSteady, JobStep, Commit
<1> QED BY <1>5, <1>6, <1>7

LEMMA MoveSteps == ASSUME Known, NEW t \in Tabs, AppWrite(t) \/ AppFetch(t) \/ Reload(t) PROVE PageStep(t)
<1>0. Types /\ Types' /\ Frame /\ OutStep(t)
  BY DEF Known, AppWrite, AppFetch, Reload, Frame, OutStep
<1>1. InStep
  BY <1>0 DEF InStep, AppWrite, AppFetch, Reload, Types
<1>2. CASE AppWrite(t)
  <2>1. PICK j : j = Job(t, "put", [from |-> NoClient, id |-> moves])
    OBVIOUS
  <2>2. JobOK(j)
    BY <2>1 DEF JobOK, Job
  <2>3. JobStep
    BY <1>2, <2>1, <2>2 DEF AppWrite, CallPut, JobStep
  <2>4. \A k \in Keys : Steady(k)
    BY <1>0, <1>2, SteadyMoved DEF AppWrite, CallPut
  <2> QED BY <1>0, <1>1, <2>3, <2>4 DEF PageStep, AllSteady
<1>3. CASE AppFetch(t)
  <2>1. \A u \in Tabs : u # t => log'[u] = log[u]
    BY <1>0, <1>3 DEF AppFetch, Types
  <2>2. \A k \in Keys : Steady(k)
    BY <1>0, <1>3, <2>1, SteadyMoved DEF AppFetch
  <2> QED BY <1>0, <1>1, <1>3, <2>2 DEF PageStep, AllSteady, JobStep, AppFetch
<1>4. CASE Reload(t)
  <2>1. ASSUME NEW k \in Keys PROVE Steady(k)
    <3>1. k[1] \in Tabs /\ k[2] \in ReadOps /\ k = <<k[1], k[2]>> /\ epoch[k[1]] \in Nat
      BY <1>0 DEF Keys, Types
    <3>2. CASE k[1] = t
      BY <1>4, <3>1, <3>2 DEF Reload, Steady
    <3>3. CASE k[1] # t
      <4>1. epoch'[k[1]] = epoch[k[1]] /\ log'[k[1]] = log[k[1]] /\ db' = db
        BY <1>0, <1>4, <3>1, <3>3 DEF Reload, Types
      <4> QED BY <3>1, <4>1 DEF Steady, Now
    <3> QED BY <3>2, <3>3
  <2> QED BY <1>0, <1>1, <1>4, <2>1 DEF PageStep, AllSteady, JobStep, Reload
<1> QED BY <1>2, <1>3, <1>4

LEMMA PageKeeps ==
  ASSUME Types, Types', IdsUsed, Routed, ClearOnce, CacheGood, RowsGood, RepliesGood, ProbesGood, NEW u \in Tabs, PageStep(u)
  PROVE  (IdsUsed /\ Routed /\ ClearOnce /\ CacheGood /\ RowsGood /\ RepliesGood /\ ProbesGood)'
BY PageIds, PageRouted, PageClearOnce, PageCache, PageRows, PageReplies, PageProbes

-----------------------------------------------------------------------------
\* A step of the relay for client c: the pages stay, the replies of at most one queue move up, and c's request is
\* over, new, or as it was.  A clear that is over was answered, or its log lapses.
Asks(c) ==
  LET q == req'[c] IN
  /\ q.pc \in {"probe", "wait"} /\ q.id = nextId /\ q.tab \in Tabs /\ q.op \in Ops
  /\ q.pc = "probe" => q.op \in ReadOps /\ q.entry \in Cached
  /\ Sent(c, IF q.pc = "probe" THEN "page.epoch" ELSE q.op, q.tab)
HeadIs(t, c) == outbox[t] # <<>> /\ Head(outbox[t]).from = c /\ Head(outbox[t]).id = req[c].id
RelayStep(c) ==
  /\ db' = db /\ log' = log /\ epoch' = epoch /\ running' = running /\ lapsed \subseteq lapsed'
  /\ counter' \in {counter, counter + 1}
  /\ \A d \in Clients : d # c => req'[d] = req[d]
  /\ \A t \in Tabs : outbox'[t] = outbox[t] \/ (outbox[t] # <<>> /\ outbox'[t] = Tail(outbox[t]))
  /\ \/ req'[c].pc = "idle" /\ nextId' = nextId /\ inbox' = inbox
     \/ Asks(c)
     \/ req'[c] = req[c] /\ nextId' = nextId /\ inbox' = inbox
  /\ req[c].pc = "wait" /\ req[c].op = "clear" /\ req'[c] # req[c] =>
       Log(req[c].tab) \in lapsed' \/ (counter' = counter + 1 /\ \E t \in Tabs : HeadIs(t, c))

\* What was on the way before the step and is awaited after it is of a request the step left alone.
LEMMA OldAwaited ==
  ASSUME Types, NEW c \in Clients, RelayStep(c), NEW r, r.from \in Clients, r.id \in Nat, r.id < nextId
  PROVE  /\ Awaited(r)' => Awaited(r) /\ req'[r.from] = req[r.from]
         /\ IsClear(r)' => IsClear(r) /\ req'[r.from] = req[r.from]
         /\ \A op : Reads(r, op)' => Reads(r, op) /\ req'[r.from] = req[r.from]
<1>1. nextId \in Nat
  BY DEF Types
<1>2. Awaited(r)' => Awaited(r) /\ req'[r.from] = req[r.from]
  BY <1>1 DEF RelayStep, Asks, Awaited
<1> QED BY <1>2 DEF IsClear, Reads, Awaited

LEMMA RelayIn ==
  ASSUME Types, NEW c \in Clients, RelayStep(c), NEW t \in Tabs
  PROVE  /\ \A i \in DOMAIN inbox'[t] :
              \/ i \in DOMAIN inbox[t] /\ inbox'[t][i] = inbox[t][i]
              \/ /\ i = Len(inbox[t]) + 1 /\ nextId' = nextId + 1 /\ Asks(c) /\ t = req'[c].tab
                 /\ inbox'[t][i] = [from |-> c, id |-> nextId,
                                    op |-> IF req'[c].pc = "probe" THEN "page.epoch" ELSE req'[c].op]
         /\ nextId' \in {nextId, nextId + 1}
<1>0. inbox[t] \in Seq(Command)
  BY DEF Types
<1>1. CASE inbox' = inbox /\ nextId' = nextId
  BY <1>1
<1>2. CASE Asks(c)
  <2> DEFINE x == [from |-> c, id |-> nextId, op |-> IF req'[c].pc = "probe" THEN "page.epoch" ELSE req'[c].op]
  <2>1. x \in Command
    BY <1>2 DEF Asks, Command, Types
  <2>2. inbox' = [inbox EXCEPT ![req'[c].tab] = Append(@, x)] /\ nextId' = nextId + 1
    BY <1>2 DEF Asks, Sent
  <2>3. CASE t = req'[c].tab
    <3>1. inbox'[t] = Append(inbox[t], x)
      BY <2>2, <2>3 DEF Types
    <3> HIDE DEF x
    <3>2. \A i \in DOMAIN inbox'[t] : (i \in DOMAIN inbox[t] /\ inbox'[t][i] = inbox[t][i]) \/ (i = Len(inbox[t]) + 1 /\ inbox'[t][i] = x)
      BY <1>0, <2>1, <3>1, Appended
    <3> QED BY <1>2, <2>2, <2>3, <3>2 DEF x
  <2>4. CASE t # req'[c].tab
    <3>1. inbox'[t] = inbox[t]
      BY <2>2, <2>4 DEF Types
    <3> QED BY <2>2, <3>1
  <2> QED BY <2>3, <2>4
<1> QED BY <1>1, <1>2 DEF RelayStep

LEMMA RelayOut ==
  ASSUME Types, NEW c \in Clients, RelayStep(c), NEW t \in Tabs
  PROVE  \E d \in {0, 1} :
           /\ \A i \in DOMAIN outbox'[t] : i \in Nat /\ i + d \in DOMAIN outbox[t] /\ outbox'[t][i] = outbox[t][i + d]
           /\ \A n \in DOMAIN outbox[t] : n \in Nat /\ (n # 1 => n - d \in DOMAIN outbox'[t] /\ outbox'[t][n - d] = outbox[t][n])
<1>0. outbox[t] \in Seq(Answered)
  BY DEF Types
<1>1. CASE outbox'[t] = outbox[t]
  <2>1. \A i \in DOMAIN outbox[t] : i \in Nat /\ i + 0 = i /\ i - 0 = i
    BY <1>0
  <2> QED BY <1>1, <2>1
<1>2. CASE outbox[t] # <<>> /\ outbox'[t] = Tail(outbox[t])
  BY <1>0, <1>2, Tailed
<1> QED BY <1>1, <1>2 DEF RelayStep

\* The messages on the way are of clients, with ids that are in use.
LEMMA OnTheWay ==
  ASSUME Types, IdsUsed
  PROVE  /\ \A t \in Tabs : \A i \in DOMAIN inbox[t] :
              inbox[t][i].from \in Clients /\ inbox[t][i].id \in Nat /\ inbox[t][i].id < nextId
         /\ \A t \in Tabs : \A i \in DOMAIN outbox[t] :
              outbox[t][i].from \in Clients /\ outbox[t][i].id \in Nat /\ outbox[t][i].id < nextId
              /\ outbox[t][i].val \in Nat /\ outbox[t][i].epoch \in Nat
         /\ \A j \in running : j.from # NoClient => j.from \in Clients /\ j.id \in Nat /\ j.id < nextId
<1>1. ASSUME NEW t \in Tabs PROVE inbox[t] \in Seq(Command) /\ outbox[t] \in Seq(Answered)
  BY DEF Types
<1>2. \A t \in Tabs : \A i \in DOMAIN inbox[t] : inbox[t][i] \in Command
  BY <1>1
<1>3. \A t \in Tabs : \A i \in DOMAIN outbox[t] : outbox[t][i] \in Answered
  BY <1>1
<1>4. \A j \in running : j \in JobState
  BY DEF Types
<1> QED BY <1>2, <1>3, <1>4 DEF Command, Answered, JobState, IdsUsed

LEMMA RelayIds == ASSUME Types, IdsUsed, NEW c \in Clients, RelayStep(c) PROVE IdsUsed'
<1>0. nextId \in Nat
  BY DEF Types
<1>1. nextId' \in {nextId, nextId + 1}
  BY DEF RelayStep, Asks, Sent
<1>2. ASSUME NEW d \in Clients, req'[d].pc # "idle" PROVE req'[d].id < nextId'
  <2>1. CASE req'[d] = req[d]
    <3>1. req[d].id \in Nat /\ req[d].id < nextId
      BY <1>2, <2>1 DEF IdsUsed, Types, ReqState
    <3> QED BY <1>0, <1>1, <2>1, <3>1
  <2>2. CASE d = c /\ Asks(c)
    BY <1>0, <2>2 DEF Asks, Sent
  <2> QED BY <1>2, <2>1, <2>2 DEF RelayStep
<1>3. ASSUME NEW t \in Tabs, NEW i \in DOMAIN inbox'[t] PROVE inbox'[t][i].id < nextId'
  <2>1. CASE i \in DOMAIN inbox[t] /\ inbox'[t][i] = inbox[t][i]
    BY <1>0, <1>1, <2>1, OnTheWay
  <2>2. CASE inbox'[t][i].id = nextId /\ nextId' = nextId + 1
    BY <1>0, <2>2
  <2>3. \/ i \in DOMAIN inbox[t] /\ inbox'[t][i] = inbox[t][i]
        \/ nextId' = nextId + 1 /\ inbox'[t][i] = [from |-> c, id |-> nextId,
                                    op |-> IF req'[c].pc = "probe" THEN "page.epoch" ELSE req'[c].op]
    BY RelayIn
  <2> QED BY <2>1, <2>2, <2>3
<1>4. ASSUME NEW t \in Tabs, NEW i \in DOMAIN outbox'[t] PROVE outbox'[t][i].id < nextId'
  <2>1. PICK n \in DOMAIN outbox[t] : outbox'[t][i] = outbox[t][n]
    BY RelayOut
  <2>2. outbox[t][n].id \in Nat /\ outbox[t][n].id < nextId
    BY OnTheWay
  <2> QED BY <1>0, <1>1, <2>1, <2>2
<1>5. ASSUME NEW j \in running', j.from # NoClient PROVE j.id < nextId'
  <2>1. j.id \in Nat /\ j.id < nextId
    BY <1>5, OnTheWay DEF RelayStep
  <2> QED BY <1>0, <1>1, <2>1
<1> QED BY <1>2, <1>3, <1>4, <1>5 DEF IdsUsed

LEMMA RelayRouted == ASSUME Types, IdsUsed, Routed, NEW c \in Clients, RelayStep(c) PROVE Routed'
<1>1. ASSUME NEW d \in Clients, req'[d].pc # "idle"
      PROVE  /\ req'[d].tab \in Tabs /\ req'[d].op \in Ops
             /\ req'[d].pc = "probe" => req'[d].op \in ReadOps /\ req'[d].entry \in Cached
  BY <1>1 DEF RelayStep, Asks, Routed
<1>2. ASSUME NEW t \in Tabs, NEW i \in DOMAIN inbox'[t], Awaited(inbox[t][i])'
      PROVE  LET q == req'[inbox'[t][i].from] IN
             q.tab = t /\ inbox'[t][i].op = IF q.pc = "probe" THEN "page.epoch" ELSE q.op
  <2>1. CASE i \in DOMAIN inbox[t] /\ inbox'[t][i] = inbox[t][i]
    <3>1. PICK r : r = inbox[t][i]
      OBVIOUS
    <3>2. r.from \in Clients /\ r.id \in Nat /\ r.id < nextId
      BY <2>1, <3>1, OnTheWay
    <3>3. Awaited(r)'
      BY <1>2, <2>1, <3>1 DEF Awaited
    <3>4. Awaited(r) /\ req'[r.from] = req[r.from]
      BY <3>2, <3>3, OldAwaited
    <3> QED BY <2>1, <3>1, <3>4 DEF Routed
  <2>2. CASE t = req'[c].tab /\ inbox'[t][i] = [from |-> c, id |-> nextId,
                                    op |-> IF req'[c].pc = "probe" THEN "page.epoch" ELSE req'[c].op]
    BY <2>2
  <2> QED BY <2>1, <2>2, RelayIn
<1>3. ASSUME NEW t \in Tabs, NEW i \in DOMAIN outbox'[t], Awaited(outbox[t][i])' PROVE req'[outbox'[t][i].from].tab = t
  <2>1. PICK n \in DOMAIN outbox[t] : outbox'[t][i] = outbox[t][n]
    BY RelayOut
  <2>2. PICK r : r = outbox[t][n]
    OBVIOUS
  <2>3. r.from \in Clients /\ r.id \in Nat /\ r.id < nextId
    BY <2>2, OnTheWay
  <2>4. Awaited(r)'
    BY <1>3, <2>1, <2>2 DEF Awaited
  <2>5. Awaited(r) /\ req'[r.from] = req[r.from]
    BY <2>3, <2>4, OldAwaited
  <2> QED BY <2>1, <2>2, <2>5 DEF Routed
<1>4. ASSUME NEW j \in running'
      PROVE  /\ j.op = "row" => j.from # NoClient
             /\ j.from # NoClient /\ Awaited(j)' => req'[j.from].pc = "wait" /\ req'[j.from].tab = j.tab /\ req'[j.from].op = j.op
  <2>1. j \in running
    BY DEF RelayStep
  <2>2. j.from # NoClient => j.from \in Clients /\ j.id \in Nat /\ j.id < nextId
    BY <2>1, OnTheWay
  <2>3. j.from # NoClient /\ Awaited(j)' => Awaited(j) /\ req'[j.from] = req[j.from]
    BY <2>2, OldAwaited
  <2> QED BY <2>1, <2>3 DEF Routed
<1> QED BY <1>1, <1>2, <1>3, <1>4 DEF Routed

\* No reply on the way, and no job, waits for the request that starts now.
LEMMA RelayClearOnce == ASSUME Types, IdsUsed, Routed, ClearOnce, NEW c \in Clients, RelayStep(c) PROVE ClearOnce'
<1>1. ASSUME NEW t \in Tabs, NEW i \in DOMAIN inbox'[t], NEW n \in DOMAIN inbox'[t], IsClear(inbox[t][i])',
             Same(inbox'[t][n], inbox'[t][i])
      PROVE  n = i
  <2>1. CASE i \in DOMAIN inbox[t] /\ inbox'[t][i] = inbox[t][i]
    <3>1. PICK r : r = inbox[t][i]
      OBVIOUS
    <3>2. r.from \in Clients /\ r.id \in Nat /\ r.id < nextId
      BY <2>1, <3>1, OnTheWay
    <3>3. IsClear(r)'
      BY <1>1, <2>1, <3>1 DEF IsClear, Awaited
    <3>4. IsClear(r)
      BY <3>2, <3>3, OldAwaited
    <3>5. n \in DOMAIN inbox[t] /\ inbox'[t][n] = inbox[t][n]
      <4>1. CASE inbox'[t][n] = [from |-> c, id |-> nextId,
                                 op |-> IF req'[c].pc = "probe" THEN "page.epoch" ELSE req'[c].op]
        <5>1. r.id = nextId
          BY <1>1, <2>1, <3>1, <4>1 DEF Same
        <5> QED BY <3>2, <5>1 DEF Types
      <4> QED BY <4>1, RelayIn
    <3> QED BY <1>1, <2>1, <3>1, <3>4, <3>5 DEF ClearOnce
  <2>2. CASE i = Len(inbox[t]) + 1 /\ inbox'[t][i].id = nextId
    <3>1. CASE n \in DOMAIN inbox[t] /\ inbox'[t][n] = inbox[t][n]
      <4>1. inbox[t][n].id \in Nat /\ inbox[t][n].id < nextId
        BY <3>1, OnTheWay
      <4> QED BY <1>1, <2>2, <3>1, <4>1 DEF Same, Types
    <3>2. CASE n = Len(inbox[t]) + 1
      BY <2>2, <3>2
    <3> QED BY <3>1, <3>2, RelayIn
  <2>3. \/ i \in DOMAIN inbox[t] /\ inbox'[t][i] = inbox[t][i]
        \/ i = Len(inbox[t]) + 1 /\ inbox'[t][i] = [from |-> c, id |-> nextId,
                                    op |-> IF req'[c].pc = "probe" THEN "page.epoch" ELSE req'[c].op]
    BY RelayIn
  <2> QED BY <2>1, <2>2, <2>3
<1>2. ASSUME NEW t \in Tabs, NEW i \in DOMAIN outbox'[t], NEW n \in DOMAIN outbox'[t], IsClear(outbox[t][i])',
             Same(outbox'[t][n], outbox'[t][i])
      PROVE  n = i
  <2>1. PICK d \in {0, 1} : \A l \in DOMAIN outbox'[t] : l \in Nat /\ l + d \in DOMAIN outbox[t] /\ outbox'[t][l] = outbox[t][l + d]
    BY RelayOut
  <2>2. PICK a \in DOMAIN outbox[t], b \in DOMAIN outbox[t] :
          a = i + d /\ b = n + d /\ outbox'[t][i] = outbox[t][a] /\ outbox'[t][n] = outbox[t][b]
    BY <2>1
  <2>3. PICK r : r = outbox[t][a]
    OBVIOUS
  <2>4. r.from \in Clients /\ r.id \in Nat /\ r.id < nextId
    BY <2>3, OnTheWay
  <2>5. IsClear(r)'
    BY <1>2, <2>2, <2>3 DEF IsClear, Awaited
  <2>6. IsClear(r)
    BY <2>4, <2>5, OldAwaited
  <2>7. b = a
    BY <1>2, <2>2, <2>3, <2>6 DEF ClearOnce
  <2> QED BY <2>1, <2>2, <2>7
<1>3. ASSUME NEW t \in Tabs, NEW i \in DOMAIN inbox'[t], NEW n \in DOMAIN outbox'[t], IsClear(inbox[t][i])',
             Same(outbox'[t][n], inbox'[t][i])
      PROVE  FALSE
  <2>1. PICK b \in DOMAIN outbox[t] : outbox'[t][n] = outbox[t][b]
    BY RelayOut
  <2>2. outbox[t][b].id \in Nat /\ outbox[t][b].id < nextId
    BY OnTheWay
  <2>3. i \in DOMAIN inbox[t] /\ inbox'[t][i] = inbox[t][i]
    <3>1. CASE inbox'[t][i] = [from |-> c, id |-> nextId,
                               op |-> IF req'[c].pc = "probe" THEN "page.epoch" ELSE req'[c].op]
      <4>1. outbox[t][b].id = nextId
        BY <1>3, <2>1, <3>1 DEF Same
      <4> QED BY <2>2, <4>1 DEF Types
    <3> QED BY <3>1, RelayIn
  <2>4. PICK r : r = inbox[t][i]
    OBVIOUS
  <2>5. r.from \in Clients /\ r.id \in Nat /\ r.id < nextId
    BY <2>3, <2>4, OnTheWay
  <2>6. IsClear(r)'
    BY <1>3, <2>3, <2>4 DEF IsClear, Awaited
  <2>7. IsClear(r)
    BY <2>5, <2>6, OldAwaited
  <2> QED BY <1>3, <2>1, <2>3, <2>4, <2>7 DEF ClearOnce
<1>4. ASSUME NEW t \in Tabs, NEW i \in DOMAIN inbox'[t], inbox'[t][i].op = "clear"
      PROVE  Awaited(inbox[t][i])' \/ Log(t) \in lapsed'
  <2>1. CASE i \in DOMAIN inbox[t] /\ inbox'[t][i] = inbox[t][i]
    <3>1. PICK r : r = inbox[t][i]
      OBVIOUS
    <3>2. Log(t) \in lapsed \/ Awaited(r)
      BY <1>4, <2>1, <3>1 DEF ClearOnce
    <3>3. CASE Awaited(r) /\ req'[r.from] = req[r.from]
      <4>1. Awaited(r)'
        BY <3>3 DEF Awaited
      <4> QED BY <2>1, <3>1, <4>1 DEF Awaited
    <3>4. CASE Awaited(r) /\ req'[r.from] # req[r.from]
      <4>1. r.from = c /\ r.from \in Clients
        BY <2>1, <3>1, <3>4, OnTheWay DEF RelayStep
      <4>2. req[c].tab = t /\ req[c].pc = "wait" /\ req[c].op = "clear"
        <5>1. req[c].tab = t /\ "clear" = IF req[c].pc = "probe" THEN "page.epoch" ELSE req[c].op
          BY <1>4, <2>1, <3>1, <3>4, <4>1 DEF Routed
        <5>2. req[c].pc \in {"idle", "probe", "wait"} /\ req[c].pc # "idle"
          BY <3>4, <4>1 DEF Types, ReqState, Awaited
        <5> QED BY <5>1, <5>2
      <4>3. CASE Log(req[c].tab) \in lapsed'
        BY <4>2, <4>3
      <4>4. ASSUME NEW w \in Tabs, HeadIs(w, c) PROVE FALSE
        <5>1. outbox[w] \in Seq(Answered) /\ outbox[w] # <<>>
          BY <4>4 DEF Types, HeadIs
        <5>2. 1 \in DOMAIN outbox[w] /\ Same(outbox[w][1], r) /\ Awaited(outbox[w][1])
          BY <3>4, <4>1, <4>4, <5>1 DEF HeadIs, Same, Awaited
        <5>3. w = t
          BY <4>1, <4>2, <5>2 DEF Routed, Same
        <5>4. IsClear(r)
          BY <3>4, <4>1, <4>2 DEF IsClear
        <5> QED BY <2>1, <3>1, <5>2, <5>3, <5>4 DEF ClearOnce
      <4> QED BY <3>4, <4>1, <4>2, <4>3, <4>4 DEF RelayStep
    <3> QED BY <3>2, <3>3, <3>4 DEF RelayStep
  <2>2. CASE Asks(c) /\ inbox'[t][i] = [from |-> c, id |-> nextId,
                                    op |-> IF req'[c].pc = "probe" THEN "page.epoch" ELSE req'[c].op]
    BY <2>2 DEF Asks, Awaited
  <2>3. \/ i \in DOMAIN inbox[t] /\ inbox'[t][i] = inbox[t][i]
        \/ Asks(c) /\ inbox'[t][i] = [from |-> c, id |-> nextId,
                                    op |-> IF req'[c].pc = "probe" THEN "page.epoch" ELSE req'[c].op]
    BY RelayIn
  <2> QED BY <2>1, <2>2, <2>3
<1> QED BY <1>1, <1>2, <1>3, <1>4 DEF ClearOnce


\* What was current stays so: no page moves.
LEMMA RelayCurrent ==
  ASSUME NEW c, RelayStep(c), NEW k, NEW v, NEW e, NEW x \in BOOLEAN, Current(k, v, e, x)
  PROVE  Current(k, v, e, x)'
BY DEF RelayStep, Current, Now

LEMMA RelayRows == ASSUME Types, IdsUsed, Routed, RowsGood, NEW c \in Clients, RelayStep(c) PROVE RowsGood'
<1> SUFFICES ASSUME NEW j \in running', j.op = "row", Awaited(j)' PROVE Current(Row(j.tab), j.val, j.epoch, j.at = "begun")'
  BY DEF RowsGood
<1>1. j \in running /\ j.from # NoClient
  BY DEF RelayStep, Routed
<1>2. j.from \in Clients /\ j.id \in Nat /\ j.id < nextId
  BY <1>1, OnTheWay
<1>3. Current(Row(j.tab), j.val, j.epoch, j.at = "begun")
  BY <1>1, <1>2, OldAwaited DEF RowsGood
<1> QED BY <1>3 DEF RelayStep, Current, Now, Row

\* An acknowledgment of a clear that is not at the head stays awaited, or its log has lapsed.
LEMMA ClearStays ==
  ASSUME Types, Routed, ClearOnce, NEW c \in Clients, RelayStep(c), NEW t \in Tabs, NEW n \in DOMAIN outbox[t], n # 1,
         NEW r, r = outbox[t][n], r.from \in Clients, IsClear(r)
  PROVE  IsClear(r)' \/ Log(t) \in lapsed'
<1>1. CASE req'[r.from] = req[r.from]
  BY <1>1 DEF IsClear, Awaited
<1>2. CASE req'[r.from] # req[r.from]
  <2>1. r.from = c /\ req[c].pc = "wait" /\ req[c].op = "clear" /\ req[c].tab = t
    BY <1>2 DEF RelayStep, IsClear, Routed
  <2>2. ASSUME NEW w \in Tabs, HeadIs(w, c) PROVE FALSE
    <3>1. outbox[w] \in Seq(Answered) /\ outbox[w] # <<>>
      BY <2>2 DEF Types, HeadIs
    <3>2. 1 \in DOMAIN outbox[w] /\ Same(outbox[w][1], r) /\ Awaited(outbox[w][1])
      BY <2>1, <2>2, <3>1 DEF HeadIs, Same, IsClear, Awaited
    <3>3. w = t
      BY <2>1, <3>2 DEF Routed, Same
    <3> QED BY <3>2, <3>3 DEF ClearOnce
  <2> QED BY <1>2, <2>1, <2>2 DEF RelayStep
<1> QED BY <1>1, <1>2

LEMMA RelayReplies ==
  ASSUME Types, IdsUsed, Routed, ClearOnce, RepliesGood, NEW c \in Clients, RelayStep(c)
  PROVE  RepliesGood'
<1> SUFFICES ASSUME NEW t \in Tabs, NEW op \in ReadOps, NEW i \in DOMAIN outbox'[t], Reads(outbox[t][i], op)'
             PROVE  Current(<<t, op>>, outbox[t][i].val, outbox[t][i].epoch, op = "log" /\ ClearAfter(t, i))'
  BY DEF RepliesGood
<1>1. PICK d \in {0, 1} :
        /\ \A l \in DOMAIN outbox'[t] : l \in Nat /\ l + d \in DOMAIN outbox[t] /\ outbox'[t][l] = outbox[t][l + d]
        /\ \A n \in DOMAIN outbox[t] : n \in Nat /\ (n # 1 => n - d \in DOMAIN outbox'[t] /\ outbox'[t][n - d] = outbox[t][n])
  BY RelayOut
<1>2. PICK a \in DOMAIN outbox[t] : a = i + d /\ outbox'[t][i] = outbox[t][a]
  BY <1>1
<1>3. PICK r : r = outbox[t][a]
  OBVIOUS
<1>4. r.from \in Clients /\ r.id \in Nat /\ r.id < nextId
  BY <1>3, OnTheWay
<1>5. Reads(r, op)'
  BY <1>2, <1>3 DEF Reads, Awaited
<1>6. Reads(r, op)
  BY <1>4, <1>5, OldAwaited
<1>7. Current(<<t, op>>, r.val, r.epoch, op = "log" /\ ClearAfter(t, a))
  BY <1>3, <1>6 DEF RepliesGood
<1>8. SUFFICES \E x \in BOOLEAN : (x => op = "log" /\ ClearAfter(t, i)') /\ Current(<<t, op>>, r.val, r.epoch, x)'
  BY <1>2, <1>3 DEF Current
<1>9. CASE <<t, op>> \in lapsed'
  BY <1>9 DEF Current
<1>10. CASE op = "log" /\ ClearAfter(t, a) /\ <<t, op>> \notin lapsed'
  <2>1. PICK n \in DOMAIN outbox[t] : n > a /\ IsClear(outbox[t][n])
    BY <1>10 DEF ClearAfter
  <2>2. a \in Nat /\ n \in Nat /\ n # 1
    <3>1. outbox[t] \in Seq(Answered)
      BY DEF Types
    <3> QED BY <2>1, <3>1
  <2>3. PICK q : q = outbox[t][n]
    OBVIOUS
  <2>4. IsClear(q)'
    <3>1. q.from \in Clients /\ IsClear(q)
      BY <2>1, <2>3, OnTheWay
    <3>2. IsClear(q)' \/ Log(t) \in lapsed'
      BY <2>2, <2>3, <3>1, ClearStays
    <3> QED BY <1>10, <3>2 DEF Log
  <2>5. PICK b \in DOMAIN outbox'[t] : b = n - d /\ outbox'[t][b] = q
    BY <1>1, <2>2, <2>3
  <2>6. b > i
    BY <1>1, <1>2, <2>1, <2>2, <2>5
  <2>7. ClearAfter(t, i)'
    BY <2>4, <2>5, <2>6 DEF ClearAfter, IsClear, Awaited
  <2>8. Current(<<t, op>>, r.val, r.epoch, TRUE)
    BY <1>7 DEF Current
  <2>9. Current(<<t, op>>, r.val, r.epoch, TRUE)'
    BY <2>8, RelayCurrent
  <2> QED BY <1>10, <2>7, <2>9
<1>11. CASE ~(op = "log" /\ ClearAfter(t, a))
  <2>1. Current(<<t, op>>, r.val, r.epoch, FALSE)
    BY <1>7, <1>11 DEF Current
  <2>2. Current(<<t, op>>, r.val, r.epoch, FALSE)'
    BY <2>1, RelayCurrent
  <2> QED BY <2>2
<1> QED BY <1>9, <1>10, <1>11

\* An entry keeps its promise, whatever the relay does about one client.
Promise(k, e) ==
  /\ e.counter <= counter
  /\ e.counter = counter => Current(k, e.val, e.epoch, k[2] = "log" /\ Clearing(k[1]))

LEMMA RelayPromise ==
  ASSUME Types, NEW c \in Clients, RelayStep(c), NEW k \in Keys, NEW e \in Cached, Promise(k, e)
  PROVE  Promise(k, e)'
<1>1. counter \in Nat /\ e.counter \in Nat /\ counter' \in {counter, counter + 1}
  BY DEF Types, Cached, RelayStep
<1>2. e.counter <= counter'
  BY <1>1 DEF Promise
<1>3. ASSUME e.counter = counter' PROVE Current(k, e.val, e.epoch, k[2] = "log" /\ Clearing(k[1]))'
  <2>1. counter' = counter /\ Current(k, e.val, e.epoch, k[2] = "log" /\ Clearing(k[1]))
    BY <1>1, <1>3 DEF Promise
  <2>2. k = <<k[1], k[2]>> /\ k[1] \in Tabs
    BY DEF Keys
  <2>3. CASE k[2] = "log" /\ Clearing(k[1])
    <3>1. PICK d \in Clients : req[d].pc = "wait" /\ req[d].op = "clear" /\ req[d].tab = k[1]
      BY <2>3 DEF Clearing
    <3>2. CASE req'[d] = req[d]
      <4>1. (k[2] = "log" /\ Clearing(k[1]))'
        BY <2>3, <3>1, <3>2 DEF Clearing
      <4>2. Current(k, e.val, e.epoch, TRUE)
        BY <2>1 DEF Current
      <4>3. Current(k, e.val, e.epoch, TRUE)'
        BY <4>2, RelayCurrent
      <4> QED BY <4>1, <4>3 DEF Current
    <3>3. CASE req'[d] # req[d]
      <4>1. counter' # counter + 1
        BY <1>1, <2>1
      <4>2. Log(k[1]) \in lapsed'
        BY <3>1, <3>3, <4>1 DEF RelayStep
      <4> QED BY <2>2, <2>3, <4>2 DEF Log, Current
    <3> QED BY <3>2, <3>3
  <2>4. CASE ~(k[2] = "log" /\ Clearing(k[1]))
    <3>1. Current(k, e.val, e.epoch, FALSE)
      BY <2>1, <2>4 DEF Current
    <3>2. Current(k, e.val, e.epoch, FALSE)'
      BY <3>1, RelayCurrent
    <3> QED BY <3>2 DEF Current
  <2> QED BY <2>3, <2>4
<1> QED BY <1>2, <1>3 DEF Promise

LEMMA RelayCache ==
  ASSUME Types, CacheGood, NEW c \in Clients, RelayStep(c),
         \A k \in DOMAIN cache' : (k \in DOMAIN cache /\ cache'[k] = cache[k]) \/ \A e : e = cache'[k] => Promise(k, e)'
  PROVE  CacheGood'
<1> SUFFICES ASSUME NEW k \in DOMAIN cache', NEW e, e = cache'[k] PROVE Promise(k, e)'
  BY DEF CacheGood, Promise, Current
<1>1. CASE k \in DOMAIN cache /\ cache'[k] = cache[k]
  <2>1. k \in Keys /\ e \in Cached
    BY <1>1 DEF Types
  <2>2. Promise(k, e)
    BY <1>1 DEF CacheGood, Promise
  <2> QED BY <2>1, <2>2, RelayPromise
<1> QED BY <1>1

\* A probe that starts is about an entry that is fresh, or that the page has moved on from.
LEMMA RelayProbes ==
  ASSUME Types, IdsUsed, Routed, ProbesGood, NEW c \in Clients, RelayStep(c),
         req'[c].pc = "probe" /\ req'[c] # req[c] => Fresh(c)' \/ req'[c].entry.epoch < epoch[req'[c].tab]
  PROVE  ProbesGood'
<1>0. epoch' = epoch /\ lapsed \subseteq lapsed'
  BY DEF RelayStep
<1>1. ASSUME NEW d \in Clients, req'[d] = req[d], Fresh(d) PROVE Fresh(d)'
  BY <1>0, <1>1 DEF Fresh, Key
<1>2. ASSUME NEW d \in Clients, req'[d].pc = "probe" PROVE Fresh(d)' \/ req'[d].entry.epoch < epoch'[req'[d].tab]
  <2>1. CASE req'[d] = req[d]
    <3>1. Fresh(d) \/ req[d].entry.epoch < epoch[req[d].tab]
      BY <1>2, <2>1 DEF ProbesGood
    <3> QED BY <1>0, <1>1, <2>1, <3>1
  <2>2. CASE d = c /\ req'[d] # req[d]
    BY <1>0, <1>2, <2>2
  <2> QED BY <2>1, <2>2 DEF RelayStep
<1>3. ASSUME NEW t \in Tabs, NEW i \in DOMAIN outbox'[t], NEW r, r = outbox'[t][i], Awaited(r)', req'[r.from].pc = "probe"
      PROVE  Fresh(r.from)' \/ req'[r.from].entry.epoch < r.epoch
  <2>1. PICK n \in DOMAIN outbox[t] : r = outbox[t][n]
    BY <1>3, RelayOut
  <2>2. r.from \in Clients /\ r.id \in Nat /\ r.id < nextId
    BY <2>1, OnTheWay
  <2>3. Awaited(r) /\ req'[r.from] = req[r.from]
    BY <1>3, <2>2, OldAwaited
  <2>4. Fresh(r.from) \/ req[r.from].entry.epoch < r.epoch
    BY <1>3, <2>1, <2>3 DEF ProbesGood
  <2> QED BY <1>1, <2>2, <2>3, <2>4
<1>4. ASSUME NEW t \in Tabs, NEW i \in DOMAIN outbox'[t], Awaited(outbox[t][i])', req'[outbox'[t][i].from].pc = "probe"
      PROVE  (LET r == outbox[t][i] IN Fresh(r.from) \/ req[r.from].entry.epoch < r.epoch)'
  <2>1. PICK r : r = outbox'[t][i]
    OBVIOUS
  <2>2. Awaited(r)'
    BY <1>4, <2>1 DEF Awaited
  <2>3. Fresh(r.from)' \/ req'[r.from].entry.epoch < r.epoch
    BY <1>3, <1>4, <2>1, <2>2
  <2> QED BY <2>1, <2>3 DEF Fresh, Key
<1> QED BY <1>2, <1>4 DEF ProbesGood


-----------------------------------------------------------------------------
\* Every action of the relay is such a step, and keeps the cache good.
Relayed == Types /\ Types' /\ IdsUsed /\ Routed /\ ClearOnce /\ CacheGood /\ RepliesGood /\ ProbesGood
RelayGood(c) ==
  /\ RelayStep(c)
  /\ req'[c].pc = "probe" /\ req'[c] # req[c] => Fresh(c)' \/ req'[c].entry.epoch < epoch[req'[c].tab]
  /\ \A k \in DOMAIN cache' : (k \in DOMAIN cache /\ cache'[k] = cache[k]) \/ \A e : e = cache'[k] => Promise(k, e)'

LEMMA AskSteps == ASSUME Relayed, NEW c \in Clients, NEW op \in Ops, NEW t \in Tabs, Ask(c, op, t) PROVE RelayGood(c)
<1> DEFINE k == <<t, op>>
           probe == Cacheable(op) /\ Valid(k)
<1>0. Types
  BY DEF Relayed
<1>1. /\ req' = [req EXCEPT ![c] = req'[c]]
      /\ req'[c].pc = (IF probe THEN "probe" ELSE "wait") /\ req'[c].op = op /\ req'[c].tab = t /\ req'[c].id = nextId
      /\ req'[c].entry = (IF probe THEN cache[k] ELSE NoEntry) /\ req'[c].floor = (IF probe THEN Floor(k) ELSE 0)
  BY <1>0 DEF Ask, Types
<1>2. Sent(c, IF req'[c].pc = "probe" THEN "page.epoch" ELSE req'[c].op, req'[c].tab)
  BY <1>1 DEF Ask
<1>3. probe => op \in ReadOps /\ k \in Keys /\ cache[k] \in Cached
  BY <1>0, KeysOf DEF Cacheable, Valid, Types
<1>4. Asks(c)
  BY <1>1, <1>2, <1>3 DEF Asks
<1>5. RelayStep(c)
  <2>1. \A d \in Clients : d # c => req'[d] = req[d]
    BY <1>0, <1>1 DEF Types
  <2>2. db' = db /\ log' = log /\ epoch' = epoch /\ running' = running /\ lapsed' = lapsed /\ outbox' = outbox /\ counter' = counter
        /\ req[c].pc = "idle"
    BY DEF Ask, page
  <2> QED BY <1>4, <2>1, <2>2 DEF RelayStep
<1>6. ASSUME probe PROVE Fresh(c)' \/ req'[c].entry.epoch < epoch[t]
  <2>1. k[1] = t /\ k[2] = op /\ epoch[t] \in Nat /\ cache[k].epoch \in Nat /\ cache[k].val \in Nat /\ Now(k) \in Nat
    BY <1>0, <1>3, <1>6, NowIsNat DEF Types, Cached
  <2>2. Current(k, cache[k].val, cache[k].epoch, k[2] = "log" /\ Clearing(k[1]))
    BY <1>6 DEF Relayed, CacheGood, Valid
  <2>3. req'[c].entry = cache[k] /\ req'[c].floor = Floor(k) /\ Key(c)' = k /\ lapsed' = lapsed
    BY <1>1, <1>6 DEF Ask, Key
  <2>4. k \in lapsed \/ cache[k].epoch < epoch[t] \/ cache[k].val >= Floor(k)
    <3>1. CASE k[2] = "log" /\ Clearing(k[1])
      BY <2>1, <2>2, <3>1 DEF Current, Floor
    <3>2. CASE ~(k[2] = "log" /\ Clearing(k[1]))
      BY <2>1, <2>2, <3>2 DEF Current, Floor
    <3> QED BY <3>1, <3>2
  <2> QED BY <2>3, <2>4 DEF Fresh
<1>7. req'[c].pc = "probe" => probe
  BY <1>1
<1>8. cache' = cache
  BY DEF Ask
<1> QED BY <1>1, <1>5, <1>6, <1>7, <1>8 DEF RelayGood

LEMMA MissSteps ==
  ASSUME Relayed, NEW c \in Clients, req[c].pc = "probe", Miss(c), UNCHANGED <<page, lapsed>>,
         \A t \in Tabs : outbox'[t] = outbox[t] \/ (outbox[t] # <<>> /\ outbox'[t] = Tail(outbox[t]))
  PROVE  RelayGood(c)
<1>0. Types /\ req[c].tab \in Tabs /\ req[c].op \in Ops
  BY DEF Relayed, Routed
<1>1. req'[c].pc = "wait" /\ req'[c].id = nextId /\ req'[c].tab = req[c].tab /\ req'[c].op = req[c].op
  BY <1>0 DEF Miss, Types, ReqState
<1>2. \A d \in Clients : d # c => req'[d] = req[d]
  BY <1>0 DEF Miss, Types
<1>3. Asks(c) /\ counter' = counter
  BY <1>0, <1>1 DEF Miss, Asks
<1>4. RelayStep(c)
  BY <1>2, <1>3 DEF RelayStep, page
<1>5. \A k \in DOMAIN cache' : k \in DOMAIN cache /\ cache'[k] = cache[k]
  BY DEF Miss, Without
<1> QED BY <1>1, <1>4, <1>5 DEF RelayGood

LEMMA TimeoutSteps == ASSUME Relayed, NEW c \in Clients, Timeout(c) PROVE RelayGood(c)
<1>0. Types /\ UNCHANGED <<page, outbox>>
  BY DEF Relayed, Timeout
<1>1. CASE req[c].pc = "probe" /\ Miss(c) /\ UNCHANGED lapsed
  BY <1>0, <1>1, MissSteps
<1>2. CASE /\ req[c].pc = "wait" /\ Done(c)
           /\ lapsed' = IF req[c].op = "clear" THEN lapsed \cup {<<req[c].tab, "log">>} ELSE lapsed
           /\ UNCHANGED <<cache, counter, nextId, inbox>>
  <2>1. req'[c] = Idle /\ \A d \in Clients : d # c => req'[d] = req[d]
    BY <1>0, <1>2 DEF Done, Types
  <2>2. req'[c].pc = "idle"
    BY <2>1 DEF Idle
  <2>3. lapsed \subseteq lapsed' /\ (req[c].op = "clear" => Log(req[c].tab) \in lapsed')
    BY <1>2 DEF Log
  <2> QED BY <1>0, <1>2, <2>1, <2>2, <2>3 DEF RelayGood, RelayStep, page
<1> QED BY <1>1, <1>2 DEF Timeout

LEMMA ReplySteps == ASSUME Relayed, NEW t \in Tabs, HandleReply(t) PROVE \E c \in Clients : RelayGood(c)
<1> DEFINE m == Head(outbox[t])
<1>0. Types /\ UNCHANGED <<page, lapsed>> /\ outbox[t] # <<>> /\ outbox' = [outbox EXCEPT ![t] = Tail(@)]
  BY DEF Relayed, HandleReply
<1>1. outbox[t] \in Seq(Answered)
  BY <1>0 DEF Types
<1>2. m \in Answered /\ m.from \in Clients /\ 1 \in DOMAIN outbox[t] /\ m = outbox[t][1]
  <2>1. Head(outbox[t]) \in Answered /\ 1 \in DOMAIN outbox[t] /\ Head(outbox[t]) = outbox[t][1]
    BY <1>0, <1>1, Tailed
  <2> QED BY <2>1 DEF Answered
<1>3. \A u \in Tabs : outbox'[u] = outbox[u] \/ (outbox[u] # <<>> /\ outbox'[u] = Tail(outbox[u]))
  BY <1>0 DEF Types
<1>4. PICK c \in Clients : c = m.from
  BY <1>2
<1>5. CASE UNCHANGED <<req, nextId, cache, counter, inbox>>
  BY <1>0, <1>3, <1>5 DEF RelayGood, RelayStep, page
<1>6. CASE req[c].pc = "probe" /\ ProbeAnswered(c, m)
  <2>1. CASE SameEpoch(c, m)
    <3>1. req'[c] = Idle /\ \A d \in Clients : d # c => req'[d] = req[d]
      BY <1>0, <1>6, <2>1 DEF ProbeAnswered, Done, Types
    <3>2. req'[c].pc = "idle"
      BY <3>1 DEF Idle
    <3> QED BY <1>0, <1>3, <1>6, <2>1, <3>1, <3>2 DEF ProbeAnswered, RelayGood, RelayStep, page
  <2>2. CASE ~SameEpoch(c, m)
    BY <1>0, <1>3, <1>6, <2>2, MissSteps DEF ProbeAnswered
  <2> QED BY <2>1, <2>2
<1>7. CASE Awaited(m) /\ req[c].pc = "wait" /\ ResultArrived(c, m)
  <2>1. req'[c] = Idle /\ \A d \in Clients : d # c => req'[d] = req[d]
    BY <1>0, <1>7 DEF ResultArrived, Done, Types
  <2>2. req'[c].pc = "idle" /\ nextId' = nextId /\ inbox' = inbox
    BY <1>7, <2>1 DEF Idle, ResultArrived
  <2>3. counter' \in {counter, counter + 1} /\ (req[c].op = "clear" => counter' = counter + 1)
        /\ (req[c].op \in ReadOps => counter' = counter)
    BY <1>7 DEF ResultArrived, Bumped, ReadOps
  <2>4. HeadIs(t, c)
    BY <1>0, <1>4, <1>7 DEF HeadIs, Awaited
  <2>5. RelayStep(c)
    BY <1>0, <1>3, <2>1, <2>2, <2>3, <2>4 DEF RelayStep, page
  <2>6. CASE ~Cacheable(req[c].op)
    BY <1>7, <2>2, <2>5, <2>6 DEF RelayGood, ResultArrived
  <2>7. CASE Cacheable(req[c].op)
    <3>1. PICK op \in ReadOps : op = req[c].op
      BY <2>7 DEF Cacheable
    <3>2. Key(c) = <<t, op>> /\ Reads(m, op)
      BY <1>2, <1>4, <1>7, <3>1 DEF Key, Reads, Relayed, Routed
    <3>3. Current(<<t, op>>, m.val, m.epoch, op = "log" /\ ClearAfter(t, 1))
      BY <1>2, <3>2 DEF Relayed, RepliesGood
    <3>4. ASSUME op = "log", ClearAfter(t, 1) PROVE Clearing(t)'
      <4>1. PICK n \in DOMAIN outbox[t] : IsClear(outbox[t][n])
        BY <3>4 DEF ClearAfter
      <4>2. PICK d \in Clients : d = outbox[t][n].from
        BY <1>0, OnTheWay DEF Relayed
      <4>3. req[d].pc = "wait" /\ req[d].op = "clear" /\ req[d].tab = t
        BY <4>1, <4>2 DEF IsClear, Relayed, Routed
      <4>4. req'[d] = req[d]
        BY <2>1, <3>1, <4>3 DEF ReadOps
      <4> QED BY <4>3, <4>4 DEF Clearing
    <3>5. PICK e : e = Entry(m, op)
      OBVIOUS
    <3>6. e.val = m.val /\ e.epoch = m.epoch /\ e.counter = counter
      BY <3>5 DEF Entry, Bumped, ReadOps
    <3>7. Current(<<t, op>>, e.val, e.epoch, op = "log" /\ Clearing(t))'
      <4>1. CASE op = "log" /\ ClearAfter(t, 1)
        <5>1. Current(<<t, op>>, e.val, e.epoch, TRUE)
          BY <3>3, <3>6 DEF Current
        <5>2. Current(<<t, op>>, e.val, e.epoch, TRUE)'
          BY <2>5, <5>1, RelayCurrent
        <5> QED BY <3>4, <4>1, <5>2 DEF Current
      <4>2. CASE ~(op = "log" /\ ClearAfter(t, 1))
        <5>1. Current(<<t, op>>, e.val, e.epoch, FALSE)
          BY <3>3, <3>6, <4>2 DEF Current
        <5>2. Current(<<t, op>>, e.val, e.epoch, FALSE)'
          BY <2>5, <5>1, RelayCurrent
        <5> QED BY <5>2 DEF Current
      <4> QED BY <4>1, <4>2
    <3>8. counter' = counter /\ counter \in Nat
      BY <1>0, <2>3, <3>1 DEF Types
    <3>9. Promise(<<t, op>>, e)'
      <4>1. <<t, op>>[1] = t /\ <<t, op>>[2] = op
        OBVIOUS
      <4>2. e.counter <= counter'
        BY <3>6, <3>8
      <4>3. Current(<<t, op>>, e.val, e.epoch, <<t, op>>[2] = "log" /\ Clearing(<<t, op>>[1]))'
        BY <3>7, <4>1
      <4> QED BY <4>2, <4>3 DEF Promise
    <3>10. cache' = With(<<t, op>>, e)
      BY <1>7, <2>7, <3>1, <3>2, <3>5 DEF ResultArrived
    <3>11. \A k \in DOMAIN cache' : (k \in DOMAIN cache /\ cache'[k] = cache[k]) \/ (k = <<t, op>> /\ cache'[k] = e)
      BY <3>10 DEF With
    <3> QED BY <2>2, <2>5, <3>9, <3>11 DEF RelayGood
  <2> QED BY <2>6, <2>7
<1> QED BY <1>4, <1>5, <1>6, <1>7 DEF HandleReply

LEMMA RelayKeeps ==
  ASSUME Types, Types', IdsUsed, Routed, ClearOnce, CacheGood, RowsGood, RepliesGood, ProbesGood,
         NEW c \in Clients, RelayGood(c)
  PROVE  (IdsUsed /\ Routed /\ ClearOnce /\ CacheGood /\ RowsGood /\ RepliesGood /\ ProbesGood)'
BY RelayIds, RelayRouted, RelayClearOnce, RelayCache, RelayRows, RelayReplies, RelayProbes DEF RelayGood

-----------------------------------------------------------------------------
\* The theorems.
LEMMA VarsKeep == IInv /\ UNCHANGED vars => (IdsUsed /\ Routed /\ ClearOnce /\ CacheGood /\ RowsGood /\ RepliesGood /\ ProbesGood)'
<1> SUFFICES ASSUME IInv, UNCHANGED vars
             PROVE  (IdsUsed /\ Routed /\ ClearOnce /\ CacheGood /\ RowsGood /\ RepliesGood /\ ProbesGood)'
  OBVIOUS
<1> USE DEF vars, IInv
<1>1. (\A r : Awaited(r)' <=> Awaited(r)) /\ (\A r : IsClear(r)' <=> IsClear(r)) /\ (\A t : Clearing(t)' <=> Clearing(t))
  BY AwaitedStays
<1>2. IdsUsed' /\ Routed' /\ ClearOnce'
  BY <1>1 DEF IdsUsed, Routed, ClearOnce
<1>3. CacheGood' /\ RowsGood'
  BY <1>1 DEF CacheGood, RowsGood, Current, Now
<1>4. RepliesGood' /\ ProbesGood'
  BY <1>1 DEF RepliesGood, ProbesGood, Current, Now, Reads, ClearAfter, Fresh, Key
<1> QED BY <1>2, <1>3, <1>4

LEMMA Kept == IInv /\ [Next]_vars => IInv'
<1> SUFFICES ASSUME IInv, [Next]_vars PROVE IInv'
  OBVIOUS
<1>1. TypeOK /\ TypeOK' /\ Types /\ Types'
  <2>1. TypeOK /\ TypeOK'
    BY TypeNext DEF IInv
  <2>2. Types' <=> TypeOK'
    BY TypesOK, PTL
  <2> QED BY <2>1, <2>2, TypesOK
<1>2. IdsUsed /\ Routed /\ ClearOnce /\ CacheGood /\ RowsGood /\ RepliesGood /\ ProbesGood
  BY DEF IInv
<1> SUFFICES (IdsUsed /\ Routed /\ ClearOnce /\ CacheGood /\ RowsGood /\ RepliesGood /\ ProbesGood)'
  BY <1>1 DEF IInv
<1>3. Known /\ Relayed
  BY <1>1, <1>2 DEF Known, Relayed
<1>4. ASSUME NEW t \in Tabs, PageStep(t)
      PROVE  (IdsUsed /\ Routed /\ ClearOnce /\ CacheGood /\ RowsGood /\ RepliesGood /\ ProbesGood)'
  BY <1>1, <1>2, <1>4, PageKeeps
<1>5. ASSUME NEW c \in Clients, RelayGood(c)
      PROVE  (IdsUsed /\ Routed /\ ClearOnce /\ CacheGood /\ RowsGood /\ RepliesGood /\ ProbesGood)'
  BY <1>1, <1>2, <1>5, RelayKeeps
<1>6. CASE \E c \in Clients, op \in Ops, t \in Tabs : Ask(c, op, t)
  BY <1>3, <1>5, <1>6, AskSteps
<1>7. CASE \E c \in Clients : Timeout(c)
  BY <1>3, <1>5, <1>7, TimeoutSteps
<1>8. CASE \E t \in Tabs : HandleReply(t)
  BY <1>3, <1>5, <1>8, ReplySteps
<1>9. CASE \E t \in Tabs : Serve(t)
  BY <1>3, <1>4, <1>9, ServeSteps
<1>10. CASE \E t \in Tabs : AppWrite(t) \/ AppFetch(t) \/ Reload(t)
  BY <1>3, <1>4, <1>10, MoveSteps
<1>11. CASE \E j \in running : ReadRow(j) \/ FinishRead(j) \/ Commit(j)
  <2>1. PICK j \in running : ReadRow(j) \/ FinishRead(j) \/ Commit(j)
    BY <1>11
  <2>2. j.tab \in Tabs
    BY <1>1 DEF Types, JobState
  <2> QED BY <1>3, <1>4, <2>1, <2>2, JobSteps
<1>12. CASE UNCHANGED vars
  BY <1>12, VarsKeep
<1> QED BY <1>6, <1>7, <1>8, <1>9, <1>10, <1>11, <1>12 DEF Next

LEMMA Always == Spec => []IInv
<1>1. Init => IInv
  BY InitHolds
<1>2. IInv /\ [Next]_vars => IInv'
  BY Kept
<1> QED BY <1>1, <1>2, PTL DEF Spec

\* relay.mjs, POST /command and handleAgentMessage, with inject.js: the variables keep their types, the queues those
\* of commands and replies.
THEOREM TypeCorrect == Spec => []TypeOK
<1>1. IInv => TypeOK
  BY DEF IInv
<1> QED BY <1>1, Always, PTL

\* relay.mjs, readResultCache: an entry whose mutation counter and page epoch both match holds what the page shows,
\* for any tabs, callers and order of commands, writes, reloads and timeouts.
THEOREM VouchedCurrent == Spec => []VouchedIsCurrent
<1>1. IInv => VouchedIsCurrent
  BY DEF IInv, CacheGood, Current, VouchedIsCurrent
<1> QED BY <1>1, Always, PTL

\* relay.mjs, the page.epoch probe: the answer of a hit is no older than what the page showed when its caller asked.
THEOREM HitsFresh == Spec => HitIsFresh
<1>1. ASSUME IInv, [Next]_vars, NEW c \in Clients, Hit(c) PROVE req[c].entry.val >= req[c].floor \/ Key(c) \in lapsed
  <2>0. Types /\ Routed /\ ProbesGood /\ req[c].pc = "probe" /\ req'[c].pc = "idle"
    BY <1>1, TypesOK DEF IInv, Hit
  <2>1. CASE UNCHANGED req
    BY <2>0, <2>1
  <2>2. ASSUME NEW d \in Clients, NEW op \in Ops, NEW t \in Tabs, Ask(d, op, t) PROVE FALSE
    BY <2>0, <2>2 DEF Ask, Types
  <2>3. ASSUME NEW d \in Clients, Miss(d) PROVE FALSE
    BY <2>0, <2>3 DEF Miss, Types, ReqState
  <2>4. ASSUME NEW d \in Clients, Timeout(d) PROVE FALSE
    <3>1. CASE req[d].pc = "wait" /\ Done(d)
      BY <2>0, <3>1 DEF Done, Types
    <3> QED BY <2>3, <2>4, <3>1 DEF Timeout
  <2>5. ASSUME NEW t \in Tabs, HandleReply(t) PROVE Fresh(c)
    <3> DEFINE m == Head(outbox[t])
    <3>0. outbox[t] \in Seq(Answered) /\ outbox[t] # <<>>
      BY <2>0, <2>5 DEF HandleReply, Types
    <3>1. m \in Answered /\ m.from \in Clients /\ 1 \in DOMAIN outbox[t] /\ m = outbox[t][1]
      <4>1. Head(outbox[t]) \in Answered /\ 1 \in DOMAIN outbox[t] /\ Head(outbox[t]) = outbox[t][1]
        BY <3>0, Tailed
      <4> QED BY <4>1 DEF Answered
    <3>2. CASE Awaited(m) /\ req[m.from].pc = "probe" /\ ProbeAnswered(m.from, m)
      <4>1. CASE SameEpoch(m.from, m)
        <5>1. m.from = c
          BY <2>0, <3>1, <3>2, <4>1 DEF ProbeAnswered, Done, Types
        <5>2. Fresh(c) \/ req[c].entry.epoch < m.epoch
          BY <2>0, <3>1, <3>2, <5>1 DEF ProbesGood
        <5>3. m.epoch = req[c].entry.epoch /\ m.epoch \in Nat
          BY <3>1, <4>1, <5>1 DEF SameEpoch, Answered
        <5> QED BY <5>2, <5>3
      <4>2. CASE ~SameEpoch(m.from, m)
        BY <2>3, <3>1, <3>2, <4>2 DEF ProbeAnswered
      <4> QED BY <4>1, <4>2
    <3>3. CASE req[m.from].pc = "wait" /\ ResultArrived(m.from, m)
      BY <2>0, <3>1, <3>3 DEF ResultArrived, Done, Types
    <3>4. CASE UNCHANGED req
      BY <2>1, <3>4 DEF Fresh
    <3> QED BY <2>5, <3>2, <3>3, <3>4 DEF HandleReply
  <2>6. ASSUME NEW t \in Tabs, Serve(t) \/ AppWrite(t) \/ AppFetch(t) \/ Reload(t) PROVE UNCHANGED req
    BY <2>6 DEF Serve, AppWrite, AppFetch, Reload
  <2>7. ASSUME NEW j \in running, ReadRow(j) \/ FinishRead(j) \/ Commit(j) PROVE UNCHANGED req
    BY <2>7 DEF ReadRow, FinishRead, Commit
  <2>8. UNCHANGED vars => UNCHANGED req
    BY DEF vars
  <2> QED BY <1>1, <2>1, <2>2, <2>4, <2>5, <2>6, <2>7, <2>8 DEF Next, Fresh
<1>2. IInv /\ [Next]_vars => \A c \in Clients : Hit(c) => req[c].entry.val >= req[c].floor \/ Key(c) \in lapsed
  BY <1>1
<1> QED BY <1>2, Always, PTL DEF Spec, HitIsFresh
=============================================================================

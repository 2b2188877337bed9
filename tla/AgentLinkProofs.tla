-------------------------- MODULE AgentLinkProofs --------------------------
(* Safety of the command round trip for any number of tabs, callers, ids,  *)
(* sessions and relay processes.                                           *)
EXTENDS AgentLink, TLAPS

DueRequest == {r \in Request : r.pc = "due"}

\* What follows a dispatch is another dispatch of the same request, or rest.
LEMMA HopType ==
  ASSUME NEW r \in Request, NEW step \in Steps, NEW what \in Types, NEW tries \in {1, 2}
  PROVE  Hop(r, step, what, tries) \in DueRequest
<1>1. 0 \in 0..MaxId
  BY LinkAssumption DEF LinkAssumption
<1> QED BY <1>1 DEF Hop, DueRequest, Request

LEMMA AwaitType ==
  ASSUME NEW r \in Request, NEW i \in 0..MaxId
  PROVE  Await(r, i) \in Request /\ Await(r, i).pc = "wait" /\ Await(r, i).id = i
BY DEF Await, Request

LEMMA RaiseType ==
  ASSUME NEW r \in Request PROVE Raise(r) \subseteq DueRequest \cup {Idle}
<1>1. r.kind \in Types
  BY LinkAssumption DEF Request, Types
<1>2. Hop(r, "trigger", r.kind, 2) \in DueRequest
  BY <1>1, HopType DEF Steps
<1> QED BY <1>2 DEF Raise

LEMMA AfterFailureType ==
  ASSUME NEW r \in Request PROVE AfterFailure(r) \subseteq DueRequest \cup {Idle}
<1>1. r.tries \in {1, 2}
  BY DEF Request
<1>2. Hop(r, "shot", "dom.screenshot", r.tries) \in DueRequest
  BY <1>1, HopType DEF Steps, Types
<1> QED BY <1>2, RaiseType DEF AfterFailure

LEMMA AfterErrorType ==
  ASSUME NEW r \in Request, NEW outcome
  PROVE  AfterError(r, outcome) \subseteq DueRequest \cup {Idle}
<1>1. r.tries \in {1, 2}
  BY DEF Request
<1>2. \A k \in Kinds : Hop(r, "remedy", k, r.tries) \in DueRequest
  BY <1>1, HopType, LinkAssumption DEF Steps, Types
<1>3. Remedies(r) \subseteq DueRequest
  BY <1>2 DEF Remedies
<1> QED BY <1>3, AfterFailureType DEF AfterError

LEMMA FailedTriggerType ==
  ASSUME NEW r \in Request, NEW outcome
  PROVE  FailedTrigger(r, outcome) \subseteq DueRequest \cup {Idle}
<1>1. r.tries \in {1, 2}
  BY DEF Request
<1>2. Hop(r, "verify", "dom.query", r.tries) \in DueRequest
  BY <1>1, HopType DEF Steps, Types
<1> QED BY <1>2, AfterErrorType DEF FailedTrigger

LEMMA ContinueType ==
  ASSUME NEW r \in Request, NEW outcome
  PROVE  Continue(r, outcome) \subseteq DueRequest \cup {Idle}
<1>1. r.kind \in Types /\ r.step \in Steps
  BY LinkAssumption DEF Request, Types
<1>2. CASE r.step = "before"
  <2>1. Hop(r, "trigger", r.kind, 1) \in DueRequest
    BY <1>1, HopType DEF Steps
  <2> QED BY <1>2, <2>1 DEF Continue
<1>3. CASE r.step = "trigger"
  <2>1. Hop(r, "after", "idb.snapshot", 1) \in DueRequest
    BY HopType DEF Steps, Types
  <2>2. Continue(r, outcome) \subseteq FailedTrigger(r, outcome) \cup {Hop(r, "after", "idb.snapshot", 1), Idle}
    BY <1>3 DEF Continue
  <2> QED BY <2>1, <2>2, FailedTriggerType
<1>4. CASE r.step \in {"verify", "remedy"}
  BY <1>4, AfterErrorType, AfterFailureType DEF Continue
<1>5. CASE r.step = "shot"
  BY <1>5, RaiseType DEF Continue
<1>6. CASE r.step = "after"
  BY <1>6 DEF Continue
<1> QED BY <1>1, <1>2, <1>3, <1>4, <1>5, <1>6 DEF Steps

-----------------------------------------------------------------------------
(* Typing *)

\* The state after a handler's chain moved on.
LEMMA SettleType ==
  ASSUME TypeOK, NEW c \in Clients, NEW outcome, req[c].pc # "idle", Settle(c, outcome)
  PROVE  /\ req' \in [Clients -> Request \cup {Idle}]
         /\ req'[c].pc # "wait"
         /\ \A d \in Clients \ {c} : req'[d] = req[d]
<1>1. req[c] \in Request
  BY DEF TypeOK, Idle
<1>2. PICK r \in Continue(req[c], outcome) : req' = [req EXCEPT ![c] = r]
  BY DEF Settle
<1>3. r \in DueRequest \cup {Idle}
  BY <1>1, <1>2, ContinueType
<1>4. r \in Request \cup {Idle} /\ r.pc # "wait"
  BY <1>3 DEF DueRequest, Idle
<1> QED BY <1>2, <1>4 DEF TypeOK

LEMMA Bounds == MaxId \in Nat \ {0} /\ MaxBoot \in Nat \ {0} /\ MaxSession \in Nat \ {0}
BY LinkAssumption

LEMMA TypeInit == Init => TypeOK
<1> SUFFICES ASSUME Init PROVE TypeOK
  OBVIOUS
<1> QED BY LinkAssumption, Bounds DEF Init, TypeOK, Ids, SessionIds

\* Typing needs the waiters: the handler a timer or a reply wakes is one that
\* awaits something.
LEMMA TypeStep == TypeOK /\ WaitersMatchPending /\ [Next]_vars => TypeOK'
<1> SUFFICES ASSUME TypeOK, WaitersMatchPending, [Next]_vars PROVE TypeOK'
  OBVIOUS
<1> USE Bounds
<1>1. ASSUME NEW n \in Names, NEW autoEnd \in BOOLEAN, NEW mode \in Modes,
             StartSession(n, autoEnd, mode)
      PROVE  TypeOK'
  <2>1. /\ started' \in 0..MaxSession /\ cur' \in {0, started'}
        /\ started + 1 \in SessionIds
    BY <1>1 DEF StartSession, TypeOK, SessionIds
  <2>2. sess' \in [SessionIds -> [pin: Origins \cup {NoOrigin}, remote: BOOLEAN, strict: BOOLEAN]]
    <3>1. mode.remote \in BOOLEAN /\ mode.strict \in BOOLEAN
      BY LinkAssumption
    <3>2. connOrigin[n] \in Origins \cup {NoOrigin}
      BY DEF TypeOK
    <3> QED BY <1>1, <3>1, <3>2 DEF StartSession, TypeOK
  <2> QED BY <1>1, <2>1, <2>2 DEF StartSession, TypeOK, tabVars
<1>2. CASE EndSession
  BY <1>2 DEF EndSession, TypeOK, tabVars
<1>3. ASSUME NEW c \in Clients, NEW n \in Names, NEW k \in Kinds, Command(c, n, k)
      PROVE  TypeOK'
  <2>1. k \in Types /\ cur \in SessionIds /\ nextId \in Nat
    BY <1>3, LinkAssumption DEF Types, Command, TypeOK, SessionIds
  <2>2. req' \in [Clients -> Request \cup {Idle}]
    BY <1>3, <2>1 DEF Command, TypeOK, Request, Steps, Types
  <2> QED BY <1>3, <2>2 DEF Command, TypeOK, tabVars, dbVars
<1>4. ASSUME NEW c \in Clients, DispatchRefused(c)
      PROVE  TypeOK'
  <2>1. req' \in [Clients -> Request \cup {Idle}]
    BY <1>4, SettleType DEF DispatchRefused
  <2> QED BY <1>4, <2>1 DEF DispatchRefused, TypeOK, tabVars, dbVars
<1>5. ASSUME NEW c \in Clients, DispatchUnsent(c)
      PROVE  TypeOK'
  <2>1. req' \in [Clients -> Request \cup {Idle}]
    BY <1>5, SettleType DEF DispatchUnsent
  <2>2. nextId' \in 1..MaxId + 1 /\ log' \subseteq Ids
    BY <1>5 DEF DispatchUnsent, TypeOK, AdvancedId, Logged, Ids
  <2> QED BY <1>5, <2>1, <2>2 DEF DispatchUnsent, TypeOK, tabVars, dbVars
<1>6. ASSUME NEW c \in Clients, DispatchSent(c)
      PROVE  TypeOK'
  <2> DEFINE m == [boot |-> boot, id |-> nextId, by |-> c, root |-> req[c].root,
                   step |-> req[c].step, tries |-> req[c].tries, what |-> req[c].what,
                   sess |-> req[c].sess, under |-> cur]
  <2>1. req[c] \in Request /\ nextId \in Ids
    BY <1>6 DEF DispatchSent, TypeOK, Idle
  <2>2. nextId' \in 1..MaxId + 1 /\ pending' \in [Ids -> Clients \cup {NoClient}]
    BY <1>6, <2>1 DEF DispatchSent, TypeOK, AdvancedId, Ids
  <2>3. req' \in [Clients -> Request \cup {Idle}]
    <3>1. nextId \in 0..MaxId
      BY <2>1 DEF Ids
    <3>2. Await(req[c], nextId) \in Request
      BY <2>1, <3>1, AwaitType
    <3> QED BY <1>6, <3>2 DEF DispatchSent, TypeOK
  <2>4. m \in Command_
    BY <2>1 DEF TypeOK, Command_, Request
  <2>5. page' \in [Tabs -> SUBSET Command_]
    BY <1>6, <2>4 DEF DispatchSent, TypeOK
  <2> QED BY <1>6, <2>2, <2>3, <2>5 DEF DispatchSent, TypeOK, dbVars
<1>7. ASSUME NEW i \in Ids, Timeout(i)
      PROVE  TypeOK'
  <2>1. pending[i] \in Clients /\ req[pending[i]].pc # "idle"
    BY <1>7 DEF Timeout, TimerArmed, TypeOK, WaitersMatchPending
  <2>2. req' \in [Clients -> Request \cup {Idle}]
    BY <1>7, <2>1, SettleType DEF Timeout
  <2> QED BY <1>7, <2>2 DEF Timeout, TypeOK, Forget, Logged, tabVars, dbVars
<1>8. ASSUME NEW t \in Tabs, NEW reply \in up[t], HandleReply(t, reply)
      PROVE  TypeOK'
  <2>1. up' \in [Tabs -> SUBSET Reply_] /\ reply \in Reply_
    BY <1>8 DEF HandleReply, TypeOK
  <2>2. CASE Honoured(NameOf[t], reply.id)
    <3> DEFINE c == pending[reply.id]
    <3>1. reply.id \in Ids /\ c \in Clients /\ req[c].pc # "idle" /\ reply.boot \in 1..MaxBoot
      BY <2>1, <2>2 DEF Honoured, TypeOK, WaitersMatchPending, Reply_
    <3>2. /\ pending' = Forget(reply.id)
          /\ log' = Logged(reply.id)
          /\ crossed' = crossed \cup Crossing(req[c], c, reply)
          /\ Settle(c, reply.res)
      BY <1>8, <2>2 DEF HandleReply
    <3>3. req' \in [Clients -> Request \cup {Idle}]
      BY <3>1, <3>2, SettleType
    <3>4. crossed' \subseteq [want: 1..MaxBoot, got: 1..MaxBoot]
      BY <3>1, <3>2 DEF Crossing, TypeOK
    <3>5. log' \subseteq Ids /\ pending' \in [Ids -> Clients \cup {NoClient}]
      BY <3>1, <3>2 DEF Forget, Logged, TypeOK
    <3> QED BY <1>8, <2>1, <3>3, <3>4, <3>5 DEF HandleReply, TypeOK, dbVars
  <2>3. CASE ~Honoured(NameOf[t], reply.id)
    BY <1>8, <2>1, <2>3 DEF HandleReply, TypeOK, dbVars
  <2> QED BY <2>2, <2>3
<1>9. ASSUME NEW t \in Tabs, Connect(t)
      PROVE  TypeOK'
  <2>1. NameOf[t] \in Names
    BY LinkAssumption
  <2> QED BY <1>9, <2>1 DEF Connect, TypeOK, dbVars
<1>10. ASSUME NEW t \in Tabs, NEW kept \in SUBSET page[t], LoseSocket(t, kept)
       PROVE  TypeOK'
  BY <1>10 DEF LoseSocket, TypeOK, dbVars
<1>11. ASSUME NEW n \in Names, SeeClose(n)
       PROVE  TypeOK'
  BY <1>11 DEF SeeClose, TypeOK, dbVars
<1>12. ASSUME NEW t \in Tabs, NEW o \in Origins, Navigate(t, o)
       PROVE  TypeOK'
  BY <1>12 DEF Navigate, TypeOK, dbVars
<1>13. ASSUME NEW t \in Tabs, NEW m \in page[t], NEW res \in {"ok", "error"}, Finish(t, m, res)
       PROVE  TypeOK'
  <2> DEFINE reply == [boot |-> m.boot, id |-> m.id, by |-> m.by, root |-> m.root,
                       step |-> m.step, res |-> res]
  <2>1. reply \in Reply_
    BY DEF TypeOK, Command_, Reply_
  <2>2. up' \in [Tabs -> SUBSET Reply_] /\ page' \in [Tabs -> SUBSET Command_]
    BY <1>13, <2>1 DEF Finish, TypeOK
  <2> QED BY <1>13, <2>2 DEF Finish, TypeOK, dbVars
<1>14. CASE NewProcess
  BY <1>14 DEF NewProcess, TypeOK, Ids, dbVars
<1>15. CASE UNCHANGED vars
  BY <1>15 DEF vars, tabVars, dbVars, TypeOK
<1> QED BY <1>1, <1>2, <1>3, <1>4, <1>5, <1>6, <1>7, <1>8, <1>9, <1>10, <1>11, <1>12, <1>13,
           <1>14, <1>15 DEF Next

-----------------------------------------------------------------------------
(* Waiters and the action log *)

\* Ids not given out yet are neither awaited nor logged.
FreshIds == \A i \in Ids : i >= nextId => pending[i] = NoClient /\ i \notin log

\* A handler that moves on leaves no entry behind that would wake it again.
LEMMA SettleKeepsWaiters ==
  ASSUME TypeOK, WaitersMatchPending,
         NEW c \in Clients, NEW outcome, req[c].pc # "idle", Settle(c, outcome),
         \/ req[c].pc = "due" /\ pending' = pending
         \/ \E i \in Ids : pending[i] = c /\ pending' = Forget(i)
  PROVE  WaitersMatchPending'
<1>1. /\ req'[c].pc # "wait"
      /\ \A d \in Clients \ {c} : req'[d] = req[d]
  BY SettleType
<1>2. \A i \in Ids : pending'[i] \in {pending[i], NoClient} /\ pending'[i] # c
  BY LinkAssumption DEF TypeOK, WaitersMatchPending, Forget
<1>3. \A i \in Ids : pending[i] # c => pending'[i] = pending[i]
  BY DEF TypeOK, Forget
<1>4. ASSUME NEW d \in Clients, req'[d].pc = "wait"
      PROVE  req'[d].id \in Ids /\ pending'[req'[d].id] = d
  <2>1. d # c /\ req'[d] = req[d]
    BY <1>1, <1>4
  <2>2. req[d].id \in Ids /\ pending[req[d].id] = d
    BY <1>4, <2>1 DEF WaitersMatchPending
  <2> QED BY <1>3, <2>1, <2>2
<1>5. ASSUME NEW i \in Ids, pending'[i] # NoClient
      PROVE  req'[pending'[i]].pc = "wait" /\ req'[pending'[i]].id = i
  <2>1. pending'[i] = pending[i] /\ pending[i] \in Clients \ {c}
    BY <1>2, <1>5 DEF TypeOK
  <2> QED BY <1>1, <1>5, <2>1 DEF WaitersMatchPending
<1> QED BY <1>4, <1>5 DEF WaitersMatchPending

LEMMA WaitersStep ==
  TypeOK /\ FreshIds /\ WaitersMatchPending /\ [Next]_vars => WaitersMatchPending'
<1> SUFFICES ASSUME TypeOK, FreshIds, WaitersMatchPending, [Next]_vars
             PROVE  WaitersMatchPending'
  OBVIOUS
<1>1. CASE UNCHANGED <<pending, req>>
  BY <1>1 DEF WaitersMatchPending
<1>2. ASSUME NEW c \in Clients, NEW n \in Names, NEW k \in Kinds, Command(c, n, k)
      PROVE  WaitersMatchPending'
  BY <1>2 DEF Command, TypeOK, WaitersMatchPending
<1>3. ASSUME NEW c \in Clients, DispatchRefused(c) \/ DispatchUnsent(c)
      PROVE  WaitersMatchPending'
  BY <1>3, SettleKeepsWaiters DEF DispatchRefused, DispatchUnsent
<1>4. ASSUME NEW c \in Clients, DispatchSent(c)
      PROVE  WaitersMatchPending'
  <2>1. /\ nextId \in Ids /\ pending[nextId] = NoClient
        /\ pending' = [pending EXCEPT ![nextId] = c]
        /\ req' = [req EXCEPT ![c] = Await(req[c], nextId)]
        /\ req[c] \in Request /\ req[c].pc = "due"
    BY <1>4, Bounds DEF DispatchSent, FreshIds, TypeOK, Ids, Idle
  <2>2. req'[c].pc = "wait" /\ req'[c].id = nextId
    <3>1. nextId \in 0..MaxId
      BY <2>1 DEF Ids
    <3> QED BY <2>1, <3>1, AwaitType DEF TypeOK
  <2>3. \A d \in Clients \ {c} : req'[d] = req[d]
    BY <2>1 DEF TypeOK
  <2>4. ASSUME NEW d \in Clients, req'[d].pc = "wait"
        PROVE  req'[d].id \in Ids /\ pending'[req'[d].id] = d
    <3>1. CASE d = c
      BY <2>1, <2>2, <3>1 DEF TypeOK
    <3>2. CASE d # c
      <4>1. req'[d] = req[d] /\ req[d].id \in Ids /\ pending[req[d].id] = d
            /\ req[d].id # nextId
        BY <2>1, <2>3, <2>4, <3>2, LinkAssumption DEF WaitersMatchPending
      <4> QED BY <2>1, <4>1 DEF TypeOK
    <3> QED BY <3>1, <3>2
  <2>5. ASSUME NEW i \in Ids, pending'[i] # NoClient
        PROVE  req'[pending'[i]].pc = "wait" /\ req'[pending'[i]].id = i
    <3>1. CASE i = nextId
      BY <2>1, <2>2, <3>1 DEF TypeOK
    <3>2. CASE i # nextId
      <4>1. pending'[i] = pending[i] /\ pending[i] \in Clients /\ pending[i] # c
        BY <2>1, <2>5, <3>2 DEF TypeOK, WaitersMatchPending
      <4> QED BY <2>3, <2>5, <4>1 DEF WaitersMatchPending
    <3> QED BY <3>1, <3>2
  <2> QED BY <2>4, <2>5 DEF WaitersMatchPending
<1>5. ASSUME NEW i \in Ids, Timeout(i)
      PROVE  WaitersMatchPending'
  <2>1. pending[i] \in Clients /\ req[pending[i]].pc # "idle"
    BY <1>5 DEF Timeout, TimerArmed, TypeOK, WaitersMatchPending
  <2> QED BY <1>5, <2>1, SettleKeepsWaiters DEF Timeout
<1>6. ASSUME NEW t \in Tabs, NEW reply \in up[t], HandleReply(t, reply)
      PROVE  WaitersMatchPending'
  <2>1. CASE Honoured(NameOf[t], reply.id)
    <3>1. reply.id \in Ids /\ pending[reply.id] \in Clients /\ req[pending[reply.id]].pc # "idle"
      BY <2>1 DEF Honoured, TypeOK, WaitersMatchPending, Reply_
    <3> QED BY <1>6, <2>1, <3>1, SettleKeepsWaiters DEF HandleReply
  <2>2. CASE ~Honoured(NameOf[t], reply.id)
    BY <1>1, <1>6, <2>2 DEF HandleReply
  <2> QED BY <2>1, <2>2
<1>7. CASE NewProcess
  BY <1>7 DEF NewProcess, WaitersMatchPending, Idle
<1>8. ASSUME Next, ~UNCHANGED <<pending, req>>, ~NewProcess
      PROVE  \/ \E c \in Clients, n \in Names, k \in Kinds : Command(c, n, k)
             \/ \E c \in Clients : DispatchRefused(c) \/ DispatchUnsent(c) \/ DispatchSent(c)
             \/ \E i \in Ids : Timeout(i)
             \/ \E t \in Tabs : \E reply \in up[t] : HandleReply(t, reply)
  BY <1>8 DEF Next, StartSession, EndSession, Connect, LoseSocket, SeeClose, Navigate, Finish
<1>9. CASE UNCHANGED vars
  BY <1>1, <1>9 DEF vars
<1> QED BY <1>1, <1>2, <1>3, <1>4, <1>5, <1>6, <1>7, <1>8, <1>9

LEMMA LogStep ==
  TypeOK /\ FreshIds /\ WaitersMatchPending /\ EveryCommandLogged /\ [Next]_vars
    => FreshIds' /\ EveryCommandLogged'
<1> SUFFICES ASSUME TypeOK, FreshIds, WaitersMatchPending, EveryCommandLogged, [Next]_vars
             PROVE  FreshIds' /\ EveryCommandLogged'
  OBVIOUS
<1> USE Bounds, LinkAssumption DEF FreshIds, EveryCommandLogged
<1>1. CASE UNCHANGED <<nextId, pending, log>>
  BY <1>1
<1>2. ASSUME NEW i \in Ids, pending[i] # NoClient, pending' = Forget(i), log' = Logged(i),
             nextId' = nextId
      PROVE  FreshIds' /\ EveryCommandLogged'
  BY <1>2 DEF Forget, Logged, TypeOK
<1>3. ASSUME NEW c \in Clients, DispatchUnsent(c)
      PROVE  FreshIds' /\ EveryCommandLogged'
  BY <1>3 DEF DispatchUnsent, AdvancedId, Logged, TypeOK, Ids
<1>4. ASSUME NEW c \in Clients, DispatchSent(c)
      PROVE  FreshIds' /\ EveryCommandLogged'
  BY <1>4 DEF DispatchSent, AdvancedId, TypeOK, Ids
<1>5. ASSUME NEW i \in Ids, Timeout(i)
      PROVE  FreshIds' /\ EveryCommandLogged'
  BY <1>2, <1>5 DEF Timeout, TimerArmed
<1>6. ASSUME NEW t \in Tabs, NEW reply \in up[t], HandleReply(t, reply)
      PROVE  FreshIds' /\ EveryCommandLogged'
  <2>1. CASE Honoured(NameOf[t], reply.id)
    <3>1. reply.id \in Ids /\ pending[reply.id] # NoClient
      BY <2>1 DEF Honoured, TypeOK, Reply_
    <3> QED BY <1>2, <1>6, <2>1, <3>1 DEF HandleReply
  <2>2. CASE ~Honoured(NameOf[t], reply.id)
    BY <1>1, <1>6, <2>2 DEF HandleReply
  <2> QED BY <2>1, <2>2
<1>7. CASE NewProcess
  BY <1>7 DEF NewProcess, Ids
<1>8. ASSUME Next, ~UNCHANGED <<nextId, pending, log>>, ~NewProcess
      PROVE  \/ \E c \in Clients : DispatchUnsent(c) \/ DispatchSent(c)
             \/ \E i \in Ids : Timeout(i)
             \/ \E t \in Tabs : \E reply \in up[t] : HandleReply(t, reply)
  BY <1>8 DEF Next, StartSession, EndSession, Command, DispatchRefused, Connect, LoseSocket,
              SeeClose, Navigate, Finish
<1>9. CASE UNCHANGED vars
  BY <1>1, <1>9 DEF vars
<1> QED BY <1>1, <1>3, <1>4, <1>5, <1>6, <1>7, <1>8, <1>9

-----------------------------------------------------------------------------
(* Where commands run *)

\* A name is registered to a tab of that name, and while that tab's socket
\* lives the origin the relay noted is the one the tab is on.
SocketsKnown ==
  \A n \in Names : conn[n] # NoTab =>
    /\ NameOf[conn[n]] = n
    /\ open[conn[n]] => connOrigin[n] = origin[conn[n]]

\* Commands were let through by sessions that had been started by then.
UnderStarted == \A t \in Tabs : \A m \in page[t] : m.under <= started

LEMMA SocketsStep == TypeOK /\ SocketsKnown /\ [Next]_vars => SocketsKnown'
<1> SUFFICES ASSUME TypeOK, SocketsKnown, [Next]_vars PROVE SocketsKnown'
  OBVIOUS
<1> USE LinkAssumption DEF SocketsKnown
<1>1. CASE UNCHANGED <<conn, connOrigin, origin, open>>
  BY <1>1
<1>2. ASSUME NEW t \in Tabs, Connect(t)
      PROVE  SocketsKnown'
  <2>1. /\ conn' = [conn EXCEPT ![NameOf[t]] = t]
        /\ connOrigin' = [connOrigin EXCEPT ![NameOf[t]] = origin[t]]
        /\ open' = [open EXCEPT ![t] = TRUE]
        /\ origin' = origin
    BY <1>2 DEF Connect
  <2>2. ASSUME NEW n \in Names, n # NameOf[t], conn'[n] # NoTab
        PROVE  NameOf[conn'[n]] = n /\ (open'[conn'[n]] => connOrigin'[n] = origin'[conn'[n]])
    <3>1. conn'[n] = conn[n] /\ connOrigin'[n] = connOrigin[n] /\ conn[n] # t
      BY <2>1, <2>2 DEF TypeOK
    <3> QED BY <2>1, <2>2, <3>1 DEF TypeOK
  <2> QED BY <2>1, <2>2 DEF TypeOK
<1>3. ASSUME NEW t \in Tabs, NEW kept \in SUBSET page[t], LoseSocket(t, kept)
      PROVE  SocketsKnown'
  BY <1>3 DEF LoseSocket, TypeOK
<1>4. ASSUME NEW n \in Names, SeeClose(n)
      PROVE  SocketsKnown'
  BY <1>4 DEF SeeClose, TypeOK
<1>5. ASSUME NEW t \in Tabs, NEW o \in Origins, Navigate(t, o)
      PROVE  SocketsKnown'
  BY <1>5 DEF Navigate, TypeOK
<1>6. CASE NewProcess
  BY <1>6 DEF NewProcess
<1>7. ASSUME Next, ~UNCHANGED <<conn, connOrigin, origin, open>>, ~NewProcess
      PROVE  \/ \E t \in Tabs : Connect(t)
             \/ \E t \in Tabs : \E kept \in SUBSET page[t] : LoseSocket(t, kept)
             \/ \E n \in Names : SeeClose(n)
             \/ \E t \in Tabs, o \in Origins : Navigate(t, o)
  BY <1>7 DEF Next, StartSession, EndSession, Command, DispatchRefused, DispatchUnsent,
              DispatchSent, Timeout, HandleReply, Finish, tabVars
<1>8. CASE UNCHANGED vars
  BY <1>1, <1>8 DEF vars, tabVars
<1> QED BY <1>1, <1>2, <1>3, <1>4, <1>5, <1>6, <1>7, <1>8

\* A session row is never changed once a command can have run under it.
LEMMA AllowedStep ==
  TypeOK /\ SocketsKnown /\ UnderStarted /\ RunsWhereAllowed /\ [Next]_vars
    => UnderStarted' /\ RunsWhereAllowed'
<1> SUFFICES ASSUME TypeOK, SocketsKnown, UnderStarted, RunsWhereAllowed, [Next]_vars
             PROVE  UnderStarted' /\ RunsWhereAllowed'
  OBVIOUS
<1> USE Bounds, LinkAssumption DEF UnderStarted, RunsWhereAllowed
<1>1. ASSUME UNCHANGED <<started, sess>>,
             \A t \in Tabs : page'[t] \subseteq page[t],
             \A t \in Tabs : page'[t] # {} => origin'[t] = origin[t]
      PROVE  UnderStarted' /\ RunsWhereAllowed'
  BY <1>1
<1>2. CASE UNCHANGED <<started, sess, page, origin>>
  BY <1>2
<1>3. ASSUME NEW n \in Names, NEW autoEnd \in BOOLEAN, NEW mode \in Modes,
             StartSession(n, autoEnd, mode)
      PROVE  UnderStarted' /\ RunsWhereAllowed'
  <2>1. /\ started' = started + 1 /\ page' = page /\ origin' = origin
        /\ \A s \in SessionIds : s <= started => sess'[s] = sess[s]
    BY <1>3 DEF StartSession, TypeOK, tabVars, SessionIds
  <2>2. \A t \in Tabs : \A m \in page[t] :
          m.under # 0 => m.under \in SessionIds /\ sess'[m.under] = sess[m.under]
    BY <2>1 DEF TypeOK, Command_, SessionIds
  <2>3. UnderStarted'
    BY <2>1 DEF TypeOK, Command_
  <2> QED BY <2>1, <2>2, <2>3
<1>4. ASSUME NEW c \in Clients, DispatchSent(c)
      PROVE  UnderStarted' /\ RunsWhereAllowed'
  <2> DEFINE r == req[c]
             t == conn[r.name]
             m == [boot |-> boot, id |-> nextId, by |-> c, root |-> r.root, step |-> r.step,
                   tries |-> r.tries, what |-> r.what, sess |-> r.sess, under |-> cur]
  <2>1. /\ ~GuardRefuses(r.name, r.what) /\ t # NoTab
        /\ page' = IF open[t] THEN [page EXCEPT ![t] = @ \cup {m}] ELSE page
        /\ UNCHANGED <<started, sess, origin, cur>>
        /\ r \in Request
    BY <1>4 DEF DispatchSent, dbVars, TypeOK, Idle
  <2>2. r.name \in Names /\ t \in Tabs
    BY <2>1 DEF TypeOK, Request
  <2>3. m.under = cur /\ m.what = r.what /\ cur <= started
    BY DEF TypeOK
  <2>4. CASE open[t]
    <3>1. connOrigin[r.name] = origin[t] /\ origin[t] # NoOrigin
      BY <2>1, <2>2, <2>4 DEF SocketsKnown, TypeOK
    <3>2. cur # 0 => /\ sess[cur].pin \in {NoOrigin, origin[t]}
                     /\ r.what \in Mutating => sess[cur].remote \/ origin[t] \in LocalOrigins
      BY <2>1, <3>1 DEF GuardRefuses
    <3>3. \A u \in Tabs : page'[u] \subseteq page[u] \cup (IF u = t THEN {m} ELSE {})
      BY <2>1, <2>2, <2>4 DEF TypeOK
    <3>4. ASSUME NEW u \in Tabs, NEW x \in page'[u]
          PROVE  /\ x.under <= started
                 /\ x.under # 0 =>
                      /\ sess[x.under].pin \in {NoOrigin, origin[u]}
                      /\ x.what \in Mutating => sess[x.under].remote \/ origin[u] \in LocalOrigins
      <4>1. CASE x \in page[u]
        BY <4>1
      <4>2. CASE u = t /\ x = m
        BY <2>3, <3>2, <4>2
      <4> QED BY <3>3, <3>4, <4>1, <4>2
    <3> QED BY <2>1, <3>4
  <2>5. CASE ~open[t]
    BY <1>2, <2>1, <2>5
  <2> QED BY <2>4, <2>5
<1>5. ASSUME NEW t \in Tabs, NEW kept \in SUBSET page[t], LoseSocket(t, kept)
      PROVE  UnderStarted' /\ RunsWhereAllowed'
  BY <1>1, <1>5 DEF LoseSocket, TypeOK, dbVars
<1>6. ASSUME NEW t \in Tabs, NEW o \in Origins, Navigate(t, o)
      PROVE  UnderStarted' /\ RunsWhereAllowed'
  BY <1>1, <1>6 DEF Navigate, TypeOK, dbVars
<1>7. ASSUME NEW t \in Tabs, NEW m \in page[t], NEW res \in {"ok", "error"}, Finish(t, m, res)
      PROVE  UnderStarted' /\ RunsWhereAllowed'
  BY <1>1, <1>7 DEF Finish, TypeOK, dbVars
<1>8. ASSUME Next, ~UNCHANGED <<started, sess, page, origin>>
      PROVE  \/ \E n \in Names, autoEnd \in BOOLEAN, mode \in Modes : StartSession(n, autoEnd, mode)
             \/ \E c \in Clients : DispatchSent(c)
             \/ \E t \in Tabs : \E kept \in SUBSET page[t] : LoseSocket(t, kept)
             \/ \E t \in Tabs, o \in Origins : Navigate(t, o)
             \/ \E t \in Tabs : \E m \in page[t], res \in {"ok", "error"} : Finish(t, m, res)
  BY <1>8 DEF Next, EndSession, Command, DispatchRefused, DispatchUnsent, Timeout, HandleReply,
              Connect, SeeClose, NewProcess, tabVars, dbVars
<1>9. CASE UNCHANGED vars
  BY <1>2, <1>9 DEF vars, tabVars, dbVars
<1> QED BY <1>2, <1>3, <1>4, <1>5, <1>6, <1>7, <1>8, <1>9

-----------------------------------------------------------------------------
(* Which promise a reply resolves *)

\* x, a command at a page or its reply, is what the entry under its id awaits.
Awaited(x) ==
  /\ x.by = pending[x.id]
  /\ x.root = req[pending[x.id]].root
  /\ x.step = req[pending[x.id]].step

Agrees(x) ==
  /\ x.boot <= boot
  /\ x.boot = boot => x.id < nextId /\ (pending[x.id] # NoClient => Awaited(x))

\* Everything in flight that this relay process sent is either what its entry
\* awaits or no longer awaited.
AnswersAgree == \A t \in Tabs : \A x \in page[t] \cup up[t] : Agrees(x)

\* An entry that a step leaves in place still awaits the same command.
LEMMA AgreesKept ==
  ASSUME TypeOK, NEW x, x.id \in Ids, Agrees(x), boot' = boot,
         nextId' \in Nat, nextId <= nextId',
         pending'[x.id] \in {pending[x.id], NoClient},
         pending'[x.id] # NoClient =>
           /\ req'[pending[x.id]].root = req[pending[x.id]].root
           /\ req'[pending[x.id]].step = req[pending[x.id]].step
  PROVE  Agrees(x)'
BY Bounds DEF TypeOK, Agrees, Awaited, Ids

LEMMA InFlightType ==
  ASSUME TypeOK, NEW t \in Tabs, NEW x \in page[t] \cup up[t]
  PROVE  x.id \in Ids /\ x.boot \in 1..MaxBoot /\ x.step \in Steps
BY DEF TypeOK, Command_, Reply_

LEMMA AnswersStep ==
  TypeOK /\ FreshIds /\ WaitersMatchPending /\ AnswersAgree /\ [Next]_vars => AnswersAgree'
<1> SUFFICES ASSUME TypeOK, FreshIds, WaitersMatchPending, AnswersAgree, [Next]_vars
             PROVE  AnswersAgree'
  OBVIOUS
<1> USE Bounds, LinkAssumption
<1>1. ASSUME UNCHANGED <<boot, nextId, pending, req>>,
             \A t \in Tabs : page'[t] \cup up'[t] \subseteq page[t] \cup up[t]
      PROVE  AnswersAgree'
  BY <1>1 DEF AnswersAgree, Agrees, Awaited
\* A handler that was not woken awaits what it awaited.
<1>2. ASSUME NEW c \in Clients, NEW outcome, req[c].pc # "idle", Settle(c, outcome),
             \/ req[c].pc = "due" /\ pending' = pending
             \/ \E i \in Ids : pending[i] = c /\ pending' = Forget(i),
             boot' = boot, nextId' \in Nat, nextId <= nextId',
             \A t \in Tabs : page'[t] \cup up'[t] \subseteq page[t] \cup up[t]
      PROVE  AnswersAgree'
  <2>1. \A d \in Clients \ {c} : req'[d] = req[d]
    BY <1>2, SettleType
  <2>2. \A i \in Ids : /\ pending'[i] \in {pending[i], NoClient}
                       /\ pending'[i] # NoClient => pending[i] \in Clients \ {c}
    BY <1>2 DEF TypeOK, WaitersMatchPending, Forget
  <2>3. ASSUME NEW t \in Tabs, NEW x \in page[t] \cup up[t]
        PROVE  Agrees(x)'
    BY <1>2, <2>1, <2>2, InFlightType, AgreesKept DEF AnswersAgree
  <2> QED BY <1>2, <2>3 DEF AnswersAgree
<1>3. ASSUME NEW c \in Clients, NEW n \in Names, NEW k \in Kinds, Command(c, n, k)
      PROVE  AnswersAgree'
  <2>1. /\ \A d \in Clients \ {c} : req'[d] = req[d]
        /\ \A i \in Ids : pending[i] # c
        /\ UNCHANGED <<boot, nextId, pending, page, up>>
    BY <1>3 DEF Command, TypeOK, WaitersMatchPending, tabVars
  <2>2. ASSUME NEW t \in Tabs, NEW x \in page[t] \cup up[t]
        PROVE  Agrees(x)'
    <3>1. x.id \in Ids /\ Agrees(x)
      BY InFlightType DEF AnswersAgree
    <3>2. pending[x.id] # NoClient => req'[pending[x.id]] = req[pending[x.id]]
      BY <2>1, <3>1 DEF TypeOK
    <3>3. nextId' \in Nat /\ nextId <= nextId'
      BY <2>1 DEF TypeOK
    <3> QED BY <2>1, <3>1, <3>2, <3>3, AgreesKept
  <2> QED BY <2>1, <2>2 DEF AnswersAgree
<1>4. ASSUME NEW c \in Clients, DispatchRefused(c) \/ DispatchUnsent(c)
      PROVE  AnswersAgree'
  <2>1. nextId' \in Nat /\ nextId <= nextId'
    BY <1>4 DEF DispatchRefused, DispatchUnsent, AdvancedId, TypeOK
  <2> QED BY <1>2, <1>4, <2>1 DEF DispatchRefused, DispatchUnsent, tabVars
<1>5. ASSUME NEW c \in Clients, DispatchSent(c)
      PROVE  AnswersAgree'
  <2> DEFINE r == req[c]
             m == [boot |-> boot, id |-> nextId, by |-> c, root |-> r.root, step |-> r.step,
                   tries |-> r.tries, what |-> r.what, sess |-> r.sess, under |-> cur]
  <2>1. /\ r.pc = "due" /\ r \in Request
        /\ nextId \in Ids /\ nextId' = nextId + 1
        /\ pending' = [pending EXCEPT ![nextId] = c]
        /\ req' = [req EXCEPT ![c] = Await(r, nextId)]
        /\ \A t \in Tabs : page'[t] \subseteq page[t] \cup {m}
        /\ up' = up /\ boot' = boot
    BY <1>5 DEF DispatchSent, AdvancedId, TypeOK, Idle
  <2>2. req'[c].root = r.root /\ req'[c].step = r.step
    BY <2>1 DEF Await, TypeOK, Request
  <2>3. /\ \A d \in Clients \ {c} : req'[d] = req[d]
        /\ \A i \in Ids : pending[i] # c
    BY <2>1 DEF TypeOK, WaitersMatchPending
  <2>4. ASSUME NEW t \in Tabs, NEW x \in page[t] \cup up[t]
        PROVE  Agrees(x)'
    <3>1. x.id \in Ids /\ x.boot \in 1..MaxBoot /\ Agrees(x)
      BY InFlightType DEF AnswersAgree
    <3>2. CASE x.boot = boot
      <4>1. x.id < nextId /\ pending'[x.id] = pending[x.id]
        BY <2>1, <3>1, <3>2 DEF Agrees, TypeOK, Ids
      <4>2. pending[x.id] # NoClient => req'[pending[x.id]] = req[pending[x.id]]
        BY <2>3, <3>1 DEF TypeOK
      <4> QED BY <2>1, <3>1, <4>1, <4>2, AgreesKept DEF TypeOK
    <3>3. CASE x.boot # boot
      BY <2>1, <3>1, <3>3 DEF Agrees
    <3> QED BY <3>2, <3>3
  <2>5. ASSUME NEW x, x = m
        PROVE  Agrees(x)'
    <3>1. pending'[nextId] = c
      BY <2>1 DEF TypeOK
    <3>2. x.boot = boot /\ x.id = nextId /\ x.by = c /\ x.root = r.root /\ x.step = r.step
      BY <2>5
    <3>3. boot' <= boot' /\ nextId < nextId'
      BY <2>1 DEF TypeOK
    <3> QED BY <2>1, <2>2, <3>1, <3>2, <3>3 DEF Agrees, Awaited
  <2> QED BY <2>1, <2>4, <2>5 DEF AnswersAgree
<1>6. ASSUME NEW i \in Ids, Timeout(i)
      PROVE  AnswersAgree'
  <2>1. pending[i] \in Clients /\ req[pending[i]].pc # "idle" /\ nextId' = nextId
    BY <1>6 DEF Timeout, TimerArmed, TypeOK, WaitersMatchPending
  <2>2. nextId' \in Nat /\ nextId <= nextId'
    BY <2>1 DEF TypeOK
  <2> QED BY <1>2, <1>6, <2>1, <2>2 DEF Timeout, tabVars
<1>7. ASSUME NEW t \in Tabs, NEW reply \in up[t], HandleReply(t, reply)
      PROVE  AnswersAgree'
  <2>1. /\ \A u \in Tabs : page'[u] \cup up'[u] \subseteq page[u] \cup up[u]
        /\ boot' = boot /\ nextId' = nextId
    BY <1>7 DEF HandleReply, TypeOK
  <2>2. nextId' \in Nat /\ nextId <= nextId'
    BY <2>1 DEF TypeOK
  <2>3. CASE Honoured(NameOf[t], reply.id)
    <3>1. reply.id \in Ids /\ pending[reply.id] \in Clients /\ req[pending[reply.id]].pc # "idle"
      BY <2>3 DEF Honoured, TypeOK, WaitersMatchPending, Reply_
    <3> QED BY <1>2, <1>7, <2>1, <2>2, <2>3, <3>1 DEF HandleReply
  <2>4. CASE ~Honoured(NameOf[t], reply.id)
    BY <1>1, <1>7, <2>1, <2>4 DEF HandleReply
  <2> QED BY <2>3, <2>4
<1>8. ASSUME NEW t \in Tabs, Connect(t)
      PROVE  AnswersAgree'
  <2>1. \A u \in Tabs : page'[u] \cup up'[u] \subseteq page[u] \cup up[u]
    BY <1>8 DEF Connect, TypeOK
  <2> QED BY <1>1, <1>8, <2>1 DEF Connect
<1>9. ASSUME NEW t \in Tabs, NEW kept \in SUBSET page[t], LoseSocket(t, kept)
      PROVE  AnswersAgree'
  BY <1>1, <1>9 DEF LoseSocket, TypeOK
<1>10. ASSUME NEW n \in Names, SeeClose(n)
       PROVE  AnswersAgree'
  BY <1>1, <1>10 DEF SeeClose, TypeOK
<1>11. ASSUME NEW t \in Tabs, NEW o \in Origins, Navigate(t, o)
       PROVE  AnswersAgree'
  BY <1>1, <1>11 DEF Navigate, TypeOK
<1>12. ASSUME NEW t \in Tabs, NEW m \in page[t], NEW res \in {"ok", "error"}, Finish(t, m, res)
       PROVE  AnswersAgree'
  <2> DEFINE reply == [boot |-> m.boot, id |-> m.id, by |-> m.by, root |-> m.root,
                       step |-> m.step, res |-> res]
  <2>1. /\ \A u \in Tabs : page'[u] \cup up'[u] \subseteq page[u] \cup up[u] \cup {reply}
        /\ UNCHANGED <<boot, nextId, pending, req>>
    BY <1>12 DEF Finish, TypeOK
  <2>2. Agrees(m)
    BY DEF AnswersAgree
  <2>3. Agrees(reply)
    BY <2>2 DEF Agrees, Awaited
  <2> QED BY <2>1, <2>3 DEF AnswersAgree, Agrees, Awaited
<1>13. CASE NewProcess
  <2>1. /\ boot' = boot + 1 /\ page' = page
        /\ \A t \in Tabs : up'[t] = {}
    BY <1>13 DEF NewProcess
  <2>2. ASSUME NEW t \in Tabs, NEW x \in page[t] \cup up[t]
        PROVE  Agrees(x)'
    <3>1. x.boot <= boot /\ x.boot \in 1..MaxBoot
      BY InFlightType DEF AnswersAgree, Agrees
    <3> QED BY <2>1, <3>1 DEF Agrees, TypeOK
  <2> QED BY <2>1, <2>2 DEF AnswersAgree
<1>14. CASE UNCHANGED <<boot, nextId, pending, req, page, up>>
  BY <1>1, <1>14
<1>15. ASSUME Next, ~UNCHANGED <<boot, nextId, pending, req, page, up>>, ~NewProcess
       PROVE  \/ \E c \in Clients, n \in Names, k \in Kinds : Command(c, n, k)
              \/ \E c \in Clients : DispatchRefused(c) \/ DispatchUnsent(c) \/ DispatchSent(c)
              \/ \E i \in Ids : Timeout(i)
              \/ \E t \in Tabs : \E reply \in up[t] : HandleReply(t, reply)
              \/ \E t \in Tabs : Connect(t)
              \/ \E t \in Tabs : \E kept \in SUBSET page[t] : LoseSocket(t, kept)
              \/ \E n \in Names : SeeClose(n)
              \/ \E t \in Tabs, o \in Origins : Navigate(t, o)
              \/ \E t \in Tabs : \E m \in page[t], res \in {"ok", "error"} : Finish(t, m, res)
  BY <1>15 DEF Next, StartSession, EndSession, tabVars
<1>16. CASE UNCHANGED vars
  BY <1>14, <1>16 DEF vars, tabVars
<1> QED BY <1>3, <1>4, <1>5, <1>6, <1>7, <1>8, <1>9, <1>10, <1>11, <1>12, <1>13, <1>14, <1>15, <1>16

\* A reply resolves the promise of another command only if an earlier process
\* sent the command it answers.
LEMMA CrossedStep ==
  TypeOK /\ WaitersMatchPending /\ AnswersAgree /\ MismatchOnlyAcrossRestart /\ [Next]_vars
    => MismatchOnlyAcrossRestart'
<1> SUFFICES ASSUME TypeOK, WaitersMatchPending, AnswersAgree, MismatchOnlyAcrossRestart, [Next]_vars
             PROVE  MismatchOnlyAcrossRestart'
  OBVIOUS
<1> USE DEF MismatchOnlyAcrossRestart
<1>1. CASE crossed' = crossed
  BY <1>1
<1>2. ASSUME NEW t \in Tabs, NEW reply \in up[t], HandleReply(t, reply)
      PROVE  MismatchOnlyAcrossRestart'
  <2>1. CASE Honoured(NameOf[t], reply.id)
    <3> DEFINE c == pending[reply.id]
    <3>1. crossed' = crossed \cup Crossing(req[c], c, reply) /\ c # NoClient
      BY <1>2, <2>1 DEF HandleReply, Honoured
    <3>2. Agrees(reply) /\ reply.boot \in 1..MaxBoot /\ reply.boot <= boot
      BY InFlightType DEF AnswersAgree, Agrees
    <3>3. CASE reply.boot = boot
      <4>1. Crossing(req[c], c, reply) = {}
        BY <3>1, <3>2, <3>3 DEF Agrees, Awaited, Crossing
      <4> QED BY <3>1, <4>1
    <3>4. CASE reply.boot # boot
      <4>1. \A a \in 1..MaxBoot : a <= boot /\ a # boot => a < boot
        BY Bounds DEF TypeOK
      <4>2. reply.boot < boot
        BY <3>2, <3>4, <4>1
      <4> QED BY <3>1, <4>2 DEF Crossing
    <3> QED BY <3>3, <3>4
  <2>2. CASE ~Honoured(NameOf[t], reply.id)
    BY <1>1, <1>2, <2>2 DEF HandleReply
  <2> QED BY <2>1, <2>2
<1>3. ASSUME Next, crossed' # crossed
      PROVE  \E t \in Tabs : \E reply \in up[t] : HandleReply(t, reply)
  BY <1>3 DEF Next, StartSession, EndSession, Command, DispatchRefused, DispatchUnsent,
              DispatchSent, Timeout, Connect, LoseSocket, SeeClose, Navigate, Finish, NewProcess
<1>4. CASE UNCHANGED vars
  BY <1>1, <1>4 DEF vars
<1> QED BY <1>1, <1>2, <1>3, <1>4

-----------------------------------------------------------------------------
(* Remedies *)

\* Ids order what one process sent: a command in a page is not older than its request, there is one copy of it, and
\* none once its reply is on its way.  The snapshot before a write is taken once.
Numbered ==
  /\ \A t \in Tabs : \A m \in page[t] : m.root <= m.id
  /\ \A c \in Clients : req[c].pc # "idle" => req[c].root <= nextId
  /\ \A c \in Clients : req[c].step = "before" => req[c].tries = 1
OneCopy ==
  \A t, u \in Tabs : \A m \in page[t], w \in page[u] :
    m.boot = boot /\ w.boot = boot /\ m.id = w.id => t = u /\ m = w
Answered ==
  \A t, u \in Tabs : \A x \in up[t], m \in page[u] : x.boot = boot /\ m.boot = boot => x.id # m.id

\* What a request r that got so far may still have in a page: nothing of a try to come, no write but the one it awaits
\* or gave up on, and no remedy next to a write.
Behind(r, m) ==
  /\ r.step # "after" => m.tries <= r.tries
  /\ m.tries = r.tries =>
       /\ r.step = "before" => m.step \notin {"trigger", "remedy"}
       /\ r.step = "trigger" => m.step # "remedy" /\ (m.step = "trigger" => r.pc = "wait" /\ m.id = r.id)
       /\ r.step = "verify" => m.step # "remedy"
       /\ r.step = "remedy" => m.step # "trigger"
Orderly ==
  crossed = {} => \A c \in Clients : req[c].pc # "idle" => \A t \in Tabs : \A m \in page[t] :
    m.boot = boot /\ m.by = c /\ m.root = req[c].root => Behind(req[c], m)
Races == Numbered /\ OneCopy /\ Answered /\ Orderly /\ RemedyNeverRaces

LEMMA ContinueRoot ==
  ASSUME NEW r \in Request, NEW outcome, NEW q \in Continue(r, outcome), q.pc # "idle"
  PROVE  q.root = r.root /\ q.step # "before"
<1>1. \A step, what, tries : Hop(r, step, what, tries).root = r.root /\ Hop(r, step, what, tries).step = step
  BY DEF Hop
<1>2. \A x \in AfterFailure(r) : x # Idle => x.root = r.root /\ x.step # "before"
  BY <1>1 DEF AfterFailure, Raise
<1>3. \A x \in AfterError(r, outcome) \cup AfterError(r, "timeout") : x # Idle => x.root = r.root /\ x.step # "before"
  BY <1>1, <1>2 DEF AfterError, Remedies
<1>4. q # Idle
  BY DEF Idle
<1>5. r.step \in Steps
  BY DEF Request
<1>6. CASE r.step \in {"before", "after", "shot"}
  BY <1>1, <1>2, <1>4, <1>6 DEF Continue, AfterFailure, Raise
<1>7. CASE r.step = "trigger"
  BY <1>1, <1>3, <1>4, <1>7 DEF Continue, FailedTrigger
<1>8. CASE r.step \in {"verify", "remedy"}
  BY <1>2, <1>3, <1>4, <1>8 DEF Continue
<1> QED BY <1>5, <1>6, <1>7, <1>8 DEF Steps

\* What comes after a dispatch has behind it what the dispatch had, unless it is the failed write itself.
LEMMA RaiseBehind ==
  ASSUME NEW r \in Request, NEW m \in Command_, m.tries <= r.tries, NEW q \in Raise(r), q.pc # "idle"
  PROVE  q.root = r.root /\ Behind(q, m)
<1>1. r.tries = 1 /\ q = Hop(r, "trigger", r.kind, 2)
  BY DEF Raise, Request, Idle
<1>2. q.root = r.root /\ q.step = "trigger" /\ q.tries = 2
  BY <1>1 DEF Hop
<1>3. m.tries <= 2 /\ m.tries # 2
  BY <1>1 DEF Command_
<1> QED BY <1>2, <1>3 DEF Behind

LEMMA AfterFailureBehind ==
  ASSUME NEW r \in Request, NEW m \in Command_, m.tries <= r.tries, NEW q \in AfterFailure(r), q.pc # "idle"
  PROVE  q.root = r.root /\ Behind(q, m)
<1>1. CASE q = Hop(r, "shot", "dom.screenshot", r.tries)
  <2>1. q.root = r.root /\ q.step = "shot" /\ q.tries = r.tries
    BY <1>1 DEF Hop
  <2> QED BY <2>1 DEF Behind
<1>2. CASE q \in Raise(r)
  BY <1>2, RaiseBehind
<1> QED BY <1>1, <1>2 DEF AfterFailure

LEMMA AfterErrorBehind ==
  ASSUME NEW r \in Request, NEW m \in Command_, m.tries <= r.tries, NEW outcome,
         outcome = "timeout" \/ (m.tries = r.tries => m.step # "trigger"),
         NEW q \in AfterError(r, outcome), q.pc # "idle"
  PROVE  q.root = r.root /\ Behind(q, m)
<1>1. CASE q \in AfterFailure(r)
  BY <1>1, AfterFailureBehind
<1>2. ASSUME NEW k \in Kinds, q = Hop(r, "remedy", k, r.tries), outcome # "timeout"
      PROVE  q.root = r.root /\ Behind(q, m)
  <2>1. q.root = r.root /\ q.step = "remedy" /\ q.tries = r.tries
    BY <1>2 DEF Hop
  <2> QED BY <1>2, <2>1 DEF Behind
<1> QED BY <1>1, <1>2 DEF AfterError, MayRemedy, Remedies

LEMMA ContinueBehind ==
  ASSUME NEW r \in Request, NEW m \in Command_, Behind(r, m), r.step = "before" => r.tries = 1, NEW outcome,
         r.step = "trigger" /\ m.step = "trigger" /\ m.tries = r.tries => outcome = "timeout",
         NEW q \in Continue(r, outcome), q.pc # "idle"
  PROVE  q.root = r.root /\ Behind(q, m)
<1>1. CASE r.step = "before"
  <2>1. q = Hop(r, "trigger", r.kind, 1) /\ r.tries = 1
    BY <1>1 DEF Continue, Idle, Behind
  <2>2. q.root = r.root /\ q.step = "trigger" /\ q.tries = 1
    BY <2>1 DEF Hop
  <2> QED BY <1>1, <2>1, <2>2 DEF Behind
<1>2. CASE r.step = "trigger"
  <2>1. CASE outcome = "ok"
    <3>1. q = Hop(r, "after", "idb.snapshot", 1)
      BY <1>2, <2>1 DEF Continue, Idle
    <3>2. q.root = r.root /\ q.step = "after"
      BY <3>1 DEF Hop
    <3> QED BY <3>2 DEF Behind
  <2>2. CASE outcome # "ok" /\ q = Hop(r, "verify", "dom.query", r.tries)
    <3>1. q.root = r.root /\ q.step = "verify" /\ q.tries = r.tries
      BY <2>2 DEF Hop
    <3> QED BY <1>2, <3>1 DEF Behind
  <2>3. CASE q \in AfterError(r, outcome)
    BY <1>2, <2>3, AfterErrorBehind DEF Behind
  <2> QED BY <1>2, <2>1, <2>2, <2>3 DEF Continue, FailedTrigger
<1>3. CASE r.step = "verify"
  BY <1>3, AfterErrorBehind DEF Continue, Behind
<1>4. CASE r.step = "remedy"
  BY <1>4, AfterFailureBehind DEF Continue, Behind
<1>5. CASE r.step = "shot"
  BY <1>5, RaiseBehind DEF Continue, Behind
<1>6. CASE r.step = "after"
  BY <1>6 DEF Continue, Idle
<1>7. r.step \in Steps
  BY DEF Request
<1> QED BY <1>1, <1>2, <1>3, <1>4, <1>5, <1>6, <1>7 DEF Steps

\* Less under way is no race.
LEMMA ShrinkKeepsRaces ==
  ASSUME TypeOK, Races, UNCHANGED boot, nextId' = nextId, UNCHANGED <<req, crossed>>,
         \A t \in Tabs : page'[t] \subseteq page[t],
         Answered'
  PROVE  Races'
<1>1. Numbered'
  BY DEF Races, Numbered
<1>2. OneCopy'
  BY DEF Races, OneCopy
<1>3. Orderly'
  BY DEF Races, Orderly
<1>4. RemedyNeverRaces'
  BY DEF Races, RemedyNeverRaces, InPage
<1> QED BY <1>1, <1>2, <1>3, <1>4 DEF Races

\* A handler that moves on races nothing, whether refused, unsent, timed out or answered.
LEMMA SettleKeepsRaces ==
  ASSUME TypeOK, Races, NEW c \in Clients, NEW outcome, req[c].pc # "idle", Settle(c, outcome),
         UNCHANGED <<boot, page>>, nextId' \in {nextId, nextId + 1},
         \A t \in Tabs : up'[t] \subseteq up[t], crossed \subseteq crossed',
         crossed' = {} => \A t \in Tabs : \A m \in page[t] :
           /\ m.boot = boot /\ m.by = c /\ m.root = req[c].root
           /\ req[c].step = "trigger" /\ m.step = "trigger" /\ m.tries = req[c].tries
           => outcome = "timeout"
  PROVE  Races'
<1>1. req[c] \in Request
  BY DEF TypeOK, Idle
<1>2. PICK q \in Continue(req[c], outcome) : req' = [req EXCEPT ![c] = q]
  BY DEF Settle
<1>3. req'[c] = q /\ \A d \in Clients \ {c} : req'[d] = req[d]
  BY <1>2 DEF TypeOK
<1>4. q.step # "before" /\ (q.pc # "idle" => q.root = req[c].root)
  <2>1. q.pc # "idle" => q.root = req[c].root /\ q.step # "before"
    BY <1>1, <1>2, ContinueRoot
  <2>2. q \in DueRequest \cup {Idle}
    BY <1>1, <1>2, ContinueType
  <2> QED BY <2>1, <2>2 DEF DueRequest, Idle
<1>5. nextId \in Nat /\ \A d \in Clients : req[d].pc # "idle" => req[d].root \in Nat
  <2>1. \A d \in Clients : req[d].pc # "idle" => req[d] \in Request
    BY DEF TypeOK, Idle
  <2> QED BY <2>1, Bounds DEF TypeOK, Request
<1>6. Numbered'
  <2>1. ASSUME NEW d \in Clients, req'[d].pc # "idle" PROVE req'[d].root <= nextId'
    <3>1. req[d].pc # "idle" /\ req'[d].root = req[d].root
      BY <1>3, <1>4, <2>1
    <3>2. req[d].root <= nextId
      BY <3>1 DEF Races, Numbered
    <3> QED BY <1>5, <3>1, <3>2
  <2>2. \A d \in Clients : req'[d].step = "before" => req'[d].tries = 1
    BY <1>3, <1>4 DEF Races, Numbered
  <2> QED BY <2>1, <2>2 DEF Races, Numbered
<1>7. OneCopy' /\ Answered'
  BY DEF Races, OneCopy, Answered
<1>8. Orderly'
  <2> SUFFICES ASSUME crossed' = {}, NEW d \in Clients, req'[d].pc # "idle", NEW t \in Tabs, NEW m \in page[t],
                      m.boot = boot, m.by = d, m.root = req'[d].root
               PROVE  Behind(req'[d], m)
    BY DEF Orderly
  <2>1. crossed = {}
    OBVIOUS
  <2>2. CASE d # c
    <3>1. req'[d] = req[d]
      BY <1>3, <2>2
    <3> QED BY <2>1, <3>1 DEF Races, Orderly
  <2>3. CASE d = c
    <3>1. m.root = req[c].root /\ m \in Command_ /\ q.pc # "idle" /\ req'[d] = q
      BY <1>3, <1>4, <2>3 DEF TypeOK
    <3>2. Behind(req[c], m) /\ (req[c].step = "before" => req[c].tries = 1)
      BY <2>1, <2>3, <3>1 DEF Races, Orderly, Numbered
    <3>3. Behind(q, m)
      BY <1>1, <1>2, <2>3, <3>1, <3>2, ContinueBehind
    <3> QED BY <3>1, <3>3
  <2> QED BY <2>2, <2>3
<1>9. RemedyNeverRaces'
  BY DEF Races, RemedyNeverRaces, InPage
<1> QED BY <1>6, <1>7, <1>8, <1>9 DEF Races

LEMMA RacesStep == TypeOK /\ WaitersMatchPending /\ AnswersAgree /\ Races /\ [Next]_vars => Races'
<1> SUFFICES ASSUME TypeOK, WaitersMatchPending, AnswersAgree, Races, [Next]_vars
             PROVE  Races'
  OBVIOUS
<1>1. ASSUME UNCHANGED <<boot, nextId, req, crossed>>,
             \A t \in Tabs : page'[t] \subseteq page[t] /\ up'[t] \subseteq up[t]
      PROVE  Races'
  <2>1. Answered'
    BY <1>1 DEF Races, Answered
  <2> QED BY <1>1, <2>1, ShrinkKeepsRaces
<1>2. ASSUME NEW n \in Names, NEW autoEnd \in BOOLEAN, NEW mode \in Modes, StartSession(n, autoEnd, mode)
      PROVE  Races'
  BY <1>1, <1>2 DEF StartSession, tabVars
<1>3. CASE EndSession
  BY <1>1, <1>3 DEF EndSession, tabVars
<1>4. ASSUME NEW c \in Clients, NEW n \in Names, NEW k \in Kinds, Command(c, n, k)
      PROVE  Races'
  <2> DEFINE strict == sess[cur].strict /\ k \in StrictCrv
             r == [pc |-> "due", name |-> n, kind |-> k, sess |-> cur, root |-> nextId, tries |-> 1,
                   step |-> IF strict THEN "before" ELSE "trigger",
                   what |-> IF strict THEN "idb.snapshot" ELSE k, id |-> 0]
  <2>1. req' = [req EXCEPT ![c] = r] /\ r.root = nextId /\ r.tries = 1
    BY <1>4 DEF Command
  <2> HIDE DEF r
  <2>2. UNCHANGED <<boot, nextId, page, up, crossed>>
    BY <1>4 DEF Command, tabVars
  <2>3. req'[c] = r /\ \A d \in Clients \ {c} : req'[d] = req[d]
    BY <2>1 DEF TypeOK
  <2>4. Numbered'
    <3>1. nextId <= nextId
      BY DEF TypeOK
    <3> QED BY <2>1, <2>2, <2>3, <3>1 DEF Races, Numbered
  <2>5. OneCopy' /\ Answered' /\ RemedyNeverRaces'
    BY <2>2 DEF Races, OneCopy, Answered, RemedyNeverRaces, InPage
  <2>6. Orderly'
    <3>1. ASSUME NEW t \in Tabs, NEW m \in page[t], m.boot = boot PROVE m.root # nextId
      <4>1. m.root <= m.id /\ m.id < nextId /\ m \in Command_
        BY <3>1 DEF Races, Numbered, AnswersAgree, Agrees, TypeOK
      <4> QED BY <4>1, Bounds DEF Command_, Ids, TypeOK
    <3> QED BY <2>1, <2>2, <2>3, <3>1 DEF Races, Orderly
  <2> QED BY <2>4, <2>5, <2>6 DEF Races
<1>5. ASSUME NEW c \in Clients, DispatchRefused(c) \/ DispatchUnsent(c)
      PROVE  Races'
  <2>1. PICK outcome : Settle(c, outcome)
    BY <1>5 DEF DispatchRefused, DispatchUnsent
  <2>2. req[c].pc = "due" /\ UNCHANGED <<boot, page, up, crossed>> /\ nextId' \in {nextId, nextId + 1}
    BY <1>5 DEF DispatchRefused, DispatchUnsent, AdvancedId, tabVars
  <2>3. crossed' = {} => \A t \in Tabs : \A m \in page[t] :
          ~(/\ m.boot = boot /\ m.by = c /\ m.root = req[c].root
            /\ req[c].step = "trigger" /\ m.step = "trigger" /\ m.tries = req[c].tries)
    BY <2>2 DEF Races, Orderly, Behind
  <2> QED BY <2>1, <2>2, <2>3, SettleKeepsRaces
<1>6. ASSUME NEW c \in Clients, DispatchSent(c) PROVE Races'
  <2> DEFINE r == req[c]
             h == conn[r.name]
             x == [boot |-> boot, id |-> nextId, by |-> c, root |-> r.root, step |-> r.step,
                   tries |-> r.tries, what |-> r.what, sess |-> r.sess, under |-> cur]
             q == Await(r, nextId)
  <2>1. /\ r.pc = "due" /\ h # NoTab /\ nextId \in Ids /\ nextId' = nextId + 1
        /\ req' = [req EXCEPT ![c] = q] /\ UNCHANGED <<boot, up, crossed>>
        /\ page' = IF open[h] THEN [page EXCEPT ![h] = @ \cup {x}] ELSE page
    BY <1>6 DEF DispatchSent, AdvancedId
  <2>2. r \in Request /\ r.root \in Nat /\ nextId \in Nat /\ r.root <= nextId
    BY <2>1, Bounds DEF TypeOK, Idle, Request, Races, Numbered
  <2>3. q.pc = "wait" /\ q.id = nextId /\ q.root = r.root /\ q.step = r.step /\ q.tries = r.tries
    BY <2>2 DEF Await, Request
  <2>4. x.boot = boot /\ x.id = nextId /\ x.by = c /\ x.root = r.root /\ x.step = r.step /\ x.tries = r.tries
    OBVIOUS
  <2>5. req'[c] = q /\ \A d \in Clients \ {c} : req'[d] = req[d]
    BY <2>1 DEF TypeOK
  <2> HIDE DEF r, x, q
  <2>6. \A t \in Tabs : \A m \in page'[t] : m \in page[t] \/ (m = x /\ t = h)
    BY <2>1 DEF TypeOK
  <2>7. /\ \A t \in Tabs : \A m \in page[t] : m.boot = boot => m.id # nextId
        /\ \A t \in Tabs : \A y \in up[t] : y.boot = boot => y.id # nextId
    BY <2>2 DEF AnswersAgree, Agrees
  <2>8. Numbered'
    <3>1. ASSUME NEW d \in Clients, req'[d].pc # "idle" PROVE req'[d].root <= nextId'
      <4>1. CASE d = c
        BY <2>1, <2>2, <2>3, <2>5, <4>1
      <4>2. CASE d # c
        <5>1. req'[d] = req[d] /\ req[d] \in Request /\ req[d].root <= nextId
          BY <2>5, <3>1, <4>2 DEF Races, Numbered, TypeOK, Idle
        <5> QED BY <2>1, <2>2, <5>1 DEF Request
      <4> QED BY <4>1, <4>2
    <3>2. \A d \in Clients : req'[d].step = "before" => req'[d].tries = 1
      BY <2>3, <2>5 DEF Races, Numbered, r
    <3> QED BY <2>2, <2>4, <2>6, <3>1, <3>2 DEF Races, Numbered
  <2>9. OneCopy'
    BY <2>1, <2>4, <2>6, <2>7 DEF Races, OneCopy
  <2>10. Answered'
    BY <2>1, <2>4, <2>6, <2>7 DEF Races, Answered
  <2>11. ASSUME crossed = {}, NEW t \in Tabs, NEW m \in page[t], m.boot = boot, m.by = c, m.root = r.root
         PROVE  Behind(r, m)
    BY <2>1, <2>11 DEF Races, Orderly, r
  <2>12. Orderly'
    <3> SUFFICES ASSUME crossed = {}, NEW d \in Clients, req'[d].pc # "idle", NEW t \in Tabs, NEW m \in page'[t],
                        m.boot = boot, m.by = d, m.root = req'[d].root
                 PROVE  Behind(req'[d], m)
      BY <2>1 DEF Orderly
    <3>1. CASE d # c
      <4>1. req'[d] = req[d] /\ m \in page[t]
        BY <2>4, <2>5, <2>6, <3>1
      <4> QED BY <4>1 DEF Races, Orderly
    <3>2. CASE d = c /\ m \in page[t]
      <4>1. Behind(r, m)
        BY <2>3, <2>5, <2>11, <3>2
      <4>2. Behind(q, m)
        BY <2>1, <2>3, <4>1 DEF Behind
      <4> QED BY <2>5, <3>2, <4>2
    <3>3. CASE d = c /\ m = x
      <4>1. r.tries <= r.tries
        BY <2>2 DEF Request
      <4> QED BY <2>3, <2>4, <2>5, <3>3, <4>1 DEF Behind
    <3> QED BY <2>6, <3>1, <3>2, <3>3
  <2>13. RemedyNeverRaces'
    <3> SUFFICES ASSUME crossed = {}, NEW t \in Tabs, NEW u \in Tabs, NEW m \in page'[t], NEW w \in page'[u],
                        SameRequest(m, w), m.tries = w.tries, m.step = "trigger", w.step = "remedy"
                 PROVE  FALSE
      BY <2>1 DEF RemedyNeverRaces, InPage
    <3>1. CASE m \in page[t] /\ w \in page[u]
      BY <3>1 DEF Races, RemedyNeverRaces, InPage
    <3>2. CASE m = x /\ w \in page[u]
      <4>1. Behind(r, w)
        BY <2>4, <2>11, <3>2 DEF SameRequest
      <4> QED BY <2>4, <3>2, <4>1 DEF Behind
    <3>3. CASE m \in page[t] /\ w = x
      <4>1. Behind(r, m)
        BY <2>4, <2>11, <3>3 DEF SameRequest
      <4> QED BY <2>4, <3>3, <4>1 DEF Behind
    <3> QED BY <2>6, <3>1, <3>2, <3>3
  <2> QED BY <2>8, <2>9, <2>10, <2>12, <2>13 DEF Races
<1>7. ASSUME NEW i \in Ids, Timeout(i) PROVE Races'
  <2>1. pending[i] \in Clients /\ req[pending[i]].pc # "idle"
    BY <1>7 DEF Timeout, TimerArmed, TypeOK, WaitersMatchPending
  <2> QED BY <1>7, <2>1, SettleKeepsRaces DEF Timeout, tabVars
<1>8. ASSUME NEW t \in Tabs, NEW reply \in up[t], HandleReply(t, reply) PROVE Races'
  <2>1. UNCHANGED <<boot, nextId, page>> /\ up' = [up EXCEPT ![t] = @ \ {reply}]
    BY <1>8 DEF HandleReply
  <2>2. \A u \in Tabs : up'[u] \subseteq up[u]
    BY <2>1 DEF TypeOK
  <2>3. CASE Honoured(NameOf[t], reply.id)
    <3>1. PICK c \in Clients : c = pending[reply.id] /\ req[c].pc = "wait" /\ req[c].id = reply.id
      BY <2>3 DEF Honoured, TypeOK, WaitersMatchPending, Reply_
    <3>2. crossed' = crossed \cup Crossing(req[c], c, reply) /\ Settle(c, reply.res)
      BY <1>8, <2>3, <3>1 DEF HandleReply
    <3>3. ASSUME crossed' = {}, NEW u \in Tabs, NEW m \in page[u],
                 m.boot = boot, m.by = c, m.root = req[c].root,
                 req[c].step = "trigger", m.step = "trigger", m.tries = req[c].tries
          PROVE  FALSE
      <4>1. reply.boot = boot /\ crossed = {}
        BY <3>2, <3>3 DEF Crossing
      <4>2. Behind(req[c], m)
        BY <3>1, <3>3, <4>1 DEF Races, Orderly
      <4>3. m.id = reply.id
        BY <3>1, <3>3, <4>2 DEF Behind
      <4> QED BY <3>3, <4>1, <4>3 DEF Races, Answered
    <3> QED BY <2>1, <2>2, <3>1, <3>2, <3>3, SettleKeepsRaces
  <2>4. CASE ~Honoured(NameOf[t], reply.id)
    BY <1>1, <1>8, <2>1, <2>2, <2>4 DEF HandleReply
  <2> QED BY <2>3, <2>4
<1>9. ASSUME NEW t \in Tabs, Connect(t) PROVE Races'
  <2>1. \A u \in Tabs : up'[u] \subseteq up[u]
    BY <1>9 DEF Connect
  <2> QED BY <1>1, <1>9, <2>1 DEF Connect
<1>10. ASSUME NEW t \in Tabs, NEW kept \in SUBSET page[t], LoseSocket(t, kept) PROVE Races'
  <2>1. \A u \in Tabs : page'[u] \subseteq page[u]
    BY <1>10 DEF LoseSocket, TypeOK
  <2> QED BY <1>1, <1>10, <2>1 DEF LoseSocket
<1>11. ASSUME NEW n \in Names, SeeClose(n) PROVE Races'
  <2>1. \A u \in Tabs : up'[u] \subseteq up[u]
    BY <1>11 DEF SeeClose, TypeOK
  <2> QED BY <1>1, <1>11, <2>1 DEF SeeClose
<1>12. ASSUME NEW t \in Tabs, NEW o \in Origins, Navigate(t, o) PROVE Races'
  <2>1. \A u \in Tabs : page'[u] \subseteq page[u]
    BY <1>12 DEF Navigate, TypeOK
  <2> QED BY <1>1, <1>12, <2>1 DEF Navigate
<1>13. ASSUME NEW t \in Tabs, NEW m \in page[t], NEW res \in {"ok", "error"}, Finish(t, m, res) PROVE Races'
  <2> DEFINE x == [boot |-> m.boot, id |-> m.id, by |-> m.by, root |-> m.root, step |-> m.step, res |-> res]
  <2>1. /\ page' = [page EXCEPT ![t] = @ \ {m}] /\ up' \in {up, [up EXCEPT ![t] = @ \cup {x}]}
        /\ UNCHANGED <<boot, nextId, req, crossed>>
    BY <1>13 DEF Finish
  <2>2. x.boot = m.boot /\ x.id = m.id
    OBVIOUS
  <2> HIDE DEF x
  <2>3. \A u \in Tabs : page'[u] \subseteq page[u] /\ (m \notin page'[u] \/ u # t)
    BY <2>1 DEF TypeOK
  <2>4. \A u \in Tabs : \A y \in up'[u] : y \in up[u] \/ y = x
    BY <2>1 DEF TypeOK
  <2>5. \A u \in Tabs : \A w \in page'[u] : m.boot = boot /\ w.boot = boot => w.id # m.id
    BY <2>3 DEF Races, OneCopy
  <2>6. Answered'
    BY <2>1, <2>2, <2>3, <2>4, <2>5 DEF Races, Answered
  <2> QED BY <2>1, <2>3, <2>6, ShrinkKeepsRaces
<1>14. CASE NewProcess
  <2>1. boot' = boot + 1 /\ nextId' = 1 /\ req' = [c \in Clients |-> Idle] /\ UNCHANGED <<page, crossed>>
    BY <1>14 DEF NewProcess
  <2>2. \A t \in Tabs : \A m \in page[t] : m.boot # boot'
    <3>1. ASSUME NEW t \in Tabs, NEW m \in page[t] PROVE m.boot # boot + 1
      <4>1. m.boot <= boot /\ m.boot \in Nat /\ boot \in Nat
        BY Bounds DEF AnswersAgree, Agrees, TypeOK, Command_
      <4> QED BY <4>1
    <3> QED BY <2>1, <3>1
  <2>3. Numbered' /\ OneCopy' /\ Answered' /\ Orderly'
    BY <2>1, <2>2 DEF Races, Numbered, OneCopy, Answered, Orderly, Idle
  <2> QED BY <2>1, <2>3 DEF Races, RemedyNeverRaces, InPage
<1>15. CASE UNCHANGED vars
  BY <1>1, <1>15 DEF vars, tabVars, dbVars
<1> QED BY <1>2, <1>3, <1>4, <1>5, <1>6, <1>7, <1>8, <1>9, <1>10, <1>11, <1>12, <1>13, <1>14, <1>15 DEF Next

-----------------------------------------------------------------------------
(* The inductive invariant and what it gives *)

IInv ==
  /\ TypeOK
  /\ FreshIds /\ WaitersMatchPending /\ EveryCommandLogged
  /\ SocketsKnown /\ UnderStarted /\ RunsWhereAllowed
  /\ AnswersAgree /\ MismatchOnlyAcrossRestart
  /\ Races

LEMMA Invariance == Spec => []IInv
<1>1. Init => IInv
  <2> SUFFICES ASSUME Init PROVE IInv
    OBVIOUS
  <2>1. TypeOK
    BY TypeInit
  <2>2. FreshIds /\ WaitersMatchPending /\ EveryCommandLogged
    BY Bounds DEF Init, FreshIds, WaitersMatchPending, EveryCommandLogged, Idle, Ids
  <2>3. SocketsKnown /\ UnderStarted /\ RunsWhereAllowed
    BY DEF Init, SocketsKnown, UnderStarted, RunsWhereAllowed
  <2>4. AnswersAgree /\ MismatchOnlyAcrossRestart
    BY DEF Init, AnswersAgree, MismatchOnlyAcrossRestart
  <2>5. Races
    BY DEF Init, Races, Numbered, OneCopy, Answered, Orderly, RemedyNeverRaces, InPage, Idle
  <2> QED BY <2>1, <2>2, <2>3, <2>4, <2>5 DEF IInv
<1>2. IInv /\ [Next]_vars => IInv'
  BY TypeStep, WaitersStep, LogStep, SocketsStep, AllowedStep, AnswersStep, CrossedStep, RacesStep DEF IInv
<1> QED BY <1>1, <1>2, PTL DEF Spec

\* Every variable keeps its type.
THEOREM TypeCorrect == Spec => []TypeOK
BY Invariance, PTL DEF IInv

\* No wake-up of the /command handler is lost or doubled, through timeouts,
\* replaced tabs, dead sockets and relay restarts.
THEOREM NoLostWakeup == Spec => []WaitersMatchPending
BY Invariance, PTL DEF IInv

\* The running relay writes one row for each command it dispatched, when the
\* command is no longer awaited.
THEOREM ActionsRecorded == Spec => []EveryCommandLogged
BY Invariance, PTL DEF IInv

\* guardDispatchOrigin, evaluated before the frame is written, still holds at
\* the page that runs the command.
THEOREM GuardHoldsAtPage == Spec => []RunsWhereAllowed
BY Invariance, PTL DEF IInv

\* Within one relay process a reply resolves only the promise of the command
\* it answers.
THEOREM RepliesNotMixed == Spec => []MismatchOnlyAcrossRestart
BY Invariance, PTL DEF IInv

\* A remedy of dispatchTracked never meets, at any page, the write it is a remedy for, unless a reply from before a
\* restart of the relay was taken for that write's.
THEOREM RemediesWait == Spec => []RemedyNeverRaces
<1>1. IInv => RemedyNeverRaces
  BY DEF IInv, Races
<1> QED BY <1>1, Invariance, PTL
=============================================================================

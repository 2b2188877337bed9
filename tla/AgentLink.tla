----------------------------- MODULE AgentLink -----------------------------
(***************************************************************************)
(* The command round trip of the Web-scout relay: HTTP callers, the        *)
(* relay's table of pending commands, the WebSocket of each browser tab    *)
(* and the in-page agent that runs the commands.                           *)
(*                                                                         *)
(* The relay is one Node process, so a handler runs to its next await      *)
(* without interruption.  A caller whose handler is between two awaits is  *)
(* "due": it is about to dispatch, and every other action waits (Quiet).   *)
(* A caller whose handler awaits a reply is "wait".  Tabs run beside the   *)
(* relay; commands and replies in transit belong to one socket and are     *)
(* lost with it.                                                           *)
(*                                                                         *)
(* Timers are untimed: a pending command may time out at any moment, which *)
(* covers every ratio of page speed to timeout.                            *)
(***************************************************************************)
EXTENDS Integers, FiniteSets

CONSTANTS
  Tabs,          \* browser tabs running inject.js
  Names,         \* agent names (?webscout_name=, "default")
  NameOf,        \* the name each tab connects under; two tabs may share one
  Clients,       \* HTTP callers (cli.mjs and mcp-server.mjs processes)
  Kinds,         \* the command types the callers send
  Modes,         \* the options sessions are started with
  Origins,       \* page origins
  LocalOrigins,  \* those whose host is localhost or 127.0.0.1
  NoTab, NoClient, NoOrigin,
  MaxId,         \* bound: command ids per relay process
  MaxBoot,       \* bound: relay processes started, one after another
  MaxSession     \* bound: sessions started

\* Rows of the command registry that differ in how the relay treats them.
Mutating      == {"dom.click", "idb.put", "idb.putMany", "net.clear"}
StrictCrv     == {"dom.click", "idb.put", "idb.putMany"}
Verifiable    == {"dom.click", "idb.put"}
ShotOnFail    == {"dom.click", "dom.wait"}
Recoverable   == {"dom.click", "dom.wait"}
RegistryTypes == Mutating \cup {"dom.wait"}
Types         == RegistryTypes \cup {"dom.query", "idb.snapshot", "dom.screenshot"}

ASSUME LinkAssumption ==
  /\ NameOf \in [Tabs -> Names]
  /\ NoTab \notin Tabs
  /\ NoClient \notin Clients
  /\ NoOrigin \notin Origins
  /\ LocalOrigins \subseteq Origins
  /\ Kinds \subseteq RegistryTypes
  /\ Modes \subseteq [remote: BOOLEAN, strict: BOOLEAN]
  /\ MaxId \in Nat \ {0} /\ MaxBoot \in Nat \ {0} /\ MaxSession \in Nat \ {0}

VARIABLES
  boot,        \* which relay process is running
  nextId,      \* nextCommandId
  pending,     \* pending: command id -> the caller awaiting it
  conn,        \* agents: name -> the tab whose socket is registered
  connOrigin,  \* agents: name -> origin given when that socket connected
  origin,      \* tab: origin of the page now loaded
  open,        \* tab: its WebSocket is open as far as the page knows
  page,        \* tab: commands in transit to it or running in it
  up,          \* tab: replies in transit on its registered socket
  cur,         \* id of the active session, 0 for none
  started,     \* id of the latest session row
  sess,        \* sessions table: what each session was started with
  req,         \* caller: where its /command handler stands
  log,         \* commands of the running relay that have their row in actions
  crossed      \* history: replies that resolved another command's promise

dbVars  == <<cur, started, sess>>
tabVars == <<origin, open, page, up>>
vars    == <<boot, nextId, pending, conn, connOrigin, tabVars, dbVars, req, log,
             crossed>>

Ids        == 1..MaxId
SessionIds == 1..MaxSession
Steps      == {"before", "trigger", "after", "verify", "remedy", "shot"}

Idle == [pc |-> "idle", name |-> "none", kind |-> "none", sess |-> 0, root |-> 0,
         tries |-> 1, step |-> "none", what |-> "none", id |-> 0]

\* nextCommandId += 1: ids are never given out twice by one process.
ReusedId   == IF nextId > 1 /\ pending[nextId - 1] = NoClient THEN nextId ELSE nextId + 1
SkippedId  == nextId + 2
AdvancedId == nextId + 1

\* pending.delete(id)
Remembered(i) == pending
Forget(i)     == [pending EXCEPT ![i] = NoClient]

\* withLoggedAction writes its row whether the command succeeded or not.
Unlogged(i) == log
Logged(i)   == log \cup {i}

\* No handler stands between two awaits.  (One stopped by the bound on
\* command ids does not hold up the event loop.)
Quiet == \A c \in Clients : req[c].pc = "due" => nextId \notin Ids

Init ==
  /\ boot = 1 /\ nextId = 1
  /\ pending = [i \in Ids |-> NoClient]
  /\ conn = [n \in Names |-> NoTab]
  /\ connOrigin = [n \in Names |-> NoOrigin]
  /\ origin \in [Tabs -> Origins]
  /\ open = [t \in Tabs |-> FALSE]
  /\ page = [t \in Tabs |-> {}]
  /\ up = [t \in Tabs |-> {}]
  /\ cur = 0 /\ started = 0
  /\ sess = [s \in SessionIds |-> [pin |-> NoOrigin, remote |-> FALSE, strict |-> FALSE]]
  /\ req = [c \in Clients |-> Idle]
  /\ log = {}
  /\ crossed = {}

-----------------------------------------------------------------------------
(* Sessions *)

\* POST /sessions.  The session is pinned to the origin its starting agent
\* reports, if that agent is connected.  With --if-stale-min an active
\* session that is old enough is ended first (autoEnd); else it refuses.
StartSession(n, autoEnd, mode) ==
  /\ Quiet
  /\ cur = 0 \/ autoEnd
  /\ started < MaxSession
  /\ started' = started + 1
  /\ cur' = started + 1
  /\ sess' = [sess EXCEPT ![started + 1] =
                [pin |-> connOrigin[n], remote |-> mode.remote, strict |-> mode.strict]]
  /\ UNCHANGED <<boot, nextId, pending, conn, connOrigin, tabVars, req, log, crossed>>

\* POST /sessions/:id/end.  Nothing here looks at the commands in flight.
EndSession ==
  /\ Quiet
  /\ cur # 0
  /\ cur' = 0
  /\ UNCHANGED <<boot, nextId, pending, conn, connOrigin, tabVars, started, sess, req, log, crossed>>

-----------------------------------------------------------------------------
(* The /command handler: one request is a chain of dispatches. *)

StrictRun(r) == sess[r.sess].strict /\ r.kind \in StrictCrv

Hop(r, step, what, tries) ==
  [pc |-> "due", name |-> r.name, kind |-> r.kind, sess |-> r.sess, root |-> r.root,
   tries |-> tries, step |-> step, what |-> what, id |-> 0]

Await(r, i) == [r EXCEPT !.pc = "wait", !.id = i]

\* The error leaves dispatchTracked: the caller gets it, or the command runs
\* once more on the selector that used to work (tryRecovery, non-strict path).
Raise(r) ==
  {Idle} \cup
  IF r.kind \in Recoverable /\ r.tries = 1 /\ ~StrictRun(r)
  THEN {Hop(r, "trigger", r.kind, 2)} ELSE {}

AfterFailure(r) ==
  IF r.kind \in ShotOnFail THEN {Hop(r, "shot", "dom.screenshot", r.tries)} ELSE Raise(r)

Remedies(r) == {Hop(r, "remedy", k, r.tries) : k \in Kinds}

\* A remedy is "never retried for a timeout".
RemedyAlways(outcome) == TRUE
MayRemedy(outcome)    == outcome # "timeout"

\* What dispatchTracked does once its command has failed: a timed-out write
\* is re-checked on the page; a failure that matches a known issue may set off
\* its remedy; then the element is photographed.
AfterError(r, outcome) ==
  AfterFailure(r) \cup (IF MayRemedy(outcome) THEN Remedies(r) ELSE {})

FailedTrigger(r, outcome) ==
  IF outcome = "timeout" /\ r.kind \in Verifiable
  THEN {Hop(r, "verify", "dom.query", r.tries)} ELSE AfterError(r, outcome)

Continue(r, outcome) ==
  CASE r.step = "before" -> IF outcome = "ok" THEN {Hop(r, "trigger", r.kind, 1)} ELSE {Idle}
    [] r.step = "trigger" -> IF outcome # "ok" THEN FailedTrigger(r, outcome)
                             ELSE IF StrictRun(r) THEN {Hop(r, "after", "idb.snapshot", 1)}
                             ELSE {Idle}
    [] r.step = "verify" -> AfterError(r, "timeout")
    [] r.step = "remedy" -> AfterFailure(r)
    [] r.step = "shot" -> Raise(r)
    [] r.step = "after" -> {Idle}

Settle(c, outcome) ==
  \E r \in Continue(req[c], outcome) : req' = [req EXCEPT ![c] = r]

\* POST /command, up to its first dispatch.
Command(c, n, k) ==
  /\ Quiet
  /\ req[c].pc = "idle"
  /\ cur # 0
  /\ LET strict == sess[cur].strict /\ k \in StrictCrv
     IN  req' = [req EXCEPT ![c] =
           [pc |-> "due", name |-> n, kind |-> k, sess |-> cur, root |-> nextId, tries |-> 1,
            step |-> IF strict THEN "before" ELSE "trigger",
            what |-> IF strict THEN "idb.snapshot" ELSE k, id |-> 0]]
  /\ UNCHANGED <<boot, nextId, pending, conn, connOrigin, tabVars, dbVars, log, crossed>>

-----------------------------------------------------------------------------
(* dispatchCommand *)

\* guardDispatchOrigin asks the session that is active NOW, whichever
\* session the request belongs to, and passes when there is none.
PinOnly(n, what) ==
  cur # 0 /\ connOrigin[n] # NoOrigin /\ sess[cur].pin \notin {NoOrigin, connOrigin[n]}
GuardRefuses(n, what) ==
  /\ cur # 0
  /\ connOrigin[n] # NoOrigin
  /\ \/ sess[cur].pin \notin {NoOrigin, connOrigin[n]}
     \/ what \in Mutating /\ ~sess[cur].remote /\ connOrigin[n] \notin LocalOrigins

DispatchRefused(c) ==
  /\ req[c].pc = "due"
  /\ GuardRefuses(req[c].name, req[c].what)
  /\ Settle(c, "refused")
  /\ UNCHANGED <<boot, nextId, pending, conn, connOrigin, tabVars, dbVars, log, crossed>>

\* sendToAgent finds no socket: the id is spent, the timer and entry go.
DispatchUnsent(c) ==
  /\ req[c].pc = "due"
  /\ ~GuardRefuses(req[c].name, req[c].what)
  /\ conn[req[c].name] = NoTab
  /\ nextId \in Ids
  /\ nextId' = AdvancedId
  /\ log' = Logged(nextId)
  /\ Settle(c, "unsent")
  /\ UNCHANGED <<boot, pending, conn, connOrigin, tabVars, dbVars, crossed>>

\* The socket is registered, so the frame is written; it reaches the page
\* only if the page's end of that socket still lives.
DispatchSent(c) ==
  LET r == req[c]
      t == conn[r.name]
      m == [boot |-> boot, id |-> nextId, by |-> c, root |-> r.root, step |-> r.step,
            tries |-> r.tries, what |-> r.what, sess |-> r.sess, under |-> cur]
  IN  /\ r.pc = "due"
      /\ ~GuardRefuses(r.name, r.what)
      /\ t # NoTab
      /\ nextId \in Ids
      /\ nextId' = AdvancedId
      /\ pending' = [pending EXCEPT ![nextId] = c]
      /\ req' = [req EXCEPT ![c] = Await(r, nextId)]
      /\ page' = IF open[t] THEN [page EXCEPT ![t] = @ \cup {m}] ELSE page
      /\ UNCHANGED <<boot, conn, connOrigin, origin, open, up, dbVars, log, crossed>>

\* Timers live as long as their entry; no socket event touches them.
ArmedWhileConnected(i) == pending[i] # NoClient /\ conn[req[pending[i]].name] # NoTab
TimerArmed(i)          == pending[i] # NoClient

\* The timer of dispatchCommand: 504.
Timeout(i) ==
  /\ Quiet
  /\ TimerArmed(i)
  /\ pending' = Forget(i)
  /\ log' = Logged(i)
  /\ Settle(pending[i], "timeout")
  /\ UNCHANGED <<boot, nextId, conn, connOrigin, tabVars, dbVars, crossed>>

\* A reply frame is honoured if its id is pending for a command that was
\* dispatched to the agent name it came from.
Honoured(n, id) == pending[id] # NoClient /\ req[pending[id]].name = n

\* History: the reply was computed for a command other than the awaited one.
Crossing(r, c, reply) ==
  IF reply.boot = boot /\ reply.by = c /\ reply.root = r.root /\ reply.step = r.step THEN {}
  ELSE {[want |-> boot, got |-> reply.boot]}

HandleReply(t, reply) ==
  /\ Quiet
  /\ conn[NameOf[t]] = t
  /\ reply \in up[t]
  /\ up' = [up EXCEPT ![t] = @ \ {reply}]
  /\ \/ /\ Honoured(NameOf[t], reply.id)
        /\ LET c == pending[reply.id] IN
           /\ pending' = Forget(reply.id)
           /\ log' = Logged(reply.id)
           /\ crossed' = crossed \cup Crossing(req[c], c, reply)
           /\ Settle(c, reply.res)
     \/ /\ ~Honoured(NameOf[t], reply.id)
        /\ UNCHANGED <<pending, log, crossed, req>>
  /\ UNCHANGED <<boot, nextId, conn, connOrigin, origin, open, page, dbVars>>

-----------------------------------------------------------------------------
(* Tabs and their sockets *)

\* The 'upgrade' handler.  A socket already registered under the name is
\* destroyed; from then on whatever it still carries is ignored.
Connect(t) ==
  LET n == NameOf[t]
      old == conn[n]
  IN  /\ Quiet
      /\ ~open[t]
      /\ open' = [open EXCEPT ![t] = TRUE]
      /\ conn' = [conn EXCEPT ![n] = t]
      /\ connOrigin' = [connOrigin EXCEPT ![n] = origin[t]]
      /\ up' = [u \in Tabs |-> IF u \in {t, old} THEN {} ELSE up[u]]
      /\ UNCHANGED <<boot, nextId, pending, origin, page, dbVars, req, log, crossed>>

\* The page's end of the socket dies: network, a relay that went away, or a
\* later tab of the same name.  Commands not read yet (page \ kept) are lost;
\* those already running go on.
LoseSocket(t, kept) ==
  /\ Quiet
  /\ open[t]
  /\ open' = [open EXCEPT ![t] = FALSE]
  /\ page' = [page EXCEPT ![t] = kept]
  /\ UNCHANGED <<boot, nextId, pending, conn, connOrigin, origin, up, dbVars, req, log, crossed>>

\* The relay's 'close' event for the registered socket.  Pending commands
\* are left to their timers.
SeeClose(n) ==
  LET t == conn[n] IN
  /\ Quiet
  /\ t # NoTab
  /\ ~open[t]
  /\ conn' = [conn EXCEPT ![n] = NoTab]
  /\ connOrigin' = [connOrigin EXCEPT ![n] = NoOrigin]
  /\ up' = [up EXCEPT ![t] = {}]
  /\ UNCHANGED <<boot, nextId, pending, origin, open, page, dbVars, req, log, crossed>>

\* A reload (o = origin[t]) or a navigation ends the page and all it ran.
Navigate(t, o) ==
  /\ Quiet
  /\ open[t] \/ page[t] # {} \/ o # origin[t]
  /\ open' = [open EXCEPT ![t] = FALSE]
  /\ page' = [page EXCEPT ![t] = {}]
  /\ origin' = [origin EXCEPT ![t] = o]
  /\ UNCHANGED <<boot, nextId, pending, conn, connOrigin, up, dbVars, req, log, crossed>>

\* A handler of inject.js ends and replies on whatever socket the page has
\* by then (`ws` is a module variable, not the socket the command came on).
\* A socket that is closed or already replaced swallows the reply.
Finish(t, m, res) ==
  LET live == open[t] /\ conn[NameOf[t]] = t
      reply == [boot |-> m.boot, id |-> m.id, by |-> m.by, root |-> m.root,
                step |-> m.step, res |-> res]
  IN  /\ Quiet
      /\ m \in page[t]
      /\ page' = [page EXCEPT ![t] = @ \ {m}]
      /\ up' = IF live THEN [up EXCEPT ![t] = @ \cup {reply}] ELSE up
      /\ UNCHANGED <<boot, nextId, pending, conn, connOrigin, origin, open, dbVars, req, log, crossed>>

-----------------------------------------------------------------------------
(* Relay processes *)

\* The relay dies or is restarted.  Pending commands, sockets and callers'
\* connections die with the process, ids start again at 1; the database and
\* the pages remain.
NewProcess ==
  /\ Quiet
  /\ boot < MaxBoot
  /\ boot' = boot + 1
  /\ nextId' = 1
  /\ pending' = [i \in Ids |-> NoClient]
  /\ conn' = [n \in Names |-> NoTab]
  /\ connOrigin' = [n \in Names |-> NoOrigin]
  /\ up' = [t \in Tabs |-> {}]
  /\ req' = [c \in Clients |-> Idle]
  /\ log' = {}
  /\ UNCHANGED <<origin, open, page, dbVars, crossed>>

-----------------------------------------------------------------------------

Next ==
  \/ \E n \in Names, autoEnd \in BOOLEAN, mode \in Modes : StartSession(n, autoEnd, mode)
  \/ EndSession
  \/ \E c \in Clients, n \in Names, k \in Kinds : Command(c, n, k)
  \/ \E c \in Clients : DispatchRefused(c) \/ DispatchUnsent(c) \/ DispatchSent(c)
  \/ \E i \in Ids : Timeout(i)
  \/ \E t \in Tabs : \E reply \in up[t] : HandleReply(t, reply)
  \/ \E t \in Tabs : Connect(t)
  \/ \E t \in Tabs : \E kept \in SUBSET page[t] : LoseSocket(t, kept)
  \/ \E n \in Names : SeeClose(n)
  \/ \E t \in Tabs, o \in Origins : Navigate(t, o)
  \/ \E t \in Tabs : \E m \in page[t], res \in {"ok", "error"} : Finish(t, m, res)
  \/ NewProcess

Spec == Init /\ [][Next]_vars

\* The event loop drains its microtasks, and comes round to an expired
\* timer however often other handlers run in between (hence SF).
Fairness ==
  /\ \A i \in Ids : SF_vars(Timeout(i))
  /\ \A c \in Clients : WF_vars(DispatchRefused(c) \/ DispatchUnsent(c) \/ DispatchSent(c))

FairSpec == Spec /\ Fairness

-----------------------------------------------------------------------------
(* Properties *)

Command_ == [boot: 1..MaxBoot, id: Ids, by: Clients, root: Nat, step: Steps, tries: {1, 2},
             what: Types, sess: SessionIds, under: 0..MaxSession]
Reply_   == [boot: 1..MaxBoot, id: Ids, by: Clients, root: Nat, step: Steps,
             res: {"ok", "error"}]
Request  == [pc: {"due", "wait"}, name: Names, kind: Kinds, sess: SessionIds, root: Nat,
             tries: {1, 2}, step: Steps, what: Types, id: 0..MaxId]

TypeOK ==
  /\ boot \in 1..MaxBoot
  /\ nextId \in 1..MaxId + 1
  /\ pending \in [Ids -> Clients \cup {NoClient}]
  /\ conn \in [Names -> Tabs \cup {NoTab}]
  /\ connOrigin \in [Names -> Origins \cup {NoOrigin}]
  /\ origin \in [Tabs -> Origins]
  /\ open \in [Tabs -> BOOLEAN]
  /\ page \in [Tabs -> SUBSET Command_]
  /\ up \in [Tabs -> SUBSET Reply_]
  /\ started \in 0..MaxSession
  /\ cur \in {0, started}
  /\ sess \in [SessionIds -> [pin: Origins \cup {NoOrigin}, remote: BOOLEAN, strict: BOOLEAN]]
  /\ req \in [Clients -> Request \cup {Idle}]
  /\ log \subseteq Ids
  /\ crossed \subseteq [want: 1..MaxBoot, got: 1..MaxBoot]

\* No lost and no double wake-up: a handler awaits a command exactly when that
\* command's entry in `pending` will wake this handler, whatever the sockets,
\* timers, sessions and relay processes did in between.
WaitersMatchPending ==
  /\ \A i \in Ids : pending[i] # NoClient =>
       req[pending[i]].pc = "wait" /\ req[pending[i]].id = i
  /\ \A c \in Clients : req[c].pc = "wait" =>
       req[c].id \in Ids /\ pending[req[c].id] = c

\* "Every action recorded": a command the running relay dispatched is either
\* still awaited or has its row in the actions table, never both.
EveryCommandLogged ==
  \A i \in Ids : i < nextId =>
    (pending[i] # NoClient <=> i \notin log)

\* guardDispatchOrigin: a command in a page was let through by a session that
\* is pinned to that page's origin or to none, and a write reaches a
\* non-local page only if that session allowed it, though the tab may have
\* reconnected, navigated or been replaced since the relay last heard of it.
RunsWhereAllowed ==
  \A t \in Tabs : \A m \in page[t] : m.under # 0 =>
    /\ sess[m.under].pin \in {NoOrigin, origin[t]}
    /\ m.what \in Mutating => sess[m.under].remote \/ origin[t] \in LocalOrigins

\* handleAgentMessage pairs replies with promises by id and agent name only.
\* The one way a promise is resolved with another command's result is a page
\* that outlived the relay process which sent it that command.
MismatchOnlyAcrossRestart == \A x \in crossed : x.got < x.want

InPage == UNION {page[t] : t \in Tabs}

SameRequest(m, w) == m.boot = w.boot /\ m.by = w.by /\ m.root = w.root

\* dispatchTracked, on auto-remediate: "never retried for a timeout (the page
\* may still be mid-command - a second dispatch on top would race it)".
RemedyNeverRaces ==
  crossed = {} => \A m, w \in InPage :
    ~(SameRequest(m, w) /\ m.tries = w.tries /\ m.step = "trigger" /\ w.step = "remedy")

\* Does not hold: the same promise for the recovery retry of POST /command,
\* that one request never has two copies of its write at the page at once.
NoRetryOnTopOfTimeout ==
  crossed = {} => \A m, w \in InPage :
    SameRequest(m, w) /\ m.step = "trigger" /\ w.step = "trigger" /\ m.what \in Mutating
      => m = w

\* Does not hold: what guardDispatchOrigin says, "a stray tab on a real/production site must
\* never receive a synthetic write", unless the request's session allowed it.
NoStraySyntheticWrite ==
  \A t \in Tabs : \A m \in page[t] :
    m.what \in Mutating => sess[m.sess].remote \/ origin[t] \in LocalOrigins

\* Every request comes back to its caller.  Replaced tabs, dead sockets and
\* ended sessions leave a command to its timer, and the chain of probes,
\* remedies, screenshots and retries a failure sets off is finite.  (The
\* bound on ids cuts off only chains that started close to it.)
RequestEnds ==
  \A c \in Clients : req[c].pc # "idle" ~> (req[c].pc = "idle" \/ nextId \notin Ids)
=============================================================================

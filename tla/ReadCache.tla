----------------------------- MODULE ReadCache -----------------------------
(***************************************************************************)
(* The relay's read cache: a repeated read of a tab is answered from memory *)
(* as long as no write command was acknowledged in between (the session's   *)
(* mutation counter) and the page's own change counter, probed over the     *)
(* socket before every hit, has not moved (pageEpoch).                      *)
(*                                                                         *)
(* A page's content is the number of times it changed: the rows all tabs    *)
(* of the origin share (db) and the tab's network log (log).  Commands and  *)
(* replies of a tab travel in order.  Reading the log and clearing it are   *)
(* synchronous in the page; a row is read and written asynchronously.  The  *)
(* relay handles a reply and what awaits it in one step.                    *)
(*                                                                         *)
(* One session.  Session end drops cache and counter together.             *)
(***************************************************************************)
EXTENDS Integers, Sequences

CONSTANTS
  Tabs,      \* connected tabs of one origin, each under its own agent name
  Clients,   \* HTTP callers
  Ops,       \* the commands they send, out of "row", "log", "put", "clear"
  Moves,     \* what pages do on their own, out of "write", "fetch", "reload"
  NoEntry, NoClient, NoTab,
  MaxId,     \* bound: commands dispatched before the last request starts
  MaxMoves   \* bound: moves of the pages

ReadOps == {"row", "log"}
Keys    == Tabs \X ReadOps

ASSUME CacheAssumption ==
  /\ Ops \subseteq {"row", "log", "put", "clear"}
  /\ Moves \subseteq {"write", "fetch", "reload"}
  /\ NoClient \notin Clients /\ NoTab \notin Tabs
  /\ MaxId \in Nat \ {0} /\ MaxMoves \in Nat

VARIABLES
  db,       \* the shared rows, as a count of committed writes
  log,      \* tab -> its network log, as a count of changes
  epoch,    \* tab -> pageEpoch
  running,  \* asynchronous work in the pages
  inbox,    \* tab -> commands on their way to it
  outbox,   \* tab -> replies on their way to the relay
  req,      \* client -> the request the relay works on for it
  cache,    \* readResultCache: key -> entry
  nextId,   \* nextCommandId
  counter,  \* sessionMutationCounters
  moves,    \* moves made so far
  lapsed    \* keys whose page changed in a way neither counter shows

vars == <<db, log, epoch, running, inbox, outbox, req, nextId, cache, counter, moves, lapsed>>
page == <<db, log, epoch, running>>

Idle == [pc |-> "idle", op |-> "none", tab |-> NoTab, id |-> 0, entry |-> NoEntry, floor |-> 0]

Init ==
  /\ db = 0
  /\ log = [t \in Tabs |-> 0]
  /\ epoch = [t \in Tabs |-> 0]
  /\ running = {}
  /\ inbox = [t \in Tabs |-> <<>>]
  /\ outbox = [t \in Tabs |-> <<>>]
  /\ req = [c \in Clients |-> Idle]
  /\ nextId = 1
  /\ cache = <<>>
  /\ counter = 0
  /\ moves = 0
  /\ lapsed = {}

Key(c) == <<req[c].tab, req[c].op>>
Now(k) == IF k[2] = "row" THEN db ELSE log[k[1]]

-----------------------------------------------------------------------------
(* The relay *)

\* dispatchCommand
Sent(c, op, t) ==
  /\ inbox' = [inbox EXCEPT ![t] = Append(@, [from |-> c, id |-> nextId, op |-> op])]
  /\ nextId' = nextId + 1

Cacheable(op) == op \in ReadOps

Valid(k) == k \in DOMAIN cache /\ cache[k].counter = counter

Clearing(t) == \E c \in Clients : req[c].pc = "wait" /\ req[c].op = "clear" /\ req[c].tab = t

\* The oldest content the answer to a request that starts now may show.  While
\* a clear is unacknowledged, the log may be read as of before it.
Floor(k) == IF k[2] = "log" /\ Clearing(k[1]) THEN 0 ELSE Now(k)

\* POST /command up to its first await: a read with a valid entry probes the
\* page, anything else is dispatched.
Ask(c, op, t) ==
  LET k == <<t, op>>
      probe == Cacheable(op) /\ Valid(k)
  IN  /\ req[c].pc = "idle" /\ nextId <= MaxId
      /\ req' = [req EXCEPT ![c] =
                   [pc    |-> IF probe THEN "probe" ELSE "wait",
                    op    |-> op,
                    tab   |-> t,
                    id    |-> nextId,
                    entry |-> IF probe THEN cache[k] ELSE NoEntry,
                    floor |-> IF probe THEN Floor(k) ELSE 0]]
      /\ Sent(c, IF probe THEN "page.epoch" ELSE op, t)
      /\ UNCHANGED <<page, outbox, cache, counter, moves, lapsed>>

Done(c) == req' = [req EXCEPT ![c] = Idle]

Without(k) == [j \in DOMAIN cache \ {k} |-> cache[j]]
With(k, e) == [j \in DOMAIN cache \cup {k} |-> IF j = k THEN e ELSE cache[j]]

\* A probe that fails, or finds the page changed, ends in the read itself.
Miss(c) ==
  /\ cache' = Without(Key(c))
  /\ req' = [req EXCEPT ![c].pc = "wait", ![c].id = nextId,
                          ![c].entry = NoEntry, ![c].floor = 0]
  /\ Sent(c, req[c].op, req[c].tab)
  /\ UNCHANGED counter

SameEpoch(c, m) == m.epoch = req[c].entry.epoch

ProbeAnswered(c, m) ==
  IF SameEpoch(c, m)
  THEN Done(c) /\ UNCHANGED <<cache, counter, nextId, inbox>>
  ELSE Miss(c)

NotBumped(op) == counter
Bumped(op)    == IF op \in {"put", "clear"} THEN counter + 1 ELSE counter

Entry(m, op) == [val |-> m.val, counter |-> Bumped(op), epoch |-> m.epoch]

\* The rest of POST /command once the reply is there.
ResultArrived(c, m) ==
  LET op == req[c].op IN
  /\ counter' = Bumped(op)
  /\ cache' = IF Cacheable(op) THEN With(Key(c), Entry(m, op)) ELSE cache
  /\ Done(c)
  /\ UNCHANGED <<nextId, inbox>>

Awaited(m) == req[m.from].pc # "idle" /\ req[m.from].id = m.id

HandleReply(t) ==
  /\ outbox[t] # <<>>
  /\ outbox' = [outbox EXCEPT ![t] = Tail(@)]
  /\ LET m == Head(outbox[t]) IN
     \/ /\ ~Awaited(m)
        /\ UNCHANGED <<req, nextId, cache, counter, inbox>>
     \/ /\ Awaited(m) /\ req[m.from].pc = "probe"
        /\ ProbeAnswered(m.from, m)
     \/ /\ Awaited(m) /\ req[m.from].pc = "wait"
        /\ ResultArrived(m.from, m)
  /\ UNCHANGED <<page, moves, lapsed>>

\* A failing read or write leaves the cache as it is.  A clear that went
\* unacknowledged may yet land, or have landed.
Timeout(c) ==
  /\ \/ /\ req[c].pc = "probe"
        /\ Miss(c)
        /\ UNCHANGED lapsed
     \/ /\ req[c].pc = "wait"
        /\ Done(c)
        /\ lapsed' = IF req[c].op = "clear" THEN lapsed \cup {<<req[c].tab, "log">>} ELSE lapsed
        /\ UNCHANGED <<cache, counter, nextId, inbox>>
  /\ UNCHANGED <<page, outbox, moves>>

-----------------------------------------------------------------------------
(* The page *)

Reply(t, r, val, e) ==
  outbox' = [outbox EXCEPT ![t] = Append(@, [from |-> r.from, id |-> r.id, val |-> val, epoch |-> e])]

\* Asynchronous work.  `epoch` is the page's counter before the handler ran.
Job(t, op, m) == [tab |-> t, op |-> op, from |-> m.from, id |-> m.id,
                  epoch |-> epoch[t], at |-> "begun", val |-> 0]

\* IDBObjectStore.prototype.put counts once when it is called ...
CallPut(t, m) ==
  /\ running' = running \cup {Job(t, "put", m)}
  /\ epoch' = [epoch EXCEPT ![t] = @ + 1]

\* The agent takes the next command off its socket.
Serve(t) ==
  /\ inbox[t] # <<>>
  /\ inbox' = [inbox EXCEPT ![t] = Tail(@)]
  /\ LET m == Head(inbox[t]) IN
     \/ /\ m.op = "page.epoch"
        /\ Reply(t, m, 0, epoch[t])
        /\ UNCHANGED page
     \/ /\ m.op = "log"
        /\ Reply(t, m, log[t], epoch[t])
        /\ UNCHANGED page
     \/ /\ m.op = "clear"
        /\ log' = [log EXCEPT ![t] = @ + 1]
        /\ Reply(t, m, 0, epoch[t])
        /\ UNCHANGED <<db, epoch, running>>
     \/ /\ m.op = "row"
        /\ running' = running \cup {Job(t, "row", m)}
        /\ UNCHANGED <<db, log, epoch, outbox>>
     \/ /\ m.op = "put"
        /\ CallPut(t, m)
        /\ UNCHANGED <<db, log, outbox>>
  /\ UNCHANGED <<req, nextId, cache, counter, moves, lapsed>>

ReadRow(j) ==
  /\ j.op = "row" /\ j.at = "begun"
  /\ running' = (running \ {j}) \cup {[j EXCEPT !.at = "read", !.val = db]}
  /\ UNCHANGED <<db, log, epoch, inbox, outbox, req, nextId, cache, counter, moves, lapsed>>

EpochAfter(j)  == epoch[j.tab]
EpochBefore(j) == j.epoch

FinishRead(j) ==
  /\ j.op = "row" /\ j.at = "read"
  /\ running' = running \ {j}
  /\ Reply(j.tab, j, j.val, EpochBefore(j))
  /\ UNCHANGED <<db, log, epoch, inbox, req, nextId, cache, counter, moves, lapsed>>

\* ... and once more when its transaction completes.
CountedCommit(t) == [epoch EXCEPT ![t] = @ + 1]

\* The write commits.  The other tabs' counters do not see it.
Commit(j) ==
  /\ j.op = "put"
  /\ running' = running \ {j}
  /\ db' = db + 1
  /\ epoch' = CountedCommit(j.tab)
  /\ IF j.from = NoClient THEN UNCHANGED outbox ELSE Reply(j.tab, j, 0, EpochBefore(j))
  /\ lapsed' = lapsed \cup {<<t, "row">> : t \in Tabs \ {j.tab}}
  /\ UNCHANGED <<log, inbox, req, nextId, cache, counter, moves>>

-----------------------------------------------------------------------------
(* What a page does on its own *)

Move(kind) == kind \in Moves /\ moves < MaxMoves /\ moves' = moves + 1

AppWrite(t) ==
  /\ Move("write")
  /\ CallPut(t, [from |-> NoClient, id |-> moves])
  /\ UNCHANGED <<db, log, inbox, outbox, req, nextId, cache, counter, lapsed>>

\* recordNet
AppFetch(t) ==
  /\ Move("fetch")
  /\ log' = [log EXCEPT ![t] = @ + 1]
  /\ epoch' = [epoch EXCEPT ![t] = @ + 1]
  /\ UNCHANGED <<db, running, inbox, outbox, req, nextId, cache, counter, lapsed>>

\* The page loads again: a new inject.js with its counter at 0 and an empty
\* log, and what was under way in the old page is lost.
Reload(t) ==
  /\ Move("reload")
  /\ epoch' = [epoch EXCEPT ![t] = 0]
  /\ log' = [log EXCEPT ![t] = @ + 1]
  /\ running' = {j \in running : j.tab # t}
  /\ inbox' = [inbox EXCEPT ![t] = <<>>]
  /\ lapsed' = lapsed \cup {<<t, o>> : o \in ReadOps}
  /\ UNCHANGED <<db, outbox, req, nextId, cache, counter>>

-----------------------------------------------------------------------------

Next ==
  \/ \E c \in Clients, op \in Ops, t \in Tabs : Ask(c, op, t)
  \/ \E c \in Clients : Timeout(c)
  \/ \E t \in Tabs : HandleReply(t) \/ Serve(t) \/ AppWrite(t) \/ AppFetch(t) \/ Reload(t)
  \/ \E j \in running : ReadRow(j) \/ FinishRead(j) \/ Commit(j)

Spec == Init /\ [][Next]_vars

-----------------------------------------------------------------------------
(* Properties *)

Cached == [val: Nat, counter: Nat, epoch: Nat]

TypeOK ==
  /\ db \in Nat /\ nextId \in Nat /\ counter \in Nat /\ moves \in 0..MaxMoves
  /\ log \in [Tabs -> Nat] /\ epoch \in [Tabs -> Nat]
  /\ running \subseteq [tab: Tabs, op: {"row", "put"}, from: Clients \cup {NoClient}, id: Nat,
                        epoch: Nat, at: {"begun", "read"}, val: Nat]
  /\ inbox \in [Tabs -> Seq([from: Clients, id: Nat, op: Ops \cup {"page.epoch"}])]
  /\ outbox \in [Tabs -> Seq([from: Clients, id: Nat, val: Nat, epoch: Nat])]
  /\ req \in [Clients -> [pc: {"idle", "probe", "wait"}, op: Ops \cup {"none"}, tab: Tabs \cup {NoTab},
                          id: Nat, entry: Cached \cup {NoEntry}, floor: Nat]]
  /\ DOMAIN cache \subseteq Keys /\ \A k \in DOMAIN cache : cache[k] \in Cached
  /\ lapsed \subseteq Keys

\* An entry that both counters vouch for holds what the page shows now, however
\* the read that stored it was overtaken by writes, fetches and other replies.
\* Excepted: the log while a clear of it is unacknowledged, and what changed
\* out of sight of both counters (lapsed).
VouchedIsCurrent ==
  \A k \in DOMAIN cache :
    /\ cache[k].counter = counter
    /\ cache[k].epoch = epoch[k[1]]
    => cache[k].val = Now(k) \/ k \in lapsed \/ (k[2] = "log" /\ Clearing(k[1]))

Hit(c) == req[c].pc = "probe" /\ req'[c].pc = "idle"

\* A caller answered from the cache sees nothing older than what the page
\* showed when the caller asked: the counter is compared before the probe is
\* awaited and not again after it.  The same exception.
HitIsFresh ==
  [][\A c \in Clients : Hit(c) => req[c].entry.val >= req[c].floor \/ Key(c) \in lapsed]_vars

\* Does not hold: "a page that moved on its own (fetch landed, timer re-render, app wrote
\* IndexedDB) must not be answered from the cache", without exception.
MovedPageIsAsked ==
  [][\A c \in Clients : Hit(c) => req[c].entry.val >= req[c].floor]_vars
=============================================================================

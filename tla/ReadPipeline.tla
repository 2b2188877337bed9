---------------------------- MODULE ReadPipeline ----------------------------
(***************************************************************************)
(* What a caller is handed for a read.  The relay reads the full result (or *)
(* finds it in its cache) and answers with the body, a table, the rows that *)
(* changed, a pointer to a body sent before, or only the shape.  It         *)
(* remembers per session which body it sent last (held); a caller rebuilds  *)
(* the result from the reply and the body it has itself.                    *)
(*                                                                         *)
(* One read call, so one cache key and one held body per session: the maps  *)
(* of the code are indexed by key and the entries do not touch each other.  *)
(* A result is a set of rows with ids, all of one shape, so that a table    *)
(* holds what the rows hold; sizes are counted in rows.  A caller has one   *)
(* read under way at a time and keeps the last body.                        *)
(*                                                                         *)
(* When a cached result may be served is the subject of ReadCache: here an  *)
(* entry is served as long as the page has not changed since.               *)
(***************************************************************************)
EXTENDS Integers, Sequences, FiniteSets

CONSTANTS
  Callers,
  Contents,     \* what the page can hold: functions from row ids to values
  OptSets,      \* the sets of flags a caller may give
  EnvGuard,     \* WEBSCOUT_READ_GUARD_TOKENS as a set of at most one threshold
  None,
  MaxChanges,   \* bound: changes of the page
  MaxReads,     \* bound: reads started
  MaxSession    \* bound: sessions

Flags    == {"table", "ifChanged", "delta", "peek", "noGuard"}
Sessions == 1..MaxSession

ASSUME PipelineAssumption ==
  /\ OptSets \subseteq SUBSET Flags
  /\ EnvGuard \subseteq Nat
  /\ None \notin Contents /\ None \notin Callers
  /\ \A r \in Contents : r = [i \in DOMAIN r |-> r[i]] /\ IsFiniteSet(DOMAIN r)
  /\ MaxChanges \in Nat /\ MaxReads \in Nat /\ MaxSession \in Nat

VARIABLES
  hist,     \* what the page has held, the present content last
  session,  \* the current session, or the last if it has ended
  active,   \* the current session has not ended
  lean,     \* it was started with --lean
  cache,    \* session -> readResultCache entry of the call
  held,     \* session -> delivered entry of the call
  req,      \* caller -> its read
  nextId,   \* id of the next row of the actions table
  reads,    \* reads started so far
  mind,     \* caller -> the last body it has, with the action it came from
  readers   \* history: session -> who read in it; None if a reply was lost

relay == <<session, active, lean, cache, held, nextId>>
vars  == <<hist, relay, req, reads, mind, readers>>

NoRead == [pc |-> "idle", session |-> 0, lean |-> FALSE, entry |-> None, since |-> 0, out |-> None]

Init ==
  /\ \E r \in Contents : hist = <<r>>
  /\ session = 0 /\ active = FALSE /\ lean = FALSE
  /\ cache = [s \in Sessions |-> None]
  /\ held = [s \in Sessions |-> None]
  /\ req = [c \in Callers |-> NoRead]
  /\ nextId = 1 /\ reads = 0
  /\ mind = [c \in Callers |-> None]
  /\ readers = [s \in Sessions |-> {}]

Version == Len(hist)
Page    == hist[Version]

-----------------------------------------------------------------------------
(* The shape of a reply *)

Size(r) == Cardinality(DOMAIN r)

\* computeReadDelta for rows with ids.  It pays when it is at least 30% smaller.
Put(old, new)     == {i \in DOMAIN new : i \notin DOMAIN old \/ old[i] # new[i]}
Delta(old, new)   == [put  |-> [i \in Put(old, new) |-> new[i]],
                      gone |-> DOMAIN old \ DOMAIN new]
Pays(old, new)    == 10 * Cardinality(Put(old, new)) < 7 * Size(new)

\* peekSummary is smaller than any two rows, tabulate than any three.
PeekIsSmaller(r)  == Size(r) > 1
TableIsSmaller(r) == Size(r) >= 3

\* Flags with the lean profile, which a call with noGuard is exempt from
Options(o, isLean) == IF isLean /\ "noGuard" \notin o THEN o \cup {"lean", "table", "delta"} ELSE o

\* GUARD_TOKENS_BY_LEVEL and LEAN_GUARD_TOKENS, in rows
Thresholds(opts, level) ==
  UNION {EnvGuard,
         IF level = "tighten" THEN {2} ELSE {},
         IF level = "strict" THEN {1} ELSE {},
         IF "lean" \in opts THEN {2} ELSE {}}

AnyHeld(h, full, id)  == h # None
SameBody(h, full, id) == h # None /\ h.id = id

\* The order of the decisions is the code's.  A result is known by the action
\* that read it: two reads give two results, whatever is in them.
Mode(h, opts, level, full, id, hit) ==
  IF hit /\ opts \cap {"ifChanged", "delta"} # {} /\ SameBody(h, full, id) THEN "pointer"
  ELSE IF ~hit /\ "delta" \in opts /\ h # None /\ Pays(h.full, full) THEN "delta"
  ELSE IF "peek" \in opts /\ PeekIsSmaller(full) THEN "peek"
  ELSE IF /\ "noGuard" \notin opts /\ PeekIsSmaller(full)
          /\ \E g \in Thresholds(opts, level) : Size(full) > g THEN "guard"
  ELSE IF /\ "table" \in opts \/ level \in {"tighten", "strict"}
          /\ TableIsSmaller(full) THEN "table"
  ELSE "full"

\* What the reply carries: a body with its action, changes against the body of
\* an earlier action, or the name of that action.
Reply(mode, full, id, h) ==
  CASE mode \in {"full", "table"} -> [kind |-> "body", id |-> id, full |-> full]
    [] mode = "delta"   -> [kind |-> "delta", id |-> id, sameAs |-> h.id, delta |-> Delta(h.full, full)]
    [] mode = "pointer" -> [kind |-> "pointer", sameAs |-> h.id]
    [] OTHER            -> [kind |-> "shape"]

AnyReply(mode) == TRUE
NowHeld(mode)  == mode \in {"full", "table", "delta"}

\* deliverRead: decide what to send, remember what the caller then holds.  The
\* flags and the budget level came with the request: nothing looks at them
\* before, so they are chosen here.
Deliver(c, full, id, hit) ==
  \E o \in OptSets, level \in {"ok", "tighten", "strict"} :
    LET s    == req[c].session
        mode == Mode(held[s], Options(o, req[c].lean), level, full, id, hit)
    IN  /\ req' = [req EXCEPT ![c] = [@ EXCEPT !.pc = "reply", !.entry = None,
                                               !.out = Reply(mode, full, id, held[s])]]
        /\ held' = IF NowHeld(mode) THEN [held EXCEPT ![s] = [id |-> id, full |-> full]] ELSE held

-----------------------------------------------------------------------------
(* The relay *)

\* Starting a session while one is active is refused.
StartSession ==
  /\ ~active /\ session < MaxSession
  /\ session' = session + 1 /\ active' = TRUE
  /\ lean' \in BOOLEAN
  /\ UNCHANGED <<hist, cache, held, req, nextId, reads, mind, readers>>

Drop(f, s) == [f EXCEPT ![s] = None]

\* endSession, then dropSessionMemory.  Reads under way go on.
EndSession ==
  /\ active
  /\ active' = FALSE
  /\ cache' = Drop(cache, session)
  /\ held' = Drop(held, session)
  /\ UNCHANGED <<hist, session, lean, req, nextId, reads, mind, readers>>

\* POST /command up to its first await: the session is the one active now.  An
\* entry the mutation counter no longer vouches for is passed over.
Ask(c) ==
  /\ req[c].pc = "idle" /\ active /\ reads < MaxReads
  /\ reads' = reads + 1
  /\ readers' = [readers EXCEPT ![session] = @ \cup {c}]
  /\ \E probe \in {FALSE} \cup {cache[session] # None} :
       req' = [req EXCEPT ![c] = [pc    |-> IF probe THEN "probe" ELSE "page",
                                  entry |-> IF probe THEN cache[session] ELSE None,
                                  session |-> session, lean |-> lean, since |-> Version, out |-> None]]
  /\ UNCHANGED <<hist, relay, mind>>

\* The probe finds the page as the entry has it.  The entry is the one taken
\* before the probe, whatever became of it since.
Hit(c) ==
  LET e == req[c].entry IN
  /\ req[c].pc = "probe" /\ e.version = Version
  /\ Deliver(c, e.full, e.id, TRUE)
  /\ UNCHANGED <<hist, session, active, lean, cache, nextId, reads, mind, readers>>

\* The page has moved, or did not answer the probe.
Miss(c) ==
  /\ req[c].pc = "probe"
  /\ cache' = Drop(cache, req[c].session)
  /\ req' = [req EXCEPT ![c].pc = "page", ![c].entry = None]
  /\ UNCHANGED <<hist, session, active, lean, held, nextId, reads, mind, readers>>

\* The page reads what was asked for; its answer is on the way.
Read(c) ==
  /\ req[c].pc = "page"
  /\ req' = [req EXCEPT ![c].pc = "read",
                        ![c].entry = [id |-> 0, full |-> Page, version |-> Version]]
  /\ UNCHANGED <<hist, relay, reads, mind, readers>>

\* withLoggedAction: every command that was sent gets a row, answered or not.
Logged(n) == n + 1

\* The answer is logged, cached and shaped.
Answer(c) ==
  LET e == [req[c].entry EXCEPT !.id = nextId] IN
  /\ req[c].pc = "read"
  /\ nextId' = Logged(nextId)
  /\ cache' = [cache EXCEPT ![req[c].session] = e]
  /\ Deliver(c, e.full, e.id, FALSE)
  /\ UNCHANGED <<hist, session, active, lean, reads, mind, readers>>

\* The page fails, or its answer comes too late.
Fail(c) ==
  /\ req[c].pc \in {"page", "read"}
  /\ nextId' = Logged(nextId)
  /\ req' = [req EXCEPT ![c] = NoRead]
  /\ UNCHANGED <<hist, session, active, lean, cache, held, reads, mind, readers>>

-----------------------------------------------------------------------------
(* The caller and the page *)

\* "apply it to that result"
Applied(d, r) ==
  [i \in (DOMAIN r \ d.gone) \cup DOMAIN d.put |-> IF i \in DOMAIN d.put THEN d.put[i] ELSE r[i]]

Has(c, id) == mind[c] # None /\ mind[c].id = id

\* The result as the caller can rebuild it, or None.
Rebuilt(c, out) ==
  CASE out.kind = "body" -> out.full
    [] out.kind = "pointer" /\ Has(c, out.sameAs) -> mind[c].full
    [] out.kind = "delta" /\ Has(c, out.sameAs) -> Applied(out.delta, mind[c].full)
    [] OTHER -> None

Receive(c) ==
  LET out == req[c].out IN
  /\ req[c].pc = "reply"
  /\ req' = [req EXCEPT ![c] = NoRead]
  /\ mind' = IF out.kind \in {"body", "delta"} /\ Rebuilt(c, out) # None
             THEN [mind EXCEPT ![c] = [id |-> out.id, full |-> Rebuilt(c, out)]]
             ELSE mind
  /\ UNCHANGED <<hist, relay, reads, readers>>

\* The caller is gone before the reply arrives.
LoseReply(c) ==
  /\ req[c].pc = "reply"
  /\ req' = [req EXCEPT ![c] = NoRead]
  /\ readers' = [readers EXCEPT ![req[c].session] = @ \cup {None}]
  /\ UNCHANGED <<hist, relay, reads, mind>>

Change ==
  /\ Version <= MaxChanges
  /\ \E r \in Contents \ {Page} : hist' = Append(hist, r)
  /\ UNCHANGED <<relay, req, reads, mind, readers>>

-----------------------------------------------------------------------------

Next ==
  \/ StartSession \/ EndSession \/ Change
  \/ \E c \in Callers :
       Ask(c) \/ Hit(c) \/ Miss(c) \/ Read(c) \/ Answer(c) \/ Fail(c) \/ Receive(c) \/ LoseReply(c)

Spec == Init /\ [][Next]_vars

-----------------------------------------------------------------------------
(* Properties *)

Body   == [id: Nat, full: Contents]
Cached == [id: Nat, full: Contents, version: Nat]
Deltas == {Delta(old, new) : old, new \in Contents}
Replies ==
  [kind: {"body"}, id: Nat, full: Contents] \cup [kind: {"delta"}, id: Nat, sameAs: Nat, delta: Deltas]
    \cup [kind: {"pointer"}, sameAs: Nat] \cup [kind: {"shape"}]

TypeOK ==
  /\ hist \in Seq(Contents) /\ Len(hist) \in 1..(MaxChanges + 1)
  /\ session \in 0..MaxSession /\ active \in BOOLEAN /\ lean \in BOOLEAN
  /\ cache \in [Sessions -> Cached \cup {None}] /\ held \in [Sessions -> Body \cup {None}]
  /\ nextId \in Nat /\ reads \in 0..MaxReads
  /\ mind \in [Callers -> Body \cup {None}]
  /\ req \in [Callers -> [pc: {"idle", "probe", "page", "read", "reply"}, session: 0..MaxSession, lean: BOOLEAN,
                          entry: Cached \cup {None}, since: Nat, out: Replies \cup {None}]]
  /\ readers \in [Sessions -> SUBSET (Callers \cup {None})]

\* c alone reads in session s, and no reply to it was lost.
Alone(c, s) == s \in Sessions /\ readers[s] = {c}

Since(c) == {hist[i] : i \in req[c].since..Version}

\* A caller that reads alone in its session rebuilds, from every reply that is
\* more than a shape, what the page held at some time since it asked: across
\* tables, deltas of deltas, pointers, peeks and guards in between, cache hits,
\* and sessions that end while it waits.
ReplyRebuilds ==
  \A c \in Callers :
    req[c].pc = "reply" /\ Alone(c, req[c].session) /\ req[c].out.kind # "shape"
    => Rebuilt(c, req[c].out) \in Since(c)

\* What the relay takes such a caller to hold is what it has, row by row,
\* whenever it has no reply on the way.
HeldIsMind ==
  \A c \in Callers :
    Alone(c, session) /\ req[c].pc # "reply" /\ session > 0 /\ held[session] # None
    => mind[c] = held[session]

\* Does not hold: "a body counts as held only when it was actually delivered", said of every
\* caller: one that is sent a pointer or a delta can rebuild the result.
HeldWasDelivered ==
  \A c \in Callers :
    req[c].pc = "reply" /\ req[c].out.kind # "shape" => Rebuilt(c, req[c].out) \in Since(c)
=============================================================================

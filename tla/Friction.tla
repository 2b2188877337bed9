------------------------------ MODULE Friction ------------------------------
(***************************************************************************)
(* Friction awareness: what the relay remembers of failed calls and when   *)
(* it speaks up (friction.mjs, routes-friction.mjs, their use in           *)
(* relay.mjs, the friction tables of db.mjs).                              *)
(*                                                                         *)
(* The action log is the only durable measurement.  From it the relay      *)
(* keeps live counters per session in memory (rebuilt after a restart) and *)
(* scans the history of other sessions on demand; what it has already said *)
(* is kept in memory and in the database.  A target is a selector, store   *)
(* or page; all targets here are of one command type.                      *)
(***************************************************************************)
EXTENDS Integers, FiniteSets, SequencesExt

CONSTANTS
  Agent, Target,
  OriginOf,        \* Agent -> the origin its tab is on
  RiskyFails,      \* RISKY_SELECTOR_FAIL_THRESHOLD
  LiveFails,       \* LIVE_FAIL_THRESHOLD
  EscalateFails,   \* ESCALATE_AFTER_LIVE_FAILS
  SuggestFails, SuggestOks, SuggestSessions,  \* RESOLVE_SUGGEST_MIN_*
  Block,           \* WEBSCOUT_RISKY_BLOCK
  MaxSession, MaxCalls, MaxDecisions, MaxRestarts  \* bounds

ASSUME ThresholdAssumption == {RiskyFails, LiveFails, EscalateFails, SuggestFails, SuggestOks,
                               SuggestSessions, MaxSession} \subseteq Nat \ {0}
ASSUME BoundAssumption == {MaxCalls, MaxDecisions, MaxRestarts} \subseteq Nat /\ Block \in BOOLEAN

VARIABLES
  log,        \* the actions table, in the order rows were written
  active,     \* the active session, 0 for none
  begun,      \* sessions begun
  clock,      \* ticks when a call starts or a decision is taken
  live,       \* memory: session -> target -> counters of this session's calls
  hydrated,   \* memory: sessions whose counters were checked against the log
  warned,     \* memory: session -> target -> unresolved failures when last warned, -1 for never
  announced,  \* memory: <<session, target>> said to be failing for the first time
  storedWarn, storedSaid,  \* database: the same two
  resolvedAt, \* target -> when it was declared fixed, -1 for never
  snoozed,    \* targets snoozed
  call,       \* agent -> its command
  decisions, restarts,
  heard       \* session -> target -> for each warning said, the failures of the session logged by then (history)

memory == <<live, hydrated, warned, announced>>
said == <<storedWarn, storedSaid>>
judged == <<resolvedAt, snoozed>>
vars == <<log, active, begun, clock, live, hydrated, warned, announced, storedWarn, storedSaid, resolvedAt,
          snoozed, call, decisions, restarts, heard>>

Session == 1..MaxSession
NoCount == [fails |-> 0, unresolved |-> 0, ok |-> FALSE]
Idle == [at |-> "idle", target |-> CHOOSE t \in Target : TRUE, session |-> 0, started |-> 0, ack |-> FALSE]
PerTarget(x) == [s \in Session |-> [t \in Target |-> x]]

Init ==
  /\ log = <<>> /\ active = 0 /\ begun = 0 /\ clock = 0
  /\ live = PerTarget(NoCount) /\ hydrated = {} /\ warned = PerTarget(-1) /\ announced = {}
  /\ storedWarn = PerTarget(-1) /\ storedSaid = {}
  /\ resolvedAt = [t \in Target |-> -1] /\ snoozed = {}
  /\ call = [a \in Agent |-> Idle] /\ decisions = 0 /\ restarts = 0
  /\ heard = PerTarget(<<>>)

-----------------------------------------------------------------------------
\* The scans over the log.

\* Mutated: the cut-off of a target declared fixed is not applied.
Scan_stale(rows, t) ==
  FoldLeft(LAMBDA entry, r :
             IF r.ok THEN [entry EXCEPT !.unresolved[r.origin] = 0]
             ELSE [entry EXCEPT !.fails = @ + 1, !.unresolved[r.origin] = @ + 1],
           [fails |-> 0, unresolved |-> [o \in {OriginOf[a] : a \in Agent} |-> 0]],
           SelectSeq(rows, LAMBDA r : r.target = t))

\* buildSelectorFriction over one target's rows: per origin, the failures since the last success there; a
\* failure that started before the target was declared fixed does not count.
Scan(rows, t) ==
  FoldLeft(LAMBDA entry, r :
             IF r.ok THEN [entry EXCEPT !.unresolved[r.origin] = 0]
             ELSE IF r.at <= resolvedAt[t] THEN entry
             ELSE [entry EXCEPT !.fails = @ + 1, !.unresolved[r.origin] = @ + 1],
           [fails |-> 0, unresolved |-> [o \in {OriginOf[a] : a \in Agent} |-> 0]],
           SelectSeq(rows, LAMBDA r : r.target = t))

\* listFrictionKeyHistory: the rows of every other session.
History(s, t) == Scan(SelectSeq(log, LAMBDA r : r.session # s), t)

\* The live counters after one more call, and those a replay of a log ends at: the failures of a session at a
\* target, those since the last success there, and whether there was one.
Noted(c, ok) ==
  IF ok THEN [c EXCEPT !.unresolved = 0, !.ok = TRUE] ELSE [c EXCEPT !.fails = @ + 1, !.unresolved = @ + 1]
Calls(rows, s, t) == {i \in DOMAIN rows : rows[i].session = s /\ rows[i].target = t}
Failed(rows, s, t) == {i \in Calls(rows, s, t) : ~rows[i].ok}
Open(rows, s, t) == {i \in Failed(rows, s, t) : \A j \in Calls(rows, s, t) : i < j => ~rows[j].ok}
Replayed(rows, s, t) ==
  [fails |-> Cardinality(Failed(rows, s, t)), unresolved |-> Cardinality(Open(rows, s, t)),
   ok |-> \E i \in Calls(rows, s, t) : rows[i].ok]

\* findResolveSuggestions: failed often, then only worked, over several sessions.
Streak(t) ==
  LET rows == SelectSeq(log, LAMBDA r : r.target = t /\ r.at > resolvedAt[t])
      lastFail == SelectLastInSeq(rows, LAMBDA r : ~r.ok)
  IN SubSeq(rows, lastFail + 1, Len(rows))
Suggested ==
  {t \in Target :
     /\ Len(SelectSeq(log, LAMBDA r : r.target = t /\ ~r.ok /\ r.at > resolvedAt[t])) >= SuggestFails
     /\ Len(Streak(t)) >= SuggestOks
     /\ Cardinality({r.session : r \in Range(Streak(t))}) >= SuggestSessions}

-----------------------------------------------------------------------------
\* The live tracker.

\* Mutated: a restarted relay starts counting from nothing, or forgets what was said.
LiveOf_cold(s, t) == live[s][t]
WarnedOf_forgetful(s, t) == warned[s][t]

\* ensureFrictionSession: once per process and session, unless a counter is there already, the counters are
\* replayed from the log and what was said is read back; not even that when the session has no row yet.
Tracked(s) == \E t \in Target : live[s][t] # NoCount
Hydrates(s) == s \notin hydrated /\ ~Tracked(s) /\ \E r \in Range(log) : r.session = s
LiveOf(s, t) == IF Hydrates(s) THEN Replayed(log, s, t) ELSE live[s][t]
WarnedOf(s, t) == IF Hydrates(s) THEN storedWarn[s][t] ELSE warned[s][t]
AnnouncedOf(s) == IF Hydrates(s) THEN announced \cup {x \in storedSaid : x[1] = s} ELSE announced

Hydrated(s) == [live |-> [live EXCEPT ![s] = [t \in Target |-> LiveOf(s, t)]],
                warned |-> [warned EXCEPT ![s] = [t \in Target |-> WarnedOf(s, t)]]]

\* evaluateSelectorRisk: snoozed, working again, not risky, or nothing new since it was last said: silence.
Unresolved(s, t, a) == History(s, t).unresolved[OriginOf[a]]
Risky(s, t, a) ==
  \/ Unresolved(s, t, a) + LiveOf(s, t).unresolved >= RiskyFails
  \/ LiveOf(s, t).unresolved >= LiveFails
Speaks(s, t, a) ==
  /\ t \notin snoozed
  /\ ~(LiveOf(s, t).ok /\ LiveOf(s, t).unresolved = 0)
  /\ Risky(s, t, a)
  /\ WarnedOf(s, t) = -1 \/ LiveOf(s, t).unresolved > WarnedOf(s, t)

\* Mutated: only the call that is warned is refused.
Refuses_told(s, t, ack) ==
  Block /\ ~ack /\ LiveOf(s, t).unresolved >= EscalateFails /\ WarnedOf(s, t) < LiveOf(s, t).unresolved

\* WEBSCOUT_RISKY_BLOCK refuses an escalated target whether or not the warning is said again.
Refuses(s, t, ack) == Block /\ ~ack /\ LiveOf(s, t).unresolved >= EscalateFails

Failures(s, t) == Cardinality(Failed(log, s, t))

-----------------------------------------------------------------------------
\* Commands.

\* POST /command: the warning, the refusal, the dispatch.
Begin(a) == \E t \in Target, ack \in BOOLEAN :
  LET s == active
      speaks == Speaks(s, t, a)
      refused == Refuses(s, t, ack)
  IN /\ active # 0 /\ call[a].at = "idle" /\ clock < MaxCalls + decisions
     /\ ack => Refuses(s, t, FALSE)
     /\ clock' = clock + 1 /\ hydrated' = hydrated \cup {s} /\ live' = Hydrated(s).live
     /\ announced' = AnnouncedOf(s)
     /\ IF speaks
        THEN /\ warned' = [Hydrated(s).warned EXCEPT ![s][t] = LiveOf(s, t).unresolved]
             /\ storedWarn' = [storedWarn EXCEPT ![s][t] = LiveOf(s, t).unresolved]
             /\ heard' = [heard EXCEPT ![s][t] = Append(@, Failures(s, t))]
        ELSE warned' = Hydrated(s).warned /\ UNCHANGED <<storedWarn, heard>>
     /\ IF refused
        THEN UNCHANGED call
        ELSE call' = [call EXCEPT ![a] = [at |-> "sent", target |-> t, session |-> s, started |-> clock, ack |-> ack]]
     /\ UNCHANGED <<log, active, begun, storedSaid, judged, decisions, restarts>>

\* withLoggedAction: the row is written and counted in one go, after the reply, whatever became of the
\* session meanwhile.  A counter that is not there yet starts at nothing.
Finish(a) == \E ok \in BOOLEAN :
  LET c == call[a]
      s == c.session
      t == c.target
  IN /\ c.at = "sent"
     /\ log' = Append(log, [session |-> s, target |-> t, ok |-> ok, at |-> c.started, origin |-> OriginOf[a]])
     /\ live' = [live EXCEPT ![s][t] = Noted(@, ok)]
     /\ call' = [call EXCEPT ![a] = IF ok THEN Idle ELSE [c EXCEPT !.at = "failed"]]
     /\ UNCHANGED <<active, begun, clock, hydrated, warned, announced, said, judged, decisions, restarts,
                    heard>>

\* liveEmergentFriction: no other session ever saw this target fail, and now it failed twice: said once.
Emerging(s, t) == LiveOf(s, t).fails >= 2 /\ History(s, t).fails = 0

\* The rest of dispatchTracked's failure path.  After a timeout the page is probed first, so another call may
\* be logged in between.
Report(a) ==
  LET s == call[a].session
      t == call[a].target
      news == Emerging(s, t) /\ <<s, t>> \notin AnnouncedOf(s)
  IN /\ call[a].at = "failed"
     /\ hydrated' = hydrated \cup {s} /\ live' = Hydrated(s).live /\ warned' = Hydrated(s).warned
     /\ announced' = AnnouncedOf(s) \cup (IF news THEN {<<s, t>>} ELSE {})
     /\ storedSaid' = storedSaid \cup (IF news THEN {<<s, t>>} ELSE {})
     /\ call' = [call EXCEPT ![a] = Idle]
     /\ UNCHANGED <<log, active, begun, clock, storedWarn, judged, decisions, restarts, heard>>

-----------------------------------------------------------------------------
\* Sessions and restarts.

\* What was said in sessions that are over is swept when the next one starts.
StartSession ==
  /\ active = 0 /\ begun < MaxSession /\ begun' = begun + 1 /\ active' = begun + 1
  /\ storedWarn' = PerTarget(-1) /\ storedSaid' = {}
  /\ UNCHANGED <<log, clock, memory, judged, call, decisions, restarts, heard>>

\* Session end: suggestions may be applied, then everything remembered of the session is dropped.
EndSession == \E apply \in BOOLEAN :
  /\ active # 0 /\ active' = 0
  /\ apply => Suggested # {}
  /\ resolvedAt' = [t \in Target |-> IF apply /\ t \in Suggested THEN clock ELSE resolvedAt[t]]
  /\ clock' = IF apply THEN clock + 1 ELSE clock
  /\ decisions' = IF apply THEN decisions + 1 ELSE decisions
  /\ live' = [live EXCEPT ![active] = [t \in Target |-> NoCount]]
  /\ warned' = [warned EXCEPT ![active] = [t \in Target |-> -1]]
  /\ announced' = {x \in announced : x[1] # active} /\ hydrated' = hydrated \ {active}
  /\ storedWarn' = [storedWarn EXCEPT ![active] = [t \in Target |-> -1]]
  /\ storedSaid' = {x \in storedSaid : x[1] # active}
  /\ UNCHANGED <<log, begun, snoozed, call, restarts, heard>>

\* The relay process ends and another starts: memory is gone, and so are the commands in flight.
Restart ==
  /\ restarts < MaxRestarts /\ restarts' = restarts + 1
  /\ live' = PerTarget(NoCount) /\ hydrated' = {} /\ warned' = PerTarget(-1) /\ announced' = {}
  /\ call' = [a \in Agent |-> Idle]
  /\ UNCHANGED <<log, active, begun, clock, said, judged, decisions, heard>>

-----------------------------------------------------------------------------
\* Decisions of the operator (and an import of somebody else's, which adds only what is missing).

Decides == decisions < MaxDecisions /\ decisions' = decisions + 1 /\ clock' = clock + 1
Rest == UNCHANGED <<log, active, begun, memory, said, call, restarts, heard>>

Resolve(t) == Decides /\ resolvedAt' = [resolvedAt EXCEPT ![t] = clock] /\ Rest /\ UNCHANGED snoozed
Unresolve(t) ==
  /\ resolvedAt[t] # -1
  /\ resolvedAt' = [resolvedAt EXCEPT ![t] = -1] /\ Rest /\ UNCHANGED <<snoozed, decisions, clock>>
Import(t) == \E at \in 0..clock :
  /\ resolvedAt[t] = -1
  /\ Decides /\ resolvedAt' = [resolvedAt EXCEPT ![t] = at] /\ Rest /\ UNCHANGED snoozed
\* A snooze begins, or ends (lifted or run out).
Snooze(t) ==
  /\ Decides /\ snoozed' = (IF t \in snoozed THEN snoozed \ {t} ELSE snoozed \cup {t})
  /\ Rest /\ UNCHANGED resolvedAt

Next ==
  \/ \E a \in Agent : Begin(a) \/ Finish(a) \/ Report(a)
  \/ StartSession \/ EndSession \/ Restart
  \/ \E t \in Target : Resolve(t) \/ Unresolve(t) \/ Import(t) \/ Snooze(t)

Spec == Init /\ [][Next]_vars

-----------------------------------------------------------------------------

\* The counters of the running session are what its logged actions say, also after a restart under a live
\* session and whatever overlapped ("they are a pure function of it", createFrictionTracker).
LiveIsLog ==
  active \in hydrated => \A t \in Target : live[active][t] = Replayed(log, active, t)

\* A warning that already counted failures of this session is said again only after another one, across
\* restarts of the relay and whichever agent asks (evaluateSelectorRisk, recordWarn).
WarnNeedsNews ==
  \A s \in Session, t \in Target : \A i, j \in DOMAIN heard[s][t] :
    i < j => heard[s][t][i] < heard[s][t][j] \/ heard[s][t][i] = 0

\* What is counted against target t: the failures of session s since t last worked in it, and, at the origin,
\* those of the other sessions since t last worked there that started after t was declared fixed.
Against(s, t, o) ==
  Cardinality({i \in DOMAIN log :
    /\ log[i].target = t /\ ~log[i].ok
    /\ IF log[i].session = s THEN \A j \in i..Len(log) : log[j].session = s /\ log[j].target = t => ~log[j].ok
       ELSE /\ log[i].origin = o /\ log[i].at > resolvedAt[t]
            /\ \A j \in i..Len(log) : log[j].session # s /\ log[j].target = t /\ log[j].origin = o => ~log[j].ok})

\* Nobody is warned of a target that works: what was said is backed by that many unresolved failures in the
\* log, at some agent's origin, and the target is not snoozed (buildSelectorFriction, evaluateSelectorRisk).
WarningIsEarned ==
  [][\A s \in Session, t \in Target :
       heard'[s][t] # heard[s][t] =>
         /\ t \notin snoozed
         /\ \E a \in Agent : Against(s, t, OriginOf[a]) >= (IF RiskyFails < LiveFails THEN RiskyFails ELSE LiveFails)]_vars

\* With blocking on, a target that failed EscalateFails times in a row in this session is not dispatched again
\* without an acknowledgement, however often it is retried and across restarts (maybeRiskySelectorWarn).
EscalatedStaysRefused ==
  [][\A a \in Agent :
       call[a].at = "idle" /\ call'[a].at = "sent" /\ Block /\ ~call'[a].ack
         => Replayed(log, active, call'[a].target).unresolved < EscalateFails]_vars

\* Does not hold: evaluateSelectorRisk stays quiet once warned only when "nothing new has failed since": a risky target that
\* failed since the last warning is warned about again.  (The code compares with the streak it warned at.)
NewFailureIsSaid ==
  [][\A a \in Agent :
       call[a].at = "idle" /\ call'[a].at = "sent" =>
         LET s == active
             t == call'[a].target
         IN heard[s][t] # <<>> /\ Last(heard[s][t]) < Failures(s, t) /\ t \notin snoozed /\ LiveOf(s, t).unresolved >= LiveFails
              => heard'[s][t] # heard[s][t]]_vars
=============================================================================

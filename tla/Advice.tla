------------------------------- MODULE Advice -------------------------------
(***************************************************************************)
(* What the relay tells its callers about the work of the session: the     *)
(* first failure of a call, the failures of the other agents, and the      *)
(* macro they are typing by hand, all said live and read from the log      *)
(* whose reports Analytics computes.  Two caches stand between the log and *)
(* the offer of a macro: the analytics (5 s) and the candidates built from *)
(* them (60 s).                                                            *)
(*                                                                         *)
(* A caller sends one command at a time, or replays a macro.  A failed     *)
(* write is followed by a probe when it timed out, and by a screenshot     *)
(* always, each a row of its own; only then is the caller answered.        *)
(*                                                                         *)
(* Not here: known issues, remediation, failures declared fixed, and the   *)
(* relay's restart (Friction has the last two); macros recorded with their *)
(* reads.                                                                  *)
(***************************************************************************)
EXTENDS SessionView

CONSTANTS
  Agent,
  RiskyFails,             \* RISKY_SELECTOR_FAIL_THRESHOLD
  NoticeCap,              \* FRICTION_NOTICE_CAP
  StatsTTL, CandidateTTL, \* ANALYTICS_CACHE_MS, MACRO_CANDIDATE_TTL_MS
  Pause,                  \* the longer of the two times between commands
  MaxAsked, MaxRuns, MaxTrouble \* bounds: commands; replays; failures, pauses, polls, macro changes and later session ends and starts

ASSUME AdviceAssumption ==
  /\ {RiskyFails, NoticeCap, StatsTTL, CandidateTTL} \subseteq Nat \ {0}
  /\ {Pause, MaxAsked, MaxRuns, MaxTrouble} \subseteq Nat

VARIABLES
  log, clock,
  current,    \* the session under way, 0 for none
  sessions,   \* sessions so far
  work,       \* agent -> what its caller waits for
  macro,      \* the steps of the macro, <<>> when there is none
  runs,       \* macro replays so far
  announced,  \* <<session, call>> said to have failed for the first time
  pending,    \* agent -> notices of the current session not yet delivered
  offered,    \* sessions to which the macro was offered
  stats,      \* analyticsCache: when, and of how much of the log
  candidates, \* macroCandidateCache: when, of how much of the log, and the steps; no steps when the macro is left out
  calls, trouble,
  heard, mixed \* history: notices delivered; <<session, call>> whose count a replay or a failure not yet reported was in

adviceState == <<log, clock, current, sessions, work, macro, runs, announced, pending, offered, stats, candidates>>
adviceVars == <<adviceState, calls, trouble, heard, mixed>>

Call == Write \cup Read
Macro == 1
Verify == "timeout.verify"
Shot == "dom.screenshot"

ASSUME RowsAssumption == {Verify, Shot} \cap Call = {}

Resting == [at |-> "idle"]
NoList == [at |-> -1, n |-> 0, steps |-> <<>>]
NoQueue == [a \in Agent |-> <<>>]

AdviceInit ==
  /\ log = <<>> /\ clock = 0 /\ current = 0 /\ sessions = 0 /\ work = [a \in Agent |-> Resting]
  /\ macro = <<>> /\ runs = 0 /\ announced = {} /\ pending = NoQueue /\ offered = {}
  /\ stats = [at |-> -1, n |-> 0] /\ candidates = NoList
  /\ calls = 0 /\ trouble = 0 /\ heard = NoQueue /\ mixed = {}

Trouble == trouble < MaxTrouble /\ trouble' = trouble + 1

-----------------------------------------------------------------------------
\* Rows. A failing row of a call counts with those of other callers that have not been reported.
Row(a, c, ok, res) ==
  [session |-> work[a].session, agent |-> a, call |-> c, ok |-> ok, res |-> res, at |-> work[a].begun, end |-> clock,
   macro |-> 0, run |-> 0]

Unreported(s, c) ==
  {work[a].row : a \in {b \in Agent : work[b].at = "probing" /\ work[b].session = s /\ work[b].call = c}}

Fails(r) ==
  /\ log' = Append(log, r)
  /\ mixed' = IF r.macro # 0 \/ Unreported(r.session, r.call) # {} THEN mixed \cup {<<r.session, r.call>>} ELSE mixed

-----------------------------------------------------------------------------
\* What a failure leads to. (liveEmergentFriction; queueFrictionBroadcast: the count reaches the threshold.)
\* A notice for a session that has ended is never delivered.

\* Mutated: the failures of this session count as failures before.
Announced_own(rows, s, c) == IF \E r \in Range(rows) : r.call = c /\ ~r.ok THEN announced ELSE announced \cup {<<s, c>>}

Announced(rows, s, c) == IF EverFailedBefore(rows, s, c) THEN announced ELSE announced \cup {<<s, c>>}

\* Mutated: every failure from the threshold on.
Crossed_again(rows, s, c) == Cardinality(FailsIn(rows, s, c)) >= RiskyFails

Crossed(rows, s, c) == Cardinality(FailsIn(rows, s, c)) = RiskyFails

Newest(q) == IF Len(q) > NoticeCap THEN SubSeq(q, Len(q) - NoticeCap + 1, Len(q)) ELSE q

Report(rows, a, s, c) ==
  /\ announced' = Announced(rows, s, c)
  /\ pending' = IF s = current /\ Crossed(rows, s, c)
                THEN [b \in Agent |-> IF b = a THEN pending[b]
                                      ELSE Newest(Append(pending[b], [session |-> s, call |-> c, from |-> a]))]
                ELSE pending

-----------------------------------------------------------------------------
\* getAnalytics and macroCandidates, asked when the log is `rows`. The macro is left out when it has failed whenever it
\* ran, or has one step.
StillFresh(cache, ttl) == cache.at # -1 /\ clock - cache.at < ttl
Stats(rows) == IF StillFresh(stats, StatsTTL) THEN stats ELSE [at |-> clock, n |-> Len(rows)]

\* Mutated: a macro that never worked is a candidate.
Build_all(rows, n) == [at |-> clock, n |-> n, steps |-> IF Len(macro) >= 2 THEN macro ELSE <<>>]

Build(rows, n) ==
  [at |-> clock, n |-> n,
   steps |-> IF Len(macro) >= 2 /\ ~NeverSucceeds(SubSeq(rows, 1, n), Macro) THEN macro ELSE <<>>]

\* The last replayable rows of the session are the steps, and typed by hand.
Matches(rows, s, steps) ==
  LET mine == SelectSeq(RowsOf(rows, s), LAMBDA r : r.ok /\ r.call \in Write)
      skip == Len(mine) - Len(steps)
  IN /\ steps # <<>> /\ skip >= 0
     /\ \A i \in DOMAIN steps : mine[skip + i].call = steps[i] /\ mine[skip + i].macro = 0

\* maybeMacroMatchNudge.
Nudge(rows, s) ==
  LET kept == StillFresh(candidates, CandidateTTL)
      list == IF kept THEN candidates ELSE Build(rows, Stats(rows).n)
  IN /\ candidates' = list
     /\ stats' = IF kept THEN stats ELSE Stats(rows)
     /\ offered' = IF s \notin offered /\ Matches(rows, s, list.steps) THEN offered \cup {s} ELSE offered

-----------------------------------------------------------------------------
\* Commands.

\* The caller is told what waits for it, then its command goes to the page.
Dispatch(a) ==
  /\ work[a] = Resting /\ current # 0 /\ calls < MaxAsked
  /\ \/ clock' = clock + 1 /\ UNCHANGED trouble
     \/ clock' = clock + Pause /\ Trouble
  /\ \E c \in Call : work' = [work EXCEPT ![a] = [at |-> "sent", session |-> current, call |-> c, begun |-> clock']]
  /\ heard' = [heard EXCEPT ![a] = @ \o pending[a]]
  /\ pending' = [pending EXCEPT ![a] = <<>>]
  /\ calls' = calls + 1
  /\ UNCHANGED <<log, current, sessions, macro, runs, announced, offered, stats, candidates, mixed>>

\* What a read saw the first time is called "this".
Seen(c) == IF c \notin Read THEN {"done"} ELSE {"this"} \cup {"that" : r \in {q \in Range(log) : q.res = "this"}}

Answer(a) ==
  /\ work[a].at = "sent"
  /\ \E res \in Seen(work[a].call) : log' = Append(log, Row(a, work[a].call, TRUE, res))
  /\ Nudge(log', work[a].session)
  /\ work' = [work EXCEPT ![a] = Resting]
  /\ UNCHANGED <<clock, current, sessions, macro, runs, announced, pending, calls, trouble, heard, mixed>>

Reported(c) == IF c \in Write THEN "shooting" ELSE "idle"
Then(a, at) == work' = [work EXCEPT ![a] = IF at = "idle" THEN Resting ELSE [@ EXCEPT !.at = at, !.begun = clock]]

\* The page answers that it failed, or a read does not answer in time.
Fail(a) ==
  /\ Trouble
  /\ work[a].at = "sent"
  /\ Fails(Row(a, work[a].call, FALSE, NoResult))
  /\ Report(log', a, work[a].session, work[a].call)
  /\ Then(a, Reported(work[a].call))
  /\ UNCHANGED <<clock, current, sessions, macro, runs, offered, stats, candidates, calls, heard>>

\* A write does not answer in time; the probe is answered or not, which its row does not show.
TimedOut(a) ==
  /\ Trouble
  /\ work[a].at = "sent" /\ work[a].call \in Write
  /\ Fails(Row(a, work[a].call, FALSE, NoResult))
  /\ work' = [work EXCEPT ![a] = [at |-> "probing", session |-> @.session, call |-> @.call, begun |-> clock, row |-> Len(log')]]
  /\ UNCHANGED <<clock, current, sessions, macro, runs, announced, pending, offered, stats, candidates, calls, heard>>

ProbeAfter(a) ==
  /\ work[a].at = "probing"
  /\ log' = Append(log, Row(a, Verify, TRUE, "done"))
  /\ Report(log', a, work[a].session, work[a].call)
  /\ Then(a, Reported(work[a].call))
  /\ UNCHANGED <<clock, current, sessions, macro, runs, offered, stats, candidates, calls, trouble, heard, mixed>>

Shoot(a) ==
  /\ work[a].at = "shooting"
  /\ \/ log' = Append(log, Row(a, Shot, TRUE, "done")) /\ UNCHANGED trouble
     \/ log' = Append(log, Row(a, Shot, FALSE, NoResult)) /\ Trouble
  /\ Then(a, "idle")
  /\ UNCHANGED <<clock, current, sessions, macro, runs, announced, pending, offered, stats, candidates, calls, heard, mixed>>

-----------------------------------------------------------------------------
\* The macro. Every change of it drops the candidates (broadcastUpdate), and not the analytics.

SetMacro(steps) == macro' = steps /\ candidates' = NoList

Record ==
  /\ macro = <<>> /\ ~\E r \in Range(log) : r.macro # 0
  /\ \E s \in 1..sessions :
       LET mine == SelectSeq(RowsOf(log, s), LAMBDA r : r.ok /\ r.call \in Write)
       IN mine # <<>> /\ SetMacro([i \in DOMAIN mine |-> mine[i].call])
  /\ UNCHANGED <<log, clock, current, sessions, work, runs, announced, pending, offered, stats, calls, trouble, heard, mixed>>

\* PUT steps, by which the inspector takes one away.
EditSteps ==
  /\ Trouble
  /\ macro # <<>>
  /\ \E i \in DOMAIN macro : SetMacro(RemoveAt(macro, i))
  /\ UNCHANGED <<log, clock, current, sessions, work, runs, announced, pending, offered, stats, calls, heard, mixed>>

DeleteMacro ==
  /\ Trouble
  /\ macro # <<>> /\ SetMacro(<<>>)
  /\ UNCHANGED <<log, clock, current, sessions, work, runs, announced, pending, offered, stats, calls, heard, mixed>>

\* A replay of the steps as they are now, from the first or from a later one.
RunMacro(a) ==
  /\ work[a] = Resting /\ current # 0 /\ macro # <<>> /\ runs < MaxRuns
  /\ \E from \in 1..Len(macro) :
       /\ stats' = IF from = 1 THEN Stats(log) ELSE stats
       /\ work' = [work EXCEPT ![a] = [at |-> "replay", session |-> current, run |-> runs + 1,
                                       rest |-> SubSeq(macro, from, Len(macro))]]
  /\ runs' = runs + 1
  /\ UNCHANGED <<log, clock, current, sessions, macro, announced, pending, offered, candidates, calls, trouble, heard, mixed>>

StepRow(a, ok, res) ==
  [session |-> work[a].session, agent |-> a, call |-> Head(work[a].rest), ok |-> ok, res |-> res, at |-> clock,
   end |-> clock, macro |-> Macro, run |-> work[a].run]

\* A step that fails ends the replay unless it was to go on. It is announced to no one.
MacroStep(a) ==
  /\ work[a].at = "replay"
  /\ \E ok, goOn \in BOOLEAN :
       /\ goOn \/ ~ok
       /\ IF ok THEN log' = Append(log, StepRow(a, TRUE, "done")) /\ UNCHANGED mixed
          ELSE Fails(StepRow(a, FALSE, NoResult))
       /\ IF goOn /\ Len(work[a].rest) > 1
          THEN work' = [work EXCEPT ![a].rest = Tail(@)] /\ UNCHANGED candidates
          ELSE work' = [work EXCEPT ![a] = Resting] /\ candidates' = NoList
  /\ UNCHANGED <<clock, current, sessions, macro, runs, announced, pending, offered, stats, calls, trouble, heard>>

-----------------------------------------------------------------------------
\* Sessions, and the dashboard.

\* dropSessionMemory.
Forget(s) ==
  /\ announced' = {x \in announced : x[1] # s}
  /\ pending' = NoQueue
  /\ offered' = offered \ {s}

\* A session that is stale gives way. The candidates are built from an analytics scan of its own.
StartSession ==
  /\ IF sessions = 0 THEN UNCHANGED trouble ELSE Trouble
  /\ sessions' = sessions + 1 /\ current' = sessions + 1
  /\ IF current # 0 THEN Forget(current) ELSE UNCHANGED <<announced, pending, offered>>
  /\ candidates' = Build(log, Len(log))
  /\ UNCHANGED <<log, clock, work, macro, runs, stats, calls, heard, mixed>>

EndSession ==
  /\ Trouble
  /\ current # 0 /\ current' = 0
  /\ Forget(current)
  /\ UNCHANGED <<log, clock, sessions, work, macro, runs, stats, candidates, calls, heard, mixed>>

PollStats ==
  /\ Trouble
  /\ ~StillFresh(stats, StatsTTL)
  /\ stats' = Stats(log)
  /\ UNCHANGED <<log, clock, current, sessions, work, macro, runs, announced, pending, offered, candidates, calls, heard, mixed>>

AdviceNext ==
  \/ \E a \in Agent : Dispatch(a) \/ Answer(a) \/ Fail(a) \/ TimedOut(a) \/ ProbeAfter(a) \/ Shoot(a) \/ RunMacro(a) \/ MacroStep(a)
  \/ Record \/ EditSteps \/ DeleteMacro \/ StartSession \/ EndSession \/ PollStats

AdviceSpec == AdviceInit /\ [][AdviceNext]_adviceVars

-----------------------------------------------------------------------------
\* Every report computed in one pass over the log finds what it should: the loops, repeated reads, waste, quiet times,
\* episodes and causes of each session, and the macro replays of all. (Only the session of the last row has rows that it
\* had not when the log was shorter.)
ViewsExact(rows) ==
  /\ LoopsExact(rows) /\ RedundantExact(rows) /\ WasteExact(rows)
  /\ SegmentsExact(rows) /\ EpisodesExact(rows) /\ CausesExact(rows)

ReportsExact ==
  /\ log # <<>> => ViewsExact(RowsOf(log, Last(log).session))
  /\ RunsExact(log)

\* A call that the end of the session says failed for the first time ever was said to when it failed, if a command
\* failed whose caller has had its report: the two look at the log at other times and in other ways.
EndAgreesWithLive ==
  [][EndSession =>
       \A c \in EmergentIn(log, current) \cap Call :
         (\E i \in FailsIn(log, current, c) \ Unreported(current, c) : log[i].macro = 0) => <<current, c>> \in announced]_adviceVars

\* Of a call that fails RiskyFails times in a session every other agent is told once, whatever order the failures and
\* the reports come in, and never of fewer; unless newer notices pushed it out, a replay was among the failures, or one
\* was counted before its report.
Notices(b) == heard[b] \o pending[b]
Told(b, s, c) == {i \in DOMAIN Notices(b) : Notices(b)[i].session = s /\ Notices(b)[i].call = c}
Crowded(b, s) == Cardinality({i \in DOMAIN Notices(b) : Notices(b)[i].session = s}) >= NoticeCap
Nth(S, n) == CHOOSE i \in S : Cardinality({j \in S : j <= i}) = n

OthersHear ==
  \A s \in 1..sessions, c \in Call, b \in Agent : <<s, c>> \notin mixed =>
    LET fails == FailsIn(log, s, c)
    IN IF Cardinality(fails) < RiskyFails \/ log[Nth(fails, RiskyFails)].agent = b
       THEN Told(b, s, c) = {}
       ELSE \/ \E i \in DOMAIN Notices(b) : Told(b, s, c) = {i}
            \/ Told(b, s, c) = {} /\ (s # current \/ Unreported(s, c) # {} \/ Crowded(b, s))

\* A macro that is offered exists, its steps are what the session has just done by hand, and it worked or was not
\* known to fail at some moment no longer ago than the two caches together allow.
OfferStands ==
  [][\A s \in offered' \ offered :
       /\ Len(macro) >= 2 /\ Matches(log', s, macro)
       /\ \E n \in 0..Len(log') :
            /\ ~NeverSucceeds(SubSeq(log', 1, n), Macro)
            /\ n < Len(log') => log'[n + 1].end > clock - StatsTTL - CandidateTTL]_adviceVars

\* Does not hold: "this run changed the macro's own record: the nudge must not keep quoting the old one"
\* (routes-macros.mjs): what the offer rests on counts every replay that had ended. The candidates are dropped and built
\* again from analytics that may be older.
OffersWhatWorks ==
  [][\A s \in offered' \ offered :
       ~(NeverSucceeds(log, Macro) /\ \A a \in Agent : work[a].at # "replay")]_adviceVars
=============================================================================

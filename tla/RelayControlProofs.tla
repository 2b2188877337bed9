------------------------- MODULE RelayControlProofs -------------------------
(* For any callers, process ids and lengths of a run: session start kills   *)
(* no relay in use; and while process ids are not given out twice, a boot   *)
(* takes no stop that it could know of for an unclean exit, the pidfile     *)
(* names the relay, and neither stop nor the reaper signals another program *)
(* that answers.  In the second part, what the relay                        *)
(* tells its callers, for any callers, threshold, caps and times to live:   *)
(* that a macro it offers stands, that the end of a session calls new what  *)
(* was called so live, and that failures are made known once.               *)
EXTENDS RelayControl, Advice, FiniteSetTheorems, SequenceTheorems, TLAPS

CallState == [op : Ops, at : Points, goal : {"plain", "health", "post"}, pid : Pid \cup {None}, retry : BOOLEAN,
              cooled : BOOLEAN, moved : BOOLEAN]
Deaths == {"no", "bind", "reaped", "signal", "crash", "stop"}
States == Young \cup {"none", "serving", "wedged", "gone"}
Programs == Other \cup {"relay", "test"}
PidfileRead == [pid : Pid \cup {None}, over : BOOLEAN]

Shape ==
  /\ st \in [Pid -> States] /\ what \in [Pid -> Programs] /\ killed \in [Pid -> Deaths]
  /\ used \subseteq Pid /\ sig \subseteq Pid /\ stopped \subseteq Pid
  /\ owner \in Pid \cup {None} /\ pidfile \in Pid \cup {None}
  /\ registry \subseteq Entries /\ snapshot \in [Pid -> SUBSET Entries]
  /\ seen \in [Pid -> PidfileRead] /\ unclean \subseteq PidfileRead
  /\ stale \subseteq Pid /\ tabs \in Nat /\ active \in BOOLEAN
  /\ call \in [Caller -> CallState]
  /\ \A c \in Caller : call[c].at \in {"sent", "identify", "kill", "drain", "unlink"} => call[c].pid \in Pid

\* A session start that goes on to a restart saw no session and at most one tab, or has been overtaken.
Guarded ==
  \A c \in Caller : call[c].op = "session" /\ call[c].at \in {"resolve", "identify", "kill"}
                    => call[c].moved = TRUE \/ (active = FALSE /\ tabs <= 1)

\* Only a relay boots or wedges, and what is past its bind on the relay's port owns it.
Owns ==
  \A p \in Pid : Alive(p) => /\ what[p] # "relay" => st[p] = "serving"
                             /\ what[p] # "test" /\ st[p] # "booting" => owner = p

GInv == Shape /\ Guarded /\ Owns

\* While no id is given out twice: what is in use has been given out, a relay wrote the pidfile, a line of another
\* port is a test relay's, and no caller is about to kill another program that answers.
Given ==
  /\ \A p \in Pid : Alive(p) => p \in used
  /\ sig \subseteq used /\ stopped \subseteq used /\ pidfile \in used \cup {None} /\ owner \in used \cup {None}
Written == pidfile # None => what[pidfile] = "relay"
Line(e) == e.pid \in used /\ (e.port # "real" => what[e.pid] = "test")
Listed == (\A e \in registry : Line(e)) /\ \A p \in Pid : \A e \in snapshot[p] : Line(e)
Aimed ==
  \A c \in Caller :
    /\ call[c].at \in {"identify", "kill", "drain", "unlink"} => call[c].pid \in used
    /\ call[c].at = "kill" => what[call[c].pid] # "foreign" \/ ~Alive(call[c].pid)
    /\ call[c].at \in {"drain", "unlink"} => what[call[c].pid] # "foreign" /\ st[call[c].pid] \notin Young

\* A stop that has been reported left no pidfile of its process, and no process that could still write one: so no
\* boot reads one.
Cleared == pidfile \notin stopped /\ \A p \in stopped : st[p] \notin Young
Unseen == \A p \in Pid : ~seen[p].over

NInv == Given /\ Written /\ Listed /\ Aimed /\ Cleared /\ Unseen /\ PidfileTrue /\ ForeignSpared /\ StoppedIsClean

-----------------------------------------------------------------------------
\* What the actions are made of.
LEMMA Pids == Pid \subseteq Nat /\ None \notin Pid
BY NoneAssumption, CallsAssumption DEF Pid

LEMMA IdleIsCall == Idle \in CallState
BY DEF Idle, CallState, Ops, Points

LEMMA EndedShape ==
  ASSUME Shape, NEW p \in Pid, NEW how \in Deaths, Ended(p, how)
  PROVE  /\ st' \in [Pid -> States] /\ what' \in [Pid -> Programs] /\ killed' \in [Pid -> Deaths]
         /\ used' \subseteq Pid /\ sig' \subseteq Pid /\ stopped' \subseteq Pid /\ owner' \in Pid \cup {None}
         /\ snapshot' \in [Pid -> SUBSET Entries] /\ seen' \in [Pid -> PidfileRead]
         /\ stale' \subseteq Pid /\ tabs' \in Nat
<1>1. Unread \in PidfileRead
  BY DEF Unread, PidfileRead
<1> QED BY <1>1 DEF Ended, Shape, States

LEMMA BornShape ==
  ASSUME Shape, NEW p \in Pid, NEW kind \in Programs, NEW state \in {"booting", "serving"}, Born(p, kind, state)
  PROVE  /\ st' \in [Pid -> States] /\ what' \in [Pid -> Programs] /\ killed' \in [Pid -> Deaths]
         /\ used' \subseteq Pid /\ stopped' \subseteq Pid
BY DEF Born, Shape, Deaths, States, Young

LEMMA RegisteredShape ==
  ASSUME Shape, NEW p \in Pid, NEW port \in {"real", "test"} PROVE Registered(p, port) \subseteq Entries
<1>1. [pid |-> p, port |-> port, old |-> FALSE] \in Entries
  BY DEF Entries
<1> QED BY <1>1 DEF Registered, Shape

LEMMA LeftShape ==
  ASSUME Shape, NEW c \in Caller PROVE Left(c) \in CallState /\ Left(c).at \in {"ask", "idle"}
<1>1. call[c] \in CallState
  BY DEF Shape
<1> QED BY <1>1 DEF Left, CallState, Points

\* A caller that goes on: the others' calls stay.
LEMMA GoesShape ==
  ASSUME Shape, NEW c \in Caller, NEW point \in Points, Goes(c, point)
  PROVE  /\ call' \in [Caller -> CallState] /\ call'[c] = [call[c] EXCEPT !.at = point]
         /\ call'[c].at = point /\ call'[c].pid = call[c].pid /\ call'[c].op = call[c].op
         /\ call'[c].goal = call[c].goal /\ call'[c].moved = call[c].moved
         /\ \A d \in Caller : d # c => call'[d] = call[d]
<1>1. call[c] \in CallState
  BY DEF Shape
<1> QED BY <1>1 DEF Goes, CallState, Shape

LEMMA LeavesShape ==
  ASSUME Shape, NEW c \in Caller, Leaves(c)
  PROVE  /\ call' \in [Caller -> CallState] /\ call'[c].at \in {"ask", "idle"}
         /\ \A d \in Caller : d # c => call'[d] = call[d]
<1>1. Left(c) \in CallState /\ Left(c).at \in {"ask", "idle"}
  BY LeftShape
<1> QED BY <1>1 DEF Leaves, Shape

-----------------------------------------------------------------------------
\* Types.
LEMMA InitGeneral == Init => GInv /\ NInv
<1> SUFFICES ASSUME Init PROVE GInv /\ NInv
  OBVIOUS
<1> USE DEF Init
<1>1. Idle \in CallState /\ Idle.at = "idle" /\ None \notin Pid /\ Unread \in PidfileRead /\ ~Unread.over
  BY IdleIsCall, Pids DEF Idle, Unread, PidfileRead
<1>2. call \in [Caller -> CallState] /\ \A c \in Caller : call[c].at = "idle"
  BY <1>1
<1>3. 1 \in Pid
  BY CallsAssumption DEF Pid
<1>4. Guarded /\ Aimed /\ Unseen /\ Cleared /\ ForeignSpared /\ StoppedIsClean
  BY <1>1, <1>2 DEF Guarded, Aimed, Unseen, Cleared, ForeignSpared, StoppedIsClean
<1>5. CASE st = [p \in Pid |-> "none"] /\ used = {} /\ owner = None /\ pidfile = None /\ registry = {} /\ stale = {} /\ tabs = 0
  <2>1. Shape
    BY <1>1, <1>2, <1>5 DEF Shape, Deaths, States, Programs
  <2>2. Owns /\ Given /\ Written /\ Listed /\ PidfileTrue
    BY <1>1, <1>5 DEF Owns, Given, Written, Listed, PidfileTrue, Alive
  <2> QED BY <1>4, <2>1, <2>2 DEF GInv, NInv
<1>6. CASE /\ st = [p \in Pid |-> IF p = 1 THEN "serving" ELSE "none"] /\ used = {1} /\ owner = 1 /\ pidfile = 1
           /\ registry = {[pid |-> 1, port |-> "real", old |-> FALSE]} /\ stale = {1} /\ tabs = 0
  <2>1. [pid |-> 1, port |-> "real", old |-> FALSE] \in Entries
    BY <1>3 DEF Entries
  <2>2. Shape
    BY <1>1, <1>2, <1>3, <1>6, <2>1 DEF Shape, Deaths, States, Programs
  <2>3. Owns /\ Given /\ Written /\ Listed /\ PidfileTrue
    BY <1>1, <1>3, <1>6 DEF Owns, Given, Written, Listed, Line, PidfileTrue, Alive
  <2> QED BY <1>4, <2>2, <2>3 DEF GInv, NInv
<1> QED BY <1>5, <1>6

\* A caller's step: its own call goes on, and stays a call.
LEMMA CallShape ==
  ASSUME Shape, NEW c \in Caller, NEW x \in CallState, call' = [call EXCEPT ![c] = x],
         x.at \in {"sent", "identify", "kill", "drain", "unlink"} => x.pid \in Pid
  PROVE  /\ call' \in [Caller -> CallState]
         /\ \A d \in Caller : call'[d].at \in {"sent", "identify", "kill", "drain", "unlink"} => call'[d].pid \in Pid
BY DEF Shape

LEMMA OvertakenShape ==
  ASSUME Shape
  PROVE  /\ Overtaken \in [Caller -> CallState]
         /\ \A d \in Caller : /\ Overtaken[d].at = call[d].at /\ Overtaken[d].pid = call[d].pid /\ Overtaken[d].moved = TRUE
                            /\ Overtaken[d].op = call[d].op
<1>1. \A d \in Caller : /\ [call[d] EXCEPT !.moved = TRUE] \in CallState
                        /\ [call[d] EXCEPT !.moved = TRUE].at = call[d].at /\ [call[d] EXCEPT !.moved = TRUE].pid = call[d].pid
                        /\ [call[d] EXCEPT !.moved = TRUE].op = call[d].op /\ [call[d] EXCEPT !.moved = TRUE].moved = TRUE
  <2> TAKE d \in Caller
  <2>1. call[d] \in CallState
    BY DEF Shape
  <2> QED BY <2>1 DEF CallState
<1> QED BY <1>1 DEF Overtaken

LEMMA CallerShape ==
  ASSUME Shape, NEW c \in Caller, CallerStep(c)
  PROVE  /\ call' \in [Caller -> CallState]
         /\ \A d \in Caller : call'[d].at \in {"sent", "identify", "kill", "drain", "unlink"} => call'[d].pid \in Pid
<1> DEFINE Good == /\ call' \in [Caller -> CallState]
                   /\ \A d \in Caller : call'[d].at \in {"sent", "identify", "kill", "drain", "unlink"} => call'[d].pid \in Pid
           y == call[c]
<1> SUFFICES Good
  OBVIOUS
<1>0. y \in CallState /\ (y.at \in {"sent", "identify", "kill", "drain", "unlink"} => y.pid \in Pid)
  BY DEF Shape
<1>1. ASSUME Leaves(c) PROVE Good
  BY <1>1, LeftShape, CallShape DEF Leaves
<1>2. ASSUME NEW point \in {"identify", "kill", "drain", "unlink"}, Goes(c, point), y.pid \in Pid PROVE Good
  <2>1. [y EXCEPT !.at = point] \in CallState /\ [y EXCEPT !.at = point].pid = y.pid
    BY <1>0 DEF CallState, Points
  <2> QED BY <1>2, <2>1, CallShape DEF Goes, Shape
<1>3. ASSUME NEW point \in {"ask", "resolve", "probe", "spawn", "await"}, Goes(c, point) PROVE Good
  <2>1. [y EXCEPT !.at = point] \in CallState /\ [y EXCEPT !.at = point].at = point
    BY <1>0 DEF CallState, Points
  <2> QED BY <1>3, <2>1, CallShape DEF Goes, Shape
<1>4. ASSUME NEW point \in {"sent", "identify", "kill"}, NEW p \in Pid, call' = [call EXCEPT ![c].at = point, ![c].pid = p] PROVE Good
  <2>1. [y EXCEPT !.at = point, !.pid = p] \in CallState /\ [y EXCEPT !.at = point, !.pid = p].pid = p
    BY <1>0 DEF CallState, Points
  <2> QED BY <1>4, <2>1, CallShape DEF Shape
<1>5. ASSUME NEW p \in Pid \cup {None}, call' = [call EXCEPT ![c].at = "await", ![c].pid = p] PROVE Good
  <2>1. [y EXCEPT !.at = "await", !.pid = p] \in CallState /\ [y EXCEPT !.at = "await", !.pid = p].at = "await"
    BY <1>0 DEF CallState, Points
  <2> QED BY <1>5, <2>1, CallShape DEF Shape
<1>6. CASE Begin(c)
  <2>1. PICK op \in Ops, cooled \in {y.cooled, FALSE} :
          call' = [call EXCEPT ![c] = [Idle EXCEPT !.op = op, !.cooled = cooled,
            !.goal = IF op = "session" THEN "health" ELSE "plain",
            !.at = CASE op = "start" -> "probe" [] op \in {"stop", "restart"} -> "resolve" [] OTHER -> "ask"]]
    BY <1>6 DEF Begin
  <2>2. PICK at \in {"probe", "resolve", "ask"}, goal \in {"health", "plain"} :
          call' = [call EXCEPT ![c] = [Idle EXCEPT !.op = op, !.cooled = cooled, !.goal = goal, !.at = at]]
    BY <2>1
  <2>3. /\ [Idle EXCEPT !.op = op, !.cooled = cooled, !.goal = goal, !.at = at] \in CallState
        /\ [Idle EXCEPT !.op = op, !.cooled = cooled, !.goal = goal, !.at = at].at = at
    BY <1>0, IdleIsCall DEF CallState, Points
  <2> QED BY <2>2, <2>3, CallShape
<1>7. CASE Ask(c)
  <2>1. [y EXCEPT !.at = "probe", !.retry = TRUE, !.cooled = TRUE] \in CallState
        /\ [y EXCEPT !.at = "probe", !.retry = TRUE, !.cooled = TRUE].at = "probe"
    BY <1>0 DEF CallState, Points
  <2>2. call' = [call EXCEPT ![c].at = "probe", ![c].retry = TRUE, ![c].cooled = TRUE] => Good
    BY <2>1, CallShape DEF Shape
  <2>3. owner # None => owner \in Pid
    BY DEF Shape
  <2> HIDE DEF Good
  <2> QED BY <1>1, <1>4, <1>7, <2>2, <2>3 DEF Ask
<1>8. CASE Answered(c)
  <2>1. CASE call' = [call EXCEPT ![c] = [Left(c) EXCEPT !.moved = FALSE, !.at = IF MayRestart(c) THEN "resolve" ELSE "ask",
                                                          !.goal = IF MayRestart(c) THEN "health" ELSE "post"]]
    <3>1. PICK at \in {"resolve", "ask"}, goal \in {"health", "post"} :
            call' = [call EXCEPT ![c] = [Left(c) EXCEPT !.moved = FALSE, !.at = at, !.goal = goal]]
      BY <2>1
    <3>2. /\ [Left(c) EXCEPT !.moved = FALSE, !.at = at, !.goal = goal] \in CallState
          /\ [Left(c) EXCEPT !.moved = FALSE, !.at = at, !.goal = goal].at = at
      BY LeftShape DEF CallState, Points
    <3> QED BY <3>1, <3>2, CallShape
  <2>2. CASE call' = [Overtaken EXCEPT ![c] = Left(c)]
    <3>1. Overtaken \in [Caller -> CallState] /\ \A d \in Caller : Overtaken[d].at = call[d].at /\ Overtaken[d].pid = call[d].pid
      BY OvertakenShape
    <3> QED BY <2>2, <3>1, LeftShape DEF Shape
  <2> HIDE DEF Good
  <2> QED BY <1>1, <1>8, <2>1, <2>2 DEF Answered
<1>9. CASE Resolve(c)
  <2>1. (pidfile # None => pidfile \in Pid) /\ (owner # None => owner \in Pid)
    BY DEF Shape
  <2> HIDE DEF Good
  <2> QED BY <1>1, <1>3, <1>4, <1>9, <2>1 DEF Resolve
<1>10. CASE Spawn(c)
  <2> HIDE DEF Good
  <2> QED BY <1>5, <1>10 DEF Spawn, Fresh
<1>11. CASE ConnectionLost(c) \/ Identify(c) \/ Kill(c) \/ Drained(c) \/ Unlink(c) \/ Probe(c) \/ Started(c)
  <2> HIDE DEF Good
  <2> QED BY <1>0, <1>1, <1>2, <1>3, <1>11 DEF ConnectionLost, Identify, Kill, Drained, Unlink, Probe, Started, At
<1> QED BY <1>6, <1>7, <1>8, <1>9, <1>10, <1>11 DEF CallerStep

LEMMA ShapeNext == Shape /\ [Next]_vars => Shape'
<1> SUFFICES ASSUME Shape, [Next]_vars PROVE Shape'
  OBVIOUS
<1> USE DEF procs, files, world
<1>1. ASSUME NEW c \in Caller, CallerStep(c) PROVE Shape'
  <2>0. /\ call' \in [Caller -> CallState]
        /\ \A d \in Caller : call'[d].at \in {"sent", "identify", "kill", "drain", "unlink"} => call'[d].pid \in Pid
    BY <1>1, CallerShape
  <2>1. CASE Same
    BY <2>0, <2>1 DEF Same, Shape
  <2>2. CASE UNCHANGED <<procs, files, world>>
    BY <2>0, <2>2 DEF Shape
  <2>3. CASE Answered(c)
    <3>1. active' \in BOOLEAN /\ UNCHANGED <<procs, files, stale, tabs>>
      BY <2>3 DEF Answered, Shape
    <3> QED BY <2>0, <3>1 DEF Shape
  <2>4. CASE Kill(c)
    <3>0. call[c].pid \in Pid /\ UNCHANGED <<files, active>>
      BY <2>4 DEF Kill, At, Shape
    <3>1. CASE UNCHANGED <<procs, stale, tabs>>
      BY <2>0, <3>0, <3>1 DEF Shape
    <3>2. CASE Ended(call[c].pid, "stop")
      BY <2>0, <3>0, <3>2, EndedShape DEF Shape, Deaths
    <3>3. CASE /\ sig' = sig \cup {call[c].pid}
               /\ UNCHANGED <<st, what, used, owner, snapshot, seen, killed, stopped, stale, tabs>>
      BY <2>0, <3>0, <3>3 DEF Shape
    <3> QED BY <2>4, <3>1, <3>2, <3>3 DEF Kill
  <2>5. CASE Unlink(c)
    <3>1. call[c].pid \in Pid /\ stopped' \subseteq Pid
      BY <2>5 DEF Unlink, At, Shape
    <3> QED BY <2>0, <2>5, <3>1 DEF Unlink, Shape
  <2>6. CASE Spawn(c)
    <3>1. CASE UNCHANGED <<st, what, used, killed, stopped>>
      BY <2>0, <2>6, <3>1 DEF Spawn, Shape
    <3>2. ASSUME NEW p \in Fresh, Born(p, "relay", "booting") PROVE Shape'
      <4>1. p \in Pid
        BY DEF Fresh
      <4> QED BY <2>0, <2>6, <3>2, <4>1, BornShape DEF Spawn, Shape, Programs
    <3> QED BY <2>6, <3>1, <3>2 DEF Spawn
  <2> QED BY <1>1, <2>1, <2>2, <2>3, <2>4, <2>5, <2>6
          DEF CallerStep, Begin, Ask, ConnectionLost, Resolve, Identify, Drained, Probe, Started
<1>2. ASSUME NEW p \in Pid, BootStep(p), ~Reap(p) PROVE Shape'
  <2>1. CASE Listen(p)
    <3>1. CASE Ended(p, "bind")
      BY <2>1, <3>1, EndedShape DEF Listen, Shape, Deaths
    <3>2. CASE ~Ended(p, "bind")
      BY <2>1, <3>2 DEF Listen, Shape, States, Young
    <3> QED BY <3>1, <3>2
  <2>2. ASSUME NEW from, NEW to \in Young, BootGoes(p, from, to)
        PROVE  st' \in [Pid -> States] /\ UNCHANGED <<what, used, sig, owner, killed, stopped, stale, active, tabs, call>>
    BY <2>2 DEF BootGoes, Shape, States
  <2>3. Unread \in PidfileRead /\ [pid |-> pidfile, over |-> pidfile \in stopped] \in PidfileRead
    BY DEF Unread, PidfileRead, Shape
  <2>4. CASE ReadPrevious(p)
    BY <2>2, <2>3, <2>4 DEF ReadPrevious, Shape, Young
  <2>5. CASE JudgePrevious(p)
    BY <2>2, <2>3, <2>5 DEF JudgePrevious, Shape, Young
  <2>6. CASE RecordUnclean(p)
    BY <2>2, <2>3, <2>6 DEF RecordUnclean, Shape, Young
  <2>7. CASE WritePidfile(p)
    BY <2>2, <2>7 DEF WritePidfile, Shape, Young
  <2>8. CASE Register(p)
    BY <2>2, <2>8, RegisteredShape DEF Register, Shape, Young
  <2>9. CASE ReadRegistry(p)
    BY <2>2, <2>9 DEF ReadRegistry, Shape, Young
  <2> QED BY <1>2, <2>1, <2>4, <2>5, <2>6, <2>7, <2>8, <2>9 DEF BootStep
<1>3. ASSUME NEW p \in Pid, Reap(p) PROVE Shape'
  <2>1. PICK doomed \in SUBSET Pid :
          /\ registry' = Kept(snapshot[p]) /\ snapshot' = [snapshot EXCEPT ![p] = {}]
          /\ st' = [q \in Pid |-> IF q \in doomed THEN "gone" ELSE IF q = p THEN "serving" ELSE st[q]]
          /\ killed' = [q \in Pid |-> IF q \in doomed THEN "reaped" ELSE killed[q]]
          /\ owner' = IF owner \in doomed THEN None ELSE owner
          /\ sig' = sig \ doomed /\ stale' = stale \ doomed /\ tabs' = IF owner \in doomed THEN 0 ELSE tabs
    <3>1. {e.pid : e \in {e \in snapshot[p] : Leaked(e)}} \in SUBSET Pid
      BY DEF Shape, Entries
    <3> QED BY <1>3, <3>1 DEF Reap
  <2>2. registry' \subseteq Entries
    BY <2>1 DEF Kept, Shape
  <2>3. UNCHANGED <<what, used, seen, stopped, unclean, pidfile, active, call>>
    BY <1>3 DEF Reap
  <2>4. st' \in [Pid -> States] /\ killed' \in [Pid -> Deaths]
    BY <2>1 DEF Shape, Deaths, States
  <2> QED BY <2>1, <2>2, <2>3, <2>4 DEF Shape
<1>4. ASSUME NEW p \in Pid, HandleSignal(p) PROVE Shape'
  <2>1. /\ pidfile' \in Pid \cup {None} /\ registry' \subseteq Entries
    BY <1>4 DEF HandleSignal, Shape, Unregistered
  <2> QED BY <1>4, <2>1, EndedShape DEF HandleSignal, Shape, Deaths
<1>5. ASSUME NEW p \in Pid, Crash(p) PROVE Shape'
  BY <1>5, EndedShape DEF Crash, Shape, Deaths
<1>6. ASSUME NEW p \in Pid, Wedge(p) \/ Unwedge(p) PROVE Shape'
  BY <1>6 DEF Wedge, Unwedge, Shape, States
<1>7. ASSUME NEW p \in Pid, Foreign(p) PROVE Shape'
  BY <1>7, BornShape DEF Foreign, Shape, Programs
<1>8. ASSUME NEW p \in Pid, TestRelay(p) PROVE Shape'
  BY <1>8, BornShape, RegisteredShape DEF TestRelay, Shape, Programs
<1>9. ASSUME NEW e \in registry, Age(e) PROVE Shape'
  <2>1. [e EXCEPT !.old = TRUE] \in Entries
    BY DEF Shape, Entries
  <2> QED BY <1>9, <2>1 DEF Age, Shape
<1>10. CASE Edit
  BY <1>10 DEF Edit, Shape
<1>11. CASE TabConnects
  <2>1. Overtaken \in [Caller -> CallState] /\ \A d \in Caller : Overtaken[d].at = call[d].at /\ Overtaken[d].pid = call[d].pid
    BY OvertakenShape
  <2>2. tabs' \in Nat
    BY <1>11, CallsAssumption DEF TabConnects, Shape
  <2> QED BY <1>11, <2>1, <2>2 DEF TabConnects, Shape
<1>12. CASE SessionEnds
  BY <1>12 DEF SessionEnds, Shape
<1>13. CASE UNCHANGED vars
  BY <1>13 DEF vars, Shape
<1> QED BY <1>1, <1>2, <1>3, <1>4, <1>5, <1>6, <1>7, <1>8, <1>9, <1>10, <1>11, <1>12, <1>13
        DEF Next, ProcessStep, Finished

-----------------------------------------------------------------------------
\* What a step may do to the processes, the port and the pidfile.
Quiet == UNCHANGED <<st, what, used, sig, owner, killed, stopped, pidfile>>
Dies(p) ==
  /\ UNCHANGED <<what, used, stopped>> /\ st' = [st EXCEPT ![p] = "gone"] /\ sig' = sig \ {p}
  /\ owner' = IF owner = p THEN None ELSE owner
  /\ pidfile' \in {pidfile, None}
  /\ \E how \in {"bind", "crash", "signal", "stop"} :
       /\ killed' = [killed EXCEPT ![p] = how]
       /\ how = "signal" => p \in sig
       /\ how = "stop" => \E c \in Caller : call[c].at = "kill" /\ call[c].pid = p /\ Alive(p)
Boots(p) ==
  /\ UNCHANGED <<what, used, sig, killed, stopped>> /\ st[p] \in Young
  /\ \E to \in Young \ {"booting"} : st' = [st EXCEPT ![p] = to]
  /\ \/ st[p] = "booting" /\ owner = None /\ owner' = p /\ pidfile' = pidfile
     \/ st[p] # "booting" /\ owner' = owner /\ pidfile' \in {pidfile, p}
Reaps(p, doomed) ==
  /\ UNCHANGED <<what, used, stopped, pidfile>> /\ st[p] = "reaping"
  /\ st' = [q \in Pid |-> IF q \in doomed THEN "gone" ELSE IF q = p THEN "serving" ELSE st[q]]
  /\ killed' = [q \in Pid |-> IF q \in doomed THEN "reaped" ELSE killed[q]]
  /\ owner' = (IF owner \in doomed THEN None ELSE owner) /\ sig' = sig \ doomed
  /\ \A q \in doomed : \E e \in snapshot[p] : e.pid = q /\ e.port # "real"
Turns(p) ==
  /\ UNCHANGED <<what, used, sig, owner, killed, stopped, pidfile>> /\ st[p] \in {"serving", "wedged"}
  /\ \/ st' = [st EXCEPT ![p] = "wedged"] /\ what[p] = "relay"
     \/ st' = [st EXCEPT ![p] = "serving"]
Starts(p) ==
  /\ UNCHANGED <<sig, pidfile>> /\ p \in Fresh
  /\ \/ Born(p, "relay", "booting") /\ owner' = owner
     \/ Born(p, "test", "serving") /\ owner' = owner
     \/ owner = None /\ owner' = p /\ \E kind \in Other : Born(p, kind, "serving")
Signals(c) ==
  /\ UNCHANGED <<st, what, used, owner, killed, stopped, pidfile>>
  /\ call[c].at = "kill" /\ Alive(call[c].pid) /\ sig' = sig \cup {call[c].pid}
Unlinks(c) ==
  /\ UNCHANGED <<st, what, used, sig, owner, killed>>
  /\ call[c].at = "unlink" /\ pidfile' = None /\ stopped' = stopped \cup {call[c].pid}

Effect ==
  \/ Quiet
  \/ \E p \in Pid : Dies(p) \/ Boots(p) \/ Turns(p) \/ Starts(p) \/ \E doomed \in SUBSET Pid : Reaps(p, doomed)
  \/ \E c \in Caller : Signals(c) \/ Unlinks(c)

LEMMA Effects == Shape /\ [Next]_vars => Effect
<1> SUFFICES ASSUME Shape, [Next]_vars PROVE Effect
  OBVIOUS
<1> USE DEF procs, files, world
<1>0. \A p \in Pid : Fresh \subseteq Pid
  BY DEF Fresh
<1>1. ASSUME NEW c \in Caller, CallerStep(c) PROVE Effect
  <2>1. CASE UNCHANGED <<procs, files>> \/ Same
    BY <2>1 DEF Same, Effect, Quiet
  <2>2. CASE Kill(c)
    <3>0. call[c].pid \in Pid /\ call[c].at = "kill" /\ UNCHANGED files
      BY <2>2 DEF Kill, At, Shape
    <3>1. CASE UNCHANGED procs
      BY <3>0, <3>1 DEF Effect, Quiet
    <3>2. CASE Ended(call[c].pid, "stop") /\ Alive(call[c].pid)
      BY <3>0, <3>2 DEF Effect, Dies, Ended
    <3>3. CASE /\ sig' = sig \cup {call[c].pid} /\ Alive(call[c].pid)
               /\ UNCHANGED <<st, what, used, owner, snapshot, killed, stopped>>
      BY <3>0, <3>3 DEF Effect, Signals
    <3> QED BY <2>2, <3>1, <3>2, <3>3 DEF Kill
  <2>3. CASE Unlink(c)
    BY <2>3 DEF Unlink, At, Effect, Unlinks
  <2>4. CASE Spawn(c)
    <3>1. UNCHANGED <<sig, owner, pidfile>>
      BY <2>4 DEF Spawn
    <3>2. CASE UNCHANGED <<st, what, used, killed, stopped>>
      BY <3>1, <3>2 DEF Effect, Quiet
    <3>3. ASSUME NEW p \in Fresh, Born(p, "relay", "booting") PROVE Effect
      BY <3>1, <3>3, <1>0 DEF Effect, Starts, Fresh
    <3> QED BY <2>4, <3>2, <3>3 DEF Spawn
  <2> QED BY <1>1, <2>1, <2>2, <2>3, <2>4
          DEF CallerStep, Begin, Ask, Answered, ConnectionLost, Resolve, Identify, Drained, Probe, Started
<1>2. ASSUME NEW p \in Pid, BootStep(p), ~Reap(p) PROVE Effect
  <2>1. CASE Listen(p) /\ owner # None
    BY <2>1 DEF Listen, Effect, Dies, Ended
  <2>2. CASE Listen(p) /\ owner = None
    <3>1. Boots(p)
      BY <2>2 DEF Listen, Boots, Young
    <3> QED BY <3>1 DEF Effect
  <2>3. ASSUME ~Listen(p) PROVE Boots(p)
    BY <1>2, <2>3 DEF BootStep, BootGoes, ReadPrevious, JudgePrevious, RecordUnclean, WritePidfile, Register, ReadRegistry,
       Boots, Young
  <2> QED BY <2>1, <2>2, <2>3 DEF Effect
<1>3. ASSUME NEW p \in Pid, Reap(p) PROVE Effect
  <2>1. PICK doomed : doomed = {e.pid : e \in {e \in snapshot[p] : Leaked(e)}}
    OBVIOUS
  <2>2. doomed \in SUBSET Pid
    BY <2>1 DEF Shape, Entries
  <2>3. \A q \in doomed : \E e \in snapshot[p] : e.pid = q /\ e.port # "real"
    BY <2>1 DEF Leaked
  <2>4. Reaps(p, doomed)
    BY <1>3, <2>1, <2>3 DEF Reap, Reaps
  <2> QED BY <2>2, <2>4 DEF Effect
<1>4. ASSUME NEW p \in Pid, HandleSignal(p) PROVE Effect
  <2>1. pidfile' \in {pidfile, None} /\ p \in sig /\ Ended(p, "signal")
    BY <1>4 DEF HandleSignal
  <2> QED BY <2>1 DEF Effect, Dies, Ended
<1>5. ASSUME NEW p \in Pid, Crash(p) PROVE Effect
  BY <1>5 DEF Crash, Effect, Dies, Ended
<1>6. ASSUME NEW p \in Pid, Wedge(p) \/ Unwedge(p) PROVE Effect
  BY <1>6 DEF Wedge, Unwedge, Effect, Turns
<1>7. ASSUME NEW p \in Pid, Foreign(p) \/ TestRelay(p) PROVE Effect
  BY <1>7 DEF Foreign, TestRelay, Effect, Starts
<1>8. ASSUME NEW e \in registry, Age(e) PROVE Effect
  BY <1>8 DEF Age, Effect, Quiet
<1>9. CASE Edit \/ TabConnects \/ SessionEnds \/ UNCHANGED vars
  BY <1>9 DEF Edit, TabConnects, SessionEnds, vars, Effect, Quiet
<1> QED BY <1>1, <1>2, <1>3, <1>4, <1>5, <1>6, <1>7, <1>8, <1>9 DEF Next, ProcessStep, Finished

LEMMA OwnsNext == Shape /\ Owns /\ Effect => Owns'
<1> SUFFICES ASSUME Shape, Owns, Effect PROVE Owns'
  OBVIOUS
<1> USE DEF Owns, Alive, Young, Other
<1>1. CASE Quiet
  BY <1>1 DEF Quiet
<1>2. ASSUME NEW p \in Pid, Dies(p) PROVE Owns'
  BY <1>2, Pids DEF Dies, Shape
<1>3. ASSUME NEW p \in Pid, Boots(p) PROVE Owns'
  BY <1>3, Pids DEF Boots, Shape
<1>4. ASSUME NEW p \in Pid, Turns(p) PROVE Owns'
  BY <1>4, Pids DEF Turns, Shape
<1>5. ASSUME NEW p \in Pid, Starts(p) PROVE Owns'
  BY <1>5, Pids DEF Starts, Born, Shape, Fresh
<1>6. ASSUME NEW p \in Pid, NEW doomed \in SUBSET Pid, Reaps(p, doomed) PROVE Owns'
  BY <1>6, Pids DEF Reaps, Shape
<1>7. ASSUME NEW c \in Caller, Signals(c) PROVE Owns'
  BY <1>7 DEF Signals, Shape
<1>8. ASSUME NEW c \in Caller, Unlinks(c) PROVE Owns'
  BY <1>8, Pids DEF Unlinks, Shape
<1> QED BY <1>1, <1>2, <1>3, <1>4, <1>5, <1>6, <1>7, <1>8 DEF Effect

-----------------------------------------------------------------------------
\* While no id is given out twice, a new process has an id that never was another's.
LEMMA FreshIsNew == ASSUME ~Reuse, NEW p \in Fresh PROVE p \notin used
BY Pids DEF Fresh, Pid

LEMMA GivenNext == ~Reuse /\ GInv /\ NInv /\ Effect => Given'
<1> SUFFICES ASSUME ~Reuse, Shape, Owns, NInv, Effect PROVE Given'
  BY DEF GInv
<1> USE DEF NInv, Given, Aimed, Alive, Young
<1>1. CASE Quiet
  BY <1>1 DEF Quiet
<1>2. ASSUME NEW p \in Pid, Dies(p) PROVE Given'
  BY <1>2, Pids DEF Dies, Shape
<1>3. ASSUME NEW p \in Pid, Boots(p) PROVE Given'
  BY <1>3, Pids DEF Boots, Shape
<1>4. ASSUME NEW p \in Pid, Turns(p) PROVE Given'
  BY <1>4, Pids DEF Turns, Shape
<1>5. ASSUME NEW p \in Pid, Starts(p) PROVE Given'
  <2>1. p \notin used
    BY <1>5, FreshIsNew DEF Starts
  <2> QED BY <1>5, <2>1, Pids DEF Starts, Born, Shape
<1>6. ASSUME NEW p \in Pid, NEW doomed \in SUBSET Pid, Reaps(p, doomed) PROVE Given'
  BY <1>6, Pids DEF Reaps, Shape
<1>7. ASSUME NEW c \in Caller, Signals(c) PROVE Given'
  BY <1>7 DEF Signals, Shape
<1>8. ASSUME NEW c \in Caller, Unlinks(c) PROVE Given'
  BY <1>8, Pids DEF Unlinks, Shape
<1> QED BY <1>1, <1>2, <1>3, <1>4, <1>5, <1>6, <1>7, <1>8 DEF Effect

LEMMA WrittenNext == ~Reuse /\ GInv /\ NInv /\ Effect => Written'
<1> SUFFICES ASSUME ~Reuse, Shape, Owns, NInv, Effect PROVE Written'
  BY DEF GInv
<1> USE DEF NInv, Given, Written, Owns, Alive, Young
<1>1. CASE Quiet
  BY <1>1 DEF Quiet
<1>2. ASSUME NEW p \in Pid, Dies(p) PROVE Written'
  BY <1>2, Pids DEF Dies, Shape
<1>3. ASSUME NEW p \in Pid, Boots(p) PROVE Written'
  BY <1>3, Pids DEF Boots, Shape
<1>4. ASSUME NEW p \in Pid, Turns(p) PROVE Written'
  BY <1>4, Pids DEF Turns, Shape
<1>5. ASSUME NEW p \in Pid, Starts(p) PROVE Written'
  <2>1. p \notin used
    BY <1>5, FreshIsNew DEF Starts
  <2> QED BY <1>5, <2>1, Pids DEF Starts, Born, Shape
<1>6. ASSUME NEW p \in Pid, NEW doomed \in SUBSET Pid, Reaps(p, doomed) PROVE Written'
  BY <1>6, Pids DEF Reaps, Shape
<1>7. ASSUME NEW c \in Caller, Signals(c) PROVE Written'
  BY <1>7 DEF Signals, Shape
<1>8. ASSUME NEW c \in Caller, Unlinks(c) PROVE Written'
  BY <1>8, Pids DEF Unlinks, Shape
<1> QED BY <1>1, <1>2, <1>3, <1>4, <1>5, <1>6, <1>7, <1>8 DEF Effect

LEMMA PidfileNext == ~Reuse /\ GInv /\ NInv /\ Effect => PidfileTrue'
<1> SUFFICES ASSUME ~Reuse, Shape, Owns, NInv, Effect PROVE PidfileTrue'
  BY DEF GInv
<1> USE DEF NInv, Given, PidfileTrue, Owns, Alive, Young
<1>1. CASE Quiet
  BY <1>1 DEF Quiet
<1>2. ASSUME NEW p \in Pid, Dies(p) PROVE PidfileTrue'
  BY <1>2, Pids DEF Dies, Shape
<1>3. ASSUME NEW p \in Pid, Boots(p) PROVE PidfileTrue'
  BY <1>3, Pids DEF Boots, Shape
<1>4. ASSUME NEW p \in Pid, Turns(p) PROVE PidfileTrue'
  BY <1>4, Pids DEF Turns, Shape
<1>5. ASSUME NEW p \in Pid, Starts(p) PROVE PidfileTrue'
  <2>1. p \notin used
    BY <1>5, FreshIsNew DEF Starts
  <2> QED BY <1>5, <2>1, Pids DEF Starts, Born, Shape
<1>6. ASSUME NEW p \in Pid, NEW doomed \in SUBSET Pid, Reaps(p, doomed) PROVE PidfileTrue'
  BY <1>6, Pids DEF Reaps, Shape
<1>7. ASSUME NEW c \in Caller, Signals(c) PROVE PidfileTrue'
  BY <1>7 DEF Signals, Shape
<1>8. ASSUME NEW c \in Caller, Unlinks(c) PROVE PidfileTrue'
  BY <1>8, Pids DEF Unlinks, Shape
<1> QED BY <1>1, <1>2, <1>3, <1>4, <1>5, <1>6, <1>7, <1>8 DEF Effect

LEMMA SparedNext == ~Reuse /\ GInv /\ NInv /\ Effect => ForeignSpared'
<1> SUFFICES ASSUME ~Reuse, Shape, Owns, NInv, Effect PROVE ForeignSpared'
  BY DEF GInv
<1> USE DEF NInv, Given, Aimed, Listed, Line, ForeignSpared
<1>1. CASE Quiet
  BY <1>1 DEF Quiet
<1>2. ASSUME NEW p \in Pid, Dies(p) PROVE ForeignSpared'
  BY <1>2, Pids DEF Dies, Shape
<1>3. ASSUME NEW p \in Pid, Boots(p) PROVE ForeignSpared'
  BY <1>3, Pids DEF Boots, Shape
<1>4. ASSUME NEW p \in Pid, Turns(p) PROVE ForeignSpared'
  BY <1>4, Pids DEF Turns, Shape
<1>5. ASSUME NEW p \in Pid, Starts(p) PROVE ForeignSpared'
  <2>1. p \notin used
    BY <1>5, FreshIsNew DEF Starts
  <2> QED BY <1>5, <2>1, Pids DEF Starts, Born, Shape
<1>6. ASSUME NEW p \in Pid, NEW doomed \in SUBSET Pid, Reaps(p, doomed) PROVE ForeignSpared'
  BY <1>6, Pids DEF Reaps, Shape
<1>7. ASSUME NEW c \in Caller, Signals(c) PROVE ForeignSpared'
  BY <1>7 DEF Signals, Shape
<1>8. ASSUME NEW c \in Caller, Unlinks(c) PROVE ForeignSpared'
  BY <1>8, Pids DEF Unlinks, Shape
<1> QED BY <1>1, <1>2, <1>3, <1>4, <1>5, <1>6, <1>7, <1>8 DEF Effect

LEMMA ClearedNext == ~Reuse /\ GInv /\ NInv /\ Effect => Cleared'
<1> SUFFICES ASSUME ~Reuse, Shape, Owns, NInv, Effect PROVE Cleared'
  BY DEF GInv
<1> USE DEF NInv, Given, Aimed, Cleared, Alive, Young
<1>1. CASE Quiet
  BY <1>1 DEF Quiet
<1>2. ASSUME NEW p \in Pid, Dies(p) PROVE Cleared'
  BY <1>2, Pids DEF Dies, Shape
<1>3. ASSUME NEW p \in Pid, Boots(p) PROVE Cleared'
  BY <1>3, Pids DEF Boots, Shape
<1>4. ASSUME NEW p \in Pid, Turns(p) PROVE Cleared'
  BY <1>4, Pids DEF Turns, Shape
<1>5. ASSUME NEW p \in Pid, Starts(p) PROVE Cleared'
  <2>1. p \notin used
    BY <1>5, FreshIsNew DEF Starts
  <2> QED BY <1>5, <2>1, Pids DEF Starts, Born, Shape
<1>6. ASSUME NEW p \in Pid, NEW doomed \in SUBSET Pid, Reaps(p, doomed) PROVE Cleared'
  BY <1>6, Pids DEF Reaps, Shape
<1>7. ASSUME NEW c \in Caller, Signals(c) PROVE Cleared'
  BY <1>7 DEF Signals, Shape
<1>8. ASSUME NEW c \in Caller, Unlinks(c) PROVE Cleared'
  BY <1>8, Pids DEF Unlinks, Shape
<1> QED BY <1>1, <1>2, <1>3, <1>4, <1>5, <1>6, <1>7, <1>8 DEF Effect

LEMMA UsedStay ==
  ASSUME ~Reuse, Shape, NInv, Effect, NEW p \in used
  PROVE  p \in used' /\ what'[p] = what[p] /\ (~Alive(p) => ~Alive(p)') /\ (st[p] \notin Young => st'[p] \notin Young)
<1> DEFINE Stays == p \in used' /\ what'[p] = what[p] /\ (~Alive(p) => ~Alive(p)') /\ (st[p] \notin Young => st'[p] \notin Young)
<1> SUFFICES Stays
  OBVIOUS
<1> USE DEF Alive, Young
<1>1. CASE Quiet
  BY <1>1 DEF Quiet
<1>2. ASSUME NEW q \in Pid, Dies(q) PROVE Stays
  BY <1>2 DEF Dies, Shape
<1>3. ASSUME NEW q \in Pid, Boots(q) PROVE Stays
  BY <1>3 DEF Boots, Shape
<1>4. ASSUME NEW q \in Pid, Turns(q) PROVE Stays
  BY <1>4 DEF Turns, Shape
<1>5. ASSUME NEW q \in Pid, Starts(q) PROVE Stays
  <2>1. q \notin used
    BY <1>5, FreshIsNew DEF Starts
  <2> QED BY <1>5, <2>1 DEF Starts, Born, Shape
<1>6. ASSUME NEW q \in Pid, NEW doomed \in SUBSET Pid, Reaps(q, doomed) PROVE Stays
  BY <1>6 DEF Reaps, Shape
<1>7. ASSUME NEW c \in Caller, Signals(c) \/ Unlinks(c) PROVE Stays
  BY <1>7 DEF Signals, Unlinks
<1> QED BY <1>1, <1>2, <1>3, <1>4, <1>5, <1>6, <1>7 DEF Effect

\* The registry and what a boot read of it change by a process's own line, by age and by what was reaped.
Lines ==
  /\ \/ registry' \subseteq registry
     \/ \E p \in Pid : registry' = Registered(p, "real") /\ p \in used
     \/ \E p \in Pid : registry' = Registered(p, "test") /\ p \in used' /\ what'[p] = "test"
     \/ \E p \in Pid : registry' \subseteq snapshot[p]
     \/ \E e \in registry : registry' = (registry \ {e}) \cup {[e EXCEPT !.old = TRUE]}
  /\ \A p \in Pid : snapshot'[p] \in {snapshot[p], {}, registry}

LEMMA LinesChange == GInv /\ NInv /\ [Next]_vars => Lines
<1> SUFFICES ASSUME Shape, NInv, [Next]_vars PROVE Lines
  BY DEF GInv
<1> USE DEF procs, files, world
<1>1. CASE UNCHANGED <<registry, snapshot>>
  BY <1>1 DEF Lines
<1>2. ASSUME NEW p \in Pid, NEW how, Ended(p, how), registry' \subseteq registry PROVE Lines
  BY <1>2 DEF Ended, Lines, Shape
<1>3. ASSUME NEW c \in Caller, Kill(c) PROVE Lines
  <2>1. call[c].pid \in Pid /\ UNCHANGED registry
    BY <1>3 DEF Kill, At, Shape
  <2> QED BY <1>1, <1>2, <1>3, <2>1 DEF Kill
<1>4. ASSUME NEW c \in Caller, CallerStep(c), ~Kill(c) PROVE Lines
  BY <1>1, <1>4 DEF CallerStep, Begin, Ask, Answered, ConnectionLost, Resolve, Identify, Drained, Unlink, Probe, Spawn, Started, Same
<1>5. ASSUME NEW p \in Pid, BootStep(p) PROVE Lines
  <2>1. CASE Listen(p)
    BY <1>1, <1>2, <2>1 DEF Listen
  <2>2. CASE Register(p)
    <3>1. p \in used
      BY <2>2 DEF Register, BootGoes, NInv, Given, Alive
    <3> QED BY <2>2, <3>1 DEF Register, Lines
  <2>3. CASE ReadRegistry(p)
    BY <2>3 DEF ReadRegistry, Lines, Shape
  <2>4. CASE Reap(p)
    BY <2>4 DEF Reap, Kept, Lines, Shape
  <2>5. CASE ReadPrevious(p) \/ JudgePrevious(p) \/ RecordUnclean(p) \/ WritePidfile(p)
    BY <1>1, <2>5 DEF ReadPrevious, JudgePrevious, RecordUnclean, WritePidfile
  <2> QED BY <1>5, <2>1, <2>2, <2>3, <2>4, <2>5 DEF BootStep
<1>6. ASSUME NEW p \in Pid, HandleSignal(p) \/ Crash(p) PROVE Lines
  BY <1>2, <1>6 DEF HandleSignal, Crash, Unregistered
<1>7. ASSUME NEW p \in Pid, TestRelay(p) PROVE Lines
  <2>1. p \in used' /\ what'[p] = "test"
    BY <1>7 DEF TestRelay, Born, Shape
  <2> QED BY <1>7, <2>1 DEF TestRelay, Lines
<1>8. ASSUME NEW e \in registry, Age(e) PROVE Lines
  BY <1>8 DEF Age, Lines
<1>9. ASSUME NEW p \in Pid, Wedge(p) \/ Unwedge(p) \/ Foreign(p) PROVE Lines
  BY <1>1, <1>9 DEF Wedge, Unwedge, Foreign
<1>10. CASE Edit \/ TabConnects \/ SessionEnds \/ UNCHANGED vars
  BY <1>1, <1>10 DEF Edit, TabConnects, SessionEnds, vars
<1> QED BY <1>3, <1>4, <1>5, <1>6, <1>7, <1>8, <1>9, <1>10 DEF Next, ProcessStep, Finished

LEMMA ListedNext == ~Reuse /\ GInv /\ NInv /\ Effect /\ [Next]_vars => Listed'
<1> SUFFICES ASSUME ~Reuse, GInv, NInv, Effect, [Next]_vars PROVE Listed'
  OBVIOUS
<1>0. Shape /\ Lines
  BY LinesChange DEF GInv
<1>1. ASSUME NEW e, Line(e) PROVE Line(e)'
  <2>1. e.pid \in used' /\ what'[e.pid] = what[e.pid]
    BY <1>0, <1>1, UsedStay DEF Line
  <2> QED BY <1>1, <2>1 DEF Line
<1>2. (\A e \in registry : Line(e)') /\ \A p \in Pid : \A e \in snapshot[p] : Line(e)'
  BY <1>1 DEF NInv, Listed
<1>3. \A p \in Pid : \A e \in snapshot'[p] : Line(e)'
  BY <1>0, <1>2 DEF Lines
<1>4. ASSUME NEW p \in Pid, NEW port \in {"real", "test"}, registry' = Registered(p, port), p \in used',
             port = "test" => what'[p] = "test"
      PROVE  \A e \in registry' : Line(e)'
  BY <1>2, <1>4 DEF Registered, Line
<1>5. ASSUME NEW p \in Pid, registry' = Registered(p, "real"), p \in used PROVE \A e \in registry' : Line(e)'
  <2>1. p \in used'
    BY <1>0, <1>5, UsedStay
  <2> QED BY <1>4, <1>5, <2>1
<1>6. ASSUME NEW d \in registry, registry' = (registry \ {d}) \cup {[d EXCEPT !.old = TRUE]} PROVE \A e \in registry' : Line(e)'
  <2>1. [d EXCEPT !.old = TRUE].pid = d.pid /\ [d EXCEPT !.old = TRUE].port = d.port
    BY <1>0 DEF Shape, Entries
  <2>2. Line([d EXCEPT !.old = TRUE])'
    BY <1>2, <2>1 DEF Line
  <2> QED BY <1>2, <1>6, <2>2
<1>7. \A e \in registry' : Line(e)'
  BY <1>0, <1>2, <1>4, <1>5, <1>6 DEF Lines
<1> QED BY <1>3, <1>7 DEF Listed

\* What a boot has read of the pidfile, and what its event says.
LEMMA Reads ==
  ASSUME Shape, [Next]_vars
  PROVE  /\ \/ UNCHANGED seen
            \/ \E p \in Pid : seen' = [seen EXCEPT ![p] = Unread]
            \/ \E p \in Pid : seen' = [seen EXCEPT ![p] = [pid |-> pidfile, over |-> pidfile \in stopped]]
         /\ UNCHANGED unclean \/ \E p \in Pid : unclean' = unclean \cup {seen[p]}
<1> USE DEF procs, files, world
<1> DEFINE Good == /\ \/ UNCHANGED seen
                      \/ \E p \in Pid : seen' = [seen EXCEPT ![p] = Unread]
                      \/ \E p \in Pid : seen' = [seen EXCEPT ![p] = [pid |-> pidfile, over |-> pidfile \in stopped]]
                   /\ UNCHANGED unclean \/ \E p \in Pid : unclean' = unclean \cup {seen[p]}
<1> SUFFICES Good
  OBVIOUS
<1>1. ASSUME NEW c \in Caller, CallerStep(c) PROVE Good
  <2>1. CASE Kill(c)
    <3>1. call[c].pid \in Pid
      BY <2>1 DEF Kill, At, Shape
    <3> QED BY <2>1, <3>1 DEF Kill, Ended
  <2> QED BY <1>1, <2>1 DEF CallerStep, Begin, Ask, Answered, ConnectionLost, Resolve, Identify, Drained, Unlink, Probe,
             Spawn, Started, Same
<1>2. ASSUME NEW p \in Pid, BootStep(p) PROVE Good
  <2>1. CASE Listen(p)
    BY <2>1 DEF Listen, Ended
  <2>2. CASE ReadPrevious(p)
    BY <2>2 DEF ReadPrevious
  <2>3. CASE JudgePrevious(p)
    BY <2>3 DEF JudgePrevious
  <2>4. CASE RecordUnclean(p)
    BY <2>4 DEF RecordUnclean
  <2>5. CASE WritePidfile(p) \/ Register(p) \/ ReadRegistry(p) \/ Reap(p)
    BY <2>5 DEF WritePidfile, Register, ReadRegistry, Reap
  <2> QED BY <1>2, <2>1, <2>2, <2>3, <2>4, <2>5 DEF BootStep
<1>3. ASSUME NEW p \in Pid, HandleSignal(p) \/ Unwedge(p) \/ Crash(p) \/ Wedge(p) \/ Foreign(p) \/ TestRelay(p) PROVE Good
  BY <1>3 DEF HandleSignal, Unwedge, Crash, Wedge, Foreign, TestRelay, Ended
<1>4. ASSUME NEW e \in registry, Age(e) PROVE Good
  BY <1>4 DEF Age
<1>5. CASE Edit \/ TabConnects \/ SessionEnds \/ UNCHANGED vars
  BY <1>5 DEF Edit, TabConnects, SessionEnds, vars
<1> HIDE DEF Good
<1> QED BY <1>1, <1>2, <1>3, <1>4, <1>5 DEF Next, ProcessStep, Finished

LEMMA UnseenNext == Shape /\ Cleared /\ Unseen /\ StoppedIsClean /\ [Next]_vars => Unseen' /\ StoppedIsClean'
<1> SUFFICES ASSUME Shape, Cleared, Unseen, StoppedIsClean, [Next]_vars PROVE Unseen' /\ StoppedIsClean'
  OBVIOUS
<1>1. Unseen'
  <2>1. CASE UNCHANGED seen
    BY <2>1 DEF Unseen
  <2>2. ASSUME NEW p \in Pid, seen' = [seen EXCEPT ![p] = Unread] PROVE Unseen'
    BY <2>2 DEF Unseen, Shape, Unread
  <2>3. ASSUME NEW p \in Pid, seen' = [seen EXCEPT ![p] = [pid |-> pidfile, over |-> pidfile \in stopped]] PROVE Unseen'
    BY <2>3 DEF Unseen, Shape, Cleared
  <2> QED BY <2>1, <2>2, <2>3, Reads
<1>2. StoppedIsClean'
  BY Reads DEF StoppedIsClean, Unseen
<1> QED BY <1>1, <1>2

\* A process id a caller has in hand is still one it may kill.
AimOK(at, p) ==
  /\ at \in {"identify", "kill", "drain", "unlink"} => p \in used
  /\ at = "kill" => what[p] # "foreign" \/ ~Alive(p)
  /\ at \in {"drain", "unlink"} => what[p] # "foreign" /\ st[p] \notin Young

LEMMA AimStays ==
  ASSUME ~Reuse, Shape, NInv, Effect, NEW at, NEW p, AimOK(at, p) PROVE AimOK(at, p)'
<1>1. CASE p \in used
  <2>1. p \in used' /\ what'[p] = what[p] /\ (~Alive(p) => ~Alive(p)') /\ (st[p] \notin Young => st'[p] \notin Young)
    BY <1>1, UsedStay
  <2> QED BY <2>1 DEF AimOK
<1>2. CASE p \notin used
  BY <1>2 DEF AimOK
<1> QED BY <1>1, <1>2

LEMMA AimedNext == ~Reuse /\ GInv /\ NInv /\ Effect /\ [Next]_vars => Aimed'
<1> SUFFICES ASSUME ~Reuse, Shape, Owns, NInv, Effect, [Next]_vars, NEW d \in Caller
             PROVE  \E at, p : at = call'[d].at /\ p = call'[d].pid /\ AimOK(at, p)'
  <2> SUFFICES ASSUME ~Reuse, Shape, Owns, NInv, Effect, [Next]_vars PROVE Aimed'
    BY DEF GInv
  <2>1. \A e \in Caller : \E at, p : at = call'[e].at /\ p = call'[e].pid /\ AimOK(at, p)'
    OBVIOUS
  <2> QED BY <2>1 DEF Aimed, AimOK
<1> USE DEF procs, files, world
<1> DEFINE Good == \E at, p : at = call'[d].at /\ p = call'[d].pid /\ AimOK(at, p)'
<1>0. AimOK(call[d].at, call[d].pid)
  BY DEF NInv, Aimed, AimOK
<1>1. ASSUME NEW at, NEW p, at = call'[d].at, p = call'[d].pid, AimOK(at, p) PROVE Good
  <2>1. AimOK(at, p)'
    BY <1>1, AimStays
  <2> QED BY <1>1, <2>1
<1>2. ASSUME call'[d].at \notin {"identify", "kill", "drain", "unlink"} PROVE Good
  BY <1>2, <1>1 DEF AimOK
<1>3. ASSUME call'[d].at = call[d].at, call'[d].pid = call[d].pid PROVE Good
  BY <1>0, <1>1, <1>3
<1> HIDE DEF Good
<1> SUFFICES Good
  BY DEF Good
<1>4. ASSUME NEW c \in Caller, CallerStep(c) PROVE Good
  <2>1. CASE d # c
    <3>1. CASE call' = [Overtaken EXCEPT ![c] = Left(c)]
      <4>1. call'[d].at = call[d].at /\ call'[d].pid = call[d].pid
        BY <2>1, <3>1, OvertakenShape
      <4> QED BY <1>3, <4>1
    <3>2. CASE call'[d] = call[d]
      BY <1>3, <3>2
    <3>3. call'[d] = call[d] \/ call' = [Overtaken EXCEPT ![c] = Left(c)]
      BY <1>4, <2>1 DEF Shape, CallerStep, Begin, Ask, Answered, ConnectionLost, Resolve, Identify, Kill, Drained, Unlink, Probe,
         Spawn, Started, Goes, Leaves
    <3> QED BY <3>1, <3>2, <3>3
  <2>2. CASE d = c
    <3>0. ASSUME Leaves(c) PROVE Good
      BY <1>2, <2>2, <3>0, LeavesShape
    <3>1. ASSUME NEW point \in {"ask", "probe", "spawn"}, Goes(c, point) PROVE Good
      <4>1. call'[c].at = point
        BY <3>1, GoesShape DEF Points
      <4> QED BY <1>2, <2>2, <4>1
    <3>2. CASE Begin(c)
      <4>1. call'[c].at \in {"probe", "resolve", "ask"}
        BY <3>2 DEF Begin, Idle, Shape
      <4> QED BY <1>2, <2>2, <4>1
    <3>3. CASE Ask(c)
      <4>1. call'[c].at \in {"sent", "probe"} \/ Leaves(c)
        BY <3>3 DEF Ask, Shape, CallState
      <4> QED BY <1>2, <2>2, <3>0, <4>1
    <3>4. CASE Answered(c)
      <4>1. call'[c].at \in {"resolve", "ask", "idle"}
        <5>0. call[c] \in CallState /\ Overtaken \in [Caller -> CallState] /\ Left(c) \in CallState /\ Left(c).at \in {"ask", "idle"}
          BY LeftShape, OvertakenShape DEF Shape
        <5>1. CASE Leaves(c)
          BY <5>1, LeavesShape
        <5>2. CASE call' = [Overtaken EXCEPT ![c] = Left(c)]
          BY <5>0, <5>2
        <5>3. CASE call' = [call EXCEPT ![c] = [Left(c) EXCEPT !.moved = FALSE,
                       !.at = IF MayRestart(c) THEN "resolve" ELSE "ask",
                       !.goal = IF MayRestart(c) THEN "health" ELSE "post"]]
          BY <5>0, <5>3 DEF Shape, CallState
        <5> QED BY <3>4, <5>1, <5>2, <5>3 DEF Answered
      <4> QED BY <1>2, <2>2, <4>1
    <3>5. CASE Resolve(c)
      <4>1. CASE call' = [call EXCEPT ![c].at = "kill", ![c].pid = pidfile] /\ pidfile # None /\ Alive(pidfile)
        <5>1. call'[c].at = "kill" /\ call'[c].pid = pidfile
          BY <4>1 DEF Shape, CallState
        <5>2. AimOK("kill", pidfile)
          BY <4>1 DEF NInv, Given, Written, AimOK
        <5> QED BY <1>1, <2>2, <5>1, <5>2
      <4>2. CASE call' = [call EXCEPT ![c].at = "identify", ![c].pid = owner] /\ owner # None
        <5>1. call'[c].at = "identify" /\ call'[c].pid = owner
          BY <4>2 DEF Shape, CallState
        <5>2. AimOK("identify", owner)
          BY <4>2 DEF NInv, Given, AimOK
        <5> QED BY <1>1, <2>2, <5>1, <5>2
      <4> QED BY <3>0, <3>1, <3>5, <4>1, <4>2 DEF Resolve
    <3>6. CASE Identify(c)
      <4>1. CASE Goes(c, "kill") /\ Silent /\ call[c].at = "identify"
        <5>1. call'[c].at = "kill" /\ call'[c].pid = call[c].pid
          BY <4>1, GoesShape DEF Points
        <5>2. call[c].pid \in Pid /\ call[c].pid \in used
          BY <4>1 DEF NInv, Aimed, Shape
        <5>3. what[call[c].pid] = "foreign" => ~Alive(call[c].pid)
          BY <4>1, <5>2, Pids DEF Owns, Silent, Answers
        <5>4. AimOK("kill", call[c].pid)
          BY <5>2, <5>3 DEF AimOK
        <5> QED BY <1>1, <2>2, <5>1, <5>4
      <4> QED BY <3>0, <3>6, <4>1 DEF Identify, At
    <3>7. CASE Kill(c)
      <4>1. CASE Goes(c, "drain") /\ Alive(call[c].pid) /\ call[c].at = "kill"
        <5>1. call'[c].at = "drain" /\ call'[c].pid = call[c].pid
          BY <4>1, GoesShape DEF Points
        <5>2. PICK p \in Pid : p = call[c].pid /\ p \in used /\ what[p] # "foreign"
          BY <4>1 DEF NInv, Aimed, Shape
        <5>3. p \in used' /\ what'[p] = what[p]
          BY <5>2, UsedStay
        <5>4. st'[p] \notin Young
          BY <3>7, <4>1, <5>2 DEF Kill, Ended, Young, Shape
        <5>5. AimOK("drain", p)'
          BY <5>2, <5>3, <5>4 DEF AimOK
        <5> QED BY <2>2, <5>1, <5>2, <5>5 DEF Good
      <4> QED BY <3>0, <3>7, <4>1 DEF Kill, At
    <3>8. CASE Drained(c)
      <4>1. CASE Goes(c, "unlink") /\ call[c].at = "drain"
        <5>1. call'[c].at = "unlink" /\ call'[c].pid = call[c].pid
          BY <4>1, GoesShape DEF Points
        <5>2. AimOK("unlink", call[c].pid)
          BY <4>1 DEF NInv, Aimed, AimOK
        <5> QED BY <1>1, <2>2, <5>1, <5>2
      <4> QED BY <3>0, <3>8, <4>1 DEF Drained, At
    <3>9. CASE Spawn(c)
      <4>1. call'[c].at = "await"
        BY <3>9 DEF Spawn, Shape, CallState
      <4> QED BY <1>2, <2>2, <4>1
    <3>10. CASE ConnectionLost(c) \/ Unlink(c) \/ Probe(c) \/ Started(c)
      BY <3>0, <3>1, <3>10 DEF ConnectionLost, Unlink, Probe, Started
    <3> QED BY <1>4, <3>2, <3>3, <3>4, <3>5, <3>6, <3>7, <3>8, <3>9, <3>10 DEF CallerStep
  <2> QED BY <2>1, <2>2
<1>5. CASE UNCHANGED call
  BY <1>3, <1>5
<1>6. CASE TabConnects
  BY <1>3, <1>6, OvertakenShape DEF TabConnects
<1>7. ~(\E c \in Caller : CallerStep(c)) /\ ~TabConnects => UNCHANGED call
  BY DEF Next, ProcessStep, BootStep, Listen, BootGoes, ReadPrevious, JudgePrevious, RecordUnclean, WritePidfile,
   Register, ReadRegistry, Reap, HandleSignal, Unwedge, Crash, Wedge, Foreign, TestRelay, Age, Edit, SessionEnds, Finished, vars
<1> QED BY <1>4, <1>5, <1>6, <1>7

-----------------------------------------------------------------------------
\* Only a caller that saw /health goes on to a restart at session start.
LEMMA UseGrows ==
  Shape /\ [Next]_vars => \/ call' = Overtaken
                          \/ \E c \in Caller : call' = [Overtaken EXCEPT ![c] = Left(c)]
                          \/ (active' = TRUE => active = TRUE) /\ (tabs' = tabs \/ tabs' = 0)
BY DEF Shape, Next, CallerStep, ProcessStep, Begin, Ask, Answered, ConnectionLost, Resolve, Identify, Kill, Drained, Unlink, Probe,
   Spawn, Started, BootStep, Listen, BootGoes, ReadPrevious, JudgePrevious, RecordUnclean, WritePidfile,
   Register, ReadRegistry, Reap, HandleSignal, Unwedge, Crash, Wedge, Foreign, TestRelay, Age, Edit, TabConnects, SessionEnds,
   Finished, Same, Ended, Born, world, procs, files, vars

LEMMA GuardedNext == Shape /\ Guarded /\ [Next]_vars => Guarded'
<1> SUFFICES ASSUME Shape, Guarded, [Next]_vars, NEW d \in Caller, call'[d].op = "session",
                    call'[d].at \in {"resolve", "identify", "kill"}, call'[d].moved # TRUE
             PROVE  active' = FALSE /\ tabs' <= 1
  BY DEF Guarded
<1> USE DEF procs, files, world
<1>0. active' \in BOOLEAN /\ tabs' \in Nat /\ tabs \in Nat /\ active \in BOOLEAN
  BY ShapeNext DEF Shape
<1>1. CASE call' = Overtaken
  BY <1>1, OvertakenShape
<1>2. ASSUME NEW c \in Caller, call' = [Overtaken EXCEPT ![c] = Left(c)] PROVE active' = FALSE /\ tabs' <= 1
  BY <1>2, OvertakenShape, LeftShape
<1>3. CASE (active' = TRUE => active = TRUE) /\ (tabs' = tabs \/ tabs' = 0)
  <2>1. SUFFICES active = FALSE /\ tabs <= 1
    BY <1>0, <1>3
  <2>2. ASSUME call[d].op = "session", call[d].at \in {"resolve", "identify", "kill"}, call[d].moved # TRUE
        PROVE  active = FALSE /\ tabs <= 1
    BY <2>2 DEF Guarded
  <2>3. ASSUME NEW c \in Caller, CallerStep(c) PROVE active = FALSE /\ tabs <= 1
    <3>1. CASE d # c
      <4>1. CASE call' = [Overtaken EXCEPT ![c] = Left(c)]
        BY <1>2, <4>1, <3>1, OvertakenShape
      <4>2. call'[d] = call[d] \/ call' = [Overtaken EXCEPT ![c] = Left(c)]
        BY <2>3, <3>1 DEF Shape, CallerStep, Begin, Ask, Answered, ConnectionLost, Resolve, Identify, Kill, Drained, Unlink, Probe,
           Spawn, Started, Goes, Leaves
      <4> QED BY <2>2, <4>1, <4>2
    <3>2. CASE d = c
      <4>0. call[c] \in CallState /\ call \in [Caller -> CallState]
        BY DEF Shape
      <4>1. ~Leaves(c)
        BY <3>2, LeavesShape
      <4>2. ASSUME NEW point \in Points, Goes(c, point) PROVE /\ call'[c].at = point /\ call'[c].op = call[c].op
                                                             /\ call'[c].moved = call[c].moved
        BY <4>2, GoesShape
      <4>3. ~Begin(c)
        <5>1. ASSUME NEW op \in Ops, NEW cooled,
                     call' = [call EXCEPT ![c] = [Idle EXCEPT !.op = op, !.cooled = cooled,
                       !.goal = IF op = "session" THEN "health" ELSE "plain",
                       !.at = CASE op = "start" -> "probe" [] op \in {"stop", "restart"} -> "resolve" [] OTHER -> "ask"]]
              PROVE  FALSE
          <6>1. call'[c].op = op
            BY <4>0, <5>1 DEF Idle
          <6>2. op = "session" => call'[c].at = "ask"
            BY <4>0, <5>1 DEF Idle
          <6> QED BY <3>2, <6>1, <6>2
        <5> QED BY <5>1 DEF Begin
      <4>4. ~Ask(c) /\ ~Spawn(c)
        BY <3>2, <4>0, <4>1 DEF Ask, Spawn, CallState
      <4>5. CASE Answered(c)
        <5>1. CASE call' = [Overtaken EXCEPT ![c] = Left(c)]
          BY <3>2, <5>1, OvertakenShape, LeftShape
        <5>2. CASE MayRestart(c)
          BY <1>0, <5>2 DEF MayRestart
        <5>3. CASE ~MayRestart(c) /\ call' = [call EXCEPT ![c] = [Left(c) EXCEPT !.moved = FALSE,
                       !.at = IF MayRestart(c) THEN "resolve" ELSE "ask",
                       !.goal = IF MayRestart(c) THEN "health" ELSE "post"]]
          <6>1. Left(c) \in CallState
            BY LeftShape
          <6>2. call'[c].at = "ask"
            BY <4>0, <5>3, <6>1 DEF CallState
          <6> QED BY <3>2, <6>2
        <5> QED BY <4>1, <4>5, <5>1, <5>2, <5>3 DEF Answered
      <4>6. CASE Resolve(c)
        <5>1. call'[c].op = call[c].op /\ call'[c].moved = call[c].moved /\ call[c].at = "resolve"
          BY <4>0, <4>1, <4>2, <4>6 DEF Resolve, At, CallState, Points
        <5> QED BY <2>2, <3>2, <5>1
      <4>7. CASE Identify(c)
        <5>1. call'[c].op = call[c].op /\ call'[c].moved = call[c].moved /\ call[c].at = "identify"
          BY <4>1, <4>2, <4>7 DEF Identify, At, Points
        <5> QED BY <2>2, <3>2, <5>1
      <4>8. ASSUME NEW point \in {"drain", "unlink", "probe", "spawn", "ask"}, Goes(c, point) PROVE FALSE
        BY <3>2, <4>2, <4>8 DEF Points
      <4>9. CASE ConnectionLost(c) \/ Kill(c) \/ Drained(c) \/ Unlink(c) \/ Probe(c) \/ Started(c)
        BY <4>1, <4>8, <4>9 DEF ConnectionLost, Kill, Drained, Unlink, Probe, Started
      <4> QED BY <2>3, <4>3, <4>4, <4>5, <4>6, <4>7, <4>9 DEF CallerStep
    <3> QED BY <3>1, <3>2
  <2>4. CASE UNCHANGED call
    BY <2>2, <2>4
  <2>5. CASE TabConnects
    BY <2>5, OvertakenShape DEF TabConnects
  <2>6. ~(\E c \in Caller : CallerStep(c)) /\ ~TabConnects => UNCHANGED call
    BY DEF Next, ProcessStep, BootStep, Listen, BootGoes, ReadPrevious, JudgePrevious, RecordUnclean, WritePidfile,
   Register, ReadRegistry, Reap, HandleSignal, Unwedge, Crash, Wedge, Foreign, TestRelay, Age, Edit, SessionEnds, Finished, vars
  <2> QED BY <2>3, <2>4, <2>5, <2>6
<1> QED BY <1>1, <1>2, <1>3, UseGrows

-----------------------------------------------------------------------------
\* The theorems.
LEMMA General == Spec => []GInv
<1>1. Init => GInv
  BY InitGeneral
<1>2. GInv /\ [Next]_vars => GInv'
  BY ShapeNext, Effects, GuardedNext, OwnsNext DEF GInv
<1> QED BY <1>1, <1>2, PTL DEF Spec

LEMMA NoReuse == ~Reuse => (Spec => []NInv)
<1> SUFFICES ASSUME ~Reuse PROVE Spec => []NInv
  OBVIOUS
<1>1. Init => NInv
  BY InitGeneral
<1>2. GInv /\ NInv /\ [Next]_vars => NInv'
  <2> SUFFICES ASSUME GInv, NInv, [Next]_vars PROVE NInv'
    OBVIOUS
  <2>1. Effect
    BY Effects DEF GInv
  <2>2. Unseen' /\ StoppedIsClean'
    BY UnseenNext DEF GInv, NInv
  <2> QED BY <2>1, <2>2, GivenNext, WrittenNext, ListedNext, AimedNext, ClearedNext, PidfileNext, SparedNext DEF NInv
<1> QED BY <1>1, <1>2, General, PTL DEF Spec

\* client.mjs, ensureFreshRelay at session start: whatever other callers, tabs and sessions do meanwhile, it restarts
\* no relay with a session or a second tab, unless they came after the answer of /health it decided on.
THEOREM SessionStartSpares == Spec => RestartsOnlyOvertaken
<1>1. ASSUME GInv, NEW c \in Caller, call[c].op = "session", Kill(c), active \/ tabs > 1
      PROVE  call[c].moved
  <2>1. call[c].moved = TRUE \/ (active = FALSE /\ tabs <= 1)
    BY <1>1 DEF GInv, Guarded, Kill, At
  <2>2. tabs \in Nat /\ active \in BOOLEAN
    BY <1>1 DEF GInv, Shape
  <2>3. tabs > 1 => ~(tabs <= 1)
    BY <2>2
  <2> QED BY <1>1, <2>1, <2>3
<1>2. GInv => \A c \in Caller : call[c].op = "session" /\ Kill(c) /\ call'[c].at = "drain" /\ (active \/ tabs > 1)
                               => call[c].moved
  BY <1>1
<1> QED BY <1>2, General, PTL DEF RestartsOnlyOvertaken

\* relay-control.mjs, stopRelay, with the relay's boot in relay.mjs: while process ids are not reused, a boot that
\* reads the pidfile after a stop was reported records no unclean exit of what was stopped, however starts, stops,
\* crashes and the file operations of several boots interleave.
THEOREM StopsAreClean == ~Reuse => (Spec => []StoppedIsClean)
<1>1. NInv => StoppedIsClean
  BY DEF NInv
<1> QED BY <1>1, NoReuse, PTL

\* relay-control.mjs, resolveRelayPid: while process ids are not reused, a pidfile that names a live process names the
\* one that owns the port.
THEOREM PidfileNamesOwner == ~Reuse => (Spec => []PidfileTrue)
<1>1. NInv => PidfileTrue
  BY DEF NInv
<1> QED BY <1>1, NoReuse, PTL

\* relay-control.mjs, stopRelay and reapLeakedRelays: while process ids are not reused, neither signals a program that
\* is not a relay and answers HTTP in time.
THEOREM ForeignLives == ~Reuse => (Spec => []ForeignSpared)
<1>1. NInv => ForeignSpared
  BY DEF NInv
<1> QED BY <1>1, NoReuse, PTL

-----------------------------------------------------------------------------
\* What callers are told.

Sequence(q) == q \in Seq(Range(q))

\* What a caller is doing, in one of the sessions that there have been.
WorkShape(w) ==
  \/ w = Resting
  \/ w \in [at : {"sent"}, session : 1..sessions, call : Call, begun : Nat]
  \/ w \in [at : {"probing", "shooting"}, session : 1..sessions, call : Call, begun : Nat, row : Nat]
  \/ w \in [at : {"shooting"}, session : 1..sessions, call : Call, begun : Nat]
  \/ /\ w = [at |-> "replay", session |-> w.session, run |-> w.run, rest |-> w.rest]
     /\ w.session \in 1..sessions

TellerShape ==
  /\ Sequence(log) /\ \A i \in DOMAIN log : log[i].session \in 1..sessions
  /\ clock \in Nat /\ sessions \in Nat /\ current \in 0..sessions
  /\ work = [a \in Agent |-> work[a]] /\ \A a \in Agent : WorkShape(work[a])

-----------------------------------------------------------------------------
LEMMA AppendedRow ==
  ASSUME NEW q, Sequence(q), NEW r
  PROVE  /\ Sequence(Append(q, r)) /\ Len(q) \in Nat /\ DOMAIN q = 1..Len(q)
         /\ Len(Append(q, r)) = Len(q) + 1 /\ DOMAIN Append(q, r) = 1..Len(q) + 1
         /\ \A i \in 1..Len(q) : Append(q, r)[i] = q[i]
         /\ Append(q, r)[Len(q) + 1] = r
<1> DEFINE S == Range(q) \cup {r}
<1>1. q \in Seq(S) /\ Len(q) \in Nat /\ DOMAIN q = 1..Len(q)
  <2>1. q \in Seq(Range(q)) /\ Range(q) \subseteq S
    BY DEF Sequence
  <2> QED BY <2>1, SeqMonotonic, LenProperties
<1>2. /\ Append(q, r) \in Seq(S) /\ Len(Append(q, r)) = Len(q) + 1
      /\ \A i \in 1..Len(q) : Append(q, r)[i] = q[i]
      /\ Append(q, r)[Len(q) + 1] = r
  BY <1>1, AppendProperties
<1>3. DOMAIN Append(q, r) = 1..Len(q) + 1
  BY <1>2, LenProperties
<1>4. Sequence(Append(q, r))
  <2>1. \A i \in 1..Len(Append(q, r)) : Append(q, r)[i] \in Range(Append(q, r))
    BY <1>2, <1>3 DEF Range
  <2> QED BY <1>2, <2>1, SeqDef DEF Sequence
<1> QED BY <1>1, <1>2, <1>3, <1>4

\* A row of a session that there has been keeps the log in shape.
LEMMA LoggedShape ==
  ASSUME TellerShape, NEW r, r.session \in 1..sessions, log' = Append(log, r), sessions' = sessions
  PROVE  Sequence(log') /\ \A i \in DOMAIN log' : log'[i].session \in 1..sessions'
<1>1. Sequence(log) /\ \A i \in DOMAIN log : log[i].session \in 1..sessions
  BY DEF TellerShape
<1>2. /\ Sequence(log') /\ DOMAIN log = 1..Len(log) /\ DOMAIN log' = 1..Len(log) + 1 /\ Len(log) \in Nat
      /\ \A i \in 1..Len(log) : log'[i] = log[i]
      /\ log'[Len(log) + 1] = r
  BY <1>1, AppendedRow
<1>3. ASSUME NEW i \in 1..Len(log) + 1 PROVE log'[i].session \in 1..sessions
  <2>1. CASE i \in 1..Len(log)
    BY <1>1, <1>2, <2>1
  <2>2. CASE i = Len(log) + 1
    BY <1>2, <2>2
  <2> QED BY <1>2, <2>1, <2>2
<1> QED BY <1>2, <1>3

\* One caller goes on to something of the right shape.
LEMMA WorkedShape ==
  ASSUME TellerShape, NEW a \in Agent, NEW w, WorkShape(w), work' = [work EXCEPT ![a] = w], sessions' = sessions
  PROVE  /\ work' = [b \in Agent |-> work'[b]] /\ \A b \in Agent : WorkShape(work[b])'
         /\ work'[a] = w /\ \A b \in Agent \ {a} : work'[b] = work[b]
<1>1. work = [b \in Agent |-> work[b]] /\ \A b \in Agent : WorkShape(work[b])
  BY DEF TellerShape
<1>2. work' = [b \in Agent |-> IF b = a THEN w ELSE work[b]]
  BY <1>1
<1>3. ASSUME NEW b \in Agent PROVE WorkShape(work[b])'
  BY <1>1, <1>2 DEF WorkShape
<1>4. work' = [b \in Agent |-> work'[b]]
  BY <1>2
<1> QED BY <1>2, <1>3, <1>4

LEMMA Kinds ==
  ASSUME TellerShape, NEW a \in Agent
  PROVE  /\ work[a].at \in {"idle", "sent", "probing", "shooting", "replay"}
         /\ work[a].at # "idle" => work[a].session \in 1..sessions
         /\ work[a].at \in {"sent", "probing"} => work[a].call \in Call
         /\ work[a].at = "probing" => work[a].row \in Nat
BY DEF TellerShape, WorkShape, Resting

LEMMA RestingShape == WorkShape(Resting) /\ Resting.at = "idle"
BY DEF WorkShape, Resting

\* After its report a caller takes its screenshot or rests.
LEMMA ThenShape ==
  ASSUME TellerShape, NEW a \in Agent, work[a].at \in {"sent", "probing"}, NEW at \in {"idle", "shooting"}, Then(a, at)
  PROVE  \E w : WorkShape(w) /\ w.at # "probing" /\ work' = [work EXCEPT ![a] = w]
<1>1. CASE at = "idle"
  BY <1>1, RestingShape DEF Then
<1>2. CASE at = "shooting"
  <2> DEFINE w == [work[a] EXCEPT !.at = "shooting", !.begun = clock]
  <2>1. WorkShape(work[a]) /\ clock \in Nat
    BY DEF TellerShape
  <2>2. work' = [work EXCEPT ![a] = w]
    BY <1>2 DEF Then, TellerShape
  <2>3. CASE work[a] \in [at : {"sent"}, session : 1..sessions, call : Call, begun : Nat]
    BY <2>1, <2>2, <2>3 DEF WorkShape
  <2>4. CASE work[a] \in [at : {"probing", "shooting"}, session : 1..sessions, call : Call, begun : Nat, row : Nat]
    BY <2>1, <2>2, <2>4 DEF WorkShape
  <2> QED BY <2>1, <2>3, <2>4 DEF WorkShape, Resting
<1> QED BY <1>1, <1>2

LEMMA CommandRows ==
  ASSUME TellerShape, NEW a \in Agent, NEW c, NEW ok, NEW res, NEW r, r = Row(a, c, ok, res)
  PROVE  /\ r.session = work[a].session /\ r.agent = a /\ r.call = c /\ r.ok = ok /\ r.end = clock /\ r.macro = 0
         /\ work[a].at # "idle" => r.session \in 1..sessions
BY Kinds DEF Row

LEMMA StepRows ==
  ASSUME TellerShape, NEW a \in Agent, NEW ok, NEW res, NEW r, r = StepRow(a, ok, res)
  PROVE  /\ r.session = work[a].session /\ r.agent = a /\ r.ok = ok /\ r.end = clock /\ r.macro = 1
         /\ work[a].at # "idle" => r.session \in 1..sessions
BY Kinds DEF StepRow, Macro

\* A step of one caller that adds a row, or none.
LEMMA ActingShape ==
  ASSUME TellerShape, NEW a \in Agent, NEW w, WorkShape(w), work' = [work EXCEPT ![a] = w],
         log' = log \/ \E r : r.session \in 1..sessions /\ log' = Append(log, r),
         clock' \in Nat, UNCHANGED <<sessions, current>>
  PROVE  TellerShape'
<1>1. Sequence(log') /\ \A i \in DOMAIN log' : log'[i].session \in 1..sessions'
  BY LoggedShape DEF TellerShape, Sequence
<1>2. work' = [b \in Agent |-> work'[b]] /\ \A b \in Agent : WorkShape(work[b])'
  BY WorkedShape
<1> QED BY <1>1, <1>2 DEF TellerShape, Sequence

LEMMA DispatchShape == ASSUME TellerShape, NEW a \in Agent, Dispatch(a) PROVE TellerShape'
<1>1. clock' \in Nat /\ UNCHANGED <<sessions, current>> /\ log' = log
  BY AdviceAssumption DEF Dispatch, TellerShape, Trouble
<1>2. PICK c \in Call : work' = [work EXCEPT ![a] = [at |-> "sent", session |-> current, call |-> c, begun |-> clock']]
  BY DEF Dispatch
<1>3. current \in 1..sessions
  BY DEF Dispatch, TellerShape
<1>4. WorkShape([at |-> "sent", session |-> current, call |-> c, begun |-> clock'])
  BY <1>1, <1>3 DEF WorkShape
<1> QED BY <1>1, <1>2, <1>4, ActingShape

LEMMA AnswerShape == ASSUME TellerShape, NEW a \in Agent, Answer(a) PROVE TellerShape'
<1>1. PICK res : log' = Append(log, Row(a, work[a].call, TRUE, res))
  BY DEF Answer
<1>2. Row(a, work[a].call, TRUE, res).session \in 1..sessions
  BY Kinds DEF Row, Answer
<1> QED BY <1>1, <1>2, RestingShape, ActingShape DEF Answer, TellerShape

LEMMA FailShape == ASSUME TellerShape, NEW a \in Agent, Fail(a) PROVE TellerShape'
<1>1. Row(a, work[a].call, FALSE, NoResult).session \in 1..sessions
  BY Kinds DEF Row, Fail
<1>2. \E w : WorkShape(w) /\ w.at # "probing" /\ work' = [work EXCEPT ![a] = w]
  BY ThenShape DEF Fail, Reported
<1> QED BY <1>1, <1>2, ActingShape DEF Fail, Fails, TellerShape

LEMMA TimedOutShape == ASSUME TellerShape, NEW a \in Agent, TimedOut(a) PROVE TellerShape'
<1> DEFINE w == [at |-> "probing", session |-> work[a].session, call |-> work[a].call, begun |-> clock, row |-> Len(log')]
<1>1. Row(a, work[a].call, FALSE, NoResult).session \in 1..sessions
  BY Kinds DEF Row, TimedOut
<1>2. log' = Append(log, Row(a, work[a].call, FALSE, NoResult))
  BY DEF TimedOut, Fails
<1>3. Len(log') \in Nat
  BY <1>2, AppendedRow DEF TellerShape
<1>4. WorkShape(w)
  BY <1>3, Kinds DEF TimedOut, WorkShape, TellerShape
<1>5. work' = [work EXCEPT ![a] = w]
  BY DEF TimedOut, TellerShape
<1> QED BY <1>1, <1>2, <1>4, <1>5, ActingShape DEF TimedOut, TellerShape

LEMMA ProbeShape == ASSUME TellerShape, NEW a \in Agent, ProbeAfter(a) PROVE TellerShape'
<1>1. Row(a, Verify, TRUE, "done").session \in 1..sessions
  BY Kinds DEF Row, ProbeAfter
<1>2. \E w : WorkShape(w) /\ w.at # "probing" /\ work' = [work EXCEPT ![a] = w]
  BY ThenShape DEF ProbeAfter, Reported
<1> QED BY <1>1, <1>2, ActingShape DEF ProbeAfter, TellerShape

LEMMA ShootShape == ASSUME TellerShape, NEW a \in Agent, Shoot(a) PROVE TellerShape'
<1>1. \A ok, res : Row(a, Shot, ok, res).session \in 1..sessions
  BY Kinds DEF Row, Shoot
<1>2. work' = [work EXCEPT ![a] = Resting]
  BY DEF Shoot, Then
<1>3. \E r : r.session \in 1..sessions /\ log' = Append(log, r)
  BY <1>1 DEF Shoot
<1> QED BY <1>2, <1>3, RestingShape, ActingShape DEF Shoot, TellerShape

LEMMA RunMacroShape == ASSUME TellerShape, NEW a \in Agent, RunMacro(a) PROVE TellerShape'
<1>1. PICK from \in 1..Len(macro) :
        work' = [work EXCEPT ![a] = [at |-> "replay", session |-> current, run |-> runs + 1,
                                     rest |-> SubSeq(macro, from, Len(macro))]]
  BY DEF RunMacro
<1>2. current \in 1..sessions
  BY DEF RunMacro, TellerShape
<1>3. WorkShape([at |-> "replay", session |-> current, run |-> runs + 1, rest |-> SubSeq(macro, from, Len(macro))])
  BY <1>2 DEF WorkShape
<1> QED BY <1>1, <1>3, ActingShape DEF RunMacro, TellerShape

\* What a replay that goes on is doing.
LEMMA StepWork ==
  ASSUME TellerShape, NEW a \in Agent, MacroStep(a)
  PROVE  \E w : WorkShape(w) /\ w.at # "probing" /\ work' = [work EXCEPT ![a] = w]
<1>1. CASE work' = [work EXCEPT ![a] = Resting]
  BY <1>1, RestingShape
<1>2. CASE work' = [work EXCEPT ![a].rest = Tail(@)]
  <2>1. PICK who, run, rest :
               /\ who \in 1..sessions
               /\ work[a] = [at |-> "replay", session |-> who, run |-> run, rest |-> rest]
    BY DEF MacroStep, TellerShape, WorkShape, Resting
  <2> DEFINE w == [at |-> "replay", session |-> who, run |-> run, rest |-> Tail(rest)]
  <2>2. work' = [work EXCEPT ![a] = [work[a] EXCEPT !.rest = Tail(work[a].rest)]]
    BY <1>2
  <2>3. WorkShape(w) /\ w.at = "replay"
    BY <2>1 DEF WorkShape
  <2>4. \A v : [[at |-> "replay", session |-> who, run |-> run, rest |-> rest] EXCEPT !.rest = v]
                = [at |-> "replay", session |-> who, run |-> run, rest |-> v]
    OBVIOUS
  <2>5. work[a].rest = rest
    BY <2>1
  <2>6. [work[a] EXCEPT !.rest = Tail(rest)] = w
    BY <2>1, <2>4, Zenon
  <2> QED BY <2>2, <2>3, <2>5, <2>6
<1> QED BY <1>1, <1>2 DEF MacroStep

LEMMA StepShape == ASSUME TellerShape, NEW a \in Agent, MacroStep(a) PROVE TellerShape'
<1>1. \A ok, res : StepRow(a, ok, res).session \in 1..sessions
  BY Kinds DEF StepRow, MacroStep
<1>2. \E r : r.session \in 1..sessions /\ log' = Append(log, r)
  BY <1>1 DEF MacroStep, Fails
<1>3. UNCHANGED <<clock, sessions, current>>
  BY DEF MacroStep
<1> QED BY <1>2, <1>3, StepWork, ActingShape DEF TellerShape

LEMMA StartShape == ASSUME TellerShape, StartSession PROVE TellerShape'
<1>1. /\ UNCHANGED <<log, clock, work>> /\ sessions' = sessions + 1 /\ current' = sessions + 1
      /\ sessions \in Nat /\ 1..sessions \subseteq 1..sessions + 1
  BY DEF StartSession, TellerShape
<1>2. ASSUME NEW b \in Agent PROVE WorkShape(work[b])'
  BY <1>1, <1>2 DEF TellerShape, WorkShape
<1>3. Sequence(log') /\ \A i \in DOMAIN log' : log'[i].session \in 1..sessions'
  BY <1>1 DEF TellerShape
<1> QED BY <1>1, <1>2, <1>3 DEF TellerShape, Sequence

LEMMA QuietShape ==
  ASSUME TellerShape, UNCHANGED <<log, clock, sessions, work>>, current' \in {0, current}
  PROVE  TellerShape'
BY DEF TellerShape, Sequence, WorkShape, Resting

LEMMA TellerShapeKept == ASSUME TellerShape, [AdviceNext]_adviceVars PROVE TellerShape'
<1>1. ASSUME NEW a \in Agent,
             Dispatch(a) \/ Answer(a) \/ Fail(a) \/ TimedOut(a) \/ ProbeAfter(a) \/ Shoot(a) \/ RunMacro(a) \/ MacroStep(a)
      PROVE TellerShape'
  BY <1>1, DispatchShape, AnswerShape, FailShape, TimedOutShape, ProbeShape, ShootShape, RunMacroShape, StepShape
<1>2. CASE Record \/ EditSteps \/ DeleteMacro \/ EndSession \/ PollStats \/ UNCHANGED adviceVars
  <2>1. UNCHANGED <<log, clock, sessions, work>> /\ current' \in {0, current}
    BY <1>2 DEF Record, EditSteps, DeleteMacro, EndSession, PollStats, adviceVars, adviceState
  <2> QED BY <2>1, QuietShape
<1> QED BY <1>1, <1>2, StartShape DEF AdviceNext

LEMMA TellerShapeInit == ASSUME AdviceInit PROVE TellerShape
<1>1. <<>> \in Seq(Range(<<>>)) /\ DOMAIN <<>> = {}
  BY EmptySeq
<1> QED BY <1>1 DEF AdviceInit, TellerShape, Sequence, WorkShape

-----------------------------------------------------------------------------
\* The rows after the first n are no older than t.
Since(rows, n, t) == n \in 0..Len(rows) /\ \A i \in n + 1..Len(rows) : rows[i].end \in Int /\ rows[i].end >= t

\* Of candidates that are not empty: they are the steps of the macro, of a log in which it worked or was not known to
\* fail, and that had all rows older than their age and the time the analytics last.
Stands(rows, list) ==
  /\ list.steps = macro /\ Len(macro) >= 2
  /\ Since(rows, list.n, list.at - StatsTTL + 1)
  /\ ~NeverSucceeds(SubSeq(rows, 1, list.n), Macro)

CachesTrue ==
  /\ stats.at \in Int /\ stats.at <= clock /\ (stats.at # -1 => Since(log, stats.n, stats.at))
  /\ candidates.at \in Int /\ candidates.at <= clock /\ (candidates.steps # <<>> => Stands(log, candidates))

OfferInv == TellerShape /\ CachesTrue

LEMMA MatchesSome == ASSUME NEW rows, NEW s, NEW steps, Matches(rows, s, steps) PROVE steps # <<>>
BY DEF Matches

\* A row that is added is newer than all that was kept.
LEMMA SinceKept ==
  ASSUME NEW q, Sequence(q), NEW r, NEW n, NEW t, Since(q, n, t), r.end \in Int, r.end >= t
  PROVE  Since(Append(q, r), n, t) /\ SubSeq(Append(q, r), 1, n) = SubSeq(q, 1, n)
<1>1. /\ Len(q) \in Nat /\ Len(Append(q, r)) = Len(q) + 1 /\ DOMAIN q = 1..Len(q)
      /\ \A i \in 1..Len(q) : Append(q, r)[i] = q[i]
      /\ Append(q, r)[Len(q) + 1] = r
  BY AppendedRow
<1>2. n \in 0..Len(q) /\ n \in 0..Len(q) + 1
  BY <1>1 DEF Since
<1>3. ASSUME NEW i \in n + 1..Len(q) + 1 PROVE Append(q, r)[i].end \in Int /\ Append(q, r)[i].end >= t
  <2>1. CASE i = Len(q) + 1
    BY <1>1, <2>1
  <2>2. CASE i # Len(q) + 1
    <3>1. i \in 1..Len(q) /\ i \in n + 1..Len(q)
      BY <1>1, <1>2, <2>2
    <3> QED BY <1>1, <3>1 DEF Since
  <2> QED BY <2>1, <2>2
<1>4. SubSeq(Append(q, r), 1, n) = SubSeq(q, 1, n)
  <2>1. q \in Seq(Range(q)) /\ Append(q, r) \in Seq(Range(Append(q, r)))
    BY AppendedRow DEF Sequence
  <2>2. \A i \in 1..n : Append(q, r)[i] = q[i]
    BY <1>1, <1>2
  <2>3. SubSeq(Append(q, r), 1, n) = [i \in 1..n |-> Append(q, r)[i]] /\ SubSeq(q, 1, n) = [i \in 1..n |-> q[i]]
    BY <1>1, <1>2, <2>1, SubSeqProperties
  <2> QED BY <2>2, <2>3
<1> QED BY <1>1, <1>2, <1>3, <1>4 DEF Since

LEMMA Times == {StatsTTL, CandidateTTL, RiskyFails, NoticeCap} \subseteq Nat \ {0} /\ Pause \in Nat
BY AdviceAssumption

\* The caches stay true as rows are added and time passes.
LEMMA CachesGrow ==
  ASSUME OfferInv, NEW r, r.end = clock, log' = Append(log, r), macro' = macro, clock' = clock
  PROVE  /\ stats.at # -1 => Since(log', stats.n, stats.at)
         /\ candidates.steps # <<>> => Stands(log', candidates)
<1>1. /\ Sequence(log) /\ clock \in Nat /\ stats.at \in Int /\ candidates.at \in Int /\ StatsTTL \in Nat
      /\ stats.at <= clock /\ candidates.at <= clock
  BY Times DEF OfferInv, TellerShape, CachesTrue
<1>2. stats.at # -1 => Since(log', stats.n, stats.at)
  BY <1>1, SinceKept DEF OfferInv, CachesTrue
<1>3. ASSUME candidates.steps # <<>> PROVE Stands(log', candidates)
  <2>1. Stands(log, candidates)
    BY <1>3 DEF OfferInv, CachesTrue
  <2>2. r.end \in Int /\ r.end >= candidates.at - StatsTTL + 1
    BY <1>1, Times
  <2>3. /\ Since(log', candidates.n, candidates.at - StatsTTL + 1)
        /\ SubSeq(log', 1, candidates.n) = SubSeq(log, 1, candidates.n)
    BY <1>1, <2>1, <2>2, SinceKept DEF Stands
  <2> QED BY <2>1, <2>3 DEF Stands
<1> QED BY <1>2, <1>3

\* The analytics read now are younger than their time to live.
LEMMA StatsTrue ==
  ASSUME OfferInv, NEW rows, Sequence(rows), stats.at # -1 => Since(rows, stats.n, stats.at), NEW R, R = Stats(rows)
  PROVE  R.at \in Int /\ R.at # -1 /\ R.at <= clock /\ Since(rows, R.n, R.at) /\ R.at >= clock - StatsTTL + 1
<1>1. clock \in Nat /\ stats.at \in Int /\ stats.at <= clock /\ StatsTTL \in Nat \ {0}
  BY Times DEF OfferInv, TellerShape, CachesTrue
<1>2. CASE StillFresh(stats, StatsTTL)
  BY <1>1, <1>2 DEF Stats, StillFresh
<1>3. CASE ~StillFresh(stats, StatsTTL)
  <2>1. R = [at |-> clock, n |-> Len(rows)]
    BY <1>3 DEF Stats
  <2>2. Len(rows) \in Nat /\ Len(rows) + 1..Len(rows) = {}
    BY AppendedRow
  <2> QED BY <1>1, <2>1, <2>2 DEF Since
<1> QED BY <1>2, <1>3

LEMMA BuildStands ==
  ASSUME OfferInv, NEW rows, NEW n, Since(rows, n, clock - StatsTTL + 1), NEW list, list = Build(rows, n)
  PROVE  list.at = clock /\ (list.steps # <<>> => Stands(rows, list))
BY DEF Build, Stands

\* The candidates asked for now are the steps of the macro, and younger than their time to live.
LEMMA NudgeOffers ==
  ASSUME OfferInv, NEW rows, Sequence(rows), NEW s, Nudge(rows, s),
         stats.at # -1 => Since(rows, stats.n, stats.at), candidates.steps # <<>> => Stands(rows, candidates)
  PROVE  /\ stats'.at \in Int /\ stats'.at <= clock /\ (stats'.at # -1 => Since(rows, stats'.n, stats'.at))
         /\ candidates'.at \in Int /\ candidates'.at <= clock /\ candidates'.at > clock - CandidateTTL
         /\ candidates'.steps # <<>> => Stands(rows, candidates')
         /\ offered' = offered \/ (offered' = offered \cup {s} /\ Matches(rows, s, candidates'.steps))
<1>1. /\ clock \in Nat /\ stats.at \in Int /\ stats.at <= clock /\ StatsTTL \in Nat \ {0} /\ CandidateTTL \in Nat \ {0}
      /\ candidates.at \in Int /\ candidates.at <= clock
  BY Times DEF OfferInv, TellerShape, CachesTrue
<1>2. offered' = offered \/ (offered' = offered \cup {s} /\ Matches(rows, s, candidates'.steps))
  BY DEF Nudge
<1>3. CASE StillFresh(candidates, CandidateTTL)
  <2>1. candidates' = candidates /\ stats' = stats
    BY <1>3 DEF Nudge
  <2>2. candidates.at > clock - CandidateTTL
    BY <1>1, <1>3 DEF StillFresh
  <2> QED BY <1>1, <1>2, <2>1, <2>2
<1>4. CASE ~StillFresh(candidates, CandidateTTL)
  <2>1. PICK R : R = Stats(rows)
    OBVIOUS
  <2>2. candidates' = Build(rows, R.n) /\ stats' = R
    BY <1>4, <2>1 DEF Nudge
  <2>3. R.at \in Int /\ R.at # -1 /\ R.at <= clock /\ Since(rows, R.n, R.at) /\ R.at >= clock - StatsTTL + 1
    BY <2>1, StatsTrue
  <2>4. Since(rows, R.n, clock - StatsTTL + 1)
    BY <1>1, <2>3 DEF Since
  <2>5. candidates'.at = clock /\ (candidates'.steps # <<>> => Stands(rows, candidates'))
    BY <2>2, <2>4, BuildStands
  <2> QED BY <1>1, <1>2, <2>2, <2>3, <2>5
<1> QED BY <1>3, <1>4

LEMMA OfferInit == ASSUME AdviceInit PROVE OfferInv
BY TellerShapeInit DEF AdviceInit, OfferInv, CachesTrue, NoList

\* A step that keeps the caches and their macro.
LEMMA CachesUnread ==
  ASSUME OfferInv, UNCHANGED <<stats, candidates, macro>>, clock' \in Nat, clock' >= clock,
         log' = log \/ (clock' = clock /\ \E r : r.end = clock /\ log' = Append(log, r))
  PROVE  CachesTrue'
<1>1. stats.at <= clock' /\ candidates.at <= clock'
  BY DEF OfferInv, TellerShape, CachesTrue
<1>2. CASE log' = log
  BY <1>1, <1>2 DEF OfferInv, CachesTrue, Stands
<1>3. CASE clock' = clock /\ \E r : r.end = clock /\ log' = Append(log, r)
  <2>1. /\ stats.at # -1 => Since(log', stats.n, stats.at)
        /\ candidates.steps # <<>> => Stands(log', candidates)
    BY <1>3, CachesGrow
  <2> QED BY <1>1, <2>1 DEF OfferInv, CachesTrue, Stands
<1> QED BY <1>2, <1>3

\* A step that drops the candidates, whatever it does with the macro.
LEMMA CachesDropped ==
  ASSUME OfferInv, candidates' = NoList, UNCHANGED <<stats, clock>>,
         log' = log \/ \E r : r.end = clock /\ log' = Append(log, r) /\ macro' = macro
  PROVE  CachesTrue'
<1>1. NoList.at = -1 /\ NoList.steps = <<>> /\ -1 <= clock /\ stats.at <= clock
  BY DEF NoList, OfferInv, TellerShape, CachesTrue
<1>2. stats.at # -1 => Since(log', stats.n, stats.at)
  BY CachesGrow DEF OfferInv, CachesTrue
<1> QED BY <1>1, <1>2 DEF OfferInv, CachesTrue

LEMMA OfferAnswer ==
  ASSUME OfferInv, NEW a \in Agent, Answer(a)
  PROVE  /\ CachesTrue'
         /\ offered' = offered
            \/ \E s : /\ offered' = offered \cup {s} /\ Matches(log', s, candidates'.steps)
                      /\ Stands(log', candidates') /\ candidates'.at \in Int /\ candidates'.at > clock - CandidateTTL
<1>1. PICK r : r.end = clock /\ log' = Append(log, r)
  BY DEF Answer, Row
<1>2. UNCHANGED <<clock, macro>>
  BY DEF Answer
<1>3. /\ stats.at # -1 => Since(log', stats.n, stats.at)
      /\ candidates.steps # <<>> => Stands(log', candidates)
  BY <1>1, <1>2, CachesGrow
<1>4. PICK rows, s : rows = log' /\ s = work[a].session
  OBVIOUS
<1>5. Sequence(rows) /\ Nudge(rows, s)
  BY <1>1, <1>4, AppendedRow DEF OfferInv, TellerShape, Answer
<1>6. /\ stats'.at \in Int /\ stats'.at <= clock /\ (stats'.at # -1 => Since(rows, stats'.n, stats'.at))
      /\ candidates'.at \in Int /\ candidates'.at <= clock /\ candidates'.at > clock - CandidateTTL
      /\ candidates'.steps # <<>> => Stands(rows, candidates')
      /\ offered' = offered \/ (offered' = offered \cup {s} /\ Matches(rows, s, candidates'.steps))
  BY <1>3, <1>4, <1>5, NudgeOffers
<1>7. CachesTrue'
  BY <1>2, <1>4, <1>6 DEF CachesTrue, Stands
<1> QED BY <1>4, <1>6, <1>7, MatchesSome

LEMMA CachesRead ==
  ASSUME OfferInv, UNCHANGED <<log, clock, macro, candidates>>, stats' \in {stats, Stats(log)}
  PROVE  CachesTrue'
<1>1. PICK R : R = Stats(log)
  OBVIOUS
<1>2. R.at \in Int /\ R.at <= clock /\ Since(log, R.n, R.at)
  BY <1>1, StatsTrue DEF OfferInv, TellerShape, CachesTrue
<1> QED BY <1>1, <1>2 DEF OfferInv, CachesTrue, Stands

LEMMA OfferStart == ASSUME OfferInv, StartSession PROVE CachesTrue'
<1>1. PICK list : list = Build(log, Len(log))
  OBVIOUS
<1>2. Len(log) \in Nat /\ Len(log) + 1..Len(log) = {}
  BY AppendedRow DEF OfferInv, TellerShape
<1>3. Since(log, Len(log), clock - StatsTTL + 1)
  BY <1>2 DEF Since
<1>4. list.at = clock /\ (list.steps # <<>> => Stands(log, list))
  BY <1>1, <1>3, BuildStands
<1>5. candidates' = list /\ UNCHANGED <<log, clock, macro, stats>> /\ clock \in Nat
  BY <1>1 DEF StartSession, OfferInv, TellerShape
<1> QED BY <1>4, <1>5 DEF OfferInv, CachesTrue, Stands

LEMMA CallerCaches ==
  ASSUME OfferInv, NEW a \in Agent,
         Dispatch(a) \/ Fail(a) \/ TimedOut(a) \/ ProbeAfter(a) \/ Shoot(a) \/ RunMacro(a) \/ MacroStep(a)
  PROVE  CachesTrue' /\ offered' = offered
<1>1. CASE Dispatch(a)
  <2>1. clock \in Nat /\ clock' \in Nat /\ clock' >= clock
    BY <1>1, Times DEF Dispatch, Trouble, OfferInv, TellerShape
  <2>2. UNCHANGED <<stats, candidates, macro, offered, log>>
    BY <1>1 DEF Dispatch
  <2> QED BY <2>1, <2>2, CachesUnread
<1>2. CASE Fail(a) \/ TimedOut(a) \/ ProbeAfter(a) \/ Shoot(a)
  <2>1. UNCHANGED <<stats, candidates, macro, offered, clock>> /\ clock \in Nat
    BY <1>2 DEF Fail, TimedOut, ProbeAfter, Shoot, OfferInv, TellerShape
  <2>2. \E r : r.end = clock /\ log' = Append(log, r)
    <3>1. CASE Fail(a) \/ TimedOut(a)
      BY <3>1 DEF Fail, TimedOut, Fails, Row
    <3>2. CASE ProbeAfter(a)
      BY <3>2 DEF ProbeAfter, Row
    <3>3. CASE Shoot(a)
      BY <3>3 DEF Shoot, Row
    <3> QED BY <1>2, <3>1, <3>2, <3>3
  <2> QED BY <2>1, <2>2, CachesUnread
<1>3. CASE RunMacro(a)
  BY <1>3, CachesRead DEF RunMacro
<1>4. CASE MacroStep(a)
  <2>1. UNCHANGED <<stats, macro, offered, clock>> /\ clock \in Nat /\ candidates' \in {candidates, NoList}
    BY <1>4 DEF MacroStep, OfferInv, TellerShape
  <2>2. \E r : r.end = clock /\ log' = Append(log, r)
    BY <1>4 DEF MacroStep, Fails, StepRow
  <2> QED BY <2>1, <2>2, CachesUnread, CachesDropped
<1> QED BY <1>1, <1>2, <1>3, <1>4

LEMMA CachesKept == ASSUME OfferInv, [AdviceNext]_adviceVars PROVE CachesTrue'
<1>1. ASSUME NEW a \in Agent, Answer(a) PROVE CachesTrue'
  BY <1>1, OfferAnswer
<1>2. CASE Record \/ EditSteps \/ DeleteMacro
  BY <1>2, CachesDropped DEF Record, EditSteps, DeleteMacro, SetMacro
<1>3. CASE PollStats
  BY <1>3, CachesRead DEF PollStats
<1>4. CASE EndSession \/ UNCHANGED adviceVars
  BY <1>4, CachesUnread DEF EndSession, adviceVars, adviceState, OfferInv, TellerShape
<1> QED BY <1>1, <1>2, <1>3, <1>4, CallerCaches, OfferStart DEF AdviceNext

\* An offer is made by an answer, of candidates that stand.
LEMMA OffersMade ==
  ASSUME OfferInv, [AdviceNext]_adviceVars, NEW s, s \in offered' \ offered
  PROVE  /\ Len(macro) >= 2 /\ Matches(log', s, macro)
         /\ \E n \in 0..Len(log') :
              /\ ~NeverSucceeds(SubSeq(log', 1, n), Macro)
              /\ n < Len(log') => log'[n + 1].end > clock - StatsTTL - CandidateTTL
<1>1. PICK a \in Agent : Answer(a)
  <2>1. \/ \E a \in Agent : Answer(a)
        \/ offered' = offered \/ \E t : offered' = offered \ {t}
    <3>1. CASE Record \/ EditSteps \/ DeleteMacro \/ PollStats \/ UNCHANGED adviceVars
      BY <3>1 DEF Record, EditSteps, DeleteMacro, PollStats, adviceVars, adviceState
    <3>2. CASE StartSession \/ EndSession
      BY <3>2 DEF StartSession, EndSession, Forget
    <3> QED BY <3>1, <3>2, CallerCaches DEF AdviceNext
  <2> QED BY <2>1
<1>2. /\ Matches(log', s, candidates'.steps)
      /\ Stands(log', candidates') /\ candidates'.at \in Int /\ candidates'.at > clock - CandidateTTL
  BY <1>1, OfferAnswer
<1>3. macro' = macro /\ clock \in Nat
  BY <1>1 DEF Answer, OfferInv, TellerShape
<1>4. candidates'.steps = macro /\ Len(macro) >= 2 /\ Since(log', candidates'.n, candidates'.at - StatsTTL + 1)
      /\ ~NeverSucceeds(SubSeq(log', 1, candidates'.n), Macro)
  BY <1>2, <1>3 DEF Stands
<1>5. candidates'.n \in 0..Len(log')
  BY <1>4 DEF Since
<1>6. ASSUME candidates'.n < Len(log') PROVE log'[candidates'.n + 1].end > clock - StatsTTL - CandidateTTL
  <2>1. Len(log') \in Nat
    BY TellerShapeKept, AppendedRow DEF OfferInv, TellerShape
  <2>2. candidates'.n + 1 \in candidates'.n + 1..Len(log')
    BY <1>5, <1>6, <2>1
  <2>3. log'[candidates'.n + 1].end \in Int /\ log'[candidates'.n + 1].end >= candidates'.at - StatsTTL + 1
    BY <1>4, <2>2 DEF Since
  <2> QED BY <1>2, <1>3, <2>3, Times
<1> QED BY <1>2, <1>4, <1>5, <1>6

LEMMA OfferInvariant == AdviceSpec => []OfferInv
<1>1. ASSUME OfferInv, [AdviceNext]_adviceVars PROVE OfferInv'
  BY <1>1, TellerShapeKept, CachesKept DEF OfferInv
<1> QED BY <1>1, OfferInit, PTL DEF AdviceSpec

\* A macro that is offered exists, is what the session has just done by hand, and was not known to fail a bounded time
\* ago (maybeMacroMatchNudge): for any callers, caps, times to live and lengths of a run.
THEOREM OffersBacked == AdviceSpec => OfferStands
<1> DEFINE Act == \A s \in offered' \ offered :
                    /\ Len(macro) >= 2 /\ Matches(log', s, macro)
                    /\ \E n \in 0..Len(log') :
                         /\ ~NeverSucceeds(SubSeq(log', 1, n), Macro)
                         /\ n < Len(log') => log'[n + 1].end > clock - StatsTTL - CandidateTTL
<1>1. ASSUME OfferInv, [AdviceNext]_adviceVars PROVE Act
  BY <1>1, OffersMade
<1>2. OfferInv /\ [AdviceNext]_adviceVars => [Act]_adviceVars
  BY <1>1
<1>3. [][Act]_adviceVars <=> OfferStands
  BY DEF OfferStands
<1> HIDE DEF Act
<1> QED BY <1>2, <1>3, OfferInvariant, PTL DEF AdviceSpec

-----------------------------------------------------------------------------
\* What the steps do to the failures of a call, and to those not yet reported.

\* Failures stay, as they were.
FailsStay ==
  \A s : \A c \in Call : \A i \in FailsIn(log, s, c) :
    /\ i \in FailsIn(log, s, c)'
    /\ log'[i] = log[i]

Failing(r, s, c) == r.session = s /\ r.call = c /\ ~r.ok

LEMMA FailsGrow ==
  ASSUME NEW q, Sequence(q), NEW r, NEW s, NEW c
  PROVE  /\ FailsIn(Append(q, r), s, c)
              = IF Failing(r, s, c) THEN FailsIn(q, s, c) \cup {Len(q) + 1} ELSE FailsIn(q, s, c)
         /\ FailsIn(q, s, c) \subseteq 1..Len(q) /\ Len(q) \in Nat /\ Len(Append(q, r)) = Len(q) + 1
         /\ \A i \in FailsIn(q, s, c) : Append(q, r)[i] = q[i]
         /\ Append(q, r)[Len(q) + 1] = r
<1>1. /\ Len(q) \in Nat /\ DOMAIN q = 1..Len(q) /\ DOMAIN Append(q, r) = 1..Len(q) + 1 /\ Len(Append(q, r)) = Len(q) + 1
      /\ \A i \in 1..Len(q) : Append(q, r)[i] = q[i]
      /\ Append(q, r)[Len(q) + 1] = r
  BY AppendedRow
<1>2. \A i : i \in FailsIn(q, s, c) <=> i \in 1..Len(q) /\ q[i].call = c /\ ~q[i].ok /\ q[i].session = s
  BY <1>1 DEF FailsIn, FailsOf
<1>3. \A i : i \in FailsIn(Append(q, r), s, c)
               <=> \/ i \in 1..Len(q) /\ q[i].call = c /\ ~q[i].ok /\ q[i].session = s
                   \/ i = Len(q) + 1 /\ r.call = c /\ ~r.ok /\ r.session = s
  <2>1. \A i : i \in 1..Len(q) + 1 <=> i \in 1..Len(q) \/ i = Len(q) + 1
    BY <1>1
  <2>2. Len(q) + 1 \notin 1..Len(q)
    BY <1>1
  <2> QED BY <1>1, <2>1, <2>2 DEF FailsIn, FailsOf
<1>4. FailsIn(Append(q, r), s, c) = IF Failing(r, s, c) THEN FailsIn(q, s, c) \cup {Len(q) + 1} ELSE FailsIn(q, s, c)
  BY <1>2, <1>3 DEF Failing
<1> QED BY <1>1, <1>2, <1>4

\* A row that is no failure of a command or a read.
LEMMA FailsSame ==
  ASSUME TellerShape, log' = log \/ \E r : log' = Append(log, r) /\ (r.ok = TRUE \/ r.call \notin Call)
  PROVE  /\ \A s : \A c \in Call : FailsIn(log, s, c)' = FailsIn(log, s, c)
         /\ FailsStay
<1>1. CASE log' = log
  BY <1>1 DEF FailsIn, FailsOf, FailsStay
<1>2. CASE \E r : log' = Append(log, r) /\ (r.ok = TRUE \/ r.call \notin Call)
  <2>1. PICK r : log' = Append(log, r) /\ (r.ok = TRUE \/ r.call \notin Call)
    BY <1>2
  <2>2. ASSUME NEW s, NEW c \in Call
        PROVE  FailsIn(log, s, c)' = FailsIn(log, s, c) /\ \A i \in FailsIn(log, s, c) : log'[i] = log[i]
    <3>1. Sequence(log)
      BY DEF TellerShape
    <3>2. ~Failing(r, s, c)
      BY <2>1 DEF Failing
    <3>3. FailsIn(Append(log, r), s, c) = FailsIn(log, s, c) /\ \A i \in FailsIn(log, s, c) : Append(log, r)[i] = log[i]
      BY <3>1, <3>2, FailsGrow
    <3> QED BY <2>1, <3>3 DEF FailsIn, FailsOf
  <2> QED BY <2>2 DEF FailsStay
<1> QED BY <1>1, <1>2

\* A failing row is the newest failure of its call in its session.
LEMMA FailsMore ==
  ASSUME TellerShape, NEW r, log' = Append(log, r), r.ok = FALSE
  PROVE  /\ \A s, c : FailsIn(log, s, c)' = IF s = r.session /\ c = r.call THEN FailsIn(log, s, c) \cup {Len(log')}
                                            ELSE FailsIn(log, s, c)
         /\ log'[Len(log')] = r /\ Len(log') = Len(log) + 1 /\ Len(log) \in Nat
         /\ FailsStay
<1>1. Sequence(log)
  BY DEF TellerShape
<1>2. ASSUME NEW s, NEW c
      PROVE  /\ FailsIn(log, s, c)' = IF s = r.session /\ c = r.call THEN FailsIn(log, s, c) \cup {Len(log')}
                                      ELSE FailsIn(log, s, c)
             /\ \A i \in FailsIn(log, s, c) : log'[i] = log[i]
             /\ log'[Len(log')] = r /\ Len(log') = Len(log) + 1 /\ Len(log) \in Nat
  <2>1. /\ FailsIn(Append(log, r), s, c)
             = IF Failing(r, s, c) THEN FailsIn(log, s, c) \cup {Len(log) + 1} ELSE FailsIn(log, s, c)
        /\ Len(log) \in Nat /\ Len(Append(log, r)) = Len(log) + 1
        /\ \A i \in FailsIn(log, s, c) : Append(log, r)[i] = log[i]
        /\ Append(log, r)[Len(log) + 1] = r
    BY <1>1, FailsGrow
  <2>2. FailsIn(log, s, c)' = FailsIn(Append(log, r), s, c)
    BY DEF FailsIn, FailsOf
  <2>3. Failing(r, s, c) <=> s = r.session /\ c = r.call
    BY DEF Failing
  <2> QED BY <2>1, <2>2, <2>3
<1>3. FailsStay
  <2>1. ASSUME NEW s, NEW c, NEW i \in FailsIn(log, s, c) PROVE i \in FailsIn(log, s, c)' /\ log'[i] = log[i]
    <3>1. log'[i] = log[i]
      BY <1>2
    <3>2. FailsIn(log, s, c)' = FailsIn(log, s, c) \cup {Len(log')} \/ FailsIn(log, s, c)' = FailsIn(log, s, c)
      BY <1>2
    <3> QED BY <3>1, <3>2
  <2> QED BY <2>1 DEF FailsStay
<1>4. log'[Len(log')] = r /\ Len(log') = Len(log) + 1 /\ Len(log) \in Nat
  BY <1>2
<1> QED BY <1>2, <1>3, <1>4

\* A caller that neither waits for the answer to a probe nor goes on to.
LEMMA UnreportedSame ==
  ASSUME TellerShape, NEW a \in Agent, NEW w, work' = [work EXCEPT ![a] = w], w.at # "probing", work[a].at # "probing"
  PROVE  \A s, c : Unreported(s, c)' = Unreported(s, c)
<1>1. \A b \in Agent : work'[b] = IF b = a THEN w ELSE work[b]
  BY DEF TellerShape
<1> QED BY <1>1 DEF Unreported

LEMMA UnreportedLess ==
  ASSUME TellerShape, NEW a \in Agent, NEW w, work' = [work EXCEPT ![a] = w], w.at # "probing", work[a].at = "probing"
  PROVE  \A s, c : /\ Unreported(s, c)' \subseteq Unreported(s, c)
                   /\ s = work[a].session /\ c = work[a].call => Unreported(s, c) \subseteq Unreported(s, c)' \cup {work[a].row}
                   /\ s # work[a].session \/ c # work[a].call => Unreported(s, c)' = Unreported(s, c)
<1>1. \A b \in Agent : work'[b] = IF b = a THEN w ELSE work[b]
  BY DEF TellerShape
<1> QED BY <1>1 DEF Unreported

LEMMA UnreportedMore ==
  ASSUME TellerShape, NEW a \in Agent, NEW w, work' = [work EXCEPT ![a] = w], w.at = "probing", work[a].at # "probing"
  PROVE  \A s, c : Unreported(s, c)' = IF s = w.session /\ c = w.call THEN Unreported(s, c) \cup {w.row} ELSE Unreported(s, c)
<1>1. \A b \in Agent : work'[b] = IF b = a THEN w ELSE work[b]
  BY DEF TellerShape
<1> QED BY <1>1 DEF Unreported

-----------------------------------------------------------------------------
\* A call failed in another session; a command failed whose caller has had its report.
Elsewhere(s, c) == \E t : t # s /\ FailsIn(log, t, c) # {}
ReportedFail(s, c) == \E i \in FailsIn(log, s, c) \ Unreported(s, c) : log[i].macro = 0

\* The first failure of a call of the session under way is announced.
Said ==
  current # 0 => \A c \in Call : ReportedFail(current, c) => <<current, c>> \in announced \/ Elsewhere(current, c)

SaidInv == TellerShape /\ Said

LEMMA FailedBefore ==
  ASSUME NEW q, NEW s, NEW c, EverFailedBefore(q, s, c)
  PROVE  \E t : t # s /\ FailsIn(q, t, c) # {}
<1>1. PICK i \in DOMAIN q : q[i].session # s /\ q[i].call = c /\ ~q[i].ok
  BY DEF EverFailedBefore, Range
<1>2. i \in FailsIn(q, q[i].session, c)
  BY <1>1 DEF FailsIn, FailsOf
<1> QED BY <1>1, <1>2

LEMMA ElsewhereKept == ASSUME FailsStay, NEW s, NEW c \in Call, Elsewhere(s, c) PROVE Elsewhere(s, c)'
BY DEF Elsewhere, FailsStay

\* After its report a failure is announced or has happened before.
LEMMA ReportSays ==
  ASSUME NEW a, NEW s, NEW c, Report(log', a, s, c)
  PROVE  announced \subseteq announced' /\ (<<s, c>> \in announced' \/ Elsewhere(s, c)')
<1>1. announced' = Announced(log', s, c)
  BY DEF Report
<1>2. PICK q : q = log'
  OBVIOUS
<1>3. CASE EverFailedBefore(q, s, c)
  <2>1. \E t : t # s /\ FailsIn(q, t, c) # {}
    BY <1>3, FailedBefore
  <2> QED BY <1>1, <1>2, <1>3, <2>1 DEF Announced, Elsewhere, FailsIn, FailsOf
<1>4. CASE ~EverFailedBefore(q, s, c)
  BY <1>1, <1>2, <1>4 DEF Announced
<1> QED BY <1>3, <1>4

\* A step in which every failure that is now reported was so before, or is about a replay, or is announced.
LEMMA SaidStep ==
  ASSUME SaidInv, FailsStay, current' = current, announced \subseteq announced',
         ASSUME NEW c \in Call, NEW i \in FailsIn(log, current, c)' \ Unreported(current, c)', log'[i].macro = 0
         PROVE  i \in FailsIn(log, current, c) \ Unreported(current, c)
                \/ <<current, c>> \in announced' \/ Elsewhere(current, c)'
  PROVE  Said'
<1> SUFFICES ASSUME current # 0, NEW c \in Call, NEW i \in FailsIn(log, current, c)' \ Unreported(current, c)', log'[i].macro = 0
             PROVE  <<current, c>> \in announced' \/ Elsewhere(current, c)'
  BY DEF Said, ReportedFail
<1>1. CASE i \in FailsIn(log, current, c) \ Unreported(current, c)
  <2>1. log'[i] = log[i]
    BY <1>1 DEF FailsStay
  <2>2. <<current, c>> \in announced \/ Elsewhere(current, c)
    BY <1>1, <2>1 DEF SaidInv, Said, ReportedFail
  <2> QED BY <2>2, ElsewhereKept
<1> QED BY <1>1

\* A step that adds no failure of a call, and in which nothing is reported.
LEMMA SaidQuiet ==
  ASSUME SaidInv, current' = current, announced' = announced,
         log' = log \/ \E r : log' = Append(log, r) /\ (r.ok = TRUE \/ r.call \notin Call),
         \A s, c : Unreported(s, c)' = Unreported(s, c)
  PROVE  Said'
<1>1. TellerShape
  BY DEF SaidInv
<1>2. (\A s : \A c \in Call : FailsIn(log, s, c)' = FailsIn(log, s, c)) /\ FailsStay
  BY <1>1, FailsSame
<1>3. ASSUME NEW c \in Call
      PROVE  FailsIn(log, current, c)' = FailsIn(log, current, c) /\ Unreported(current, c)' = Unreported(current, c)
  <2>1. PICK s : s = current
    OBVIOUS
  <2>2. FailsIn(log, s, c)' = FailsIn(log, s, c) /\ Unreported(s, c)' = Unreported(s, c)
    BY <1>2
  <2> QED BY <2>1, <2>2 DEF FailsIn, FailsOf, Unreported
<1>4. ASSUME NEW c \in Call, NEW i \in FailsIn(log, current, c)' \ Unreported(current, c)'
      PROVE  i \in FailsIn(log, current, c) \ Unreported(current, c)
  BY <1>3
<1> QED BY <1>2, <1>4, SaidStep

LEMMA SaidFail == ASSUME SaidInv, NEW a \in Agent, Fail(a) PROVE Said'
<1> DEFINE r == Row(a, work[a].call, FALSE, NoResult)
<1>1. TellerShape /\ work[a].at = "sent"
  BY DEF SaidInv, Fail
<1>2. r.session = work[a].session /\ r.call = work[a].call /\ r.ok = FALSE
  BY DEF Row
<1>3. log' = Append(log, r) /\ Report(log', a, work[a].session, work[a].call) /\ current' = current
  BY DEF Fail, Fails
<1>4. /\ \A s, c : FailsIn(log, s, c)' = IF s = r.session /\ c = r.call THEN FailsIn(log, s, c) \cup {Len(log')}
                                         ELSE FailsIn(log, s, c)
      /\ FailsStay
  BY <1>1, <1>2, <1>3, FailsMore
<1>5. \A s, c : Unreported(s, c)' = Unreported(s, c)
  <2>1. PICK w : WorkShape(w) /\ w.at # "probing" /\ work' = [work EXCEPT ![a] = w]
    BY <1>1, ThenShape DEF Fail, Reported
  <2> QED BY <1>1, <2>1, UnreportedSame
<1>6. PICK s0, c0 : s0 = work[a].session /\ c0 = work[a].call
  OBVIOUS
<1>7. announced \subseteq announced' /\ (<<s0, c0>> \in announced' \/ Elsewhere(s0, c0)')
  BY <1>3, <1>6, ReportSays
<1> HIDE DEF r
<1>8. ASSUME NEW c \in Call, NEW i \in FailsIn(log, current, c)' \ Unreported(current, c)'
      PROVE  i \in FailsIn(log, current, c) \ Unreported(current, c)
             \/ <<current, c>> \in announced' \/ Elsewhere(current, c)'
  <2>1. PICK s : s = current
    OBVIOUS
  <2>2. i \in FailsIn(log, s, c)' \ Unreported(s, c)'
    BY <1>3, <2>1 DEF FailsIn, FailsOf, Unreported
  <2>3. CASE s = s0 /\ c = c0
    BY <1>3, <1>7, <2>1, <2>3 DEF Elsewhere
  <2>4. CASE s # s0 \/ c # c0
    <3>1. i \in FailsIn(log, s, c) \ Unreported(s, c)
      BY <1>2, <1>4, <1>5, <1>6, <2>2, <2>4
    <3> QED BY <2>1, <3>1
  <2> QED BY <2>3, <2>4
<1> QED BY <1>3, <1>4, <1>7, <1>8, SaidStep

LEMMA SaidTimedOut == ASSUME SaidInv, NEW a \in Agent, TimedOut(a) PROVE Said'
<1> DEFINE r == Row(a, work[a].call, FALSE, NoResult)
           w == [at |-> "probing", session |-> work[a].session, call |-> work[a].call, begun |-> clock, row |-> Len(log')]
<1>1. TellerShape /\ work[a].at = "sent"
  BY DEF SaidInv, TimedOut
<1>2. r.session = work[a].session /\ r.call = work[a].call /\ r.ok = FALSE
  BY DEF Row
<1>3. log' = Append(log, r) /\ current' = current /\ announced' = announced
  BY DEF TimedOut, Fails
<1>4. /\ \A s, c : FailsIn(log, s, c)' = IF s = r.session /\ c = r.call THEN FailsIn(log, s, c) \cup {Len(log')}
                                         ELSE FailsIn(log, s, c)
      /\ FailsStay
  BY <1>1, <1>2, <1>3, FailsMore
<1>5. PICK v : v = w
  OBVIOUS
<1>6. work' = [work EXCEPT ![a] = v] /\ v.at = "probing" /\ v.session = work[a].session /\ v.call = work[a].call
      /\ v.row = Len(log')
  BY <1>5 DEF TimedOut
<1>7. \A s, c : Unreported(s, c)' = IF s = v.session /\ c = v.call THEN Unreported(s, c) \cup {v.row} ELSE Unreported(s, c)
  BY <1>1, <1>6, UnreportedMore
<1> HIDE DEF r, w
<1>8. ASSUME NEW c \in Call, NEW i \in FailsIn(log, current, c)' \ Unreported(current, c)'
      PROVE  i \in FailsIn(log, current, c) \ Unreported(current, c)
  <2>1. PICK s : s = current
    OBVIOUS
  <2>2. i \in FailsIn(log, s, c)' \ Unreported(s, c)'
    BY <1>3, <2>1 DEF FailsIn, FailsOf, Unreported
  <2>3. CASE s = r.session /\ c = r.call
    <3>1. FailsIn(log, s, c)' = FailsIn(log, s, c) \cup {Len(log')} /\ Unreported(s, c)' = Unreported(s, c) \cup {Len(log')}
      BY <1>2, <1>4, <1>6, <1>7, <2>3
    <3> QED BY <2>1, <2>2, <3>1
  <2>4. CASE s # r.session \/ c # r.call
    <3>1. FailsIn(log, s, c)' = FailsIn(log, s, c) /\ Unreported(s, c)' = Unreported(s, c)
      BY <1>2, <1>4, <1>6, <1>7, <2>4
    <3> QED BY <2>1, <2>2, <3>1
  <2> QED BY <2>3, <2>4
<1> QED BY <1>3, <1>4, <1>8, SaidStep

LEMMA RowsApart == Verify \notin Call /\ Shot \notin Call
BY RowsAssumption

LEMMA SaidProbe == ASSUME SaidInv, NEW a \in Agent, ProbeAfter(a) PROVE Said'
<1>1. TellerShape /\ work[a].at = "probing" /\ current' = current
  BY DEF SaidInv, ProbeAfter
<1>2. PICK r : log' = Append(log, r) /\ r.ok = TRUE
  BY DEF ProbeAfter, Row
<1>3. (\A s : \A c \in Call : FailsIn(log, s, c)' = FailsIn(log, s, c)) /\ FailsStay
  BY <1>1, <1>2, FailsSame
<1>4. PICK w : WorkShape(w) /\ w.at # "probing" /\ work' = [work EXCEPT ![a] = w]
  BY <1>1, ThenShape DEF ProbeAfter, Reported
<1>5. PICK s0, c0 : s0 = work[a].session /\ c0 = work[a].call
  OBVIOUS
<1>6. \A s, c : s # s0 \/ c # c0 => Unreported(s, c)' = Unreported(s, c)
  BY <1>1, <1>4, <1>5, UnreportedLess
<1>7. announced \subseteq announced' /\ (<<s0, c0>> \in announced' \/ Elsewhere(s0, c0)')
  BY <1>5, ReportSays DEF ProbeAfter
<1>8. ASSUME NEW c \in Call, NEW i \in FailsIn(log, current, c)' \ Unreported(current, c)'
      PROVE  i \in FailsIn(log, current, c) \ Unreported(current, c)
             \/ <<current, c>> \in announced' \/ Elsewhere(current, c)'
  <2>1. PICK s : s = current
    OBVIOUS
  <2>2. i \in FailsIn(log, s, c)' \ Unreported(s, c)'
    BY <1>1, <2>1 DEF FailsIn, FailsOf, Unreported
  <2>3. CASE s = s0 /\ c = c0
    BY <1>1, <1>7, <2>1, <2>3 DEF Elsewhere
  <2>4. CASE s # s0 \/ c # c0
    <3>1. i \in FailsIn(log, s, c) \ Unreported(s, c)
      BY <1>3, <1>6, <2>2, <2>4
    <3> QED BY <2>1, <3>1
  <2> QED BY <2>3, <2>4
<1> QED BY <1>1, <1>3, <1>7, <1>8, SaidStep

\* A failed step of a replay is reported by nobody.
LEMMA SaidReplay == ASSUME SaidInv, NEW a \in Agent, MacroStep(a) PROVE Said'
<1>1. TellerShape /\ work[a].at = "replay" /\ current' = current /\ announced' = announced
  BY DEF SaidInv, MacroStep
<1>2. \A s, c : Unreported(s, c)' = Unreported(s, c)
  <2>1. PICK w : WorkShape(w) /\ w.at # "probing" /\ work' = [work EXCEPT ![a] = w]
    BY <1>1, StepWork
  <2> QED BY <1>1, <2>1, UnreportedSame
<1>3. PICK r : log' = Append(log, r) /\ r.ok \in BOOLEAN /\ r.macro = 1
  <2>1. log' = Append(log, StepRow(a, TRUE, "done")) \/ log' = Append(log, StepRow(a, FALSE, NoResult))
    BY DEF MacroStep, Fails
  <2>2. \A res : \A ok \in BOOLEAN : StepRow(a, ok, res).ok = ok /\ StepRow(a, ok, res).macro = 1
    BY DEF StepRow, Macro
  <2> QED BY <2>1, <2>2
<1>4. CASE r.ok = TRUE
  BY <1>1, <1>2, <1>3, <1>4, SaidQuiet
<1>5. CASE r.ok = FALSE
  <2>1. /\ \A s, c : FailsIn(log, s, c)' = IF s = r.session /\ c = r.call THEN FailsIn(log, s, c) \cup {Len(log')}
                                           ELSE FailsIn(log, s, c)
        /\ log'[Len(log')] = r /\ FailsStay
    BY <1>1, <1>3, <1>5, FailsMore
  <2>2. ASSUME NEW c \in Call, NEW i \in FailsIn(log, current, c)' \ Unreported(current, c)', log'[i].macro = 0
        PROVE  i \in FailsIn(log, current, c) \ Unreported(current, c)
    <3>1. PICK s : s = current
      OBVIOUS
    <3>2. i \in FailsIn(log, s, c)' \ Unreported(s, c)'
      BY <1>1, <3>1 DEF FailsIn, FailsOf, Unreported
    <3>3. i # Len(log')
      BY <1>3, <2>1, <2>2
    <3>4. i \in FailsIn(log, s, c)
      BY <2>1, <3>2, <3>3
    <3> QED BY <1>2, <3>1, <3>2, <3>4
  <2> QED BY <1>1, <2>1, <2>2, SaidStep
<1> QED BY <1>3, <1>4, <1>5

LEMMA SaidStart == ASSUME SaidInv, StartSession PROVE Said'
<1>1. log' = log /\ current' = sessions + 1 /\ sessions \in Nat /\ \A i \in DOMAIN log : log[i].session \in 1..sessions
  BY DEF SaidInv, TellerShape, StartSession
<1>2. \A c : FailsIn(log, current, c)' = {}
  BY <1>1 DEF FailsIn, FailsOf
<1> QED BY <1>2 DEF Said, ReportedFail

LEMMA SaidOthers ==
  ASSUME SaidInv, NEW a \in Agent, Dispatch(a) \/ Answer(a) \/ Shoot(a) \/ RunMacro(a)
  PROVE  Said'
<1>1. TellerShape /\ current' = current /\ announced' = announced /\ work[a].at # "probing"
  <2>1. TellerShape
    BY DEF SaidInv
  <2>2. work[a] = Resting \/ work[a].at = "sent" \/ work[a].at = "shooting"
    BY DEF Dispatch, Answer, Shoot, RunMacro
  <2>3. current' = current /\ announced' = announced
    BY DEF Dispatch, Answer, Shoot, RunMacro
  <2> QED BY <2>1, <2>2, <2>3, RestingShape
<1>2. log' = log \/ \E r : log' = Append(log, r) /\ (r.ok = TRUE \/ r.call \notin Call)
  <2>1. CASE Dispatch(a) \/ RunMacro(a)
    BY <2>1 DEF Dispatch, RunMacro
  <2>2. CASE Answer(a)
    BY <2>2 DEF Answer, Row
  <2>3. CASE Shoot(a)
    BY <2>3, RowsApart DEF Shoot, Row
  <2> QED BY <2>1, <2>2, <2>3
<1>3. \E w : w.at # "probing" /\ work' = [work EXCEPT ![a] = w]
  BY RestingShape DEF Dispatch, Answer, Shoot, RunMacro, Then
<1> QED BY <1>1, <1>2, <1>3, UnreportedSame, SaidQuiet DEF SaidInv

LEMMA SaidKept == ASSUME SaidInv, [AdviceNext]_adviceVars PROVE Said'
<1>1. CASE Record \/ EditSteps \/ DeleteMacro \/ PollStats \/ UNCHANGED adviceVars
  <2>1. UNCHANGED <<log, current, work, announced>>
    BY <1>1 DEF Record, EditSteps, DeleteMacro, PollStats, adviceVars, adviceState
  <2> QED BY <2>1, SaidQuiet DEF Unreported
<1>2. CASE EndSession
  BY <1>2 DEF EndSession, Said
<1> QED BY <1>1, <1>2, SaidFail, SaidTimedOut, SaidProbe, SaidReplay, SaidStart, SaidOthers DEF AdviceNext

LEMMA SaidInit == ASSUME AdviceInit PROVE SaidInv
BY TellerShapeInit DEF AdviceInit, SaidInv, Said

LEMMA SaidInvariant == AdviceSpec => []SaidInv
<1>1. ASSUME SaidInv, [AdviceNext]_adviceVars PROVE SaidInv'
  BY <1>1, TellerShapeKept, SaidKept DEF SaidInv
<1> QED BY <1>1, SaidInit, PTL DEF AdviceSpec

\* What is counted as all of this session's has failed in no other.
LEMMA EmergentIsOwn ==
  ASSUME NEW q, Sequence(q), NEW s, NEW c \in EmergentIn(q, s)
  PROVE  \A t : t # s => FailsIn(q, t, c) = {}
<1>1. FailsOf(q, c) \subseteq 1..Len(q) /\ Len(q) \in Nat /\ FailsIn(q, s, c) \subseteq FailsOf(q, c)
  BY AppendedRow DEF FailsOf, FailsIn
<1>2. IsFiniteSet(FailsOf(q, c))
  <2>1. IsFiniteSet(1..Len(q))
    BY <1>1, FS_Interval
  <2> QED BY <1>1, <2>1, FS_Subset
<1>3. Cardinality(FailsOf(q, c)) = Cardinality(FailsIn(q, s, c))
  BY DEF EmergentIn
<1>4. FailsIn(q, s, c) = FailsOf(q, c)
  BY <1>1, <1>2, <1>3, FS_Subset
<1> QED BY <1>4 DEF FailsIn

\* What the end of a session calls new was said when it happened, whoever reported what in which order: for any callers
\* and lengths of a run (liveEmergentFriction, emergentFrictionForSession).
THEOREM EndRepeatsWhatWasSaid == AdviceSpec => EndAgreesWithLive
<1> DEFINE Act == EndSession =>
                    \A c \in EmergentIn(log, current) \cap Call :
                      (\E i \in FailsIn(log, current, c) \ Unreported(current, c) : log[i].macro = 0) => <<current, c>> \in announced
<1>1. ASSUME SaidInv PROVE Act
  <2> SUFFICES ASSUME EndSession, NEW c \in EmergentIn(log, current) \cap Call, ReportedFail(current, c)
               PROVE  <<current, c>> \in announced
    BY DEF ReportedFail
  <2>1. Sequence(log)
    BY <1>1 DEF SaidInv, TellerShape
  <2>2. PICK q, s : q = log /\ s = current
    OBVIOUS
  <2>3. \A t : t # s => FailsIn(q, t, c) = {}
    BY <2>1, <2>2, EmergentIsOwn
  <2>4. ~Elsewhere(current, c)
    BY <2>2, <2>3 DEF Elsewhere
  <2> QED BY <1>1, <2>4 DEF SaidInv, Said, EndSession
<1>2. SaidInv => [Act]_adviceVars
  BY <1>1
<1>3. [][Act]_adviceVars <=> EndAgreesWithLive
  BY DEF EndAgreesWithLive
<1> HIDE DEF Act
<1> QED BY <1>2, <1>3, SaidInvariant, PTL DEF AdviceSpec

-----------------------------------------------------------------------------
\* The notices: of sessions that there have been, those not yet delivered all of the one under way, and no more than the
\* cap.
Notice(n) == [session : 1..n, call : Call, from : Agent]

NoticesShape ==
  /\ pending \in [Agent -> Seq(Notice(sessions))] /\ heard \in [Agent -> Seq(Notice(sessions))]
  /\ \A b \in Agent : /\ Len(pending[b]) <= NoticeCap
                      /\ \A i \in 1..Len(pending[b]) : pending[b][i].session = current

\* Of what an agent has heard and will hear: the notices of a call; the cap's number of a session in a row.
ToldIn(q, s, c) == {i \in DOMAIN q : q[i].session = s /\ q[i].call = c}
CrowdIn(q, s) == \E k \in Nat : k + NoticeCap <= Len(q) /\ \A j \in k + 1..k + NoticeCap : q[j].session = s
Excused(b, s) == s # current \/ CrowdIn(Notices(b), s)

HearShape == TellerShape /\ NoticesShape

LEMMA Joined ==
  ASSUME NEW n, NEW h \in Seq(Notice(n)), NEW p \in Seq(Notice(n))
  PROVE  /\ Len(h) \in Nat /\ Len(p) \in Nat
         /\ h \o p \in Seq(Notice(n)) /\ Len(h \o p) = Len(h) + Len(p) /\ DOMAIN (h \o p) = 1..Len(h) + Len(p)
         /\ \A i \in 1..Len(h) : (h \o p)[i] = h[i]
         /\ \A i \in 1..Len(p) : (h \o p)[Len(h) + i] = p[i]
<1>1. Len(h) \in Nat /\ Len(p) \in Nat
  BY LenProperties
<1>2. /\ h \o p \in Seq(Notice(n)) /\ Len(h \o p) = Len(h) + Len(p)
      /\ \A i \in 1..Len(h) + Len(p) : (h \o p)[i] = IF i <= Len(h) THEN h[i] ELSE p[i - Len(h)]
  BY ConcatProperties
<1>3. DOMAIN (h \o p) = 1..Len(h \o p)
  BY <1>2, LenProperties
<1>4. ASSUME NEW i \in 1..Len(h) PROVE (h \o p)[i] = h[i]
  <2>1. i \in 1..Len(h) + Len(p) /\ i <= Len(h)
    BY <1>1
  <2> QED BY <1>2, <2>1
<1>5. ASSUME NEW i \in 1..Len(p) PROVE (h \o p)[Len(h) + i] = p[i]
  <2>1. Len(h) + i \in 1..Len(h) + Len(p) /\ ~(Len(h) + i <= Len(h)) /\ Len(h) + i - Len(h) = i
    BY <1>1
  <2> QED BY <1>2, <2>1
<1> QED BY <1>1, <1>2, <1>3, <1>4, <1>5

\* The session ends: what was not delivered never is.
LEMMA CutTold ==
  ASSUME NEW n, NEW h \in Seq(Notice(n)), NEW p \in Seq(Notice(n)), NEW s, NEW c
  PROVE  ToldIn(h \o <<>>, s, c) = ToldIn(h \o p, s, c) \cap 1..Len(h)
<1>1. h \o <<>> = h /\ DOMAIN h = 1..Len(h)
  BY ConcatEmptySeq, LenProperties
<1>2. 1..Len(h) \subseteq 1..Len(h) + Len(p)
  BY Joined
<1> QED BY <1>1, <1>2, Joined DEF ToldIn

\* A notice is added and the oldest may be pushed out.
Pushed(p, q, x) ==
  /\ \/ /\ Len(p) < NoticeCap /\ Len(q) = Len(p) + 1
        /\ \A i \in 1..Len(p) : q[i] = p[i]
     \/ /\ Len(p) = NoticeCap /\ Len(q) = NoticeCap
        /\ \A i \in 1..Len(p) - 1 : q[i] = p[i + 1]
  /\ q[Len(q)] = x

LEMMA PushedAre ==
  ASSUME NEW n, NEW p \in Seq(Notice(n)), NEW x \in Notice(n), Len(p) <= NoticeCap, NEW q, q = Newest(Append(p, x))
  PROVE  /\ q \in Seq(Notice(n)) /\ Len(p) \in Nat /\ NoticeCap \in Nat \ {0}
         /\ Pushed(p, q, x)
<1> DEFINE r == Append(p, x)
<1>1. /\ r \in Seq(Notice(n)) /\ Len(r) = Len(p) + 1 /\ r[Len(p) + 1] = x /\ Len(p) \in Nat
      /\ \A i \in 1..Len(p) : r[i] = p[i]
  BY AppendProperties, LenProperties
<1>2. NoticeCap \in Nat \ {0}
  BY Times
<1> HIDE DEF r
<1>3. CASE Len(p) < NoticeCap
  <2>1. q = r
    BY <1>1, <1>2, <1>3 DEF Newest, r
  <2> QED BY <1>1, <1>2, <1>3, <2>1 DEF Pushed
<1>4. CASE ~(Len(p) < NoticeCap)
  <2>1. Len(p) = NoticeCap /\ q = SubSeq(r, 2, NoticeCap + 1)
    <3>1. Len(p) = NoticeCap /\ Len(r) > NoticeCap /\ Len(r) - NoticeCap + 1 = 2 /\ Len(r) = NoticeCap + 1
      BY <1>1, <1>2, <1>4
    <3>2. q = Newest(r)
      BY DEF r
    <3> QED BY <3>1, <3>2 DEF Newest
  <2>2. \A i \in 2..NoticeCap + 1 : r[i] \in Notice(n)
    BY <1>1, <1>2, <2>1, ElementOfSeq
  <2>3. /\ q \in Seq(Notice(n)) /\ Len(q) = NoticeCap
        /\ \A i \in 1..NoticeCap : q[i] = r[i + 1]
    <3>1. /\ SubSeq(r, 2, NoticeCap + 1) \in Seq(Notice(n))
          /\ Len(SubSeq(r, 2, NoticeCap + 1)) = (IF 2 <= NoticeCap + 1 THEN NoticeCap + 1 - 2 + 1 ELSE 0)
          /\ \A i \in 1..NoticeCap + 1 - 2 + 1 : SubSeq(r, 2, NoticeCap + 1)[i] = r[2 + i - 1]
      BY <1>2, <2>2, SubSeqProperties
    <3> QED BY <1>2, <2>1, <3>1
  <2>4. \A i \in 1..Len(p) - 1 : i + 1 \in 1..Len(p) /\ i \in 1..NoticeCap
    BY <1>1, <2>1
  <2>5. q[NoticeCap] = x
    BY <1>1, <1>2, <2>1, <2>3
  <2>6. \A i \in 1..Len(p) - 1 : q[i] = p[i + 1]
    BY <1>1, <2>3, <2>4
  <2> QED BY <1>1, <1>2, <2>1, <2>3, <2>5, <2>6 DEF Pushed
<1> QED BY <1>3, <1>4

LEMMA ToldMember ==
  ASSUME NEW u, NEW e, DOMAIN u = 1..e, NEW s, NEW c
  PROVE  \A i : i \in ToldIn(u, s, c) <=> i \in 1..e /\ u[i].session = s /\ u[i].call = c
BY DEF ToldIn

\* A sequence grows at its end; it loses what was at m + 1, of the session of what it gets.
Grown(u, v, x, e) ==
  /\ e \in Nat /\ DOMAIN u = 1..e /\ DOMAIN v = 1..e + 1 /\ v[e + 1] = x
  /\ \A i \in 1..e : v[i] = u[i]
Slid(u, v, x, m, l) ==
  /\ m \in Nat /\ l \in Nat \ {0} /\ DOMAIN u = 1..m + l /\ DOMAIN v = 1..m + l /\ v[m + l] = x
  /\ \A i \in 1..m : v[i] = u[i]
  /\ \A i \in m + 1..m + l - 1 : v[i] = u[i + 1]
  /\ u[m + 1].session = x.session

Added(u, v, x) ==
  /\ ToldIn(u, x.session, x.call) = {} => \E i : ToldIn(v, x.session, x.call) = {i}
  /\ \A s, c : s # x.session \/ c # x.call => ToldIn(v, s, c) = ToldIn(u, s, c)

LEMMA ToldGrown ==
  ASSUME NEW u, NEW v, NEW x, NEW e, Grown(u, v, x, e)
  PROVE  Added(u, v, x)
<1>0. /\ e \in Nat /\ DOMAIN u = 1..e /\ DOMAIN v = 1..e + 1 /\ v[e + 1] = x
      /\ \A i \in 1..e : v[i] = u[i]
  BY DEF Grown
<1>1. 1..e + 1 = 1..e \cup {e + 1} /\ e + 1 \notin 1..e
  BY <1>0
<1>2. ASSUME NEW s, NEW c, NEW i
      PROVE  i \in ToldIn(v, s, c) <=> i \in ToldIn(u, s, c) \/ (i = e + 1 /\ x.session = s /\ x.call = c)
  <2>1. CASE i \in 1..e
    BY <1>0, <1>1, <2>1, ToldMember
  <2>2. CASE i = e + 1
    BY <1>0, <1>1, <2>2, ToldMember
  <2>3. CASE i \notin 1..e + 1
    BY <1>0, <1>1, <2>3, ToldMember
  <2> QED BY <1>1, <2>1, <2>2, <2>3
<1>3. ASSUME ToldIn(u, x.session, x.call) = {} PROVE ToldIn(v, x.session, x.call) = {e + 1}
  <2>1. \A i : i \in ToldIn(v, x.session, x.call) <=> i = e + 1
    BY <1>2, <1>3
  <2> QED BY <2>1
<1>4. ASSUME NEW s, NEW c, s # x.session \/ c # x.call PROVE ToldIn(v, s, c) = ToldIn(u, s, c)
  <2>1. \A i : i \in ToldIn(v, s, c) <=> i \in ToldIn(u, s, c)
    BY <1>2, <1>4
  <2> QED BY <2>1
<1> QED BY <1>3, <1>4 DEF Added

\* None stays none, and one stays one, or is gone if it is of a session of which `crowd` says so.
Stays(u, v, s, c, crowd) ==
  /\ ToldIn(u, s, c) = {} => ToldIn(v, s, c) = {}
  /\ (\E i : ToldIn(u, s, c) = {i}) => (\E i : ToldIn(v, s, c) = {i}) \/ (ToldIn(v, s, c) = {} /\ s = crowd)

LEMMA ToldSlid ==
  ASSUME NEW u, NEW v, NEW x, NEW m, NEW l, Slid(u, v, x, m, l)
  PROVE  /\ ToldIn(u, x.session, x.call) = {} => \E i : ToldIn(v, x.session, x.call) = {i}
         /\ \A s, c : s # x.session \/ c # x.call => Stays(u, v, s, c, x.session)
<1>0. /\ m \in Nat /\ l \in Nat \ {0} /\ DOMAIN u = 1..m + l /\ DOMAIN v = 1..m + l /\ v[m + l] = x
      /\ \A i \in 1..m : v[i] = u[i]
      /\ \A i \in m + 1..m + l - 1 : v[i] = u[i + 1]
      /\ u[m + 1].session = x.session
  BY DEF Slid
<1>1. \A i : i \in 1..m + l <=> i \in 1..m \/ i \in m + 1..m + l - 1 \/ i = m + l
  BY <1>0
<1>2. /\ \A i \in 1..m : i \in 1..m + l /\ i # m + l /\ i # m + 1 /\ i \notin m + 1..m + l - 1
      /\ \A i \in m + 1..m + l - 1 : i + 1 \in 1..m + l /\ i # m + l /\ i + 1 # m + 1 /\ i + 1 \notin 1..m /\ i \notin 1..m
  BY <1>0
<1>3. ASSUME NEW s, NEW c, NEW i
      PROVE  i \in ToldIn(v, s, c) <=> \/ i \in 1..m /\ i \in ToldIn(u, s, c)
                                       \/ i \in m + 1..m + l - 1 /\ i + 1 \in ToldIn(u, s, c)
                                       \/ i = m + l /\ x.session = s /\ x.call = c
  <2>0. /\ \A j : j \in ToldIn(u, s, c) <=> j \in 1..m + l /\ u[j].session = s /\ u[j].call = c
        /\ \A j : j \in ToldIn(v, s, c) <=> j \in 1..m + l /\ v[j].session = s /\ v[j].call = c
    BY <1>0 DEF ToldIn
  <2>1. CASE i \in 1..m
    BY <1>0, <1>1, <1>2, <2>1, ToldMember
  <2>2. CASE i \in m + 1..m + l - 1
    <3>1. i \in 1..m + l /\ i + 1 \in 1..m + l /\ v[i] = u[i + 1] /\ i # m + l /\ i \notin 1..m
      BY <1>0, <1>1, <1>2, <2>2
    <3> QED BY <2>0, <2>2, <3>1
  <2>3. CASE i = m + l
    BY <1>0, <1>1, <1>2, <2>3, ToldMember
  <2>4. CASE i \notin 1..m + l
    BY <1>0, <1>1, <2>4, ToldMember
  <2> QED BY <1>1, <2>1, <2>2, <2>3, <2>4
<1>4. ASSUME ToldIn(u, x.session, x.call) = {} PROVE ToldIn(v, x.session, x.call) = {m + l}
  <2>1. \A i : i \in ToldIn(v, x.session, x.call) <=> i = m + l
    BY <1>3, <1>4
  <2> QED BY <2>1
<1>5. ASSUME NEW s, NEW c, s # x.session \/ c # x.call, ToldIn(u, s, c) = {} PROVE ToldIn(v, s, c) = {}
  BY <1>3, <1>5
<1>6. ASSUME NEW s, NEW c, s # x.session \/ c # x.call, NEW t, ToldIn(u, s, c) = {t}
      PROVE  (\E i : ToldIn(v, s, c) = {i}) \/ (ToldIn(v, s, c) = {} /\ s = x.session)
  <2>1. t \in 1..m + l /\ u[t].session = s
    <3>1. t \in ToldIn(u, s, c)
      BY <1>6
    <3> QED BY <1>0, <3>1, ToldMember
  <2>2. \A i : i \in ToldIn(v, s, c) <=> (i \in 1..m /\ i = t) \/ (i \in m + 1..m + l - 1 /\ i + 1 = t)
    BY <1>3, <1>6
  <2>3. CASE t \in 1..m
    <3>1. \A i : i \in ToldIn(v, s, c) <=> i = t
      BY <1>0, <1>2, <2>2, <2>3
    <3>2. ToldIn(v, s, c) = {t}
      BY <3>1
    <3> QED BY <3>2
  <2>4. CASE t = m + 1
    <3>1. ToldIn(v, s, c) = {}
      BY <1>0, <1>2, <2>2, <2>4
    <3> QED BY <1>0, <2>1, <2>4, <3>1
  <2>5. CASE t > m + 1
    <3>1. t - 1 \in m + 1..m + l - 1 /\ t - 1 + 1 = t /\ t \notin 1..m
      BY <1>0, <2>1, <2>5
    <3>2. \A i \in m + 1..m + l - 1 : i + 1 = t => i = t - 1
      BY <1>0
    <3>3. \A i : i \in ToldIn(v, s, c) <=> i = t - 1
      BY <2>2, <3>1, <3>2
    <3>4. ToldIn(v, s, c) = {t - 1}
      BY <3>3
    <3> QED BY <3>4
  <2>6. t \in 1..m \/ t = m + 1 \/ t > m + 1
    BY <1>0, <2>1
  <2> QED BY <2>3, <2>4, <2>5, <2>6
<1>7. ASSUME NEW s, NEW c, s # x.session \/ c # x.call PROVE Stays(u, v, s, c, x.session)
  <2>1. ToldIn(u, s, c) = {} => ToldIn(v, s, c) = {}
    BY <1>5, <1>7
  <2>2. ASSUME NEW t, ToldIn(u, s, c) = {t}
        PROVE  (\E i : ToldIn(v, s, c) = {i}) \/ (ToldIn(v, s, c) = {} /\ s = x.session)
    BY <1>6, <1>7, <2>2
  <2> QED BY <2>1, <2>2 DEF Stays
<1> QED BY <1>4, <1>7

\* What was heard and what is to be heard, one after the other.
Glued(h, p, u) ==
  /\ Len(h) \in Nat /\ Len(p) \in Nat
  /\ DOMAIN u = 1..Len(h) + Len(p) /\ Len(u) = Len(h) + Len(p)
  /\ \A i \in 1..Len(h) : u[i] = h[i]
  /\ \A i \in 1..Len(p) : u[Len(h) + i] = p[i]

LEMMA GluedAre ==
  ASSUME NEW n, NEW h \in Seq(Notice(n)), NEW p \in Seq(Notice(n)), NEW u, u = h \o p
  PROVE  Glued(h, p, u)
BY Joined DEF Glued

\* What a notice does to those of a call: it adds one to those of its own; of another it takes away none, or the oldest,
\* and then there is a row of the cap's length of its session.
Hearsay(q, u, v, x) ==
  /\ Len(q) <= NoticeCap /\ \A i \in 1..Len(q) : q[i].session = x.session
  /\ ToldIn(u, x.session, x.call) = {} => \E i : ToldIn(v, x.session, x.call) = {i}
  /\ CrowdIn(v, x.session) \/ \A s, c : s # x.session \/ c # x.call => ToldIn(v, s, c) = ToldIn(u, s, c)
  /\ \A s, c : s # x.session \/ c # x.call => Stays(u, v, s, c, x.session)
  /\ CrowdIn(u, x.session) => CrowdIn(v, x.session)

LEMMA PushTold ==
  ASSUME NEW h, NEW p, NEW q, NEW u, NEW v, NEW x, Glued(h, p, u), Glued(h, q, v), Pushed(p, q, x),
         Len(p) <= NoticeCap, \A i \in 1..Len(p) : p[i].session = x.session
  PROVE  Hearsay(q, u, v, x)
<1> DEFINE m == Len(h)
           l == Len(p)
<1>1. /\ l \in Nat /\ NoticeCap \in Nat \ {0}
      /\ \/ /\ l < NoticeCap /\ Len(q) = l + 1
            /\ \A i \in 1..l : q[i] = p[i]
         \/ /\ l = NoticeCap /\ Len(q) = NoticeCap
            /\ \A i \in 1..l - 1 : q[i] = p[i + 1]
      /\ q[Len(q)] = x
  BY Times DEF Pushed, Glued
<1>2. /\ m \in Nat /\ DOMAIN u = 1..m + l /\ Len(u) = m + l
      /\ \A i \in 1..m : u[i] = h[i]
      /\ \A i \in 1..l : u[m + i] = p[i]
  BY DEF Glued
<1>3. /\ DOMAIN v = 1..m + Len(q) /\ Len(v) = m + Len(q) /\ Len(q) \in Nat \ {0}
      /\ \A i \in 1..m : v[i] = h[i]
      /\ \A i \in 1..Len(q) : v[m + i] = q[i]
  BY <1>1 DEF Glued
<1> HIDE DEF m, l
<1>4. \A i \in 1..Len(q) : q[i].session = x.session
  <2> SUFFICES ASSUME NEW i \in 1..Len(q) PROVE q[i].session = x.session
    OBVIOUS
  <2>1. CASE i = Len(q)
    BY <1>1, <2>1
  <2>2. CASE i # Len(q)
    <3>1. (i \in 1..l /\ q[i] = p[i]) \/ (i + 1 \in 1..l /\ q[i] = p[i + 1])
      BY <1>1, <2>2
    <3> QED BY <3>1 DEF l
  <2> QED BY <2>1, <2>2
<1>5. v[m + Len(q)] = x
  BY <1>1, <1>3
<1>6. CASE l < NoticeCap /\ Len(q) = l + 1 /\ \A i \in 1..l : q[i] = p[i]
  <2>1. ASSUME NEW i \in 1..m + l PROVE v[i] = u[i]
    <3>1. CASE i \in 1..m
      BY <1>2, <1>3, <3>1
    <3>2. CASE i \notin 1..m
      <4>1. PICK j \in 1..l : i = m + j
        <5>1. i - m \in 1..l /\ i = m + (i - m)
          BY <1>1, <1>2, <3>2
        <5> QED BY <5>1
      <4>2. j \in 1..Len(q) /\ q[j] = p[j]
        BY <1>1, <1>6
      <4> QED BY <1>2, <1>3, <4>1, <4>2
    <3> QED BY <3>1, <3>2
  <2>2. m + l \in Nat /\ DOMAIN v = 1..m + l + 1 /\ v[m + l + 1] = x /\ Len(v) = m + l + 1
    BY <1>1, <1>2, <1>3, <1>5, <1>6
  <2>3. /\ ToldIn(u, x.session, x.call) = {} => \E i : ToldIn(v, x.session, x.call) = {i}
        /\ \A s, c : s # x.session \/ c # x.call => ToldIn(v, s, c) = ToldIn(u, s, c)
    <3>1. PICK e : e = m + l
      OBVIOUS
    <3>2. Grown(u, v, x, e)
      BY <1>2, <2>1, <2>2, <3>1 DEF Grown
    <3>3. Added(u, v, x)
      BY <3>2, ToldGrown
    <3> QED BY <3>3 DEF Added
  <2>4. ASSUME CrowdIn(u, x.session) PROVE CrowdIn(v, x.session)
    <3>1. PICK k \in Nat : k + NoticeCap <= m + l /\ \A j \in k + 1..k + NoticeCap : u[j].session = x.session
      BY <1>2, <2>4 DEF CrowdIn
    <3>2. k + NoticeCap <= m + l + 1 /\ \A j \in k + 1..k + NoticeCap : j \in 1..m + l
      BY <1>1, <1>2, <3>1
    <3>3. \A j \in k + 1..k + NoticeCap : v[j].session = x.session
      BY <2>1, <3>1, <3>2
    <3> QED BY <2>2, <3>2, <3>3 DEF CrowdIn
  <2>5. \A s, c : s # x.session \/ c # x.call => Stays(u, v, s, c, x.session)
    BY <2>3 DEF Stays
  <2>6. Len(q) <= NoticeCap
    BY <1>1, <1>6
  <2>7. ToldIn(u, x.session, x.call) = {} => \E i : ToldIn(v, x.session, x.call) = {i}
    BY <2>3
  <2>8. \A s, c : s # x.session \/ c # x.call => ToldIn(v, s, c) = ToldIn(u, s, c)
    BY <2>3
  <2> QED BY <1>4, <2>4, <2>5, <2>6, <2>7, <2>8 DEF Hearsay
<1>7. CASE l = NoticeCap /\ Len(q) = NoticeCap /\ \A i \in 1..l - 1 : q[i] = p[i + 1]
  <2>1. \A i \in 1..m : v[i] = u[i]
    BY <1>2, <1>3
  <2>2. ASSUME NEW i \in m + 1..m + l - 1 PROVE v[i] = u[i + 1]
    <3>1. PICK j \in 1..l - 1 : i = m + j
      <4>1. i - m \in 1..l - 1 /\ i = m + (i - m)
        BY <1>1, <1>2
      <4> QED BY <4>1
    <3>2. j \in 1..Len(q) /\ j + 1 \in 1..l /\ m + (j + 1) = i + 1
      BY <1>1, <1>2, <1>7, <3>1
    <3>3. v[i] = q[j] /\ u[i + 1] = p[j + 1]
      BY <1>2, <1>3, <3>1, <3>2
    <3> QED BY <1>7, <3>3
  <2>3. l \in Nat \ {0} /\ DOMAIN v = 1..m + l /\ v[m + l] = x
    BY <1>1, <1>3, <1>5, <1>7
  <2>4. u[m + 1].session = x.session
    <3>1. 1 \in 1..l
      BY <2>3
    <3> QED BY <1>2, <3>1 DEF l
  <2>5. /\ ToldIn(u, x.session, x.call) = {} => \E i : ToldIn(v, x.session, x.call) = {i}
        /\ \A s, c : s # x.session \/ c # x.call => Stays(u, v, s, c, x.session)
    <3>1. Slid(u, v, x, m, l)
      BY <1>2, <2>1, <2>2, <2>3, <2>4 DEF Slid
    <3> QED BY <3>1, ToldSlid
  <2>6. CrowdIn(v, x.session)
    <3>2. ASSUME NEW j \in m + 1..m + NoticeCap PROVE v[j].session = x.session
      <4>1. PICK i \in 1..Len(q) : j = m + i
        <5>1. j - m \in 1..Len(q) /\ j = m + (j - m)
          BY <1>1, <1>2, <1>7
        <5> QED BY <5>1
      <4> QED BY <1>3, <1>4, <4>1
    <3>3. m + NoticeCap <= Len(v)
      BY <1>1, <1>2, <1>3, <1>7
    <3> QED BY <1>2, <3>2, <3>3 DEF CrowdIn
  <2>7. Len(q) <= NoticeCap
    BY <1>1, <1>7
  <2>8. ToldIn(u, x.session, x.call) = {} => \E i : ToldIn(v, x.session, x.call) = {i}
    BY <2>5
  <2> QED BY <1>4, <2>5, <2>6, <2>7, <2>8 DEF Hearsay
<1> QED BY <1>1, <1>6, <1>7
-----------------------------------------------------------------------------
\* The books of a call in a session: its failures, those not yet reported, whose each is, what each agent was told of it,
\* and the agents that may have missed it.
IsNth(F, n, i) == i \in F /\ Cardinality({j \in F : j <= i}) = n
Hears(by, b, T, excused) == IF by = b THEN T = {} ELSE (\E i : T = {i}) \/ (T = {} /\ excused)

Balance(F, U, by, T, E) ==
  /\ \A i \in U : \A j \in F : j <= i
  /\ \/ Cardinality(F \ U) < RiskyFails /\ \A b \in Agent : T[b] = {}
     \/ \E i \in F \ U : IsNth(F, RiskyFails, i) /\ \A b \in Agent : Hears(by[i], b, T[b], b \in E)

\* What is told of a call when nothing is reported of it.
ToldKept(T, V, e, f) ==
  /\ T = {} => V = {}
  /\ (\E i : T = {i}) => (\E i : V = {i}) \/ (V = {} /\ f)
  /\ e => f

LEMMA HearsKept ==
  ASSUME NEW by, NEW b, NEW T, NEW V, NEW e, NEW f, ToldKept(T, V, e, f), Hears(by, b, T, e)
  PROVE  Hears(by, b, V, f)
BY Zenon DEF ToldKept, Hears

LEMMA UpTo == ASSUME NEW F, IsFiniteSet(F), NEW i, NEW R, R = {j \in F : j <= i} PROVE IsFiniteSet(R) /\ Cardinality(R) \in Nat
<1>1. R \subseteq F
  OBVIOUS
<1>2. IsFiniteSet(R)
  BY <1>1, FS_Subset
<1> QED BY <1>2, FS_CardinalityType

LEMMA BalanceKept ==
  ASSUME NEW F, NEW U, NEW by, NEW by2, NEW T, NEW T2, NEW E, NEW E2, Balance(F, U, by, T, E),
         \A i \in F : by2[i] = by[i], \A b \in Agent : ToldKept(T[b], T2[b], b \in E, b \in E2)
  PROVE  Balance(F, U, by2, T2, E2)
<1>1. CASE Cardinality(F \ U) < RiskyFails /\ \A b \in Agent : T[b] = {}
  <2>1. \A b \in Agent : T2[b] = {}
    BY <1>1 DEF ToldKept
  <2> QED BY <1>1, <2>1 DEF Balance
<1>2. CASE \E i \in F \ U : IsNth(F, RiskyFails, i) /\ \A b \in Agent : Hears(by[i], b, T[b], b \in E)
  <2>1. PICK i \in F \ U : IsNth(F, RiskyFails, i) /\ \A b \in Agent : Hears(by[i], b, T[b], b \in E)
    BY <1>2
  <2>2. ASSUME NEW b \in Agent PROVE Hears(by2[i], b, T2[b], b \in E2)
    BY <2>1, HearsKept
  <2> QED BY <2>1, <2>2 DEF Balance
<1> QED BY <1>1, <1>2 DEF Balance

\* A failure whose report is to come.
LEMMA BalanceLater ==
  ASSUME NEW F, F \subseteq Nat, NEW by, NEW by2, NEW T, NEW T2, NEW E, NEW E2, Balance(F, {}, by, T, E),
         \A i \in F : by2[i] = by[i], \A b \in Agent : ToldKept(T[b], T2[b], b \in E, b \in E2),
         NEW k \in Nat, \A j \in F : j < k, NEW F2, F2 = F \cup {k}
  PROVE  Balance(F2, {k}, by2, T2, E2)
<1>1. Balance(F, {}, by2, T2, E2)
  BY BalanceKept
<1>2. F2 \ {k} = F \ {} /\ k \notin F
  OBVIOUS
<1>3. \A i \in {k} : \A j \in F2 : j <= i
  OBVIOUS
<1>4. CASE Cardinality(F \ {}) < RiskyFails /\ \A b \in Agent : T2[b] = {}
  BY <1>2, <1>3, <1>4 DEF Balance
<1>5. CASE \E i \in F \ {} : IsNth(F, RiskyFails, i) /\ \A b \in Agent : Hears(by2[i], b, T2[b], b \in E2)
  <2>1. PICK i \in F : IsNth(F, RiskyFails, i) /\ \A b \in Agent : Hears(by2[i], b, T2[b], b \in E2)
    BY <1>5
  <2>2. {j \in F2 : j <= i} = {j \in F : j <= i}
    <3>1. i \in Nat /\ i < k
      BY <2>1
    <3>2. ~(k <= i)
      BY <3>1
    <3> QED BY <3>2
  <2>3. IsNth(F2, RiskyFails, i)
    BY <2>1, <2>2 DEF IsNth
  <2> QED BY <1>2, <1>3, <2>1, <2>3 DEF Balance
<1> QED BY <1>1, <1>4, <1>5 DEF Balance

\* A failure and its report, or the report of one there was: `a` reports failure k.
Reporting(F, U, by, F2, by2, k, a) ==
  /\ F \subseteq Nat /\ IsFiniteSet(F) /\ k \in Nat
  /\ \A j \in F \ U : j < k /\ by2[j] = by[j]
  /\ F = F \ U \/ F = (F \ U) \cup {k}
  /\ F2 = (F \ U) \cup {k} /\ by2[k] = a

Hearing(F2, a, T, T2, E, E2) ==
  /\ Cardinality(F2) = RiskyFails => \A b \in Agent : T[b] = {} => Hears(a, b, T2[b], b \in E2)
  /\ Cardinality(F2) # RiskyFails => \A b \in Agent : ToldKept(T[b], T2[b], b \in E, b \in E2)

LEMMA BalanceReported ==
  ASSUME NEW F, NEW U, NEW by, NEW T, NEW E, Balance(F, U, by, T, E), NEW F2, NEW by2, NEW k, NEW a,
         Reporting(F, U, by, F2, by2, k, a), NEW T2, NEW E2, Hearing(F2, a, T, T2, E, E2)
  PROVE  Balance(F2, {}, by2, T2, E2)
<1>1. PICK R : R = F \ U
  OBVIOUS
<1>2. /\ F \subseteq Nat /\ IsFiniteSet(F) /\ k \in Nat /\ \A j \in R : j < k /\ by2[j] = by[j]
      /\ F = R \/ F = R \cup {k}
      /\ F2 = R \cup {k} /\ by2[k] = a
  BY <1>1 DEF Reporting
<1>3. Cardinality(F2) = RiskyFails => \A b \in Agent : T[b] = {} => Hears(a, b, T2[b], b \in E2)
  BY DEF Hearing
<1>4. Cardinality(F2) # RiskyFails => \A b \in Agent : ToldKept(T[b], T2[b], b \in E, b \in E2)
  BY DEF Hearing
<1>5. k \notin R /\ R \subseteq F /\ R \subseteq Nat /\ F2 \subseteq Nat /\ RiskyFails \in Nat
  <2>1. R \subseteq F /\ R \subseteq Nat /\ F2 \subseteq Nat
    BY <1>1, <1>2
  <2>2. k \notin R
    <3>1. ~(k < k)
      BY <1>2
    <3> QED BY <1>2, <3>1
  <2>3. RiskyFails \in Nat
    BY Times
  <2> QED BY <2>1, <2>2, <2>3
<1>6. IsFiniteSet(R) /\ IsFiniteSet(F2) /\ Cardinality(R) \in Nat /\ Cardinality(F2) = Cardinality(R) + 1
  BY <1>2, <1>5, FS_Subset, FS_AddElement, FS_CardinalityType
<1>7. ASSUME NEW i \in R PROVE {j \in F : j <= i} = {j \in R : j <= i} /\ {j \in F2 : j <= i} = {j \in R : j <= i}
  BY <1>2, <1>5
<1>8. ASSUME NEW i \in R, IsNth(F, RiskyFails, i) PROVE IsNth(F2, RiskyFails, i) /\ Cardinality(R) >= RiskyFails
  <2>1. Cardinality({j \in R : j <= i}) = RiskyFails /\ IsNth(F2, RiskyFails, i)
    BY <1>7, <1>8, <1>2 DEF IsNth
  <2>2. Cardinality({j \in R : j <= i}) <= Cardinality(R)
    <3>1. {j \in R : j <= i} \subseteq R
      OBVIOUS
    <3> QED BY <1>6, <3>1, FS_Subset
  <2> QED BY <2>1, <2>2
<1>9. Cardinality(R) < RiskyFails => \A b \in Agent : T[b] = {}
  <2> SUFFICES ASSUME Cardinality(R) < RiskyFails PROVE \A b \in Agent : T[b] = {}
    OBVIOUS
  <2>1. ~(Cardinality(R) >= RiskyFails)
    BY <1>5, <1>6
  <2>2. \A i \in R : ~IsNth(F, RiskyFails, i)
    BY <1>8, <2>1
  <2> QED BY <1>1, <2>2 DEF Balance
<1>10. CASE Cardinality(F2) < RiskyFails
  <2>1. \A b \in Agent : T2[b] = {}
    BY <1>4, <1>5, <1>6, <1>9, <1>10 DEF ToldKept
  <2>2. F2 \ {} = F2
    OBVIOUS
  <2> QED BY <1>10, <2>1, <2>2 DEF Balance
<1>11. CASE Cardinality(F2) = RiskyFails
  <2>1. Cardinality(R) < RiskyFails
    BY <1>5, <1>6, <1>11
  <2>2. \A b \in Agent : Hears(a, b, T2[b], b \in E2)
    BY <1>3, <1>9, <1>11, <2>1
  <2>3. {j \in F2 : j <= k} = F2 /\ k \in F2 \ {}
    <3>1. \A j \in F2 : j <= k
      BY <1>2, <1>5
    <3> QED BY <1>2, <3>1
  <2>4. IsNth(F2, RiskyFails, k)
    BY <1>11, <2>3 DEF IsNth
  <2> QED BY <1>2, <2>2, <2>3, <2>4 DEF Balance
<1>12. CASE Cardinality(F2) > RiskyFails
  <2>1. ~(Cardinality(R) < RiskyFails) /\ Cardinality(F2) # RiskyFails
    BY <1>5, <1>6, <1>12
  <2>2. PICK i \in R : IsNth(F, RiskyFails, i) /\ \A b \in Agent : Hears(by[i], b, T[b], b \in E)
    BY <1>1, <2>1 DEF Balance
  <2>3. IsNth(F2, RiskyFails, i) /\ i \in F2 \ {} /\ by2[i] = by[i]
    BY <1>2, <1>8, <2>2
  <2>4. ASSUME NEW b \in Agent PROVE Hears(by2[i], b, T2[b], b \in E2)
    BY <1>4, <2>1, <2>2, <2>3, HearsKept
  <2> QED BY <2>3, <2>4 DEF Balance
<1> QED BY <1>5, <1>6, <1>10, <1>11, <1>12
-----------------------------------------------------------------------------
\* What a step does to the notices of all calls.
HeardKept ==
  \A s \in 1..sessions : \A c \in Call, b \in Agent :
    ToldKept(Told(b, s, c), Told(b, s, c)', Excused(b, s), Excused(b, s)')

LEMMA KeptSame == ASSUME NEW T, NEW e, NEW f, e => f PROVE ToldKept(T, T, e, f)
BY DEF ToldKept

LEMMA KeptCut ==
  ASSUME NEW T, NEW V, V \subseteq T, NEW e, NEW f, f
  PROVE  ToldKept(T, V, e, f)
<1>1. T = {} => V = {}
  OBVIOUS
<1>2. ASSUME NEW t, T = {t} PROVE (\E i : V = {i}) \/ V = {}
  <2>1. V = {t} \/ V = {}
    BY <1>2
  <2> QED BY <2>1
<1> QED BY <1>1, <1>2 DEF ToldKept

\* The same notices, and a session that gave way is not under way again.
LEMMA HeardSame ==
  ASSUME \A b \in Agent : Notices(b)' = Notices(b), \A s \in 1..sessions : s # current => s # current'
  PROVE  HeardKept
<1> SUFFICES ASSUME NEW s \in 1..sessions, NEW c \in Call, NEW b \in Agent
             PROVE  ToldKept(Told(b, s, c), Told(b, s, c)', Excused(b, s), Excused(b, s)')
  BY DEF HeardKept
<1>1. PICK T : T = Told(b, s, c)
  OBVIOUS
<1>2. T = Told(b, s, c)'
  BY <1>1 DEF Told
<1>3. Excused(b, s) => Excused(b, s)'
  BY DEF Excused
<1> QED BY <1>1, <1>2, <1>3, KeptSame

LEMMA NoNotice == ASSUME NEW n PROVE <<>> \in Seq(Notice(n)) /\ Len(<<>>) = 0
BY EmptySeq

LEMMA NoticeMore == ASSUME NEW n \in Nat PROVE Seq(Notice(n)) \subseteq Seq(Notice(n + 1))
<1>1. Notice(n) \subseteq Notice(n + 1)
  BY DEF Notice
<1> QED BY <1>1, SeqMonotonic

LEMMA HearDispatch == ASSUME HearShape, NEW a \in Agent, Dispatch(a) PROVE NoticesShape' /\ HeardKept
<1>1. /\ heard' = [heard EXCEPT ![a] = @ \o pending[a]] /\ pending' = [pending EXCEPT ![a] = <<>>]
      /\ UNCHANGED <<sessions, current>>
  BY DEF Dispatch
<1>2. PICK n : n = sessions
  OBVIOUS
<1>3. /\ pending \in [Agent -> Seq(Notice(n))] /\ heard \in [Agent -> Seq(Notice(n))]
      /\ \A b \in Agent : Len(pending[b]) <= NoticeCap /\ \A i \in 1..Len(pending[b]) : pending[b][i].session = current
  BY <1>2 DEF HearShape, NoticesShape
<1>4. PICK h, p : h = heard[a] /\ p = pending[a]
  OBVIOUS
<1>5. h \in Seq(Notice(n)) /\ p \in Seq(Notice(n))
  BY <1>3, <1>4
<1>6. PICK g : g = h \o p
  OBVIOUS
<1>7. g \in Seq(Notice(n))
  BY <1>5, <1>6, Joined
<1>8. g \o <<>> = g
  BY <1>7, ConcatEmptySeq
<1>9. heard' = [heard EXCEPT ![a] = g]
  BY <1>1, <1>3, <1>4, <1>6
<1>10. NoticesShape'
  <2>1. pending' \in [Agent -> Seq(Notice(n))] /\ heard' \in [Agent -> Seq(Notice(n))]
    BY <1>1, <1>3, <1>7, <1>9, NoNotice
  <2>2. ASSUME NEW b \in Agent
        PROVE  Len(pending'[b]) <= NoticeCap /\ \A i \in 1..Len(pending'[b]) : pending'[b][i].session = current
    <3>1. CASE b = a
      <4>1. pending'[b] = <<>> /\ 1..0 = {} /\ 0 <= NoticeCap
        BY <1>1, <1>3, <3>1, Times
      <4> QED BY <4>1, NoNotice
    <3>2. CASE b # a
      BY <1>1, <1>3, <3>2
    <3> QED BY <3>1, <3>2
  <2> QED BY <1>1, <1>2, <2>1, <2>2 DEF NoticesShape
<1>11. ASSUME NEW b \in Agent PROVE Notices(b)' = Notices(b)
  <2>1. CASE b = a
    <3>1. heard'[b] = g /\ pending'[b] = <<>>
      BY <1>1, <1>3, <1>9, <2>1
    <3> QED BY <1>4, <1>6, <1>8, <2>1, <3>1 DEF Notices
  <2>2. CASE b # a
    BY <1>1, <1>3, <2>2 DEF Notices
  <2> QED BY <2>1, <2>2
<1> QED BY <1>1, <1>10, <1>11, HeardSame
\* The session ends, or gives way: what was not delivered is dropped.
LEMMA HearForget ==
  ASSUME HearShape, pending' = NoQueue, heard' = heard, sessions' \in {sessions, sessions + 1}, current' \notin 1..sessions
  PROVE  NoticesShape' /\ HeardKept
<1>1. PICK n : n = sessions
  OBVIOUS
<1>2. /\ pending \in [Agent -> Seq(Notice(n))] /\ heard \in [Agent -> Seq(Notice(n))] /\ n \in Nat
  BY <1>1 DEF HearShape, NoticesShape, TellerShape
<1>3. NoQueue \in [Agent -> Seq(Notice(n))] /\ \A b \in Agent : NoQueue[b] = <<>>
  BY NoNotice DEF NoQueue
<1>4. NoticesShape'
  <2>1. pending' \in [Agent -> Seq(Notice(sessions'))] /\ heard' \in [Agent -> Seq(Notice(sessions'))]
    BY <1>1, <1>2, <1>3, NoticeMore
  <2>2. \A b \in Agent : Len(pending'[b]) <= NoticeCap /\ 1..Len(pending'[b]) = {}
    <3>1. 0 <= NoticeCap /\ 1..0 = {}
      BY Times
    <3> QED BY <1>3, <3>1, NoNotice
  <2> QED BY <2>1, <2>2 DEF NoticesShape
<1>5. ASSUME NEW s \in 1..sessions, NEW c \in Call, NEW b \in Agent
      PROVE  ToldKept(Told(b, s, c), Told(b, s, c)', Excused(b, s), Excused(b, s)')
  <2>1. PICK h, p : h = heard[b] /\ p = pending[b]
    OBVIOUS
  <2>2. h \in Seq(Notice(n)) /\ p \in Seq(Notice(n))
    BY <1>2, <2>1
  <2>3. ToldIn(h \o <<>>, s, c) = ToldIn(h \o p, s, c) \cap 1..Len(h)
    BY <2>2, CutTold
  <2>4. PICK T, V : T = Told(b, s, c) /\ V = Told(b, s, c)'
    OBVIOUS
  <2>5. T = ToldIn(h \o p, s, c)
    BY <2>1, <2>4 DEF Told, Notices, ToldIn
  <2>6. V = ToldIn(h \o <<>>, s, c)
    <3>1. heard'[b] = h /\ pending'[b] = <<>>
      BY <1>3, <2>1
    <3> QED BY <2>4, <3>1 DEF Told, Notices, ToldIn
  <2>7. V \subseteq T
    BY <2>3, <2>5, <2>6
  <2>8. Excused(b, s)'
    BY DEF Excused
  <2> QED BY <2>4, <2>7, <2>8, KeptCut
<1> QED BY <1>4, <1>5 DEF HeardKept

LEMMA HearStart == ASSUME HearShape, StartSession PROVE NoticesShape' /\ HeardKept
<1>1. sessions \in Nat /\ sessions' = sessions + 1 /\ current' = sessions + 1 /\ heard' = heard /\ current' \notin 1..sessions
  BY DEF StartSession, HearShape, TellerShape
<1>2. CASE current # 0
  <2>1. pending' = NoQueue
    BY <1>2 DEF StartSession, Forget
  <2> QED BY <1>1, <2>1, HearForget
<1>3. CASE current = 0
  <2>1. pending' = pending
    BY <1>3 DEF StartSession
  <2>2. PICK n : n = sessions
    OBVIOUS
  <2>3. pending \in [Agent -> Seq(Notice(n))] /\ heard \in [Agent -> Seq(Notice(n))]
    BY <2>2 DEF HearShape, NoticesShape
  <2>4. ASSUME NEW b \in Agent PROVE Len(pending[b]) <= NoticeCap /\ 1..Len(pending[b]) = {}
    <3>1. Len(pending[b]) \in Nat /\ \A i \in 1..Len(pending[b]) : pending[b][i] \in Notice(n)
      BY <2>3, LenProperties, ElementOfSeq
    <3>2. \A i \in 1..Len(pending[b]) : pending[b][i].session \in 1..n
      BY <3>1 DEF Notice
    <3> QED BY <1>3, <3>2 DEF HearShape, NoticesShape
  <2>5. NoticesShape'
    <3>1. pending' \in [Agent -> Seq(Notice(sessions'))] /\ heard' \in [Agent -> Seq(Notice(sessions'))]
      BY <1>1, <2>1, <2>2, <2>3, NoticeMore
    <3> QED BY <2>1, <2>4, <3>1 DEF NoticesShape
  <2>6. \A b \in Agent : Notices(b)' = Notices(b)
    BY <1>1, <2>1 DEF Notices
  <2>7. \A s \in 1..sessions : s # current => s # current'
    BY <1>1
  <2> QED BY <2>5, <2>6, <2>7, HeardSame
<1> QED BY <1>2, <1>3

LEMMA HearEnd == ASSUME HearShape, EndSession PROVE NoticesShape' /\ HeardKept
<1>1. pending' = NoQueue /\ heard' = heard /\ sessions' = sessions /\ current' = 0
  BY DEF EndSession, Forget
<1>2. current' \notin 1..sessions
  BY <1>1 DEF HearShape, TellerShape
<1> QED BY <1>1, <1>2, HearForget

LEMMA HearQuiet ==
  ASSUME HearShape, UNCHANGED <<pending, heard, sessions, current>>
  PROVE  NoticesShape' /\ HeardKept
<1>1. NoticesShape'
  BY DEF HearShape, NoticesShape
<1>2. \A b \in Agent : Notices(b)' = Notices(b)
  BY DEF Notices
<1> QED BY <1>1, <1>2, HeardSame

\* A notice to one agent.
LEMMA PushKept ==
  ASSUME NEW q, NEW u, NEW v, NEW x, Hearsay(q, u, v, x), NEW t, NEW d, t # x.session \/ d # x.call
  PROVE  ToldKept(ToldIn(u, t, d), ToldIn(v, t, d), t # x.session \/ CrowdIn(u, t), t # x.session \/ CrowdIn(v, t))
<1>1. PICK T, V : T = ToldIn(u, t, d) /\ V = ToldIn(v, t, d)
  OBVIOUS
<1>2. T = {} => V = {}
  BY <1>1 DEF Hearsay, Stays
<1>3. ASSUME NEW i, T = {i} PROVE (\E j : V = {j}) \/ (V = {} /\ (t # x.session \/ CrowdIn(v, t)))
  <2>1. CASE CrowdIn(v, x.session)
    <3>1. (\E j : V = {j}) \/ (V = {} /\ t = x.session)
      BY <1>1, <1>3 DEF Hearsay, Stays
    <3> QED BY <2>1, <3>1
  <2>2. CASE \A s, c : s # x.session \/ c # x.call => ToldIn(v, s, c) = ToldIn(u, s, c)
    <3>1. V = T
      BY <1>1, <2>2
    <3> QED BY <1>3, <3>1
  <2> QED BY <2>1, <2>2 DEF Hearsay
<1>4. t # x.session \/ CrowdIn(u, t) => t # x.session \/ CrowdIn(v, t)
  <2>1. CrowdIn(u, x.session) => CrowdIn(v, x.session)
    BY DEF Hearsay
  <2> QED BY <2>1
<1> QED BY <1>1, <1>2, <1>3, <1>4 DEF ToldKept
\* What a report does: of its own call the others hear if it is of the session under way, or may never hear.
ReportHeard(a, s, c) ==
  /\ \A t \in 1..sessions : \A d \in Call, b \in Agent :
       t # s \/ d # c \/ Cardinality(FailsIn(log, s, c)') # RiskyFails
         => ToldKept(Told(b, t, d), Told(b, t, d)', Excused(b, t), Excused(b, t)')
  /\ Cardinality(FailsIn(log, s, c)') = RiskyFails
       => \A b \in Agent : Told(b, s, c) = {} => Hears(a, b, Told(b, s, c)', Excused(b, s)')

LEMMA HearReport ==
  ASSUME HearShape, NEW a \in Agent, NEW s \in 1..sessions, NEW c \in Call, Report(log', a, s, c),
         UNCHANGED <<heard, sessions, current>>
  PROVE  NoticesShape' /\ ReportHeard(a, s, c)
<1>1. PICK many : many <=> Cardinality(FailsIn(log, s, c)') = RiskyFails
  OBVIOUS
<1>2. Crossed(log', s, c) <=> many
  BY <1>1 DEF Crossed, FailsIn, FailsOf
<1>3. CASE ~(s = current /\ many)
  <2>1. pending' = pending
    BY <1>2, <1>3 DEF Report
  <2>2. NoticesShape' /\ HeardKept
    BY <2>1, HearQuiet
  <2>3. ASSUME many, NEW b \in Agent, Told(b, s, c) = {} PROVE Hears(a, b, Told(b, s, c)', Excused(b, s)')
    <3>1. Notices(b)' = Notices(b) /\ Excused(b, s)'
      BY <1>3, <2>1, <2>3 DEF Notices, Excused
    <3>2. Told(b, s, c)' = {}
      BY <2>3, <3>1 DEF Told
    <3> QED BY <3>1, <3>2 DEF Hears
  <2>4. ASSUME NEW t \in 1..sessions, NEW d \in Call, NEW b \in Agent
        PROVE  ToldKept(Told(b, t, d), Told(b, t, d)', Excused(b, t), Excused(b, t)')
    BY <2>2 DEF HeardKept
  <2> QED BY <1>1, <2>2, <2>3, <2>4 DEF ReportHeard
<1>4. CASE s = current /\ many
  <2>1. PICK x : x = [session |-> s, call |-> c, from |-> a]
    OBVIOUS
  <2>2. pending' = [b \in Agent |-> IF b = a THEN pending[b] ELSE Newest(Append(pending[b], x))]
    BY <1>2, <1>4, <2>1 DEF Report
  <2>3. PICK n : n = sessions
    OBVIOUS
  <2>4. /\ pending \in [Agent -> Seq(Notice(n))] /\ heard \in [Agent -> Seq(Notice(n))] /\ x \in Notice(n)
        /\ x.session = s /\ x.call = c /\ s = current
        /\ \A b \in Agent : Len(pending[b]) <= NoticeCap /\ \A i \in 1..Len(pending[b]) : pending[b][i].session = x.session
    BY <1>4, <2>1, <2>3 DEF HearShape, NoticesShape, Notice
  <2>5. ASSUME NEW b \in Agent, b # a
        PROVE  /\ pending'[b] \in Seq(Notice(n))
               /\ Hearsay(pending'[b], Notices(b), Notices(b)', x)
    <3>1. PICK h, p, q, u, v : h = heard[b] /\ p = pending[b] /\ q = pending'[b] /\ u = Notices(b) /\ v = Notices(b)'
      OBVIOUS
    <3>2. q = Newest(Append(p, x)) /\ u = h \o p /\ v = h \o q
      BY <2>2, <2>5, <3>1 DEF Notices
    <3>3. /\ h \in Seq(Notice(n)) /\ p \in Seq(Notice(n)) /\ Len(p) <= NoticeCap
          /\ \A i \in 1..Len(p) : p[i].session = x.session
      BY <2>4, <3>1
    <3>4. q \in Seq(Notice(n)) /\ Pushed(p, q, x)
      BY <2>4, <3>2, <3>3, PushedAre
    <3>5. Glued(h, p, u) /\ Glued(h, q, v)
      BY <3>2, <3>3, <3>4, GluedAre
    <3>6. Hearsay(q, u, v, x)
      BY <3>3, <3>4, <3>5, PushTold
    <3> QED BY <3>1, <3>4, <3>6
  <2>6. NoticesShape'
    <3>1. pending' \in [Agent -> Seq(Notice(n))]
      BY <2>2, <2>4, <2>5
    <3>2. ASSUME NEW b \in Agent
          PROVE  Len(pending'[b]) <= NoticeCap /\ \A i \in 1..Len(pending'[b]) : pending'[b][i].session = current
      <4>1. CASE b = a
        BY <2>2, <2>4, <4>1
      <4>2. CASE b # a
        BY <2>4, <2>5, <4>2 DEF Hearsay
      <4> QED BY <4>1, <4>2
    <3> QED BY <2>3, <2>4, <3>1, <3>2 DEF NoticesShape
  <2>7. ASSUME NEW b \in Agent, b = a PROVE Notices(b)' = Notices(b)
    BY <2>2, <2>7 DEF Notices
  <2>8. ASSUME NEW t \in 1..sessions, NEW d \in Call, NEW b \in Agent, t # s \/ d # c
        PROVE  ToldKept(Told(b, t, d), Told(b, t, d)', Excused(b, t), Excused(b, t)')
    <3>1. CASE b = a
      <4>1. Notices(b)' = Notices(b)
        BY <2>7, <3>1
      <4>2. PICK T : T = Told(b, t, d)
        OBVIOUS
      <4>3. T = Told(b, t, d)' /\ (Excused(b, t) => Excused(b, t)')
        BY <4>1, <4>2 DEF Told, Excused
      <4> QED BY <4>2, <4>3, KeptSame
    <3>2. CASE b # a
      <4>1. PICK q, u, v : q = pending'[b] /\ u = Notices(b) /\ v = Notices(b)'
        OBVIOUS
      <4>2. Hearsay(q, u, v, x) /\ (t # x.session \/ d # x.call)
        BY <2>4, <2>5, <2>8, <3>2, <4>1
      <4>3. ToldKept(ToldIn(u, t, d), ToldIn(v, t, d), t # x.session \/ CrowdIn(u, t), t # x.session \/ CrowdIn(v, t))
        BY <4>2, PushKept
      <4>4. Told(b, t, d) = ToldIn(u, t, d) /\ Told(b, t, d)' = ToldIn(v, t, d)
        BY <4>1 DEF Told, ToldIn
      <4>5. /\ Excused(b, t) <=> t # x.session \/ CrowdIn(u, t)
            /\ Excused(b, t)' <=> t # x.session \/ CrowdIn(v, t)
        BY <2>4, <4>1 DEF Excused
      <4> QED BY <4>3, <4>4, <4>5 DEF ToldKept
    <3> QED BY <3>1, <3>2
  <2>9. ASSUME NEW b \in Agent, Told(b, s, c) = {} PROVE Hears(a, b, Told(b, s, c)', Excused(b, s)')
    <3>1. CASE b = a
      <4>1. Told(b, s, c)' = {}
        BY <2>7, <2>9, <3>1 DEF Told
      <4> QED BY <3>1, <4>1 DEF Hears
    <3>2. CASE b # a
      <4>1. PICK q, u, v : q = pending'[b] /\ u = Notices(b) /\ v = Notices(b)'
        OBVIOUS
      <4>2. ToldIn(u, s, c) = {} => \E i : ToldIn(v, s, c) = {i}
        BY <2>4, <2>5, <3>2, <4>1 DEF Hearsay
      <4>3. Told(b, s, c) = ToldIn(u, s, c) /\ Told(b, s, c)' = ToldIn(v, s, c)
        BY <4>1 DEF Told, ToldIn
      <4> QED BY <2>9, <3>2, <4>2, <4>3 DEF Hears
    <3> QED BY <3>1, <3>2
  <2> QED BY <1>1, <1>4, <2>6, <2>8, <2>9 DEF ReportHeard
<1> QED BY <1>3, <1>4
-----------------------------------------------------------------------------
\* The books of all calls that no replay and no failure not yet reported has mixed up, and whose probe is about what.
Books(s, c) ==
  Balance(FailsIn(log, s, c), Unreported(s, c), [i \in DOMAIN log |-> log[i].agent], [b \in Agent |-> Told(b, s, c)],
          {b \in Agent : Excused(b, s)})

BooksKept == \A s \in 1..sessions : \A c \in Call : <<s, c>> \notin mixed => Books(s, c)

OwnFailures ==
  \A a \in Agent : work[a].at = "probing" =>
    /\ work[a].row \in FailsIn(log, work[a].session, work[a].call)
    /\ log[work[a].row].agent = a

HearInv == HearShape /\ OwnFailures /\ BooksKept

\* Where nothing fails and nothing is reported the books stay.
LEMMA BooksSame ==
  ASSUME NEW s, NEW c \in Call, Books(s, c), FailsIn(log, s, c)' = FailsIn(log, s, c), Unreported(s, c)' = Unreported(s, c),
         FailsStay, \A b \in Agent : ToldKept(Told(b, s, c), Told(b, s, c)', Excused(b, s), Excused(b, s)')
  PROVE  Books(s, c)'
<1>1. PICK F, U : F = FailsIn(log, s, c) /\ U = Unreported(s, c)
  OBVIOUS
<1>2. PICK by, by2 : by = [i \in DOMAIN log |-> log[i].agent] /\ by2 = [i \in DOMAIN log' |-> log'[i].agent]
  OBVIOUS
<1>3. PICK T, T2 : T = [b \in Agent |-> Told(b, s, c)] /\ T2 = [b \in Agent |-> Told(b, s, c)']
  OBVIOUS
<1>4. PICK E, E2 : E = {b \in Agent : Excused(b, s)} /\ E2 = {b \in Agent : Excused(b, s)'}
  OBVIOUS
<1>5. Balance(F, U, by, T, E)
  BY <1>1, <1>2, <1>3, <1>4 DEF Books
<1>6. \A i \in F : by2[i] = by[i]
  <2>1. \A i \in F : i \in DOMAIN log /\ i \in DOMAIN log' /\ log'[i] = log[i]
    BY <1>1 DEF FailsStay, FailsIn, FailsOf
  <2> QED BY <1>2, <2>1
<1>7. ASSUME NEW b \in Agent PROVE ToldKept(T[b], T2[b], b \in E, b \in E2)
  <2>1. T[b] = Told(b, s, c) /\ T2[b] = Told(b, s, c)' /\ (b \in E <=> Excused(b, s)) /\ (b \in E2 <=> Excused(b, s)')
    BY <1>3, <1>4
  <2>2. ToldKept(Told(b, s, c), Told(b, s, c)', Excused(b, s), Excused(b, s)')
    OBVIOUS
  <2> QED BY <2>1, <2>2 DEF ToldKept
<1>8. Balance(F, U, by2, T2, E2)
  BY <1>5, <1>6, <1>7, BalanceKept
<1> QED BY <1>1, <1>2, <1>3, <1>4, <1>8 DEF Books

\* A step of a caller that fails nowhere and reports nothing.
LEMMA BooksQuiet ==
  ASSUME HearInv, \A s : \A c \in Call : FailsIn(log, s, c)' = FailsIn(log, s, c), \A s, c : Unreported(s, c)' = Unreported(s, c),
         FailsStay, HeardKept, mixed' = mixed, sessions' = sessions
  PROVE  BooksKept'
<1> SUFFICES ASSUME NEW s \in 1..sessions, NEW c \in Call, <<s, c>> \notin mixed PROVE Books(s, c)'
  BY DEF BooksKept
<1>1. Books(s, c)
  BY DEF HearInv, BooksKept
<1>2. \A b \in Agent : ToldKept(Told(b, s, c), Told(b, s, c)', Excused(b, s), Excused(b, s)')
  BY DEF HeardKept
<1> QED BY <1>1, <1>2, BooksSame

LEMMA OwnKept ==
  ASSUME HearInv, FailsStay, NEW a \in Agent, NEW w, work' = [work EXCEPT ![a] = w], w.at # "probing"
  PROVE  OwnFailures'
<1> SUFFICES ASSUME NEW b \in Agent, work'[b].at = "probing"
             PROVE  work'[b].row \in FailsIn(log, work[b].session, work[b].call)' /\ log'[work'[b].row].agent = b
  BY DEF OwnFailures
<1>1. work'[b] = work[b]
  BY DEF HearInv, HearShape, TellerShape
<1>2. PICK s, c, i : s = work[b].session /\ c = work[b].call /\ i = work[b].row
  OBVIOUS
<1>3. i \in FailsIn(log, s, c) /\ log[i].agent = b /\ c \in Call
  BY <1>1, <1>2, Kinds DEF HearInv, HearShape, OwnFailures
<1>4. i \in FailsIn(log, s, c)' /\ log'[i] = log[i]
  BY <1>3 DEF FailsStay
<1> QED BY <1>1, <1>2, <1>3, <1>4 DEF FailsIn, FailsOf

\* Failures are positions in the log.
LEMMA FailsFinite ==
  ASSUME TellerShape, NEW s, NEW c, NEW F, F = FailsIn(log, s, c)
  PROVE  F \subseteq 1..Len(log) /\ Len(log) \in Nat /\ IsFiniteSet(F) /\ F \subseteq DOMAIN log
<1>1. Len(log) \in Nat /\ DOMAIN log = 1..Len(log)
  BY AppendedRow DEF TellerShape
<1>2. F \subseteq 1..Len(log)
  BY <1>1 DEF FailsIn, FailsOf
<1>3. IsFiniteSet(1..Len(log))
  BY <1>1, FS_Interval
<1> QED BY <1>1, <1>2, <1>3, FS_Subset

LEMMA BooksFail == ASSUME HearInv, NEW a \in Agent, Fail(a) PROVE HearInv'
<1> DEFINE r == Row(a, work[a].call, FALSE, NoResult)
<1>1. HearShape /\ TellerShape /\ work[a].at = "sent" /\ UNCHANGED <<heard, sessions, current>>
  BY DEF HearInv, HearShape, Fail
<1>2. r.session = work[a].session /\ r.call = work[a].call /\ r.ok = FALSE /\ r.agent = a /\ r.macro = 0
  BY DEF Row
<1>3. log' = Append(log, r) /\ Report(log', a, work[a].session, work[a].call)
      /\ mixed' = IF r.macro # 0 \/ Unreported(r.session, r.call) # {} THEN mixed \cup {<<r.session, r.call>>} ELSE mixed
  BY DEF Fail, Fails
<1>4. /\ \A s, c : FailsIn(log, s, c)' = IF s = r.session /\ c = r.call THEN FailsIn(log, s, c) \cup {Len(log')}
                                         ELSE FailsIn(log, s, c)
      /\ log'[Len(log')] = r /\ Len(log') = Len(log) + 1 /\ Len(log) \in Nat
      /\ FailsStay
  BY <1>1, <1>2, <1>3, FailsMore
<1>5. PICK w : WorkShape(w) /\ w.at # "probing" /\ work' = [work EXCEPT ![a] = w]
  BY <1>1, ThenShape DEF Fail, Reported
<1>6. \A s, c : Unreported(s, c)' = Unreported(s, c)
  BY <1>1, <1>5, UnreportedSame
<1>7. PICK s0, c0 : s0 = work[a].session /\ c0 = work[a].call
  OBVIOUS
<1>8. s0 \in 1..sessions /\ c0 \in Call
  BY <1>1, <1>7, Kinds
<1>9. NoticesShape' /\ ReportHeard(a, s0, c0)
  BY <1>1, <1>3, <1>7, <1>8, HearReport
<1>10. TellerShape' /\ OwnFailures'
  BY <1>1, <1>4, <1>5, FailShape, OwnKept
<1>11. r.session = s0 /\ r.call = c0 /\ mixed \subseteq mixed' /\ (<<s0, c0>> \notin mixed' => Unreported(s0, c0) = {})
  BY <1>2, <1>3, <1>7
<1> HIDE DEF r
<1>12. ASSUME NEW s \in 1..sessions, NEW c \in Call, <<s, c>> \notin mixed', s # s0 \/ c # c0 PROVE Books(s, c)'
  <2>1. Books(s, c)
    BY <1>11, <1>12 DEF HearInv, BooksKept
  <2>2. FailsIn(log, s, c)' = FailsIn(log, s, c)
    BY <1>4, <1>11, <1>12
  <2>3. \A b \in Agent : ToldKept(Told(b, s, c), Told(b, s, c)', Excused(b, s), Excused(b, s)')
    BY <1>9, <1>12 DEF ReportHeard
  <2> QED BY <1>4, <1>6, <2>1, <2>2, <2>3, BooksSame
<1>13. ASSUME <<s0, c0>> \notin mixed' PROVE Books(s0, c0)'
  <2>1. Books(s0, c0) /\ Unreported(s0, c0) = {} /\ Unreported(s0, c0)' = {}
    BY <1>6, <1>8, <1>11, <1>13 DEF HearInv, BooksKept
  <2>2. PICK F, F2, k : F = FailsIn(log, s0, c0) /\ F2 = FailsIn(log, s0, c0)' /\ k = Len(log')
    OBVIOUS
  <2>3. PICK by, by2 : by = [i \in DOMAIN log |-> log[i].agent] /\ by2 = [i \in DOMAIN log' |-> log'[i].agent]
    OBVIOUS
  <2>4. PICK T, T2 : T = [b \in Agent |-> Told(b, s0, c0)] /\ T2 = [b \in Agent |-> Told(b, s0, c0)']
    OBVIOUS
  <2>5. PICK E, E2 : E = {b \in Agent : Excused(b, s0)} /\ E2 = {b \in Agent : Excused(b, s0)'}
    OBVIOUS
  <2>6. Balance(F, {}, by, T, E)
    BY <2>1, <2>2, <2>3, <2>4, <2>5 DEF Books
  <2>7. F \subseteq 1..Len(log) /\ Len(log) \in Nat /\ IsFiniteSet(F) /\ F \subseteq DOMAIN log
    BY <1>1, <2>2, FailsFinite
  <2>8. F \subseteq Nat /\ k \in Nat /\ (\A j \in F : j < k) /\ F2 = F \cup {k} /\ F = F \ {}
    BY <1>4, <1>11, <2>2, <2>7
  <2>9. (\A i \in F : by2[i] = by[i]) /\ by2[k] = a
    <3>1. \A i \in F2 : i \in DOMAIN log'
      BY <2>2 DEF FailsIn, FailsOf
    <3>2. \A i \in F : i \in DOMAIN log /\ i \in DOMAIN log' /\ log'[i] = log[i]
      BY <1>4, <1>8, <2>2, <2>7, <2>8, <3>1 DEF FailsStay
    <3>3. k \in DOMAIN log' /\ log'[k].agent = a
      BY <1>2, <1>4, <2>2, <2>8, <3>1 DEF r
    <3> QED BY <2>3, <3>2, <3>3
  <2>10. Cardinality(F2) = RiskyFails => \A b \in Agent : T[b] = {} => Hears(a, b, T2[b], b \in E2)
    <3> SUFFICES ASSUME Cardinality(F2) = RiskyFails, NEW b \in Agent, T[b] = {} PROVE Hears(a, b, T2[b], b \in E2)
      OBVIOUS
    <3>1. T2[b] = Told(b, s0, c0)' /\ Told(b, s0, c0) = {} /\ (b \in E2 <=> Excused(b, s0)')
      BY <2>4, <2>5
    <3>2. Hears(a, b, Told(b, s0, c0)', Excused(b, s0)')
      BY <1>9, <2>2, <3>1 DEF ReportHeard
    <3> QED BY <3>1, <3>2 DEF Hears
  <2>11. Cardinality(F2) # RiskyFails => \A b \in Agent : ToldKept(T[b], T2[b], b \in E, b \in E2)
    <3> SUFFICES ASSUME Cardinality(F2) # RiskyFails, NEW b \in Agent PROVE ToldKept(T[b], T2[b], b \in E, b \in E2)
      OBVIOUS
    <3>1. /\ T[b] = Told(b, s0, c0) /\ T2[b] = Told(b, s0, c0)' /\ (b \in E <=> Excused(b, s0))
          /\ (b \in E2 <=> Excused(b, s0)')
      BY <2>4, <2>5
    <3>2. ToldKept(Told(b, s0, c0), Told(b, s0, c0)', Excused(b, s0), Excused(b, s0)')
      BY <1>8, <1>9, <2>2 DEF ReportHeard
    <3> QED BY <3>1, <3>2 DEF ToldKept
  <2>12. Balance(F2, {}, by2, T2, E2)
    <3>1. Reporting(F, {}, by, F2, by2, k, a)
      BY <2>7, <2>8, <2>9 DEF Reporting
    <3>2. Hearing(F2, a, T, T2, E, E2)
      BY <2>10, <2>11 DEF Hearing
    <3> QED BY <2>6, <3>1, <3>2, BalanceReported
  <2> QED BY <2>1, <2>2, <2>3, <2>4, <2>5, <2>12 DEF Books
<1>14. BooksKept'
  <2> SUFFICES ASSUME NEW s \in 1..sessions, NEW c \in Call, <<s, c>> \notin mixed' PROVE Books(s, c)'
    BY <1>1 DEF BooksKept
  <2>1. CASE s = s0 /\ c = c0
    BY <1>13, <2>1 DEF Books, FailsIn, FailsOf, Unreported, Told, Excused, Notices
  <2>2. CASE s # s0 \/ c # c0
    BY <1>12, <2>2
  <2> QED BY <2>1, <2>2
<1> QED BY <1>9, <1>10, <1>14 DEF HearInv, HearShape
LEMMA BooksTimedOut == ASSUME HearInv, NEW a \in Agent, TimedOut(a) PROVE HearInv'
<1> DEFINE r == Row(a, work[a].call, FALSE, NoResult)
           w == [at |-> "probing", session |-> work[a].session, call |-> work[a].call, begun |-> clock, row |-> Len(log')]
<1>1. HearShape /\ TellerShape /\ work[a].at = "sent" /\ UNCHANGED <<heard, pending, sessions, current>>
  BY DEF HearInv, HearShape, TimedOut
<1>2. r.session = work[a].session /\ r.call = work[a].call /\ r.ok = FALSE /\ r.agent = a /\ r.macro = 0
  BY DEF Row
<1>3. log' = Append(log, r)
      /\ mixed' = IF r.macro # 0 \/ Unreported(r.session, r.call) # {} THEN mixed \cup {<<r.session, r.call>>} ELSE mixed
  BY DEF TimedOut, Fails
<1>4. /\ \A s, c : FailsIn(log, s, c)' = IF s = r.session /\ c = r.call THEN FailsIn(log, s, c) \cup {Len(log')}
                                         ELSE FailsIn(log, s, c)
      /\ log'[Len(log')] = r /\ Len(log') = Len(log) + 1 /\ Len(log) \in Nat
      /\ FailsStay
  BY <1>1, <1>2, <1>3, FailsMore
<1>5. PICK v : v = w
  OBVIOUS
<1>6. work' = [work EXCEPT ![a] = v] /\ v.at = "probing" /\ v.session = work[a].session /\ v.call = work[a].call
      /\ v.row = Len(log')
  BY <1>5 DEF TimedOut
<1>7. \A s, c : Unreported(s, c)' = IF s = v.session /\ c = v.call THEN Unreported(s, c) \cup {v.row} ELSE Unreported(s, c)
  BY <1>1, <1>6, UnreportedMore
<1>8. PICK s0, c0 : s0 = work[a].session /\ c0 = work[a].call
  OBVIOUS
<1>9. s0 \in 1..sessions /\ c0 \in Call /\ r.session = s0 /\ r.call = c0 /\ mixed \subseteq mixed'
      /\ (<<s0, c0>> \notin mixed' => Unreported(s0, c0) = {})
  BY <1>1, <1>2, <1>3, <1>8, Kinds
<1>10. NoticesShape' /\ HeardKept /\ TellerShape'
  BY <1>1, HearQuiet, TimedOutShape
<1> HIDE DEF w
<1>11. OwnFailures'
  <2> SUFFICES ASSUME NEW b \in Agent, work'[b].at = "probing"
               PROVE  work'[b].row \in FailsIn(log, work[b].session, work[b].call)' /\ log'[work'[b].row].agent = b
    BY DEF OwnFailures
  <2>1. PICK s, c, i : s = work'[b].session /\ c = work'[b].call /\ i = work'[b].row
    OBVIOUS
  <2>2. i \in FailsIn(log, s, c)' /\ log'[i].agent = b
    <3>1. CASE b = a
      <4>1. s = s0 /\ c = c0 /\ i = Len(log')
        BY <1>1, <1>6, <1>8, <2>1, <3>1 DEF TellerShape
      <4> QED BY <1>2, <1>4, <1>9, <3>1, <4>1
    <3>2. CASE b # a
      <4>1. work'[b] = work[b]
        BY <1>1, <1>6, <3>2 DEF TellerShape
      <4>2. i \in FailsIn(log, s, c) /\ log[i].agent = b /\ c \in Call
        BY <1>1, <2>1, <4>1, Kinds DEF HearInv, OwnFailures
      <4> QED BY <1>4, <4>2 DEF FailsStay
    <3> QED BY <3>1, <3>2
  <2> QED BY <2>1, <2>2 DEF FailsIn, FailsOf
<1> HIDE DEF r
<1>12. ASSUME NEW s \in 1..sessions, NEW c \in Call, <<s, c>> \notin mixed', s # s0 \/ c # c0 PROVE Books(s, c)'
  <2>1. Books(s, c)
    BY <1>9, <1>12 DEF HearInv, BooksKept
  <2>2. FailsIn(log, s, c)' = FailsIn(log, s, c) /\ Unreported(s, c)' = Unreported(s, c)
    BY <1>4, <1>6, <1>7, <1>8, <1>9, <1>12
  <2>3. \A b \in Agent : ToldKept(Told(b, s, c), Told(b, s, c)', Excused(b, s), Excused(b, s)')
    BY <1>10 DEF HeardKept
  <2> QED BY <1>4, <2>1, <2>2, <2>3, BooksSame
<1>13. ASSUME <<s0, c0>> \notin mixed' PROVE Books(s0, c0)'
  <2>1. Books(s0, c0) /\ Unreported(s0, c0) = {}
    BY <1>9, <1>13 DEF HearInv, BooksKept
  <2>2. PICK F, F2, k : F = FailsIn(log, s0, c0) /\ F2 = FailsIn(log, s0, c0)' /\ k = Len(log')
    OBVIOUS
  <2>3. PICK by, by2 : by = [i \in DOMAIN log |-> log[i].agent] /\ by2 = [i \in DOMAIN log' |-> log'[i].agent]
    OBVIOUS
  <2>4. PICK T, T2 : T = [b \in Agent |-> Told(b, s0, c0)] /\ T2 = [b \in Agent |-> Told(b, s0, c0)']
    OBVIOUS
  <2>5. PICK E, E2 : E = {b \in Agent : Excused(b, s0)} /\ E2 = {b \in Agent : Excused(b, s0)'}
    OBVIOUS
  <2>6. Balance(F, {}, by, T, E)
    BY <2>1, <2>2, <2>3, <2>4, <2>5 DEF Books
  <2>7. F \subseteq 1..Len(log) /\ Len(log) \in Nat /\ F \subseteq DOMAIN log
    BY <1>1, <2>2, FailsFinite
  <2>8. F \subseteq Nat /\ k \in Nat /\ (\A j \in F : j < k) /\ F2 = F \cup {k} /\ Unreported(s0, c0)' = {k}
    BY <1>4, <1>6, <1>7, <1>8, <1>9, <2>1, <2>2, <2>7
  <2>9. \A i \in F : by2[i] = by[i]
    <3>1. \A i \in F2 : i \in DOMAIN log'
      BY <2>2 DEF FailsIn, FailsOf
    <3>2. \A i \in F : i \in DOMAIN log /\ i \in DOMAIN log' /\ log'[i] = log[i]
      BY <1>4, <1>9, <2>2, <2>7, <2>8, <3>1 DEF FailsStay
    <3> QED BY <2>3, <3>2
  <2>10. ASSUME NEW b \in Agent PROVE ToldKept(T[b], T2[b], b \in E, b \in E2)
    <3>1. /\ T[b] = Told(b, s0, c0) /\ T2[b] = Told(b, s0, c0)' /\ (b \in E <=> Excused(b, s0))
          /\ (b \in E2 <=> Excused(b, s0)')
      BY <2>4, <2>5
    <3>2. ToldKept(Told(b, s0, c0), Told(b, s0, c0)', Excused(b, s0), Excused(b, s0)')
      BY <1>9, <1>10 DEF HeardKept
    <3> QED BY <3>1, <3>2 DEF ToldKept
  <2>11. Balance(F2, {k}, by2, T2, E2)
    BY <2>6, <2>8, <2>9, <2>10, BalanceLater
  <2> QED BY <2>2, <2>3, <2>4, <2>5, <2>8, <2>11 DEF Books
<1>14. BooksKept'
  <2> SUFFICES ASSUME NEW s \in 1..sessions, NEW c \in Call, <<s, c>> \notin mixed' PROVE Books(s, c)'
    BY <1>1 DEF BooksKept
  <2>1. CASE s = s0 /\ c = c0
    BY <1>13, <2>1 DEF Books, FailsIn, FailsOf, Unreported, Told, Excused, Notices
  <2>2. CASE s # s0 \/ c # c0
    BY <1>12, <2>2
  <2> QED BY <2>1, <2>2
<1> QED BY <1>10, <1>11, <1>14 DEF HearInv, HearShape

LEMMA BooksProbe == ASSUME HearInv, NEW a \in Agent, ProbeAfter(a) PROVE HearInv'
<1>1. HearShape /\ TellerShape /\ work[a].at = "probing" /\ UNCHANGED <<heard, sessions, current, mixed>>
  BY DEF HearInv, HearShape, ProbeAfter
<1>2. PICK r : log' = Append(log, r) /\ r.ok = TRUE
  BY DEF ProbeAfter, Row
<1>3. (\A s : \A c \in Call : FailsIn(log, s, c)' = FailsIn(log, s, c)) /\ FailsStay
  BY <1>1, <1>2, FailsSame
<1>4. PICK w : WorkShape(w) /\ w.at # "probing" /\ work' = [work EXCEPT ![a] = w]
  BY <1>1, ThenShape DEF ProbeAfter, Reported
<1>5. PICK s0, c0, k : s0 = work[a].session /\ c0 = work[a].call /\ k = work[a].row
  OBVIOUS
<1>6. \A s, c : /\ Unreported(s, c)' \subseteq Unreported(s, c)
                /\ s = s0 /\ c = c0 => Unreported(s, c) \subseteq Unreported(s, c)' \cup {k}
                /\ s # s0 \/ c # c0 => Unreported(s, c)' = Unreported(s, c)
  BY <1>1, <1>4, <1>5, UnreportedLess
<1>7. s0 \in 1..sessions /\ c0 \in Call /\ k \in FailsIn(log, s0, c0) /\ log[k].agent = a
  BY <1>1, <1>5, Kinds DEF HearInv, OwnFailures
<1>8. Report(log', a, s0, c0)
  BY <1>5 DEF ProbeAfter
<1>9. NoticesShape' /\ ReportHeard(a, s0, c0)
  BY <1>1, <1>7, <1>8, HearReport
<1>10. TellerShape' /\ OwnFailures'
  BY <1>1, <1>3, <1>4, ProbeShape, OwnKept
<1>11. ASSUME NEW s \in 1..sessions, NEW c \in Call, <<s, c>> \notin mixed, s # s0 \/ c # c0 PROVE Books(s, c)'
  <2>1. Books(s, c)
    BY <1>11 DEF HearInv, BooksKept
  <2>2. FailsIn(log, s, c)' = FailsIn(log, s, c) /\ Unreported(s, c)' = Unreported(s, c)
    BY <1>3, <1>6, <1>11
  <2>3. \A b \in Agent : ToldKept(Told(b, s, c), Told(b, s, c)', Excused(b, s), Excused(b, s)')
    BY <1>9, <1>11 DEF ReportHeard
  <2> QED BY <1>3, <2>1, <2>2, <2>3, BooksSame
<1>12. ASSUME <<s0, c0>> \notin mixed PROVE Books(s0, c0)'
  <2>1. Books(s0, c0)
    BY <1>7, <1>12 DEF HearInv, BooksKept
  <2>2. PICK F, U : F = FailsIn(log, s0, c0) /\ U = Unreported(s0, c0)
    OBVIOUS
  <2>3. PICK by, by2 : by = [i \in DOMAIN log |-> log[i].agent] /\ by2 = [i \in DOMAIN log' |-> log'[i].agent]
    OBVIOUS
  <2>4. PICK T, T2 : T = [b \in Agent |-> Told(b, s0, c0)] /\ T2 = [b \in Agent |-> Told(b, s0, c0)']
    OBVIOUS
  <2>5. PICK E, E2 : E = {b \in Agent : Excused(b, s0)} /\ E2 = {b \in Agent : Excused(b, s0)'}
    OBVIOUS
  <2>6. Balance(F, U, by, T, E)
    BY <2>1, <2>2, <2>3, <2>4, <2>5 DEF Books
  <2>7. F \subseteq 1..Len(log) /\ Len(log) \in Nat /\ IsFiniteSet(F) /\ F \subseteq DOMAIN log /\ FailsIn(log, s0, c0)' = F
    BY <1>1, <1>3, <1>7, <2>2, FailsFinite
  <2>8. k \in U /\ k \in F /\ U \subseteq F
    <3>1. k \in U
      BY <1>1, <1>5, <2>2 DEF Unreported
    <3>2. U \subseteq F
      BY <2>2 DEF Unreported, HearInv, OwnFailures
    <3> QED BY <1>7, <2>2, <3>1, <3>2
  <2>9. U = {k} /\ \A j \in F : j <= k
    <3>1. \A i \in U : \A j \in F : j <= i
      BY <2>6 DEF Balance
    <3>2. \A i \in U : i \in Nat /\ k \in Nat /\ k <= i /\ i <= k
      BY <2>7, <2>8, <3>1
    <3>3. \A i \in U : i = k
      BY <3>2
    <3> QED BY <2>8, <3>1, <3>3
  <2>10. Unreported(s0, c0)' = {}
    <3> SUFFICES ASSUME NEW i, i \in Unreported(s0, c0)' PROVE FALSE
      OBVIOUS
    <3>1. i = k
      <4>1. Unreported(s0, c0)' \subseteq Unreported(s0, c0)
        BY <1>6
      <4>2. i \in U
        BY <2>2, <4>1
      <4> QED BY <2>9, <4>2
    <3>2. PICK b \in Agent : work'[b].at = "probing" /\ work'[b].row = k
      BY <3>1 DEF Unreported
    <3>3. b # a /\ work'[b] = work[b]
      BY <1>1, <1>4, <3>2 DEF TellerShape
    <3>4. log[k].agent = b
      BY <3>2, <3>3 DEF HearInv, OwnFailures
    <3> QED BY <1>7, <3>3, <3>4
  <2>11. Reporting(F, U, by, F, by2, k, a)
    <3>1. F \subseteq Nat /\ k \in Nat /\ \A j \in F \ U : j < k
      BY <2>7, <2>8, <2>9
    <3>2. F = (F \ U) \cup {k}
      BY <2>8, <2>9
    <3>3. \A i \in F : i \in DOMAIN log /\ i \in DOMAIN log' /\ log'[i] = log[i]
      BY <1>3, <1>7, <2>2, <2>7 DEF FailsStay, FailsIn, FailsOf
    <3>4. (\A i \in F : by2[i] = by[i]) /\ by2[k] = a
      BY <1>7, <2>3, <2>8, <3>3
    <3> QED BY <2>7, <3>1, <3>2, <3>4 DEF Reporting
  <2>12. Cardinality(F) = RiskyFails => \A b \in Agent : T[b] = {} => Hears(a, b, T2[b], b \in E2)
    <3> SUFFICES ASSUME Cardinality(F) = RiskyFails, NEW b \in Agent, T[b] = {} PROVE Hears(a, b, T2[b], b \in E2)
      OBVIOUS
    <3>1. T2[b] = Told(b, s0, c0)' /\ Told(b, s0, c0) = {} /\ (b \in E2 <=> Excused(b, s0)')
      BY <2>4, <2>5
    <3>2. Hears(a, b, Told(b, s0, c0)', Excused(b, s0)')
      BY <1>9, <2>7, <3>1 DEF ReportHeard
    <3> QED BY <3>1, <3>2 DEF Hears
  <2>13. Cardinality(F) # RiskyFails => \A b \in Agent : ToldKept(T[b], T2[b], b \in E, b \in E2)
    <3> SUFFICES ASSUME Cardinality(F) # RiskyFails, NEW b \in Agent PROVE ToldKept(T[b], T2[b], b \in E, b \in E2)
      OBVIOUS
    <3>1. /\ T[b] = Told(b, s0, c0) /\ T2[b] = Told(b, s0, c0)' /\ (b \in E <=> Excused(b, s0))
          /\ (b \in E2 <=> Excused(b, s0)')
      BY <2>4, <2>5
    <3>2. ToldKept(Told(b, s0, c0), Told(b, s0, c0)', Excused(b, s0), Excused(b, s0)')
      BY <1>7, <1>9, <2>7 DEF ReportHeard
    <3> QED BY <3>1, <3>2 DEF ToldKept
  <2>14. Hearing(F, a, T, T2, E, E2)
    BY <2>12, <2>13 DEF Hearing
  <2>15. Balance(F, {}, by2, T2, E2)
    BY <2>6, <2>11, <2>14, BalanceReported
  <2> QED BY <2>3, <2>4, <2>5, <2>7, <2>10, <2>15 DEF Books
<1>13. BooksKept'
  <2> SUFFICES ASSUME NEW s \in 1..sessions, NEW c \in Call, <<s, c>> \notin mixed PROVE Books(s, c)'
    BY <1>1 DEF BooksKept
  <2>1. CASE s = s0 /\ c = c0
    BY <1>12, <2>1 DEF Books, FailsIn, FailsOf, Unreported, Told, Excused, Notices
  <2>2. CASE s # s0 \/ c # c0
    BY <1>11, <2>2
  <2> QED BY <2>1, <2>2
<1> QED BY <1>9, <1>10, <1>13 DEF HearInv, HearShape
\* A failed step of a replay is reported by nobody, and mixes up the books of its call.
LEMMA BooksReplay == ASSUME HearInv, NEW a \in Agent, MacroStep(a) PROVE HearInv'
<1>1. HearShape /\ TellerShape /\ work[a].at = "replay" /\ UNCHANGED <<heard, pending, sessions, current>>
  BY DEF HearInv, HearShape, MacroStep
<1>2. PICK w : WorkShape(w) /\ w.at # "probing" /\ work' = [work EXCEPT ![a] = w]
  BY StepWork, <1>1
<1>3. \A s, c : Unreported(s, c)' = Unreported(s, c)
  BY <1>1, <1>2, UnreportedSame
<1>4. NoticesShape' /\ HeardKept /\ TellerShape'
  BY <1>1, HearQuiet, StepShape
<1>5. PICK r : /\ log' = Append(log, r) /\ r.macro = 1
               /\ (r.ok = TRUE /\ mixed' = mixed) \/ (r.ok = FALSE /\ Fails(r))
  <2>1. \/ log' = Append(log, StepRow(a, TRUE, "done")) /\ mixed' = mixed
        \/ log' = Append(log, StepRow(a, FALSE, NoResult)) /\ Fails(StepRow(a, FALSE, NoResult))
    BY DEF MacroStep, Fails
  <2>2. \A res : \A ok \in BOOLEAN : StepRow(a, ok, res).ok = ok /\ StepRow(a, ok, res).macro = 1
    BY DEF StepRow, Macro
  <2> QED BY <2>1, <2>2
<1>6. CASE r.ok = TRUE /\ mixed' = mixed
  <2>1. (\A s : \A c \in Call : FailsIn(log, s, c)' = FailsIn(log, s, c)) /\ FailsStay
    BY <1>1, <1>5, <1>6, FailsSame
  <2>2. BooksKept'
    BY <1>1, <1>3, <1>4, <1>6, <2>1, BooksQuiet
  <2>3. OwnFailures'
    BY <1>2, <2>1, OwnKept
  <2> QED BY <1>4, <2>2, <2>3 DEF HearInv, HearShape
<1>7. CASE r.ok = FALSE /\ Fails(r)
  <2>1. /\ \A s, c : FailsIn(log, s, c)' = IF s = r.session /\ c = r.call THEN FailsIn(log, s, c) \cup {Len(log')}
                                           ELSE FailsIn(log, s, c)
        /\ FailsStay
    BY <1>1, <1>5, <1>7, FailsMore
  <2>2. mixed' = mixed \cup {<<r.session, r.call>>}
    BY <1>5, <1>7 DEF Fails
  <2>3. ASSUME NEW s \in 1..sessions, NEW c \in Call, <<s, c>> \notin mixed' PROVE Books(s, c)'
    <3>1. <<s, c>> \notin mixed /\ (s # r.session \/ c # r.call)
      BY <2>2, <2>3
    <3>2. Books(s, c)
      BY <3>1 DEF HearInv, BooksKept
    <3>3. FailsIn(log, s, c)' = FailsIn(log, s, c)
      BY <2>1, <3>1
    <3>4. \A b \in Agent : ToldKept(Told(b, s, c), Told(b, s, c)', Excused(b, s), Excused(b, s)')
      BY <1>4 DEF HeardKept
    <3> QED BY <1>3, <2>1, <3>2, <3>3, <3>4, BooksSame
  <2>4. OwnFailures'
    BY <1>2, <2>1, OwnKept
  <2>5. BooksKept'
    BY <1>1, <2>3 DEF BooksKept
  <2> QED BY <1>4, <2>4, <2>5 DEF HearInv, HearShape
<1> QED BY <1>5, <1>6, <1>7

LEMMA NoFailuresFinite == Cardinality({}) = 0 /\ RiskyFails > 0
BY FS_EmptySet, Times

LEMMA BooksStart == ASSUME HearInv, StartSession PROVE HearInv'
<1>1. HearShape /\ TellerShape /\ UNCHANGED <<log, work, mixed>> /\ sessions' = sessions + 1 /\ sessions \in Nat
  BY DEF HearInv, HearShape, TellerShape, StartSession
<1>2. NoticesShape' /\ HeardKept /\ TellerShape'
  BY <1>1, HearStart, StartShape
<1>3. OwnFailures'
  BY <1>1 DEF HearInv, OwnFailures, FailsIn, FailsOf
<1>4. FailsStay /\ \A s, c : FailsIn(log, s, c)' = FailsIn(log, s, c) /\ Unreported(s, c)' = Unreported(s, c)
  BY <1>1 DEF FailsStay, FailsIn, FailsOf, Unreported
<1>5. ASSUME NEW s \in 1..sessions, NEW c \in Call, <<s, c>> \notin mixed PROVE Books(s, c)'
  <2>1. Books(s, c)
    BY <1>5 DEF HearInv, BooksKept
  <2>2. \A b \in Agent : ToldKept(Told(b, s, c), Told(b, s, c)', Excused(b, s), Excused(b, s)')
    BY <1>2 DEF HeardKept
  <2> QED BY <1>4, <2>1, <2>2, BooksSame
<1>6. ASSUME NEW s, s = sessions + 1, NEW c \in Call PROVE Books(s, c)'
  <2>1. s \notin 1..sessions
    BY <1>1, <1>6
  <2>2. FailsIn(log, s, c)' = {}
    BY <1>1, <2>1 DEF FailsIn, FailsOf, TellerShape
  <2>3. Unreported(s, c)' = {}
    BY <1>1, <2>1, Kinds DEF Unreported
  <2>4. ASSUME NEW b \in Agent PROVE Told(b, s, c)' = {}
    <3>1. PICK n, h, p, p2 : n = sessions /\ h = heard[b] /\ p = pending[b] /\ p2 = pending'[b]
      OBVIOUS
    <3>2. h \in Seq(Notice(n)) /\ p2 \in Seq(Notice(n)) /\ heard'[b] = h
      <4>1. h \in Seq(Notice(n)) /\ p \in Seq(Notice(n))
        BY <1>1, <3>1 DEF HearShape, NoticesShape
      <4>2. heard'[b] = h
        BY <3>1 DEF StartSession
      <4>3. p2 = p \/ p2 = <<>>
        BY <3>1 DEF StartSession, Forget, NoQueue
      <4> QED BY <4>1, <4>2, <4>3, NoNotice
    <3>3. PICK v : v = h \o p2
      OBVIOUS
    <3>4. v \in Seq(Notice(n))
      BY <3>2, <3>3, Joined
    <3>5. \A i \in DOMAIN v : v[i].session \in 1..n
      <4>1. \A i \in 1..Len(v) : v[i] \in Notice(n)
        BY <3>4, ElementOfSeq
      <4>2. DOMAIN v = 1..Len(v)
        BY <3>4, LenProperties
      <4> QED BY <4>1, <4>2 DEF Notice
    <3>6. \A i \in DOMAIN v : v[i].session # s
      BY <2>1, <3>1, <3>5
    <3>7. Notices(b)' = v
      BY <3>1, <3>2, <3>3 DEF Notices
    <3> QED BY <3>6, <3>7 DEF Told
  <2>5. PICK T2 : T2 = [b \in Agent |-> Told(b, s, c)']
    OBVIOUS
  <2>6. PICK by2, E2 : by2 = [i \in DOMAIN log' |-> log'[i].agent] /\ E2 = {b \in Agent : Excused(b, s)'}
    OBVIOUS
  <2>7. Balance({}, {}, by2, T2, E2)
    <3>1. {} \ {} = {} /\ Cardinality({}) < RiskyFails
      BY NoFailuresFinite, Times
    <3>2. \A b \in Agent : T2[b] = {}
      BY <2>4, <2>5
    <3> QED BY <3>1, <3>2 DEF Balance
  <2> QED BY <2>2, <2>3, <2>5, <2>6, <2>7 DEF Books
<1>7. BooksKept'
  <2> SUFFICES ASSUME NEW s \in 1..sessions', NEW c \in Call, <<s, c>> \notin mixed PROVE Books(s, c)'
    BY <1>1 DEF BooksKept
  <2>1. s \in 1..sessions \/ s = sessions + 1
    BY <1>1
  <2> QED BY <1>5, <1>6, <2>1
<1> QED BY <1>2, <1>3, <1>7 DEF HearInv, HearShape

LEMMA BooksOthers ==
  ASSUME HearInv, NEW a \in Agent, Dispatch(a) \/ Answer(a) \/ Shoot(a) \/ RunMacro(a)
  PROVE  HearInv'
<1>1. HearShape /\ TellerShape /\ mixed' = mixed /\ sessions' = sessions /\ work[a].at # "probing"
  <2>1. HearShape /\ TellerShape
    BY DEF HearInv, HearShape
  <2>2. work[a] = Resting \/ work[a].at = "sent" \/ work[a].at = "shooting"
    BY DEF Dispatch, Answer, Shoot, RunMacro
  <2>3. mixed' = mixed /\ sessions' = sessions
    BY DEF Dispatch, Answer, Shoot, RunMacro
  <2> QED BY <2>1, <2>2, <2>3, RestingShape
<1>2. log' = log \/ \E r : log' = Append(log, r) /\ (r.ok = TRUE \/ r.call \notin Call)
  <2>1. CASE Dispatch(a) \/ RunMacro(a)
    BY <2>1 DEF Dispatch, RunMacro
  <2>2. CASE Answer(a)
    BY <2>2 DEF Answer, Row
  <2>3. CASE Shoot(a)
    BY <2>3, RowsApart DEF Shoot, Row
  <2> QED BY <2>1, <2>2, <2>3
<1>3. PICK w : w.at # "probing" /\ work' = [work EXCEPT ![a] = w]
  BY RestingShape DEF Dispatch, Answer, Shoot, RunMacro, Then
<1>4. (\A s : \A c \in Call : FailsIn(log, s, c)' = FailsIn(log, s, c)) /\ FailsStay
  BY <1>1, <1>2, FailsSame
<1>5. \A s, c : Unreported(s, c)' = Unreported(s, c)
  BY <1>1, <1>3, UnreportedSame
<1>6. NoticesShape' /\ HeardKept
  <2>1. CASE Dispatch(a)
    BY <1>1, <2>1, HearDispatch
  <2>2. CASE Answer(a) \/ Shoot(a) \/ RunMacro(a)
    <3>1. UNCHANGED <<pending, heard, sessions, current>>
      BY <2>2 DEF Answer, Shoot, RunMacro
    <3> QED BY <1>1, <3>1, HearQuiet
  <2> QED BY <2>1, <2>2
<1>7. TellerShape'
  BY <1>1, DispatchShape, AnswerShape, ShootShape, RunMacroShape
<1>8. OwnFailures'
  BY <1>3, <1>4, OwnKept
<1>9. BooksKept'
  BY <1>1, <1>4, <1>5, <1>6, BooksQuiet
<1> QED BY <1>6, <1>7, <1>8, <1>9 DEF HearInv, HearShape

\* Nobody's command: the log, the work and the books stay as they are.
LEMMA BooksIdle ==
  ASSUME HearInv, Record \/ EditSteps \/ DeleteMacro \/ PollStats \/ EndSession \/ UNCHANGED adviceVars
  PROVE  HearInv'
<1>1. HearShape /\ TellerShape
  BY DEF HearInv, HearShape
<1>2. UNCHANGED <<log, work, sessions, mixed, clock>> /\ current' \in {0, current}
  BY DEF Record, EditSteps, DeleteMacro, PollStats, EndSession, adviceVars, adviceState
<1>3. TellerShape'
  BY <1>1, <1>2, QuietShape
<1>4. NoticesShape' /\ HeardKept
  <2>1. CASE EndSession
    BY <1>1, <2>1, HearEnd
  <2>2. CASE Record \/ EditSteps \/ DeleteMacro \/ PollStats \/ UNCHANGED adviceVars
    <3>1. UNCHANGED <<pending, heard, sessions, current>>
      BY <2>2 DEF Record, EditSteps, DeleteMacro, PollStats, adviceVars, adviceState
    <3> QED BY <1>1, <3>1, HearQuiet
  <2> QED BY <2>1, <2>2
<1>5. FailsStay /\ \A s, c : FailsIn(log, s, c)' = FailsIn(log, s, c) /\ Unreported(s, c)' = Unreported(s, c)
  BY <1>2 DEF FailsStay, FailsIn, FailsOf, Unreported
<1>6. BooksKept'
  BY <1>2, <1>4, <1>5, BooksQuiet
<1>7. OwnFailures'
  BY <1>2 DEF HearInv, OwnFailures, FailsIn, FailsOf
<1> QED BY <1>3, <1>4, <1>6, <1>7 DEF HearInv, HearShape

LEMMA HearInit == ASSUME AdviceInit PROVE HearInv
<1>1. TellerShape
  BY TellerShapeInit
<1>2. NoticesShape
  <2>1. pending \in [Agent -> Seq(Notice(sessions))] /\ heard \in [Agent -> Seq(Notice(sessions))]
    BY NoNotice DEF AdviceInit, NoQueue
  <2>2. \A b \in Agent : Len(pending[b]) <= NoticeCap /\ 1..Len(pending[b]) = {}
    <3>1. 0 <= NoticeCap /\ 1..0 = {}
      BY Times
    <3>2. \A b \in Agent : pending[b] = <<>>
      BY DEF AdviceInit, NoQueue
    <3> QED BY <3>1, <3>2, NoNotice
  <2> QED BY <2>1, <2>2 DEF NoticesShape
<1>3. OwnFailures
  BY RestingShape DEF AdviceInit, OwnFailures
<1>4. BooksKept
  BY DEF AdviceInit, BooksKept
<1> QED BY <1>1, <1>2, <1>3, <1>4 DEF HearInv, HearShape

LEMMA HearInvariant == AdviceSpec => []HearInv
<1>1. ASSUME HearInv, [AdviceNext]_adviceVars PROVE HearInv'
  BY <1>1, BooksFail, BooksTimedOut, BooksProbe, BooksReplay, BooksStart, BooksOthers, BooksIdle DEF AdviceNext
<1> QED BY <1>1, HearInit, PTL DEF AdviceSpec
-----------------------------------------------------------------------------
LEMMA NthOne ==
  ASSUME NEW F, F \subseteq Nat, IsFiniteSet(F), NEW n, NEW i, IsNth(F, n, i)
  PROVE  Nth(F, n) = i /\ Cardinality(F) \in Nat /\ n <= Cardinality(F) /\ n \in Nat
<1>1. ASSUME NEW x \in F, NEW y \in F, IsNth(F, n, x), IsNth(F, n, y), x < y PROVE FALSE
  <2>1. PICK X, Y : X = {j \in F : j <= x} /\ Y = {j \in F : j <= y}
    OBVIOUS
  <2>2. X \subseteq Y /\ y \in Y /\ y \notin X
    <3>1. (\A j \in F : j <= x => j <= y) /\ y <= y /\ ~(y <= x)
      BY <1>1
    <3> QED BY <2>1, <3>1
  <2>3. IsFiniteSet(Y)
    BY <2>1, UpTo
  <2>4. Cardinality(X) = n /\ Cardinality(Y) = n
    BY <1>1, <2>1 DEF IsNth
  <2>5. X = Y
    BY <2>2, <2>3, <2>4, FS_Subset
  <2> QED BY <2>2, <2>5
<1>2. \A x \in F : \A y \in F : x < y \/ y < x \/ x = y
  OBVIOUS
<1>3. \A x \in F : IsNth(F, n, x) => x = i
  BY <1>1, <1>2 DEF IsNth
<1>4. Nth(F, n) = i
  <2>1. i \in F /\ Cardinality({j \in F : j <= i}) = n
    BY DEF IsNth
  <2>2. \A x \in F : Cardinality({j \in F : j <= x}) = n => x = i
    BY <1>3 DEF IsNth
  <2> QED BY <2>1, <2>2 DEF Nth
<1>5. Cardinality(F) \in Nat /\ n \in Nat /\ n <= Cardinality(F)
  <2>1. PICK X : X = {j \in F : j <= i}
    OBVIOUS
  <2>2. X \subseteq F /\ Cardinality(X) = n
    BY <2>1 DEF IsNth
  <2>3. IsFiniteSet(X)
    BY <2>2, FS_Subset
  <2> QED BY <2>2, <2>3, FS_Subset, FS_CardinalityType
<1> QED BY <1>4, <1>5

\* As many in a row as the cap are no fewer than the cap.
LEMMA CrowdCounted ==
  ASSUME HearShape, NEW b \in Agent, NEW s, CrowdIn(Notices(b), s)
  PROVE  Crowded(b, s)
<1>1. PICK n, h, p : n = sessions /\ h = heard[b] /\ p = pending[b]
  OBVIOUS
<1>2. h \in Seq(Notice(n)) /\ p \in Seq(Notice(n))
  BY <1>1 DEF HearShape, NoticesShape
<1>3. PICK q : q = h \o p
  OBVIOUS
<1>4. q = Notices(b) /\ DOMAIN q = 1..Len(q) /\ Len(q) \in Nat
  <2>1. q \in Seq(Notice(n))
    BY <1>2, <1>3, Joined
  <2> QED BY <1>1, <1>3, <2>1, LenProperties DEF Notices
<1>5. PICK k \in Nat : k + NoticeCap <= Len(q) /\ \A j \in k + 1..k + NoticeCap : q[j].session = s
  BY <1>4 DEF CrowdIn
<1>6. PICK A, B : A = k + 1..k + NoticeCap /\ B = {i \in DOMAIN q : q[i].session = s}
  OBVIOUS
<1>7. A \subseteq B
  <2>1. \A j \in A : j \in 1..Len(q)
    BY <1>4, <1>5, <1>6, Times
  <2> QED BY <1>4, <1>5, <1>6, <2>1
<1>8. IsFiniteSet(B)
  <2>1. IsFiniteSet(1..Len(q)) /\ B \subseteq 1..Len(q)
    BY <1>4, <1>6, FS_Interval
  <2> QED BY <2>1, FS_Subset
<1>9. Cardinality(A) = NoticeCap
  <2>1. PICK x, y : x = k + 1 /\ y = k + NoticeCap
    OBVIOUS
  <2>2. x \in Int /\ y \in Int /\ ~(x > y) /\ y - x + 1 = NoticeCap
    BY <2>1, Times
  <2>3. Cardinality(x..y) = NoticeCap
    BY <2>2, FS_Interval
  <2> QED BY <1>6, <2>1, <2>3
<1>10. Cardinality(A) <= Cardinality(B) /\ Cardinality(B) \in Nat
  BY <1>7, <1>8, FS_Subset, FS_CardinalityType
<1> QED BY <1>4, <1>6, <1>9, <1>10, Times DEF Crowded

LEMMA BooksHear ==
  ASSUME HearInv
  PROVE  OthersHear
<1> SUFFICES ASSUME NEW s \in 1..sessions, NEW c \in Call, NEW b \in Agent, <<s, c>> \notin mixed,
                    NEW F, F = FailsIn(log, s, c)
             PROVE  IF Cardinality(F) < RiskyFails \/ log[Nth(F, RiskyFails)].agent = b
                    THEN Told(b, s, c) = {}
                    ELSE \/ \E i \in DOMAIN Notices(b) : Told(b, s, c) = {i}
                         \/ Told(b, s, c) = {} /\ (s # current \/ Unreported(s, c) # {} \/ Crowded(b, s))
  BY DEF OthersHear
<1>1. HearShape /\ TellerShape /\ Books(s, c)
  BY DEF HearInv, HearShape, BooksKept
<1>2. F \subseteq Nat /\ IsFiniteSet(F) /\ F \subseteq DOMAIN log
  BY <1>1, FailsFinite
<1>3. PICK U, T : U = Unreported(s, c) /\ T = Told(b, s, c)
  OBVIOUS
<1>4. \/ Cardinality(F \ U) < RiskyFails /\ T = {}
      \/ \E i \in F \ U : IsNth(F, RiskyFails, i) /\ Hears(log[i].agent, b, T, Excused(b, s))
  <2>1. PICK by, TT, E : /\ by = [i \in DOMAIN log |-> log[i].agent] /\ TT = [d \in Agent |-> Told(d, s, c)]
                         /\ E = {d \in Agent : Excused(d, s)}
    OBVIOUS
  <2>2. Balance(F, U, by, TT, E)
    BY <1>1, <1>3, <2>1 DEF Books
  <2>3. TT[b] = T /\ (b \in E <=> Excused(b, s))
    BY <1>3, <2>1
  <2>4. CASE Cardinality(F \ U) < RiskyFails /\ \A d \in Agent : TT[d] = {}
    BY <2>3, <2>4
  <2>5. CASE \E i \in F \ U : IsNth(F, RiskyFails, i) /\ \A d \in Agent : Hears(by[i], d, TT[d], d \in E)
    <3>1. PICK i \in F \ U : IsNth(F, RiskyFails, i) /\ Hears(by[i], b, TT[b], b \in E)
      BY <2>5
    <3>2. by[i] = log[i].agent
      BY <1>2, <2>1, <3>1
    <3>3. Hears(log[i].agent, b, T, Excused(b, s))
      BY <2>3, <3>1, <3>2 DEF Hears
    <3> QED BY <3>1, <3>3
  <2> QED BY <2>2, <2>4, <2>5 DEF Balance
<1>5. CASE Cardinality(F \ U) < RiskyFails /\ T = {}
  <2>1. ASSUME ~(Cardinality(F) < RiskyFails) PROVE U # {}
    <3>1. F \ {} = F
      OBVIOUS
    <3> QED BY <1>5, <2>1, <3>1
  <2> QED BY <1>3, <1>5, <2>1
<1>6. CASE \E i \in F \ U : IsNth(F, RiskyFails, i) /\ Hears(log[i].agent, b, T, Excused(b, s))
  <2>1. PICK i \in F \ U : IsNth(F, RiskyFails, i) /\ Hears(log[i].agent, b, T, Excused(b, s))
    BY <1>6
  <2>2. Nth(F, RiskyFails) = i /\ ~(Cardinality(F) < RiskyFails)
    <3>1. Nth(F, RiskyFails) = i /\ Cardinality(F) \in Nat /\ RiskyFails <= Cardinality(F) /\ RiskyFails \in Nat
      BY <1>2, <2>1, NthOne
    <3> QED BY <3>1
  <2>3. CASE log[i].agent = b
    BY <1>3, <2>1, <2>2, <2>3 DEF Hears
  <2>4. CASE log[i].agent # b
    <3>1. (\E j : T = {j}) \/ (T = {} /\ Excused(b, s))
      BY <2>1, <2>4 DEF Hears
    <3>2. ASSUME NEW j, T = {j} PROVE j \in DOMAIN Notices(b)
      BY <1>3, <3>2 DEF Told
    <3>3. Excused(b, s) => s # current \/ Crowded(b, s)
      BY <1>1, CrowdCounted DEF Excused
    <3> QED BY <1>3, <2>2, <2>4, <3>1, <3>2, <3>3
  <2> QED BY <2>3, <2>4
<1> QED BY <1>4, <1>5, <1>6

\* Of a call that fails often enough in a session every other agent is told once, and of no other, whatever order the
\* failures and their reports come in (queueFrictionBroadcast): for any callers, threshold, cap and length of a run.
THEOREM OthersHearOnce == AdviceSpec => []OthersHear
BY HearInvariant, BooksHear, PTL
=============================================================================

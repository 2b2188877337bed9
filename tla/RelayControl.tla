---------------------------- MODULE RelayControl ----------------------------
(***************************************************************************)
(* Starting, stopping and restarting the relay (relay-control.mjs), the    *)
(* clients that do it on their own (client.mjs: autostart on a refused     *)
(* connection, restart of a stale relay at session start), the relay's     *)
(* own boot, and the registry every relay reaps leaked test relays from.   *)
(*                                                                         *)
(* Three things say where "the relay" is and none of them is locked: the   *)
(* port (owned by one process, the OS sees to that), the pidfile, and the  *)
(* answer to /health.  Callers and relays are separate processes: between  *)
(* any two of their file operations everything may have changed.           *)
(***************************************************************************)
EXTENDS Naturals, FiniteSets

CONSTANTS
  Caller,     \* CLI and MCP processes
  MaxPid,     \* bound: process ids
  Platforms,  \* what process.kill does: subset of {"posix", "win32"}
  Reuse,      \* may the OS give a dead process's id to a new one?
  MaxCalls,   \* bound: operations per caller
  MaxTabs,    \* bound: tabs that may be connected
  MaxEvents,  \* bound: things that happen around the callers (ageing apart)
  None        \* no process

ASSUME CallsAssumption == MaxCalls \in Nat /\ MaxTabs \in Nat /\ MaxEvents \in Nat /\ MaxPid \in Nat \ {0}
ASSUME PlatformAssumption == Platforms \subseteq {"posix", "win32"} /\ Reuse \in BOOLEAN

Pid == 1..MaxPid
ASSUME NoneAssumption == None \notin Pid

VARIABLES
  platform,  \* of this machine
  st,        \* Pid -> state of the process
  what,      \* Pid -> "relay", "test" (a test run's relay), or another program: "foreign" answers HTTP in time,
             \*        "slow" may fail to
  used,      \* ids that have been given out
  sig,       \* processes with a SIGTERM they have not acted on
  owner,     \* the process that listens on the relay's port
  pidfile,   \* the id the pidfile holds
  registry,  \* lines of the relay registry
  snapshot,  \* Pid -> the registry as a booting relay read it
  seen,      \* Pid -> the pidfile as a booting relay read it; `over`, had the stop of its process been reported then?
  stale,     \* relays whose code is older than the disk's
  active,    \* is a session active (in the database)?
  tabs,      \* connected tabs
  call,      \* Caller -> what it is doing
  made,      \* Caller -> calls made
  events,    \* things that have happened around them
  unclean,   \* what "unclean-exit" events report: the pidfiles read, as in seen
  killed,    \* Pid -> how its process died, for the properties
  stopped    \* ids of processes a caller reported stopped, for the properties

procs == <<st, what, used, sig, owner, snapshot, seen, killed, stopped>>
files == <<pidfile, registry, unclean>>
world == <<platform, stale, active, tabs>>
vars == <<platform, st, what, used, sig, owner, pidfile, registry, snapshot, seen, stale, active, tabs, call, made,
          events, unclean, killed, stopped>>

Ops == {"stop", "start", "restart", "session", "request"}
Points == {"idle", "ask", "sent", "resolve", "identify", "kill", "drain", "unlink", "probe", "spawn", "await"}
\* What follows a start: nothing, the retry of a refused request, the session's own request.
Idle == [op |-> "request", at |-> "idle", goal |-> "plain", pid |-> None, retry |-> FALSE, cooled |-> FALSE,
         moved |-> FALSE]
Entries == [pid : Pid, port : {"real", "test"}, old : BOOLEAN]
Alive(p) == st[p] \notin {"none", "gone"}
\* A relay between its start and the end of its listen callback: it answers nothing and handles no signal yet.
Young == {"booting", "bound", "read", "unclean", "write", "register", "scan", "reaping"}
Other == {"foreign", "slow"}
Unread == [pid |-> None, over |-> FALSE]

\* Nothing runs yet, or a relay of older code than the disk does, process 1.
Init ==
  /\ platform \in Platforms /\ what = [p \in Pid |-> "relay"] /\ sig = {} /\ snapshot = [p \in Pid |-> {}]
  /\ seen = [p \in Pid |-> Unread]
  /\ \/ /\ st = [p \in Pid |-> "none"] /\ used = {} /\ owner = None /\ pidfile = None /\ registry = {}
        /\ stale = {} /\ tabs = 0
     \/ /\ st = [p \in Pid |-> IF p = 1 THEN "serving" ELSE "none"] /\ used = {1} /\ owner = 1 /\ pidfile = 1
        /\ registry = {[pid |-> 1, port |-> "real", old |-> FALSE]}
        /\ stale = {1} /\ tabs = 0
  /\ active = FALSE /\ call = [c \in Caller |-> Idle] /\ made = [c \in Caller |-> 0] /\ events = 0
  /\ unclean = {} /\ killed = [p \in Pid |-> "no"] /\ stopped = {}

-----------------------------------------------------------------------------
\* Processes.

Happens == events < MaxEvents /\ events' = events + 1

\* Ids are given out in order; with Reuse also those of the dead.
Fresh == {p \in Pid : ~Alive(p) /\ (used = 1..(p - 1) \/ (Reuse /\ p \in used))}

\* The process of id p ends: its port is free and its tabs lose their sockets.
Ended(p, how) ==
  /\ st' = [st EXCEPT ![p] = "gone"] /\ sig' = sig \ {p} /\ stale' = stale \ {p}
  /\ snapshot' = [snapshot EXCEPT ![p] = {}] /\ seen' = [seen EXCEPT ![p] = Unread]
  /\ killed' = [killed EXCEPT ![p] = how]
  /\ IF owner = p THEN owner' = None /\ tabs' = 0 ELSE UNCHANGED <<owner, tabs>>
  /\ UNCHANGED <<what, used, stopped>>

Born(p, kind, state) ==
  /\ st' = [st EXCEPT ![p] = state] /\ what' = [what EXCEPT ![p] = kind] /\ used' = used \cup {p}
  /\ killed' = [killed EXCEPT ![p] = "no"] /\ stopped' = stopped \ {p}

\* registerRelay appends one line; unregisterRelay rewrites the file without the process's own.
Registered(p, port) == registry \cup {[pid |-> p, port |-> port, old |-> FALSE]}
Unregistered(p) == {e \in registry : e.pid # p}

\* The relay's boot: a port in use is an uncaught error.  The listen callback runs to its end before the relay
\* answers a request, but other processes go on between its file operations.
Listen(p) ==
  /\ st[p] = "booting"
  /\ IF owner # None
     THEN Ended(p, "bind")
     ELSE /\ owner' = p /\ st' = [st EXCEPT ![p] = "bound"]
          /\ UNCHANGED <<what, used, sig, snapshot, seen, stale, tabs, killed, stopped>>
  /\ UNCHANGED <<files, platform, active, call, made, events>>

BootGoes(p, from, to) ==
  /\ st[p] = from /\ st' = [st EXCEPT ![p] = to]
  /\ UNCHANGED <<what, used, sig, owner, killed, stopped, world, call, made, events>>

ReadPrevious(p) ==
  /\ BootGoes(p, "bound", "read") /\ seen' = [seen EXCEPT ![p] = [pid |-> pidfile, over |-> pidfile \in stopped]]
  /\ UNCHANGED <<snapshot, files>>

\* A pidfile left behind by a dead process means the previous relay never ran its clean shutdown.
JudgePrevious(p) ==
  LET left == seen[p].pid \notin {None, p} /\ ~Alive(seen[p].pid)
  IN /\ BootGoes(p, "read", IF left THEN "unclean" ELSE "write")
     /\ seen' = IF left THEN seen ELSE [seen EXCEPT ![p] = Unread]
     /\ UNCHANGED <<snapshot, files>>

RecordUnclean(p) ==
  /\ BootGoes(p, "unclean", "write") /\ unclean' = unclean \cup {seen[p]} /\ seen' = [seen EXCEPT ![p] = Unread]
  /\ UNCHANGED <<snapshot, pidfile, registry>>

WritePidfile(p) ==
  BootGoes(p, "write", "register") /\ pidfile' = p /\ UNCHANGED <<snapshot, seen, registry, unclean>>

Register(p) ==
  /\ BootGoes(p, "register", "scan") /\ registry' = Registered(p, "real")
  /\ UNCHANGED <<snapshot, seen, pidfile, unclean>>

ReadRegistry(p) ==
  /\ BootGoes(p, "scan", "reaping") /\ snapshot' = [snapshot EXCEPT ![p] = registry]
  /\ UNCHANGED <<seen, files>>

\* Leaked: an old line of another port whose process id is alive.
Leaked(e) == e.port # "real" /\ e.old /\ Alive(e.pid)
Kept(entries) == {e \in entries : ~e.old \/ e.port = "real"}

\* The rest of the listen callback: leaked relays are killed (a test relay acts on it at once here) and the
\* registry is written back as it was read, less what was reaped.
Reap(p) ==
  LET doomed == {e.pid : e \in {e \in snapshot[p] : Leaked(e)}}
  IN /\ st[p] = "reaping"
     /\ registry' = Kept(snapshot[p]) /\ snapshot' = [snapshot EXCEPT ![p] = {}]
     /\ st' = [q \in Pid |-> IF q \in doomed THEN "gone" ELSE IF q = p THEN "serving" ELSE st[q]]
     /\ killed' = [q \in Pid |-> IF q \in doomed THEN "reaped" ELSE killed[q]]
     /\ owner' = IF owner \in doomed THEN None ELSE owner
     /\ sig' = sig \ doomed /\ stale' = stale \ doomed /\ tabs' = IF owner \in doomed THEN 0 ELSE tabs
     /\ UNCHANGED <<platform, what, used, seen, stopped, pidfile, active, call, made, events, unclean>>

\* SIGTERM in a process with handlers: a relay removes the pidfile if it is its own, unregisters and exits.  A
\* wedged process does not get to it.
HandleSignal(p) ==
  /\ p \in sig /\ st[p] = "serving"
  /\ Ended(p, "signal")
  /\ IF what[p] \in Other
     THEN UNCHANGED <<pidfile, registry>>
     ELSE pidfile' = (IF pidfile = p THEN None ELSE pidfile) /\ registry' = Unregistered(p)
  /\ UNCHANGED <<platform, active, call, made, events, unclean>>

\* A kill that bypasses every handler, or a crash.
Crash(p) ==
  /\ Happens /\ Alive(p) /\ Ended(p, "crash")
  /\ UNCHANGED <<platform, pidfile, registry, active, call, made, unclean>>

Wedge(p) ==
  /\ Happens /\ p = owner /\ what[p] = "relay" /\ st[p] = "serving" /\ st' = [st EXCEPT ![p] = "wedged"]
  /\ UNCHANGED <<platform, what, used, sig, owner, files, snapshot, seen, stale, active, tabs, call, made, killed, stopped>>

Unwedge(p) ==
  /\ st[p] = "wedged" /\ st' = [st EXCEPT ![p] = "serving"]
  /\ UNCHANGED <<platform, what, used, sig, owner, files, snapshot, seen, stale, active, tabs, call, made, events,
                 killed, stopped>>

\* Another program takes the port, of either kind, and a test run's relay starts on a port of its own.
Foreign(p) ==
  /\ Happens /\ p \in Fresh /\ owner = None /\ owner' = p
  /\ \E kind \in Other : Born(p, kind, "serving")
  /\ UNCHANGED <<platform, sig, files, snapshot, seen, stale, active, tabs, call, made>>

TestRelay(p) ==
  /\ Happens /\ p \in Fresh /\ Born(p, "test", "serving") /\ registry' = Registered(p, "test")
  /\ UNCHANGED <<platform, sig, owner, pidfile, unclean, snapshot, seen, stale, active, tabs, call, made>>

\* REAP_AGE_MS passes; the age of the real relay's lines decides nothing.
Age(e) ==
  /\ e \in registry /\ e.port = "test" /\ ~e.old /\ registry' = (registry \ {e}) \cup {[e EXCEPT !.old = TRUE]}
  /\ UNCHANGED <<procs, pidfile, unclean, world, call, made, events>>

-----------------------------------------------------------------------------
\* The world around: the sources are edited, tabs connect (several at once after a restart), the session ends.

Edit ==
  /\ Happens /\ owner # None /\ what[owner] = "relay" /\ stale' = stale \cup {owner} /\ stale' # stale
  /\ UNCHANGED <<procs, files, platform, active, tabs, call, made>>

\* What a caller learned from /health is overtaken.
Overtaken == [c \in Caller |-> [call[c] EXCEPT !.moved = TRUE]]

TabConnects ==
  /\ Happens /\ owner # None /\ what[owner] = "relay" /\ st[owner] = "serving"
  /\ tabs' \in (tabs + 1)..MaxTabs /\ call' = Overtaken
  /\ UNCHANGED <<procs, files, platform, stale, active, made>>

SessionEnds ==
  /\ Happens /\ active /\ active' = FALSE
  /\ UNCHANGED <<procs, files, platform, stale, tabs, call, made>>

-----------------------------------------------------------------------------
\* Callers.

At(c, point) == call[c].at = point
Goes(c, point) == call' = [call EXCEPT ![c].at = point]
Same == UNCHANGED <<procs, files, world, made, events>>

\* GET /health as healthOk sees it: a wedged, booting or absent relay does not answer in time; another program
\* may answer 200.
HealthAnswers ==
  IF owner = None \/ st[owner] # "serving" THEN {FALSE}
  ELSE IF what[owner] \in Other THEN BOOLEAN ELSE {TRUE}

\* A long-lived caller may have outlived its autostart cooldown.
Begin(c) == \E op \in Ops, cooled \in {call[c].cooled, FALSE} :
  /\ At(c, "idle") /\ made[c] < MaxCalls /\ made' = [made EXCEPT ![c] = @ + 1]
  /\ call' = [call EXCEPT ![c] = [Idle EXCEPT !.op = op, !.cooled = cooled,
       !.goal = IF op = "session" THEN "health" ELSE "plain",
       !.at = CASE op = "start" -> "probe" [] op \in {"stop", "restart"} -> "resolve" [] OTHER -> "ask"]]
  /\ UNCHANGED <<procs, files, world, events>>

\* Where a call goes when its current part is over, well or badly: session start goes on to its own request
\* whatever became of the freshness check; every other call ends.
Left(c) ==
  [call[c] EXCEPT !.at = IF call[c].goal = "health" THEN "ask" ELSE "idle",
                  !.goal = IF call[c].goal = "health" THEN "post" ELSE "plain", !.pid = None, !.retry = FALSE]
Leaves(c) == call' = [call EXCEPT ![c] = Left(c)]

\* request: the connection is refused when nobody listens; then a relay is started, once per cooldown
\* (AUTOSTART_COOLDOWN_MS), and the request is sent again, once.
Ask(c) ==
  /\ At(c, "ask") /\ Same
  /\ IF owner # None
     THEN call' = [call EXCEPT ![c].at = "sent", ![c].pid = owner]
     ELSE IF call[c].retry \/ call[c].cooled THEN Leaves(c)
     ELSE call' = [call EXCEPT ![c].at = "probe", ![c].retry = TRUE, ![c].cooled = TRUE]

\* The freshness check decides on one answer: stale, no session, at most one tab.
MayRestart_blind(c) == call[c].pid \in stale
MayRestart(c) == call[c].pid \in stale /\ ~active /\ tabs <= 1

Answered(c) ==
  /\ At(c, "sent") /\ st[call[c].pid] = "serving"
  /\ IF what[call[c].pid] \in Other THEN Leaves(c) /\ UNCHANGED active
     ELSE CASE call[c].goal = "health" ->
                 /\ UNCHANGED active
                 /\ call' = [call EXCEPT ![c] = [Left(c) EXCEPT !.moved = FALSE,
                       !.at = IF MayRestart(c) THEN "resolve" ELSE "ask",
                       !.goal = IF MayRestart(c) THEN "health" ELSE "post"]]
            [] call[c].goal = "post" ->
                 active' = TRUE /\ call' = [Overtaken EXCEPT ![c] = Left(c)]
            [] OTHER -> UNCHANGED active /\ Leaves(c)
  /\ UNCHANGED <<procs, files, platform, stale, tabs, made, events>>

\* The relay the request was sent to died: the socket is reset, which is no refused connection.
ConnectionLost(c) == At(c, "sent") /\ ~Alive(call[c].pid) /\ Leaves(c) /\ Same

Restarting(c) == call[c].op = "restart" \/ call[c].goal = "health"

\* resolveRelayPid: the pidfile if its process is alive, else whoever owns the port.
Resolve(c) ==
  /\ At(c, "resolve") /\ Same
  /\ IF pidfile # None /\ Alive(pidfile) THEN call' = [call EXCEPT ![c].at = "kill", ![c].pid = pidfile]
     ELSE IF owner # None THEN call' = [call EXCEPT ![c].at = "identify", ![c].pid = owner]
     ELSE IF Restarting(c) THEN Goes(c, "probe") ELSE Leaves(c)

\* Only a process found through the port is asked who it is.  Whatever answers within 1.5 s is refused: the
\* answer is tested unwrapped, and the relay too replies {ok, result}.  What does not answer counts as a wedged
\* relay, also when it is another program.
Answers == owner # None /\ st[owner] = "serving"
Silent == Answers => what[owner] = "slow"

Identify_trusting(c) == At(c, "identify") /\ Same /\ Goes(c, "kill")
Identify(c) == At(c, "identify") /\ Same /\ ((Answers /\ Leaves(c)) \/ (Silent /\ Goes(c, "kill")))

\* On Windows, and where no handler is installed yet, the process is dead at once.
Kill(c) ==
  LET p == call[c].pid
  IN /\ At(c, "kill")
     /\ IF ~Alive(p) THEN Leaves(c) /\ UNCHANGED <<procs, stale, tabs>>
        ELSE /\ Goes(c, "drain")
             /\ IF platform = "win32" \/ st[p] \in Young THEN Ended(p, "stop")
                ELSE sig' = sig \cup {p}
                     /\ UNCHANGED <<st, what, used, owner, snapshot, seen, killed, stopped, stale, tabs>>
     /\ UNCHANGED <<files, platform, active, made, events>>

\* Five seconds for /health to stop answering; then the pidfile goes, whoever wrote it.
Drained(c) ==
  /\ At(c, "drain") /\ Same
  /\ \E ok \in HealthAnswers : IF ok THEN Leaves(c) ELSE Goes(c, "unlink")

Unlink_kept(c) ==
  /\ At(c, "unlink")
  /\ stopped' = stopped \cup {call[c].pid}
  /\ IF Restarting(c) THEN Goes(c, "probe") ELSE Leaves(c)
  /\ UNCHANGED <<st, what, used, sig, owner, snapshot, seen, killed, files, world, made, events>>
Unlink(c) ==
  /\ At(c, "unlink") /\ pidfile' = None
  /\ stopped' = stopped \cup {call[c].pid}
  /\ IF Restarting(c) THEN Goes(c, "probe") ELSE Leaves(c)
  /\ UNCHANGED <<st, what, used, sig, owner, snapshot, seen, killed, registry, unclean, world, made, events>>

\* startRelay: nothing is spawned while something answers.
Probe(c) ==
  /\ At(c, "probe") /\ Same
  /\ \E ok \in HealthAnswers : IF ok THEN Leaves(c) ELSE Goes(c, "spawn")

\* The child, when the OS can start one at all.
Spawn_recorded(c) ==
  /\ At(c, "spawn")
  /\ \E p \in Fresh : Born(p, "relay", "booting") /\ pidfile' = p
                     /\ call' = [call EXCEPT ![c].at = "await", ![c].pid = p]
  /\ UNCHANGED <<sig, owner, registry, unclean, snapshot, seen, world, made, events>>
Spawn(c) ==
  /\ At(c, "spawn")
  /\ \/ \E p \in Fresh : Born(p, "relay", "booting") /\ call' = [call EXCEPT ![c].at = "await", ![c].pid = p]
     \/ Fresh = {} /\ call' = [call EXCEPT ![c].at = "await", ![c].pid = None] /\ UNCHANGED <<st, what, used, killed, stopped>>
  /\ UNCHANGED <<sig, owner, files, snapshot, seen, world, made, events>>

\* Fifteen seconds for /health to answer, whichever relay it is that does.
Started(c) ==
  /\ At(c, "await") /\ Same
  /\ \E ok \in HealthAnswers :
       IF ok /\ call[c].retry THEN Goes(c, "ask") ELSE Leaves(c)

CallerStep(c) ==
  \/ Begin(c) \/ Ask(c) \/ Answered(c) \/ ConnectionLost(c) \/ Resolve(c) \/ Identify(c) \/ Kill(c)
  \/ Drained(c) \/ Unlink(c) \/ Probe(c) \/ Spawn(c) \/ Started(c)

\* Behaviours are finite: with deadlock checked, every one of them ends with every call over.
Finished == (\A c \in Caller : At(c, "idle") /\ made[c] = MaxCalls) /\ UNCHANGED vars

BootStep(p) ==
  \/ Listen(p) \/ ReadPrevious(p) \/ JudgePrevious(p) \/ RecordUnclean(p) \/ WritePidfile(p) \/ Register(p)
  \/ ReadRegistry(p) \/ Reap(p)
ProcessStep(p) == BootStep(p) \/ HandleSignal(p) \/ Unwedge(p)

Next ==
  \/ \E c \in Caller : CallerStep(c)
  \/ \E p \in Pid : ProcessStep(p) \/ Crash(p) \/ Wedge(p) \/ Foreign(p) \/ TestRelay(p)
  \/ \E e \in registry : Age(e)
  \/ Edit \/ TabConnects \/ SessionEnds
  \/ Finished

Spec == Init /\ [][Next]_vars

-----------------------------------------------------------------------------
\* Properties.

\* While process ids are not reused, a pidfile that names a live process names the one that owns the port:
\* two relays started at once, a crash, or a stop that overlaps a start never leave `relay stop` trusting the
\* wrong process.
PidfileTrue == pidfile # None /\ Alive(pidfile) => owner = pidfile

\* However stop, autostart, crashes and programs that take the port interleave, neither stop nor the reaper
\* signals a program that is not a relay and answers HTTP in time (ids not reused).
ForeignSpared ==
  \A p \in Pid : what[p] = "foreign" => p \notin sig /\ killed[p] \notin {"stop", "signal", "reaped"}

\* Session start never kills a relay in the middle of a session or under a second tab, unless that session or
\* tab began after it looked at /health.
RestartsOnlyOvertaken == [][
  \A c \in Caller : call[c].op = "session" /\ Kill(c) /\ call'[c].at = "drain" /\ (active \/ tabs > 1)
                    => call[c].moved]_vars

\* A relay whose stop has been reported is not taken for an unclean exit by a boot that reads the pidfile after
\* that, whoever starts, stops or dies between the boot's reading, its event and its own pidfile.
StoppedIsClean == \A e \in unclean : ~e.over

\* Does not hold: relay-control.mjs:57, "`relay stop` removes the pidfile, so it never counts".  A boot may have
\* read the pidfile before the stop removed it, and its event names a relay that was stopped.
StopNeverCounts == \A e \in unclean : e.pid \notin stopped

\* Does not hold: what the registry's comment claims, that the reaper never touches the real relay.
RealRelaySpared == \A p \in Pid : what[p] = "relay" => killed[p] # "reaped"

\* Does not hold: what relay-control.mjs:144 takes for granted, that what does not answer in time is a wedged relay.
\* Another program on the port is killed for that.
SilentSpared == \A p \in Pid : what[p] = "slow" => p \notin sig /\ killed[p] \notin {"stop", "signal"}

\* Does not hold: relay-control.mjs:92, that the port lookup is the fallback for a relay with no pidfile.  A relay
\* found that way is refused whenever it answers.
Pidless == pidfile = None /\ Answers /\ what[owner] = "relay" /\ owner \notin sig
PortLookupStops == [][\A c \in Caller : Identify(c) /\ Pidless => call'[c].at = "kill"]_vars
=============================================================================

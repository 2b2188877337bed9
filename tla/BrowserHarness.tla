--------------------------- MODULE BrowserHarness ---------------------------
(***************************************************************************)
(* The life of a headless browser (browser-harness.mjs over scratch.mjs,   *)
(* scratch-guard.mjs, win-job.mjs and browser-reaper.mjs), composed with   *)
(* the slots of BrowserSlots.                                              *)
(*                                                                         *)
(* A launch sweeps what dead owners left, waits for a slot, makes a        *)
(* profile directory and marks it with its pid, starts the browser and a   *)
(* guard, and undoes all of it on close.  On Windows a browser runs in a   *)
(* job that ends with its owner ("job") or, when no job is to be had, as   *)
(* what a trampoline left behind ("tramp"): then the pid the harness knows *)
(* is gone while the browser runs.  Elsewhere it is a child ("child").     *)
(* The profile of a call is named after the call.                          *)
(*                                                                         *)
(* Not here: the browser shared between processes, operator tabs, pids     *)
(* used again, and directories whose files stay locked by something other  *)
(* than their browser.                                                     *)
(***************************************************************************)
EXTENDS BrowserSlots

CONSTANTS
  Legacy,    \* calls made by a vendored copy older than markers, guards and slots
  Reapers,   \* processes that run the hook, which may launch too
  Platforms, \* of {"win32", "posix"}
  MaxWork, MaxDeaths  \* bounds: launches, legacy ones counting twice, and failed steps; processes that end

ASSUME HarnessAssumption ==
  /\ Legacy \subseteq Calls /\ Reapers \subseteq Procs /\ Platforms \subseteq {"win32", "posix"}
  /\ {MaxWork, MaxDeaths} \subseteq Nat

VARIABLES
  platform,
  at,      \* call -> where its launch stands
  dir,     \* call -> its profile: "none", "marked", or without a marker and "bare" or "old"
  run,     \* call -> how its browser runs, or "none"
  guard,   \* calls with a guard process
  sweep,   \* process -> the sweep it is in
  faults

slots == vars
harness == <<platform, at, dir, run, guard, sweep, faults>>
all == <<slots, harness>>

NoSweep == [at |-> "off", kind |-> "launch", stale |-> {}]

HarnessInit ==
  /\ Init
  /\ at = [c \in Calls |-> "idle"] /\ dir = [c \in Calls |-> "none"] /\ platform \in Platforms
  /\ run = [c \in Calls |-> "none"] /\ guard = {} /\ sweep = [p \in Procs |-> NoSweep] /\ faults = 0

Orphaned(c) == ~alive[Owner[c]]

\* What the process does next it does without an await: in a sweep, a scan of the slots, or a launch at one of
\* the places named.
Sync(c) == at[c] \in {"made", "disposed"} \/ (at[c] = "started" /\ run[c] \in {"child", "tramp"})
Idle(p) == alive[p] /\ ~Busy(p) /\ sweep[p] = NoSweep
Free(p) == Idle(p) /\ \A c \in Calls : Owner[c] = p => ~Sync(c)

Begun == {c \in Calls : at[c] # "idle"}
MayWork(n) == Cardinality(Begun) + Cardinality(Begun \cap Legacy) + faults + n <= MaxWork
Fail == MayWork(1) /\ faults' = faults + 1

-----------------------------------------------------------------------------
\* Sweeps. No browser of a directory is left when the directory goes.

\* The parent of a browser's root process is found dead where a trampoline started it, whoever lives. Elsewhere an
\* orphan is a child of the init process.
RootOrphan(c) == run[c] \in {"job", "tramp"}

\* (Mutated: a profile without a marker is forgotten.)
\* groupBrowsers goes by the marker, for a profile without one by its age and the parents of its processes.
Orphan_marked(c) == run[c] # "none" /\ dir[c] = "marked" /\ Orphaned(c)
Orphan(c) == run[c] # "none" /\ IF dir[c] = "marked" THEN Orphaned(c) ELSE dir[c] # "bare" /\ RootOrphan(c)

\* (Mutated: a young profile is taken whoever lives.)
\* isStale, and for profiles without a marker that are not old the browsers whose parent is gone.
DeadMarked(c) == dir[c] = "marked" /\ Orphaned(c)
Unmarked_young(c) == dir[c] \in {"old", "bare"}
Unmarked(c) == dir[c] = "old" \/ (dir[c] = "bare" /\ RootOrphan(c))

Stale(kind) == {c \in Calls : IF kind = "reap" THEN Orphan(c) ELSE DeadMarked(c) \/ (kind = "legacy" /\ Unmarked(c))}

\* sweepQuietly reclaims marked profiles, then unmarked ones; only then is a slot asked for.
StartLaunch(c) ==
  /\ MayWork(1) /\ Free(Owner[c]) /\ at[c] = "idle" /\ c \notin Legacy
  /\ at' = [at EXCEPT ![c] = "sweep"]
  /\ sweep' = [sweep EXCEPT ![Owner[c]] = [NoSweep EXCEPT !.at = "look"]]
  /\ UNCHANGED <<slots, platform, dir, run, guard, faults>>

\* reapBrowsers, as the hooks of an agent session run it.
StartReap(p) ==
  /\ p \in Reapers /\ Free(p)
  /\ sweep' = [sweep EXCEPT ![p] = [NoSweep EXCEPT !.at = "look", !.kind = "reap"]]
  /\ UNCHANGED <<slots, platform, at, dir, run, guard, faults>>

\* On to the next pass: reapBrowsers sweeps only after it has killed something.
Swept(p) == [c \in Calls |-> IF Owner[c] = p /\ at[c] = "sweep" THEN "acquire" ELSE at[c]]
NextPass(p, found) ==
  IF sweep[p].kind = "launch" \/ (sweep[p].kind = "reap" /\ found)
  THEN sweep' = [sweep EXCEPT ![p] = [at |-> "look", kind |-> "legacy", stale |-> {}]] /\ UNCHANGED at
  ELSE sweep' = [sweep EXCEPT ![p] = NoSweep] /\ at' = Swept(p)

SweepLook(p) ==
  /\ alive[p] /\ sweep[p].at = "look"
  /\ \/ /\ Stale(sweep[p].kind) # {}
        /\ sweep' = [sweep EXCEPT ![p].at = "act", ![p].stale = Stale(sweep[p].kind)] /\ UNCHANGED at
     \/ Stale(sweep[p].kind) = {} /\ NextPass(p, FALSE)
  /\ UNCHANGED <<slots, platform, dir, run, guard, faults>>

\* On Windows a directory loses some files under a browser that still runs, but not the locked ones.
Emptied(c, mode) == IF mode \in {"none", "child"} THEN {"none"} ELSE {dir[c], "bare"}

\* The processes on the stale profiles are killed by their command lines, then the profiles removed. Without the
\* list of processes (the listing failed) a profile in use is locked, and may have lost its marker.
SweepAct(p) ==
  LET stale == sweep[p].stale
      removed == IF sweep[p].kind = "reap" THEN {} ELSE stale
  IN  /\ alive[p] /\ sweep[p].at = "act"
      /\ \/ /\ run' = [c \in Calls |-> IF c \in stale THEN "none" ELSE run[c]]
            /\ dir' = [c \in Calls |-> IF c \in removed THEN "none" ELSE dir[c]]
            /\ UNCHANGED faults
         \/ /\ Fail /\ \E c \in removed : run[c] # "none"
            /\ dir' = [c \in Calls |-> IF c \notin removed THEN dir[c] ELSE IF Emptied(c, run[c]) = {"none"} THEN "none" ELSE "bare"]
            /\ UNCHANGED run
      /\ NextPass(p, TRUE)
      /\ UNCHANGED <<slots, platform, guard>>

-----------------------------------------------------------------------------
\* launchBrowser after the sweep, and the close it returns.

Holds(c) == call[c] = "has" /\ Idle(Owner[c]) /\ \A d \in Calls \ {c} : Owner[d] = Owner[c] => ~Sync(d)

TakeSlot(c) == at[c] = "acquire" /\ Free(Owner[c]) /\ Acquire(c) /\ UNCHANGED harness

\* The steps of a call that has its slot, from one `at` to the next.
Step(c, from, to) ==
  /\ Holds(c) /\ at[c] = from /\ at' = [at EXCEPT ![c] = to]
  /\ UNCHANGED <<slots, platform, sweep>>

MakeDir(c) == Step(c, "acquire", "made") /\ dir' = [dir EXCEPT ![c] = "bare"] /\ UNCHANGED <<run, guard, faults>>
Mark(c) == Step(c, "made", "marked") /\ dir' = [dir EXCEPT ![c] = "marked"] /\ UNCHANGED <<run, guard, faults>>

\* A throw before the browser is there: the launch fails with its slot and its directory.
LaunchFails(c) == Fail /\ (Step(c, "acquire", "failed") \/ Step(c, "made", "failed")) /\ UNCHANGED <<dir, run, guard>>

Modes == IF platform = "win32" THEN {"job", "tramp"} ELSE {"child"}
Start(c) == \E m \in Modes :
  Step(c, "marked", "started") /\ run' = [run EXCEPT ![c] = m] /\ UNCHANGED <<dir, guard, faults>>
Watch(c) == Step(c, "started", "up") /\ guard' = guard \cup {c} /\ UNCHANGED <<dir, run, faults>>

\* Asked to quit or killed by the pid the harness knows: that of the job host, the child, or a trampoline long gone.
Killed(mode) == IF mode = "tramp" THEN {"none", "tramp"} ELSE {"none"}
Close(c) == \E left \in Killed(run[c]) :
  Step(c, "up", "closed") /\ run' = [run EXCEPT ![c] = left] /\ UNCHANGED <<dir, guard, faults>>

\* reapProfile kills what the process list shows on the profile; then the profile is removed.
Dispose(c) ==
  /\ Step(c, "closed", "disposed")
  /\ \/ run' = [run EXCEPT ![c] = "none"] /\ UNCHANGED faults
     \/ run[c] # "none" /\ Fail /\ UNCHANGED run
  /\ \E d \in Emptied(c, run'[c]) : dir' = [dir EXCEPT ![c] = d]
  /\ UNCHANGED guard

\* (Mutated: before the browser is surely gone.)
MayRelease_early(c) == at[c] \in {"closed", "disposed"}
MayRelease(c) == at[c] = "disposed"
GiveSlot(c) ==
  /\ MayRelease(c) /\ Holds(c) /\ Release(c)
  /\ at' = [at EXCEPT ![c] = IF @ = "disposed" THEN "done" ELSE @]
  /\ UNCHANGED <<platform, dir, run, guard, sweep, faults>>

\* The rest of acquireSlot.
TryAgain(c) == Free(Owner[c]) /\ Wake(c) /\ UNCHANGED harness
Scan(p) == (Look(p) \/ RemoveFile(p) \/ Create(p)) /\ UNCHANGED harness

\* A copy from before markers: a profile and a browser, without slot or guard.
LegacyLaunch(c) == \E m \in Modes \ {"job"} :
  /\ MayWork(2) /\ Free(Owner[c]) /\ c \in Legacy /\ at[c] = "idle"
  /\ at' = [at EXCEPT ![c] = "up"] /\ dir' = [dir EXCEPT ![c] = "bare"] /\ run' = [run EXCEPT ![c] = m]
  /\ UNCHANGED <<slots, platform, guard, sweep, faults>>

-----------------------------------------------------------------------------
\* Endings nobody asked for.

MayEnd == Cardinality({p \in Procs : ~alive[p]}) < MaxDeaths
Broken(p) == [c \in Calls |-> IF Owner[c] = p /\ at[c] # "idle" THEN "gone" ELSE at[c]]

\* The exit hooks: cleanupAllSync kills the pids it knows of the profiles this process owns, and removes them.
ProcessExit(p) ==
  LET mine == {c \in Calls \ Legacy : Owner[c] = p /\ at[c] \in {"marked", "started", "up", "closed"}}
      left(c) == IF at[c] = "started" \/ run[c] = "tramp" THEN run[c] ELSE "none"
  IN  /\ MayEnd /\ Free(p) /\ Exit(p)
      /\ run' = [c \in Calls |-> IF c \in mine THEN left(c) ELSE run[c]]
      /\ \E d \in [mine -> {"none", "bare", "marked"}] :
           /\ \A c \in mine : d[c] \in Emptied(c, left(c))
           /\ dir' = [c \in Calls |-> IF c \in mine THEN d[c] ELSE dir[c]]
      /\ at' = Broken(p)
      /\ UNCHANGED <<platform, guard, sweep, faults>>

ProcessCrash(p) ==
  /\ MayEnd /\ Crash(p)
  /\ at' = Broken(p) /\ sweep' = [sweep EXCEPT ![p] = NoSweep]
  /\ UNCHANGED <<platform, dir, run, guard, faults>>

\* The browser ends by itself, or its job's lifetime is over.
BrowserEnds(c) ==
  /\ run[c] # "none" /\ run' = [run EXCEPT ![c] = "none"]
  /\ UNCHANGED <<slots, platform, at, dir, guard, sweep, faults>>

\* The job host saw its owner exit.
JobEnds(c) == run[c] = "job" /\ Orphaned(c) /\ BrowserEnds(c)

\* scratch-guard: nothing to guard once the pid it was given is gone, else it acts when the owner is.
Guarded(c) == c \in guard /\ run[c] \in {"job", "child"}
GuardLeaves(c) ==
  /\ c \in guard /\ ~Orphaned(c) /\ ~Guarded(c) /\ guard' = guard \ {c}
  /\ UNCHANGED <<slots, platform, at, dir, run, sweep, faults>>
GuardActs(c) == \E d \in Emptied(c, IF Guarded(c) THEN "none" ELSE run[c]) :
  /\ c \in guard /\ Orphaned(c) /\ guard' = guard \ {c}
  /\ run' = [run EXCEPT ![c] = IF Guarded(c) THEN "none" ELSE @]
  /\ dir' = [dir EXCEPT ![c] = IF @ = "none" THEN @ ELSE d]
  /\ UNCHANGED <<slots, platform, at, sweep, faults>>

\* An hour passes; making a directory and marking it follow on each other at once.
Age(c) ==
  /\ dir[c] = "bare" /\ at[c] # "made" /\ dir' = [dir EXCEPT ![c] = "old"]
  /\ UNCHANGED <<slots, platform, at, run, guard, sweep, faults>>

HarnessNext ==
  \/ \E c \in Calls :
       \/ StartLaunch(c) \/ TakeSlot(c) \/ TryAgain(c) \/ MakeDir(c) \/ Mark(c) \/ LaunchFails(c) \/ Start(c) \/ Watch(c) \/ Close(c)
       \/ Dispose(c) \/ GiveSlot(c) \/ LegacyLaunch(c)
       \/ BrowserEnds(c) \/ JobEnds(c) \/ GuardLeaves(c) \/ GuardActs(c) \/ Age(c)
  \/ \E p \in Procs : Scan(p) \/ StartReap(p) \/ SweepLook(p) \/ SweepAct(p) \/ ProcessExit(p) \/ ProcessCrash(p)

HarnessSpec == HarnessInit /\ [][HarnessNext]_all

\* What a running process does without waiting is done, time passes, and the hooks of an agent session reap again
\* and again in any process that is there to run them.
HarnessFairness ==
  /\ \A p \in Procs : WF_all(Scan(p) \/ SweepLook(p) \/ SweepAct(p))
  /\ \A p \in Reapers : SF_all(StartReap(p))
  /\ \A p \in Procs : SF_all(\E c \in Calls : Owner[c] = p /\ TryAgain(c))
  /\ \A c \in Calls : WF_all(Sync(c) /\ (Mark(c) \/ Watch(c) \/ GiveSlot(c)))
  /\ \A c \in Calls : WF_all(JobEnds(c)) /\ WF_all(GuardActs(c)) /\ WF_all(Age(c))
HarnessFairSpec == HarnessSpec /\ HarnessFairness

-----------------------------------------------------------------------------
\* As long as no process has died, no more processes have a browser running that they launched and not closed than
\* there are slots, however their launches and closes overlap ("limits how many run at once").
WithinCap ==
  (\A p \in Procs : alive[p]) =>
    Cardinality({Owner[c] : c \in {d \in Calls \ Legacy : run[d] # "none" /\ at[d] \in {"started", "up", "closed"}}}) <= Cap

\* Nobody but its process ends a launch: whichever sweep, reaper or guard runs between any two of its steps, the one
\* in which its profile exists without a marker included, none kills the browser or changes the profile of a call
\* that is still in progress (sweepStale, groupBrowsers).
SparesTheLiving ==
  [][\A c \in Calls \ Legacy :
       /\ at[c] \in {"made", "marked", "started", "up", "closed"} /\ at'[c] = at[c]
       => dir'[c] = dir[c] /\ (run'[c] = run[c] \/ BrowserEnds(c))]_all

\* No browser survives its process for good, wherever that died, whatever the guard could do and whether the
\* profile kept its marker, provided that somebody is left to reap.  Except where orphans are adopted: one whose
\* profile was removed under it is nobody's.
OrphansEnd ==
  \A c \in Calls : Orphaned(c) ~> \/ run[c] = "none" \/ (run[c] = "child" /\ dir[c] # "marked")
                                 \/ \A p \in Reapers : ~alive[p]

\* Does not hold: an old copy's browser is left alone while it may belong to a live run ("a younger one may belong
\* to a live run", sweepQuietly).
LegacySpared ==
  [][\A c \in Legacy : ~Orphaned(c) /\ dir[c] # "old" => run'[c] = run[c] \/ BrowserEnds(c)]_all

\* Does not hold: a launch that failed gives its slot back.
FailedGivesBack == \A c \in Calls : at[c] = "failed" => call[c] # "has"
=============================================================================

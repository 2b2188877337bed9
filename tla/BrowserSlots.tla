---------------------------- MODULE BrowserSlots ----------------------------
(***************************************************************************)
(* The machine-wide cap on headless browsers (browser-slots.mjs): slot     *)
(* files in a shared directory, taken with O_EXCL and taken over from      *)
(* owners that died.                                                       *)
(*                                                                         *)
(* Every file operation is a step, so two processes interleave inside      *)
(* tryTake.  Within one process tryTake and slotHolders run without an     *)
(* await, so a process has one scan under way; its callers interleave at   *)
(* the sleep between two scans.                                            *)
(***************************************************************************)
EXTENDS Integers, FiniteSets

CONSTANTS
  Procs,    \* processes that open browsers
  Calls,    \* calls of acquireSlot
  Owner,    \* the process each call is made in
  Cap,      \* maxBrowsers()
  NoFile,   \* no slot file
  Torn,     \* a slot file its owner never got to fill
  NoCall    \* no scan under way

Slots == 0..Cap - 1

ASSUME SlotsAssumption ==
  /\ Owner \in [Calls -> Procs]
  /\ Cap \in Nat \ {0}
  /\ NoFile \notin Procs /\ Torn \notin Procs /\ NoFile # Torn
  /\ NoCall \notin Calls

VARIABLES
  file,    \* slot -> the pid in slot-<n>.json, NoFile or Torn
  alive,   \* process -> is it running (pids are not reused)
  scan,    \* process -> its scan of the slots, if any
  held,    \* process -> the module variable `held`
  call     \* acquireSlot call -> where it and its release() stand

vars == <<file, alive, scan, held, call>>

Resting == [call |-> NoCall, mode |-> "take", n |-> 0, at |-> "look"]
NotHeld == [slot |-> -1, refs |-> 0]

Dead(f) == f \in Procs /\ ~alive[f]

Init ==
  /\ file = [n \in Slots |-> NoFile]
  /\ alive = [p \in Procs |-> TRUE]
  /\ scan = [p \in Procs |-> Resting]
  /\ held = [p \in Procs |-> NotHeld]
  /\ call = [c \in Calls |-> "idle"]

Busy(p) == scan[p].call # NoCall

-----------------------------------------------------------------------------
(* acquireSlot *)

Scanning(c, mode) == [call |-> c, mode |-> mode, n |-> 0, at |-> "look"]

\* A process that holds a slot shares it among its callers.
Acquire(c) ==
  LET p == Owner[c] IN
  /\ alive[p] /\ ~Busy(p) /\ call[c] = "idle"
  /\ IF held[p] # NotHeld
     THEN /\ held' = [held EXCEPT ![p].refs = @ + 1]
          /\ call' = [call EXCEPT ![c] = "has"]
          /\ UNCHANGED scan
     ELSE /\ scan' = [scan EXCEPT ![p] = Scanning(c, "take")]
          /\ call' = [call EXCEPT ![c] = "new"]
          /\ UNCHANGED held
  /\ UNCHANGED <<file, alive>>

\* The sleep of 300 ms is over.  The loop goes on with the next scan.
Wake(c) ==
  LET p == Owner[c] IN
  /\ alive[p] /\ ~Busy(p) /\ call[c] = "wait"
  /\ scan' = [scan EXCEPT ![p] = Scanning(c, "take")]
  /\ UNCHANGED <<file, alive, held, call>>

\* The end of one round of the loop: "new" callers are told who holds the
\* slots, then the call sleeps or, past its deadline, fails; both messages
\* list the holders.
EndOfScan(p) ==
  LET c == scan[p].call
      sleep == /\ scan' = [scan EXCEPT ![p] = Resting]
               /\ call' = [call EXCEPT ![c] = "wait"]
      expire == /\ scan' = [scan EXCEPT ![p] = Scanning(c, "fail")]
                /\ call' = [call EXCEPT ![c] = "wait"]
  IN  \/ /\ scan[p].mode = "take" /\ call[c] = "new"
         /\ scan' = [scan EXCEPT ![p] = Scanning(c, "tell")]
         /\ UNCHANGED call
      \/ /\ scan[p].mode = "tell" \/ (scan[p].mode = "take" /\ call[c] = "wait")
         /\ sleep \/ expire
      \/ /\ scan[p].mode = "fail"
         /\ scan' = [scan EXCEPT ![p] = Resting]
         /\ call' = [call EXCEPT ![c] = "failed"]

NextSlot(p) ==
  IF scan[p].n + 1 < Cap
  THEN scan' = [scan EXCEPT ![p].n = @ + 1, ![p].at = "look"] /\ UNCHANGED call
  ELSE EndOfScan(p)

\* readSlot and pidAlive, in one step.  A file that does not parse has no
\* owner to be found dead, and is left alone.
LooksStale(n) == Dead(file[n])

Look(p) ==
  /\ alive[p] /\ Busy(p) /\ scan[p].at = "look"
  /\ IF LooksStale(scan[p].n)
     THEN scan' = [scan EXCEPT ![p].at = "remove"] /\ UNCHANGED call
     ELSE IF scan[p].mode = "take"
     THEN scan' = [scan EXCEPT ![p].at = "create"] /\ UNCHANGED call
     ELSE NextSlot(p)
  /\ UNCHANGED <<file, alive, held>>

\* rmSync: whatever file bears the name by now.
LeaveIt(n) == file
Unlink(n)  == [file EXCEPT ![n] = NoFile]

RemoveFile(p) ==
  /\ alive[p] /\ Busy(p) /\ scan[p].at = "remove"
  /\ file' = Unlink(scan[p].n)
  /\ IF scan[p].mode = "take"
     THEN scan' = [scan EXCEPT ![p].at = "create"] /\ UNCHANGED call
     ELSE NextSlot(p)
  /\ UNCHANGED <<alive, held>>

\* writeFileSync with flag 'wx'
Overwritable(n) == TRUE
Creatable(n)    == file[n] = NoFile

Create(p) ==
  LET n == scan[p].n
      c == scan[p].call
  IN  /\ alive[p] /\ Busy(p) /\ scan[p].at = "create"
      /\ IF Creatable(n)
         THEN /\ file' = [file EXCEPT ![n] = p]
              /\ held' = [held EXCEPT ![p] = [slot |-> n, refs |-> 1]]
              /\ call' = [call EXCEPT ![c] = "has"]
              /\ scan' = [scan EXCEPT ![p] = Resting]
         ELSE NextSlot(p) /\ UNCHANGED <<file, held>>
      /\ UNCHANGED alive

-----------------------------------------------------------------------------
(* Release, exit and death *)

\* releaseSync, the file part: it removes the file if that still names this
\* process (read and removal in one step).
OwnFile(p) == held[p] # NotHeld /\ file[held[p].slot] = p
FileAfterRelease(p) == IF OwnFile(p) THEN Unlink(held[p].slot) ELSE file

\* The release() of one acquisition counts down whatever is held now.
Release(c) ==
  LET p == Owner[c] IN
  /\ alive[p] /\ ~Busy(p) /\ call[c] = "has"
  /\ call' = [call EXCEPT ![c] = "done"]
  /\ \/ held[p] = NotHeld /\ UNCHANGED <<file, held>>
     \/ /\ held[p].refs > 1
        /\ held' = [held EXCEPT ![p].refs = @ - 1]
        /\ UNCHANGED file
     \/ /\ held[p].refs = 1
        /\ file' = FileAfterRelease(p)
        /\ held' = [held EXCEPT ![p] = NotHeld]
  /\ UNCHANGED <<alive, scan>>

Gone(p) == [c \in Calls |-> IF Owner[c] = p THEN "gone" ELSE call[c]]

\* process.on('exit', releaseSync)
Exit(p) ==
  /\ alive[p] /\ ~Busy(p)
  /\ alive' = [alive EXCEPT ![p] = FALSE]
  /\ file' = FileAfterRelease(p)
  /\ call' = Gone(p)
  /\ UNCHANGED <<scan, held>>

\* The process is killed, possibly between the creation of its slot file and
\* the write of its pid.
Crash(p) ==
  LET n == scan[p].n IN
  /\ alive[p]
  /\ alive' = [alive EXCEPT ![p] = FALSE]
  /\ \/ UNCHANGED file
     \/ /\ Busy(p) /\ scan[p].at = "create" /\ file[n] = NoFile
        /\ file' = [file EXCEPT ![n] = Torn]
  /\ call' = Gone(p)
  /\ UNCHANGED <<scan, held>>

-----------------------------------------------------------------------------

Next ==
  \/ \E c \in Calls : Acquire(c) \/ Wake(c) \/ Release(c)
  \/ \E p \in Procs : Look(p) \/ RemoveFile(p) \/ Create(p) \/ Exit(p) \/ Crash(p)

Spec == Init /\ [][Next]_vars

\* A running process gets on with its scan, and its sleeps end however often
\* its other callers are served in between.
Fairness ==
  /\ \A p \in Procs : WF_vars(Look(p) \/ RemoveFile(p) \/ Create(p))
  /\ \A c \in Calls : SF_vars(Wake(c))

FairSpec == Spec /\ Fairness

-----------------------------------------------------------------------------
(* Properties *)

TypeOK ==
  /\ file \in [Slots -> Procs \cup {NoFile, Torn}]
  /\ alive \in [Procs -> BOOLEAN]
  /\ scan \in [Procs -> [call: Calls \cup {NoCall}, mode: {"take", "tell", "fail"},
                         n: Slots, at: {"look", "remove", "create"}]]
  /\ held \in [Procs -> [slot: Slots \cup {-1}, refs: Nat]]
  /\ call \in [Calls -> {"idle", "new", "wait", "has", "done", "failed", "gone"}]

\* "created with O_EXCL so two processes cannot take the same one": as long as
\* no process has died, every holder's file is there and names it, so no two
\* processes hold one slot.  (Between two takers of a dead owner's slot O_EXCL
\* does not help: the slower one removes the file of the faster.)
ExclusiveUntilADeath ==
  (\A p \in Procs : alive[p]) =>
    \A p \in Procs : held[p] # NotHeld => file[held[p].slot] = p

\* "A slot whose owner pid is dead is free again": while someone waits, the
\* file of a dead owner does not stay.
DeadOwnersEvicted ==
  \A n \in Slots :
    Dead(file[n]) /\ (\E c \in Calls : call[c] = "wait") ~> ~Dead(file[n]) \/ \A c \in Calls : call[c] # "wait"

\* Does not hold: "One process holds at most one slot however many browsers it opens".
OneSlotPerProcess ==
  \A p \in Procs : alive[p] => Cardinality({n \in Slots : file[n] = p}) <= 1
=============================================================================

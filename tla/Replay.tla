-------------------------------- MODULE Replay --------------------------------
(***************************************************************************)
(* What the action log is used for again: macros recorded from a session,  *)
(* stored compacted and templated, and run step by step (routes-macros.mjs,*)
(* macros in db.mjs); the replay of a session up to its first failure, and *)
(* the cleanup of what a session wrote (routes-sessions.mjs).              *)
(*                                                                         *)
(* Steps are idb.put, idb.delete and idb.clear in one store of the page.   *)
(* A click, which compaction may drop although it would do something more, *)
(* is not in the model.  Commands reach the page in the order they are     *)
(* sent.  One that times out may have been carried out: "late".  The key   *)
(* of a row that was put is in the stored reply alone, and replies of      *)
(* sessions that are over are dropped when they are old (pruneOldResults). *)
(***************************************************************************)
EXTENDS Integers, FiniteSets, SequencesExt

CONSTANTS
  Key, Val,      \* of the rows in the store
  NoRow,         \* no row
  MinGroup,      \* TEMPLATE_MIN_GROUP_SIZE
  MaxOpened, MaxCommands, MaxJobs,
  MaxTrouble     \* bounds; trouble: a step that fails, a write of the application, an edit of the macro, the end of a session,
                 \* a pruning

ASSUME ReplayAssumption ==
  /\ NoRow \notin Key \cup Val /\ MinGroup \in Nat \ {0, 1}
  /\ {MaxOpened, MaxCommands, MaxJobs, MaxTrouble} \subseteq Nat

VARIABLES
  page,            \* the store: a value or NoRow for each key
  writer,          \* the place in the log of the acknowledged put that wrote the row, 0: another write (history)
  log,             \* actions; `kept`: the reply is still stored
  current, begun,  \* sessions: the one under way (0: none), those begun
  macro,           \* the stored macro
  task,            \* the request that runs step by step
  chain,           \* a run of the macro and the runs that resumed it (history)
  left             \* what the bounds leave

replayVars == <<page, writer, log, current, begun, macro, task, chain, left>>

-----------------------------------------------------------------------------
\* Steps.

Param == {"key", "val"}
Step(t, k, v) == [type |-> t, key |-> k, val |-> v]
Puts == {Step("put", k, v) : k \in Key, v \in Val}
Deletes == {Step("delete", k, NoRow) : k \in Key}
Steps == Puts \cup Deletes \cup {Step("clear", NoRow, NoRow)}

Touches(s, k) == s.type = "clear" \/ s.key = k
After(rows, s) == [k \in Key |-> IF Touches(s, k) THEN s.val ELSE rows[k]]
AllAfter(rows, steps) == FoldLeft(After, rows, steps)

\* compactMacroSteps: a step like the one before it is dropped.
Compacted(steps) ==
  FoldLeft(LAMBDA kept, s : IF kept # <<>> /\ Last(kept) = s THEN kept ELSE Append(kept, s), <<>>, steps)

\* templatizeMacroSteps: runs of steps of one shape; a run of MinGroup or more is stored once, with the values of
\* the parameters that vary.
Groups(steps) ==
  FoldLeft(LAMBDA groups, s : IF groups # <<>> /\ Last(groups)[1].type = s.type
                              THEN [groups EXCEPT ![Len(groups)] = Append(@, s)] ELSE Append(groups, <<s>>),
           <<>>, steps)
Varying(group) == {p \in Param : \E i \in DOMAIN group : group[i][p] # group[1][p]}
Stored(group) ==
  IF Len(group) < MinGroup \/ Varying(group) = {} THEN [plain |-> group]
  ELSE [type |-> group[1].type,
        fixed |-> [p \in Param \ Varying(group) |-> group[1][p]],
        values |-> [i \in DOMAIN group |-> [p \in Varying(group) |-> group[i][p]]]]
Templated(steps) == LET groups == Groups(Compacted(steps)) IN [g \in DOMAIN groups |-> Stored(groups[g])]

\* expandTemplateSteps.
Filled(entry) ==
  IF "plain" \in DOMAIN entry THEN entry.plain
  ELSE LET Of(i, p) == IF p \in DOMAIN entry.fixed THEN entry.fixed[p] ELSE entry.values[i][p]
       IN [i \in DOMAIN entry.values |-> Step(entry.type, Of(i, "key"), Of(i, "val"))]
Expanded(entries) == FlattenSeq([e \in DOMAIN entries |-> Filled(entries[e])])

-----------------------------------------------------------------------------
NoMacro == [entries |-> <<>>, meant |-> <<>>]
Idle == [kind |-> "idle", session |-> 0, steps |-> <<>>, at |-> 1, asked |-> FALSE, goesOn |-> FALSE, failed |-> {}, calm |-> TRUE]
NoChain == [at |-> "none", start |-> [k \in Key |-> NoRow], meant |-> <<>>, heal |-> 0]

ReplayInit ==
  /\ page = [k \in Key |-> NoRow] /\ writer = [k \in Key |-> 0] /\ log = <<>>
  /\ current = 0 /\ begun = 0 /\ macro = NoMacro /\ task = Idle /\ chain = NoChain
  /\ left = [commands |-> MaxCommands, jobs |-> MaxJobs, trouble |-> MaxTrouble]

Less(what) == left' = [left EXCEPT ![what] = @ - 1]
MayFault(how) == how # "ok" => left.trouble > 0
Faulted(how, l) == IF how = "ok" THEN l ELSE [l EXCEPT !.trouble = @ - 1]

\* Something other than the request under way touches the store.
Interferes == chain' = NoChain /\ task' = IF task = Idle THEN Idle ELSE [task EXCEPT !.calm = FALSE]

OpenSession ==
  /\ current = 0 /\ begun < MaxOpened /\ begun' = begun + 1 /\ current' = begun + 1
  /\ UNCHANGED <<page, writer, log, macro, task, chain, left>>
CloseSession ==
  /\ current # 0 /\ current' = 0 /\ left.trouble > 0 /\ Less("trouble")
  /\ UNCHANGED <<page, writer, log, begun, macro, task, chain>>

\* dispatchCommand and withLoggedAction: the page carries the step out unless it fails, and the row says ok when
\* the reply came in time.
Dispatch(session, s, via, how) ==
  /\ MayFault(how)
  /\ page' = IF how = "error" THEN page ELSE After(page, s)
  /\ writer' = [k \in Key |-> IF how = "error" \/ ~Touches(s, k) THEN writer[k]
                              ELSE IF how = "ok" /\ s.type = "put" THEN Len(log) + 1 ELSE 0]
  /\ log' = Append(log, [session |-> session, step |-> s, ok |-> how = "ok", via |-> via, kept |-> TRUE])

\* POST /command.
Command(s, how) ==
  /\ current # 0 /\ left.commands > 0 /\ Dispatch(current, s, "command", how)
  /\ left' = Faulted(how, [left EXCEPT !.commands = @ - 1])
  /\ Interferes /\ UNCHANGED <<current, begun, macro>>

\* pruneOldResults: the replies of the rows before a day are dropped, but for those of the active session.
Prune(n) ==
  /\ left.trouble > 0 /\ Less("trouble")
  /\ log' = [i \in DOMAIN log |-> IF i <= n /\ log[i].session # current THEN [log[i] EXCEPT !.kept = FALSE] ELSE log[i]]
  /\ log' # log
  /\ UNCHANGED <<page, writer, current, begun, macro, task, chain>>

\* The application writes a row.
AppWrite(k, v) ==
  /\ left.trouble > 0 /\ page' = [page EXCEPT ![k] = v] /\ writer' = [writer EXCEPT ![k] = 0] /\ Less("trouble")
  /\ Interferes /\ UNCHANGED <<log, current, begun, macro>>

-----------------------------------------------------------------------------
\* Macros.

StepsOf(rows) == [i \in DOMAIN rows |-> rows[i].step]
RowsOf(session) == SelectSeq(log, LAMBDA r : r.session = session)

\* POST /macros.
RecordMacro(session) ==
  LET steps == StepsOf(SelectSeq(RowsOf(session), LAMBDA r : r.ok))
  IN /\ steps # <<>> /\ macro = NoMacro
     /\ macro' = [entries |-> Templated(steps), meant |-> steps] /\ chain' = NoChain
     /\ UNCHANGED <<page, writer, log, current, begun, task, left>>

\* PUT /macros/:id/steps: the step inspector takes a step out or moves it.
EditMacro ==
  LET steps == Expanded(macro.entries)
  IN /\ left.trouble > 0 /\ Less("trouble")
     /\ \E i \in DOMAIN steps, j \in 0..Len(steps) :
          LET rest == RemoveAt(steps, i)
              next == IF j = 0 \/ j > Len(steps) THEN rest ELSE InsertAt(rest, j, steps[i])
          IN next # steps /\ macro' = [entries |-> Templated(next), meant |-> next]
     /\ chain' = NoChain /\ UNCHANGED <<page, writer, log, current, begun, task>>

DeleteMacro ==
  /\ macro # NoMacro /\ left.trouble > 0 /\ Less("trouble") /\ macro' = NoMacro /\ chain' = NoChain
  /\ UNCHANGED <<page, writer, log, current, begun, task>>

\* The caller resumes where heal says, or begins anew.
Resumes(from) == chain.at = "healed" /\ from = chain.heal

\* POST /macros/:id/run.  The steps are read once.
StartRun(from, goesOn) ==
  LET steps == Expanded(macro.entries)
  IN /\ task = Idle /\ current # 0 /\ left.jobs > 0 /\ Less("jobs") /\ from \in DOMAIN steps
     /\ task' = [Idle EXCEPT !.kind = "run", !.session = current, !.steps = steps, !.at = from, !.goesOn = goesOn]
     /\ chain' = IF Resumes(from) THEN [chain EXCEPT !.at = "runs"]
                 ELSE IF from = 1 THEN [NoChain EXCEPT !.at = "runs", !.start = page, !.meant = macro.meant] ELSE NoChain
     /\ UNCHANGED <<page, writer, log, current, begun, macro>>

\* Where heal resumes: the first step that failed.
HealAt_next(failed) == 1 + (CHOOSE i \in failed : \A j \in failed : i <= j)
HealAt(failed) == CHOOSE i \in failed : \A j \in failed : i <= j

\* The request goes to its next step, or ends with its reply.
Advanced(failed, stop) ==
  LET ends == stop \/ task.at >= Len(task.steps)
  IN /\ task' = IF ends THEN Idle ELSE [task EXCEPT !.at = @ + 1, !.asked = FALSE, !.failed = failed]
     /\ chain' = IF task.kind # "run" THEN NoChain
                 ELSE IF ~ends \/ chain.at = "none" THEN chain
                 ELSE IF failed = {} THEN [chain EXCEPT !.at = "done"]
                 ELSE [chain EXCEPT !.at = "healed", !.heal = HealAt(failed)]

\* isNoOpPut: the row is read first, and the step skipped when the page has it already.  A read that fails says no.
SameRow(s) == page[s.key] = s.val
IsNoOpPut == \E reads \in BOOLEAN :
  LET s == task.steps[task.at]
  IN /\ task.kind = "run" /\ s.type = "put" /\ ~task.asked
     /\ reads \/ (SameRow(s) /\ left.trouble > 0)
     /\ IF reads /\ SameRow(s) THEN Advanced(task.failed, FALSE) /\ UNCHANGED left
        ELSE /\ task' = [task EXCEPT !.asked = TRUE] /\ UNCHANGED chain
             /\ left' = Faulted(IF reads THEN "ok" ELSE "error", left)
     /\ UNCHANGED <<page, writer, log, current, begun, macro>>

\* The step is sent.
RunStep(how) ==
  LET s == task.steps[task.at]
      failed == IF how = "ok" THEN task.failed ELSE task.failed \cup {task.at}
  IN /\ task.kind = "run" /\ (s.type = "put" => task.asked)
     /\ Dispatch(task.session, s, "macro", how) /\ Advanced(failed, how # "ok" /\ ~task.goesOn)
     /\ left' = Faulted(how, left) /\ UNCHANGED <<current, begun, macro>>

-----------------------------------------------------------------------------
\* POST /sessions/:id/replay.

Replayable(r) == r.via # "replay"
Mine(session) == {i \in DOMAIN log : log[i].session = session}
Failing(source) == {i \in Mine(source) : ~log[i].ok /\ Replayable(log[i])}
UpTo_last(i, fails) == \E j \in fails : i <= j
UpTo(i, fails) == \A j \in fails : i <= j

\* The rows up to the first failure, that one too, or all that did not fail; their steps in the order of the log.
MayPlan(source, all) == all \/ Failing(source) # {}
Planned(source, all) ==
  {i \in Mine(source) : Replayable(log[i]) /\ IF all THEN log[i].ok ELSE UpTo(i, Failing(source))}
InOrder(f) ==
  LET order == SelectSeq([i \in 1..Max(DOMAIN f \cup {0}) |-> i], LAMBDA i : i \in DOMAIN f)
  IN [n \in DOMAIN order |-> f[order[n]]]
Plan(source, all) == InOrder([i \in Planned(source, all) |-> log[i].step])

\* With confirm: the plan is made anew.  Without, it is only shown.
StartReplay(source, all) ==
  /\ task = Idle /\ current # 0 /\ left.jobs > 0 /\ Less("jobs")
  /\ MayPlan(source, all) /\ Plan(source, all) # <<>>
  /\ task' = [Idle EXCEPT !.kind = "replay", !.session = current, !.steps = Plan(source, all)]
  /\ chain' = NoChain /\ UNCHANGED <<page, writer, log, current, begun, macro>>

ReplayStep(how) ==
  /\ task.kind = "replay" /\ Dispatch(task.session, task.steps[task.at], "replay", how) /\ Advanced({}, how # "ok")
  /\ left' = Faulted(how, left) /\ UNCHANGED <<current, begun, macro>>

-----------------------------------------------------------------------------
\* POST /sessions/:id/cleanup.

\* The rows of the session that the page acknowledged and that are known to touch a key: a put names its key in its
\* reply, the other steps in their parameters.
Known(r) == r.step.type = "put" => r.kept
Wrote_blind(session, k) == {i \in Mine(session) : Known(log[i]) /\ Touches(log[i].step, k)}
Wrote(session, k) == {i \in Mine(session) : log[i].ok /\ Known(log[i]) /\ Touches(log[i].step, k)}

\* The keys that a pass over those rows leaves live: the last one is a put.
LiveKeys(session) == {k \in Key : \E i \in Wrote(session, k) : log[i].step.type = "put" /\ \A j \in Wrote(session, k) : j <= i}

\* They are deleted one by one, in an order that does not matter, whether or not one of them fails.
StartCleanup(session) ==
  \E keys \in [1..Cardinality(LiveKeys(session)) -> LiveKeys(session)] :
     /\ task = Idle /\ left.jobs > 0 /\ Less("jobs") /\ keys # <<>> /\ ToSet(keys) = LiveKeys(session)
     /\ task' = [Idle EXCEPT !.kind = "cleanup", !.session = session,
                            !.steps = [i \in DOMAIN keys |-> Step("delete", keys[i], NoRow)]]
     /\ chain' = NoChain /\ UNCHANGED <<page, writer, log, current, begun, macro>>

CleanupStep(how) ==
  /\ task.kind = "cleanup" /\ Dispatch(task.session, task.steps[task.at], "cleanup", how)
  /\ Advanced(IF how = "ok" THEN task.failed ELSE task.failed \cup {task.at}, FALSE)
  /\ left' = Faulted(how, left) /\ UNCHANGED <<current, begun, macro>>

\* The relay goes down in the middle of a request: nobody gets its reply.
Restart ==
  /\ task # Idle /\ task' = Idle /\ chain' = NoChain
  /\ UNCHANGED <<page, writer, log, current, begun, macro, left>>

-----------------------------------------------------------------------------
How == {"ok", "error", "late"}
ReplayNext ==
  \/ OpenSession \/ CloseSession
  \/ \E how \in How : RunStep(how) \/ ReplayStep(how) \/ CleanupStep(how) \/ \E s \in Steps : Command(s, how)
  \/ \E k \in Key, v \in Val : AppWrite(k, v)
  \/ \E session \in 1..begun : RecordMacro(session) \/ StartCleanup(session)
  \/ \E session \in 1..begun, all \in BOOLEAN : StartReplay(session, all)
  \/ EditMacro \/ DeleteMacro \/ IsNoOpPut \/ Restart \/ \E n \in 1..Len(log) : Prune(n)
  \/ \E from \in 1..Len(log), goesOn \in BOOLEAN : StartRun(from, goesOn)

ReplaySpec == ReplayInit /\ [][ReplayNext]_replayVars

-----------------------------------------------------------------------------
\* A run of a macro that ends without a failure, after any number of runs that failed and were resumed where heal
\* said, leaves the store as the recorded steps would: whatever was compacted, templated, skipped as already
\* there, carried out twice or only seemed to fail (createMacro, updateMacroSteps, POST /macros/:id/run).
RunApplies == chain.at = "done" => page = AllAfter(chain.start, chain.meant)

\* What a dry run showed is what the confirmed replay does: no later row of the session changes the plan up to its
\* first failure, and the rows of a replay into it do not change the plan of the whole (POST /sessions/:id/replay).
PlanStays ==
  [][\A source \in 1..begun, all \in BOOLEAN :
       log' # log /\ (all => Last(log').via = "replay") /\ MayPlan(source, all)
         => Plan(source, all)' = Plan(source, all)]_replayVars

\* A cleanup that no delete failed and nobody else disturbed, though results were pruned before it or meanwhile,
\* leaves of what the session put and was told so, by hand, by a macro or by a replay, only rows whose reply was
\* dropped (POST /sessions/:id/cleanup).
CleanupEnds ==
  /\ task.kind = "cleanup" /\ task' = Idle /\ task.at = Len(task.steps) /\ task.calm /\ task.failed = {}
  /\ log' # log /\ Last(log').ok
ItsRow(w, rows) == w # 0 /\ rows[w].session = task.session
CleanupComplete ==
  [][CleanupEnds => \A k \in Key : ItsRow(writer'[k], log') => ~log'[writer'[k]].kept]_replayVars

\* Does not hold: routes-sessions.mjs:369, that the walk over the log computes exactly which rows are still live and
\* were written by the session.  A put whose reply was dropped is not seen, and the cleanup says it has succeeded.
CleanupTakesAll == [][CleanupEnds => \A k \in Key : ~ItsRow(writer'[k], log')]_replayVars
=============================================================================

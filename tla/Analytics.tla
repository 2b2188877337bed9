----------------------------- MODULE Analytics -----------------------------
(***************************************************************************)
(* Reports computed from the action log: loops and repeated reads          *)
(* (db.mjs), macro runs (friction.mjs), wasted calls (session-viz.mjs) and *)
(* what is new in a session (relay.mjs).  Pure functions of a sequence of  *)
(* rows, each written as the single pass over the rows that the code makes *)
(* and stated again as what it should find.                                *)
(*                                                                         *)
(* A row is [session, agent, call, ok, res, at, end, macro, run].  A call  *)
(* stands for a command type with its parameters; every call here is of a  *)
(* type of its own.  A failed row has no result.  The steps of a macro     *)
(* replay carry the macro and the replay (0 for none) in their parameters, *)
(* so that the same call typed by hand has other parameters.               *)
(***************************************************************************)
EXTENDS Integers, FiniteSets, SequencesExt

CONSTANTS
  Write, Read,          \* the calls that change the page, and the reads whose repetition is reported
  LoopWindow, LoopMin   \* REPEAT_WINDOW_MS, REPEAT_MIN_RUN

ASSUME ReportAssumption == LoopWindow \in Nat /\ LoopMin \in Nat \ {0} /\ Write \cap Read = {}

NoResult == "none"

\* Type and parameters of a row, the key rows are compared by.
ParamsOf(r) == <<r.call, r.macro, r.run>>
RowsOf(rows, s) == SelectSeq(rows, LAMBDA r : r.session = s)
FailsOf(rows, c) == {i \in DOMAIN rows : rows[i].call = c /\ ~rows[i].ok}
FailsIn(rows, s, c) == {i \in FailsOf(rows, c) : rows[i].session = s}

-----------------------------------------------------------------------------
\* findRepeatedActionLoops: the same call again and again, each within the window of the one before.

\* Mutated: the window is measured from the start of the loop.
LoopsOf_fromFirst(rows) ==
  LET Flush(a) == IF a.last - a.first + 1 >= LoopMin THEN [a EXCEPT !.found = @ \cup {<<a.first, a.last>>}] ELSE a
      Step(a, i) ==
        IF a.first # 0 /\ ParamsOf(rows[i]) = ParamsOf(rows[a.first]) /\ rows[i].at - rows[a.first].at <= LoopWindow
        THEN [a EXCEPT !.last = i]
        ELSE [found |-> Flush(a).found, first |-> i, last |-> i]
  IN Flush(FoldLeftDomain(Step, [found |-> {}, first |-> 0, last |-> -1], rows)).found

LoopsOf(rows) ==
  LET Flush(a) == IF a.last - a.first + 1 >= LoopMin THEN [a EXCEPT !.found = @ \cup {<<a.first, a.last>>}] ELSE a
      Step(a, i) ==
        IF a.first # 0 /\ ParamsOf(rows[i]) = ParamsOf(rows[a.first]) /\ rows[i].at - rows[a.last].at <= LoopWindow
        THEN [a EXCEPT !.last = i]
        ELSE [found |-> Flush(a).found, first |-> i, last |-> i]
  IN Flush(FoldLeftDomain(Step, [found |-> {}, first |-> 0, last |-> -1], rows)).found

\* The stretches of one call without a pause that cannot be extended.
LoopsExact(rows) ==
  LET Follows(i) == i > 1 /\ ParamsOf(rows[i]) = ParamsOf(rows[i - 1]) /\ rows[i].at - rows[i - 1].at <= LoopWindow
  IN LoopsOf(rows) = {x \in (1..Len(rows)) \X (1..Len(rows)) :
                        /\ x[2] - x[1] + 1 >= LoopMin
                        /\ \A i \in x[1] + 1..x[2] : Follows(i)
                        /\ ~Follows(x[1]) /\ (x[2] = Len(rows) \/ ~Follows(x[2] + 1))}

-----------------------------------------------------------------------------
\* findRedundantCalls: a read of a target that answers what the last read of it answered.  (A macro's read
\* and one typed by hand have the same target.)
RedundantOf(rows) ==
  FoldLeftDomain(
    LAMBDA a, i :
      LET c == rows[i].call
      IN IF c \notin Read THEN a
         ELSE [last |-> [a.last EXCEPT ![c] = i],
               found |-> IF a.last[c] # 0 /\ rows[a.last[c]].res = rows[i].res THEN a.found \cup {<<a.last[c], i>>} ELSE a.found],
    [last |-> [c \in Read |-> 0], found |-> {}], rows).found

\* Two reads in a row of one target with the same answer.  (Two failures in a row count as such.)
RedundantExact(rows) ==
  RedundantOf(rows) = {x \in (1..Len(rows)) \X (1..Len(rows)) :
                         /\ x[1] < x[2] /\ rows[x[1]].call \in Read /\ rows[x[1]].call = rows[x[2]].call
                         /\ rows[x[1]].res = rows[x[2]].res
                         /\ \A i \in x[1] + 1..x[2] - 1 : rows[i].call # rows[x[1]].call}

-----------------------------------------------------------------------------
\* buildMacroRuns: a run is a burst of rows of one macro and one replay in the whole log.
RunsOf(rows) ==
  FoldLeft(
    LAMBDA a, r :
      IF r.macro = 0 THEN [a EXCEPT !.open = FALSE]
      ELSE LET same == a.open /\ Last(a.runs).macro = r.macro /\ Last(a.runs).run = r.run
               runs == IF same THEN a.runs
                       ELSE Append(a.runs, [macro |-> r.macro, run |-> r.run, ok |-> TRUE, steps |-> 0, failed |-> 0])
               n == Len(runs)
               steps == runs[n].steps + 1
           IN [open |-> TRUE,
               runs |-> [runs EXCEPT ![n].steps = steps, ![n].ok = @ /\ r.ok,
                                     ![n].failed = IF ~r.ok /\ @ = 0 THEN steps ELSE @]],
    [open |-> FALSE, runs |-> <<>>], rows).runs

\* Every macro row is counted in one run of its own replay, in the order of the log, and a run worked when all
\* its rows did; "failed" is the first step that did not.
RunsExact(rows) ==
  LET runs == RunsOf(rows)
      mine == SelectSeq(rows, LAMBDA r : r.macro # 0)
      before(k) == FoldLeft(LAMBDA n, run : n + run.steps, 0, SubSeq(runs, 1, k))
  IN /\ before(Len(runs)) = Len(mine)
     /\ \A k \in DOMAIN runs :
          LET own == SubSeq(mine, before(k - 1) + 1, before(k))
          IN /\ runs[k].steps > 0
             /\ \A r \in Range(own) : r.macro = runs[k].macro /\ r.run = runs[k].run
             /\ runs[k].ok <=> \A r \in Range(own) : r.ok
             /\ runs[k].failed = SelectInSeq(own, LAMBDA r : ~r.ok)

\* Does not hold: "macro steps for one invocation are always logged back-to-back" (relay.mjs, macroRunHistory): one run in
\* the list for one replay.  Another caller's row may fall between two steps.
RunIsOne(rows) ==
  \A j, k \in DOMAIN RunsOf(rows) : RunsOf(rows)[j].run = RunsOf(rows)[k].run => j = k

-----------------------------------------------------------------------------
\* buildWaste over the rows of a session: chains of a failed call with its retries, and reads that answered
\* what they had answered before.  (Every row here is a step of its own: buildSteps folds only the rows of
\* strict-CRV sessions and of imported transcripts.)

WasteOf(rows) ==
  LET Step(a, i) ==
        LET r == rows[i]
            retry == a.open # 0 /\ ParamsOf(r) = ParamsOf(rows[a.open])
            seen == SelectLastInSeq(SubSeq(rows, 1, i - 1), LAMBDA q : q.ok /\ q.call \notin Write /\ ParamsOf(q) = ParamsOf(r))
        IN [wasted |-> a.wasted + (IF retry /\ ~r.ok THEN 0 ELSE a.tries),
            tries |-> IF r.ok THEN 0 ELSE IF retry THEN a.tries + 1 ELSE 1,
            open |-> IF r.ok THEN 0 ELSE IF retry THEN a.open ELSE i,
            again |-> IF r.ok /\ r.call \notin Write /\ seen # 0 /\ rows[seen].res = r.res THEN a.again \cup {i} ELSE a.again]
      end == FoldLeftDomain(Step, [wasted |-> 0, tries |-> 0, open |-> 0, again |-> {}], rows)
  IN end.wasted + end.tries + Cardinality(end.again)

\* A call is wasted once: it failed, or it read again what it had read, and nothing else is.
WasteExact(rows) ==
  WasteOf(rows) =
    Cardinality({i \in DOMAIN rows :
      \/ ~rows[i].ok
      \/ /\ rows[i].call \notin Write
         /\ \E j \in 1..i - 1 :
              /\ rows[j].ok /\ ParamsOf(rows[j]) = ParamsOf(rows[i]) /\ rows[j].res = rows[i].res
              /\ \A k \in j + 1..i - 1 : rows[k].ok => ParamsOf(rows[k]) # ParamsOf(rows[i])})

-----------------------------------------------------------------------------
\* emergentFrictionForSession: the calls whose failures are all this session's.
EmergentIn(rows, s) ==
  {c \in {r.call : r \in Range(rows)} : /\ FailsIn(rows, s, c) # {}
                                        /\ Cardinality(FailsOf(rows, c)) = Cardinality(FailsIn(rows, s, c))}

\* typeFactsFor: did any other session see this call fail.
EverFailedBefore(rows, s, c) == \E r \in Range(rows) : r.session # s /\ r.call = c /\ ~r.ok

\* macrosNeverSucceeding: it ran, and no step of it ever worked.
NeverSucceeds(rows, m) == (\E r \in Range(rows) : r.macro = m) /\ ~\E r \in Range(rows) : r.macro = m /\ r.ok
=============================================================================

---------------------------- MODULE SessionView ----------------------------
(***************************************************************************)
(* How a session is drawn (session-viz.mjs): the time axis with its quiet  *)
(* stretches cut out, the episodes the calls fall into, and what caused    *)
(* each call.  As in Analytics every report is the pass over the rows that *)
(* the code makes, next to what it should find; `rows` are the rows of one *)
(* session, in the order of their ids, each a step of its own.             *)
(***************************************************************************)
EXTENDS Analytics

CONSTANTS CollapseGap, EpisodeIdle \* DEFAULT_COLLAPSE_GAP_MS, DEFAULT_EPISODE_IDLE_MS

ASSUME ViewAssumption == {CollapseGap, EpisodeIdle} \subseteq Nat \ {0}

Later(t, u) == IF t > u THEN t ELSE u

-----------------------------------------------------------------------------
\* buildSwimlane: the segments of the axis, in the order calls start; a stretch longer than CollapseGap without any call
\* is a segment of its own.
SegmentsOf(rows) ==
  LET Step(a, r) ==
        IF r.at - a.cursor > CollapseGap
        THEN [done |-> a.done \o << [from |-> a.start, to |-> a.cursor, quiet |-> FALSE],
                                    [from |-> a.cursor, to |-> r.at, quiet |-> TRUE] >>,
              start |-> r.at, cursor |-> Later(a.cursor, r.end)]
        ELSE [a EXCEPT !.cursor = Later(@, r.end)]
      union == SortSeq(rows, LAMBDA p, q : p.at < q.at)
      end == FoldLeft(Step, [done |-> <<>>, start |-> union[1].at, cursor |-> union[1].end], union)
  IN IF rows = <<>> THEN <<>> ELSE Append(end.done, [from |-> end.start, to |-> end.cursor, quiet |-> FALSE])

\* The gaps between the calls of one agent: too long to have been thinking, or not.
GapsOf(rows) ==
  FoldLeftDomain(
    LAMBDA a, i :
      LET prev == SelectLastInSeq(SubSeq(rows, 1, i - 1), LAMBDA r : r.agent = rows[i].agent)
      IN IF prev = 0 \/ rows[i].at <= rows[prev].end THEN a
         ELSE a \cup {[agent |-> rows[i].agent, from |-> rows[prev].end, to |-> rows[i].at,
                       idle |-> rows[i].at - rows[prev].end > CollapseGap]},
    {}, rows)

\* The segments tile the session; the quiet ones are all the stretches longer than CollapseGap in which no call of
\* anyone runs, and lie in an idle gap of every agent that was there before and comes back.
SegmentsExact(rows) ==
  LET segs == SegmentsOf(rows)
      Free(t, u) == \A r \in Range(rows) : r.end <= t \/ r.at >= u
  IN rows # <<>> =>
       /\ \A r \in Range(rows) : segs[1].from <= r.at /\ Last(segs).to >= r.end
       /\ \A k \in 1..Len(segs) - 1 : segs[k].to = segs[k + 1].from /\ segs[k].quiet # segs[k + 1].quiet
       /\ {<<s.from, s.to>> : s \in {q \in Range(segs) : q.quiet}}
            = {x \in {r.end : r \in Range(rows)} \X {r.at : r \in Range(rows)} : x[2] - x[1] > CollapseGap /\ Free(x[1], x[2])}
       /\ \A s \in {q \in Range(segs) : q.quiet}, agent \in {r.agent : r \in Range(rows)} :
            \/ \A r \in Range(rows) : r.agent = agent => r.end <= s.from
            \/ \A r \in Range(rows) : r.agent = agent => r.at >= s.to
            \/ \E g \in GapsOf(rows) : g.agent = agent /\ g.idle /\ g.from <= s.from /\ s.to <= g.to

-----------------------------------------------------------------------------
\* buildEpisodes, classify and causeOf. A step is [first, phase, cause, kind]: the step its episode begins with, what it
\* is for, and the step that made it run (0 for none). A phase lasts through recoveries. (A step that waits is called
\* "wait" and not "explore", and otherwise treated like a read.)
StepsOf(rows) ==
  LET Step(a, i) ==
        LET r == rows[i]
            cut == \/ i = 1 \/ rows[i - 1].agent # r.agent \/ r.at - rows[i - 1].end > EpisodeIdle
                   \/ a.phase = "verify" /\ r.call \in Write
            ep == IF cut THEN [first |-> i, acted |-> FALSE, failed |-> FALSE, phase |-> "explore"]
                  ELSE [first |-> a.first, acted |-> a.acted, failed |-> a.failed, phase |-> a.phase]
            phase == CASE ep.failed -> "recover"
                       [] ~ep.failed /\ r.call \in Write -> "act"
                       [] ~ep.failed /\ r.call \notin Write -> IF ep.acted THEN "verify" ELSE "explore"
            again == SelectLastInSeq(SubSeq(rows, 1, i - 1), LAMBDA q : ParamsOf(q) = ParamsOf(r))
            cause == CASE again # 0 /\ ~rows[again].ok -> <<again, IF r.ok THEN "recovered" ELSE "retried">>
                       [] OTHER -> IF phase = "verify" THEN <<a.act, "verifies">>
                                   ELSE IF i > 1 /\ ~rows[i - 1].ok THEN <<i - 1, "follows-failure">>
                                   ELSE <<0, "none">>
        IN [first |-> ep.first, acted |-> ep.acted \/ r.call \in Write, failed |-> ~r.ok,
            phase |-> IF phase = "recover" THEN ep.phase ELSE phase,
            act |-> IF r.call \in Write THEN i ELSE a.act,
            steps |-> Append(a.steps, [first |-> ep.first, phase |-> phase, cause |-> cause[1], kind |-> cause[2]])]
  IN FoldLeftDomain(Step, [first |-> 0, acted |-> FALSE, failed |-> FALSE, phase |-> "none", act |-> 0, steps |-> <<>>], rows).steps

\* buildCausality: the links, and the steps that began a chain and have no cause themselves.
EdgesOf(rows) ==
  LET steps == StepsOf(rows)
  IN {[from |-> steps[i].cause, to |-> i, kind |-> steps[i].kind] : i \in {j \in DOMAIN rows : steps[j].cause # 0}}

RootsOf(rows) == LET edges == EdgesOf(rows) IN {e.from : e \in edges} \ {e.to : e \in edges}

\* shapeEpisode: how an episode ended, by its last step and its failures.
OutcomeOf(rows, steps, first) ==
  LET mine == {i \in DOMAIN rows : steps[i].first = first}
  IN IF ~rows[CHOOSE i \in mine : i + 1 \notin mine].ok THEN "failed"
     ELSE IF \E i \in mine : ~rows[i].ok THEN "recovered" ELSE "ok"

\* An episode is a stretch of one agent without a long pause, in which nothing is changed after it was checked; it is
\* recovering exactly after its own failures, and checks only what it changed itself.
EpisodesExact(rows) ==
  LET steps == StepsOf(rows)
      Within(i) == steps[i].first < i
  IN \A i \in DOMAIN rows :
       /\ Within(i) => /\ steps[i].first = steps[i - 1].first /\ rows[i].agent = rows[i - 1].agent
                       /\ rows[i].at - rows[i - 1].end <= EpisodeIdle
                       /\ rows[i].call \in Write => \A j \in steps[i].first..i - 1 : steps[j].phase # "verify"
       /\ ~Within(i) /\ i > 1 =>
            \/ rows[i].agent # rows[i - 1].agent \/ rows[i].at - rows[i - 1].end > EpisodeIdle
            \/ /\ rows[i].call \in Write /\ steps[i].phase = "act"
               /\ \E j \in steps[i - 1].first..i - 1 : steps[j].phase = "verify"
       /\ steps[i].phase = "recover" <=> Within(i) /\ ~rows[i - 1].ok
       /\ steps[i].phase = "verify" => \E j \in steps[i].first..i - 1 : rows[j].call \in Write
       /\ ~rows[i].ok => OutcomeOf(rows, steps, steps[i].first) # "ok"

\* A cause came before what it caused, and is what its kind says: the last attempt at the same call, which failed; the
\* last change, by the same agent in the same episode; or the failure just before. So every chain leads back to a root.
CausesExact(rows) ==
  LET steps == StepsOf(rows)
      edges == EdgesOf(rows)
      roots == RootsOf(rows)
      up[i \in DOMAIN rows] == IF steps[i].cause = 0 THEN i ELSE up[steps[i].cause]
  IN \A e \in edges :
       /\ e.from < e.to /\ up[e.to] \in roots
       /\ e.kind \in {"retried", "recovered"} =>
            /\ ~rows[e.from].ok /\ ParamsOf(rows[e.from]) = ParamsOf(rows[e.to]) /\ (e.kind = "recovered" <=> rows[e.to].ok)
            /\ \A k \in e.from + 1..e.to - 1 : ParamsOf(rows[k]) # ParamsOf(rows[e.to])
       /\ e.kind = "verifies" =>
            /\ rows[e.from].call \in Write /\ steps[e.from].first = steps[e.to].first
            /\ \A k \in e.from + 1..e.to - 1 : rows[k].call \notin Write
       /\ e.kind = "follows-failure" => e.from = e.to - 1 /\ ~rows[e.from].ok

-----------------------------------------------------------------------------
\* diffCausality: the links two sessions share. A link is known by the ids of its steps, which are those of the whole log.
KeptOf(rows, s, t) ==
  LET ids(u) == SelectSeq([i \in DOMAIN rows |-> i], LAMBDA i : rows[i].session = u)
      links(u) == {[e EXCEPT !.from = ids(u)[@], !.to = ids(u)[@]] : e \in EdgesOf(RowsOf(rows, u))}
  IN links(s) \cap links(t)

\* Does not hold: "shows exactly which inferred chain no longer forms" (session-viz.mjs, diffCausality): a session that does
\* what an earlier one did has its chains. Two sessions share no ids, so that none is ever kept.
RepeatedChainIsKept(rows, s, t) ==
  LET Bare(u) == LET mine == RowsOf(rows, u) IN [i \in DOMAIN mine |-> [mine[i] EXCEPT !.session = 0, !.at = 0, !.end = 0]]
  IN Bare(s) = Bare(t) /\ EdgesOf(RowsOf(rows, s)) = EdgesOf(RowsOf(rows, t)) /\ EdgesOf(RowsOf(rows, s)) # {}
       => KeptOf(rows, s, t) # {}

\* Does not hold: the "recovered" of an episode means that a call that failed has worked. A failed write is followed by a
\* screenshot, whose success is that of the episode's last step.
RecoveredDidWork(rows) ==
  LET steps == StepsOf(rows)
  IN \A i \in DOMAIN rows :
       OutcomeOf(rows, steps, steps[i].first) = "recovered"
         => \E j, k \in DOMAIN rows : /\ steps[j].first = steps[i].first /\ j < k /\ ~rows[j].ok /\ rows[k].ok
                                      /\ ParamsOf(rows[j]) = ParamsOf(rows[k])
=============================================================================

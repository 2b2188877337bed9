------------------------- MODULE ReadPipelineProofs -------------------------
(* For any callers, contents of the page, flags and budget levels: a caller *)
(* that reads alone can rebuild every result from what it was handed.       *)
EXTENDS ReadPipeline, TLAPS

\* What was read of the page is what it held then.
Seen(e) == e.version \in 1..Version /\ e.full = hist[e.version]
ReadTrue ==
  /\ \A s \in Sessions : cache[s] # None => Seen(cache[s])
  /\ \A c \in Callers : req[c].pc \in {"probe", "read"} => req[c].entry \in Cached /\ Seen(req[c].entry)
  /\ \A c \in Callers : req[c].pc = "read" => req[c].since <= req[c].entry.version
  /\ \A c \in Callers : req[c].pc # "idle" => req[c].since \in 1..Version
  /\ \A c \in Callers : req[c].pc = "reply" => req[c].out \in Replies

\* A reply its caller can take a new body from.
Carries(c) == req[c].pc = "reply" /\ req[c].out.kind \in {"body", "delta"} /\ Rebuilt(c, req[c].out) # None

\* Who has the body r of the action i: the relay, a probe, a reply or a caller.
HeldNames(i, r)  == \E s \in Sessions : held[s] # None /\ held[s].id = i /\ held[s].full = r
CacheNames(i, r) == \E s \in Sessions : cache[s] # None /\ cache[s].id = i /\ cache[s].full = r
CallerNames(c, i, r) ==
  \/ req[c].pc = "probe" /\ req[c].entry.id = i /\ req[c].entry.full = r
  \/ Carries(c) /\ req[c].out.id = i /\ Rebuilt(c, req[c].out) = r
  \/ mind[c] # None /\ mind[c].id = i /\ mind[c].full = r
Names(i, r) == HeldNames(i, r) \/ CacheNames(i, r) \/ \E c \in Callers : CallerNames(c, i, r)

\* The id of an action names one body.
OneBody == \A i, r : Names(i, r) => i \in 0..(nextId - 1) /\ \A q : Names(i, q) => q = r

\* What a caller rebuilds, reading alone or not, is what the page held since it asked.
NeverMisled ==
  \A c \in Callers : req[c].pc = "reply" => Rebuilt(c, req[c].out) \in Since(c) \cup {None}

\* A read is of a session its caller is a reader of, the last one; a body is held for readers only.
Later(c, s) == \E u \in Sessions : u > s /\ c \in readers[u]
ReadersTrue ==
  /\ active => session \in Sessions
  /\ \A s \in Sessions : s > session => readers[s] = {}
  /\ \A s \in Sessions : held[s] # None => readers[s] # {}
  /\ \A c \in Callers : req[c].pc # "idle" =>
       /\ req[c].session \in Sessions /\ req[c].session <= session /\ c \in readers[req[c].session]
       /\ ~Later(c, req[c].session)

\* A caller that reads alone can rebuild what it is sent, and what is held is what it has once the reply is there.
Told(c) == IF req[c].out.kind \in {"body", "delta"}
           THEN [id |-> req[c].out.id, full |-> Rebuilt(c, req[c].out)] ELSE mind[c]
Good(c) ==
  /\ req[c].out.kind # "shape" => Rebuilt(c, req[c].out) # None
  /\ held[req[c].session] # None => held[req[c].session] = Told(c)
Kept ==
  \A c \in Callers :
    /\ \A s \in Sessions :
         Alone(c, s) /\ ~Later(c, s) /\ req[c].pc # "reply" /\ held[s] # None => mind[c] = held[s]
    /\ req[c].pc = "reply" /\ Alone(c, req[c].session) => Good(c)

IInv == TypeOK /\ ReadTrue /\ OneBody /\ NeverMisled /\ ReadersTrue /\ Kept

-----------------------------------------------------------------------------
\* Applying the changes from one content to another to the first gives the second.
LEMMA DeltaApplies ==
  ASSUME NEW old \in Contents, NEW new \in Contents PROVE Applied(Delta(old, new), old) = new
<1> DEFINE d == Delta(old, new)
<1>1. new = [i \in DOMAIN new |-> new[i]]
  BY PipelineAssumption DEF PipelineAssumption
<1>2. d.put = [i \in Put(old, new) |-> new[i]] /\ d.gone = DOMAIN old \ DOMAIN new
  BY DEF Delta
<1>3. (DOMAIN old \ d.gone) \cup DOMAIN d.put = DOMAIN new
  BY <1>2 DEF Put
<1>4. \A i \in DOMAIN new : (IF i \in DOMAIN d.put THEN d.put[i] ELSE old[i]) = new[i]
  BY <1>2 DEF Put
<1>5. Applied(d, old) = [i \in DOMAIN new |-> IF i \in DOMAIN d.put THEN d.put[i] ELSE old[i]]
  BY <1>3 DEF Applied
<1> HIDE DEF d
<1>6. Applied(d, old) = [i \in DOMAIN new |-> new[i]]
  BY <1>4, <1>5
<1> QED BY <1>1, <1>6 DEF d

BodyOf(id, full)     == [kind |-> "body", id |-> id, full |-> full]
DeltaOf(id, full, h) == [kind |-> "delta", id |-> id, sameAs |-> h.id, delta |-> Delta(h.full, full)]
PointerTo(h)         == [kind |-> "pointer", sameAs |-> h.id]
Shape                == [kind |-> "shape"]
Holding(c, id, full) == held' = [held EXCEPT ![req[c].session] = [id |-> id, full |-> full]]

Outcome(c, id, full, hit, out) ==
  LET h == held[req[c].session] IN
  /\ req' = [req EXCEPT ![c] = [@ EXCEPT !.pc = "reply", !.entry = None, !.out = out]]
  /\ \/ out = BodyOf(id, full) /\ Holding(c, id, full)
     \/ out = DeltaOf(id, full, h) /\ h # None /\ Holding(c, id, full)
     \/ out = PointerTo(h) /\ hit /\ h # None /\ h.id = id /\ held' = held
     \/ out = Shape /\ held' = held

\* The four replies of a delivery, and what is held after each.
LEMMA DeliverOutcome ==
  ASSUME TypeOK, NEW c \in Callers, req[c].session \in Sessions, NEW id \in Nat, NEW full \in Contents,
         NEW hit \in BOOLEAN, Deliver(c, full, id, hit)
  PROVE  \E out \in Replies : Outcome(c, id, full, hit, out)
<1> DEFINE s == req[c].session
           h == held[s]
<1>1. PICK o \in OptSets, level \in {"ok", "tighten", "strict"} :
        LET mode == Mode(h, Options(o, req[c].lean), level, full, id, hit)
        IN  /\ req' = [req EXCEPT ![c] = [@ EXCEPT !.pc = "reply", !.entry = None, !.out = Reply(mode, full, id, h)]]
            /\ held' = IF NowHeld(mode) THEN [held EXCEPT ![s] = [id |-> id, full |-> full]] ELSE held
  BY DEF Deliver
<1> DEFINE mode == Mode(h, Options(o, req[c].lean), level, full, id, hit)
           out == Reply(mode, full, id, h)
<1>2. h \in Body \cup {None}
  BY DEF TypeOK
<1>3. mode \in {"pointer", "delta", "peek", "guard", "table", "full"}
  BY DEF Mode
<1>4. mode = "pointer" => hit /\ SameBody(h, full, id)
  BY DEF Mode
<1>5. mode = "delta" => h # None
  BY DEF Mode
<1> HIDE DEF mode
<1>6. CASE mode \in {"full", "table"}
  <2>1. out = BodyOf(id, full) /\ NowHeld(mode)
    BY <1>6 DEF Reply, NowHeld, BodyOf
  <2>2. out \in Replies
    BY <2>1 DEF BodyOf, Replies
  <2> QED BY <1>1, <2>1, <2>2 DEF Outcome, Holding, mode
<1>7. CASE mode = "delta"
  <2>1. out = DeltaOf(id, full, h) /\ NowHeld(mode)
    BY <1>7 DEF Reply, NowHeld, DeltaOf
  <2>2. h.id \in Nat /\ h.full \in Contents
    BY <1>2, <1>5, <1>7 DEF Body
  <2>3. Delta(h.full, full) \in Deltas
    BY <2>2 DEF Deltas
  <2>4. out \in Replies
    BY <2>1, <2>2, <2>3 DEF DeltaOf, Replies
  <2> QED BY <1>1, <1>5, <1>7, <2>1, <2>4 DEF Outcome, Holding, mode
<1>8. CASE mode = "pointer"
  <2>1. out = PointerTo(h) /\ ~NowHeld(mode)
    BY <1>8 DEF Reply, NowHeld, PointerTo
  <2>2. h.id \in Nat
    BY <1>2, <1>4, <1>8 DEF Body, SameBody
  <2>4. out \in Replies
    BY <2>1, <2>2 DEF PointerTo, Replies
  <2> QED BY <1>1, <1>4, <1>8, <2>1, <2>4 DEF Outcome, SameBody, mode
<1>9. CASE mode \in {"peek", "guard"}
  <2>1. out = Shape /\ ~NowHeld(mode)
    BY <1>9 DEF Reply, NowHeld, Shape
  <2>2. out \in Replies
    BY <2>1 DEF Shape, Replies
  <2> QED BY <1>1, <2>1, <2>2 DEF Outcome, mode
<1> QED BY <1>3, <1>6, <1>7, <1>8, <1>9

-----------------------------------------------------------------------------
\* Types.
ReqState == [pc: {"idle", "probe", "page", "read", "reply"}, session: 0..MaxSession, lean: BOOLEAN,
             entry: Cached \cup {None}, since: Nat, out: Replies \cup {None}]

LEMMA Known == ASSUME TypeOK, NEW c \in Callers PROVE req[c] \in ReqState
BY DEF TypeOK, ReqState

LEMMA InitHolds == Init => IInv
<1> SUFFICES ASSUME Init PROVE IInv
  OBVIOUS
<1> USE DEF Init
<1>1. PICK r \in Contents : hist = <<r>>
  OBVIOUS
<1>2. hist \in Seq(Contents) /\ Len(hist) = 1
  BY <1>1
<1>3. 0 \in 0..MaxSession /\ 0 \in 0..MaxReads /\ 1 \in 1..(MaxChanges + 1)
  BY PipelineAssumption DEF PipelineAssumption
<1>4. NoRead \in ReqState
  BY <1>3 DEF NoRead, ReqState
<1>5. TypeOK
  BY <1>2, <1>3, <1>4 DEF TypeOK, ReqState
<1>6. ReadTrue
  BY DEF ReadTrue, NoRead
<1>7. OneBody
  <2>1. \A i, b : ~Names(i, b)
    BY DEF Names, HeldNames, CacheNames, CallerNames, Carries, NoRead
  <2> QED BY <2>1 DEF OneBody
<1>8. ReadersTrue
  BY DEF ReadersTrue, NoRead
<1>9. Kept /\ NeverMisled
  BY DEF Kept, NeverMisled, NoRead
<1> QED BY <1>5, <1>6, <1>7, <1>8, <1>9 DEF IInv

LEMMA SinceIsContents ==
  ASSUME TypeOK, ReadTrue, NEW c \in Callers, req[c].pc # "idle" PROVE Since(c) \subseteq Contents
<1>1. req[c].since \in 1..Version /\ Version = Len(hist) /\ Len(hist) \in Nat /\ hist \in Seq(Contents)
  BY DEF ReadTrue, TypeOK, Version
<1>2. ASSUME NEW i \in req[c].since..Version PROVE hist[i] \in Contents
  <2>1. i \in 1..Len(hist)
    BY <1>1
  <2> QED BY <1>1, <2>1
<1> QED BY <1>2 DEF Since

LEMMA TypeNext == TypeOK /\ ReadTrue /\ NeverMisled /\ ReadersTrue /\ [Next]_vars => TypeOK'
<1> SUFFICES ASSUME TypeOK, ReadTrue, NeverMisled, ReadersTrue, [Next]_vars PROVE TypeOK'
  OBVIOUS
<1> USE DEF relay
<1>0. PipelineAssumption /\ Version \in Nat /\ Page \in Contents
  BY PipelineAssumption DEF TypeOK, Version, Page
<1>1. CASE StartSession
  <2>1. session + 1 \in 0..MaxSession
    BY <1>0, <1>1 DEF StartSession, TypeOK, PipelineAssumption
  <2> QED BY <1>1, <2>1 DEF StartSession, TypeOK
<1>2. CASE EndSession
  BY <1>2 DEF EndSession, TypeOK, Drop
<1>3. CASE Change
  <2>1. PICK r \in Contents : hist' = Append(hist, r)
    BY <1>3 DEF Change
  <2>2. hist' \in Seq(Contents) /\ Len(hist') = Len(hist) + 1
    BY <2>1 DEF TypeOK
  <2>3. Len(hist') \in 1..(MaxChanges + 1)
    BY <1>0, <1>3, <2>2 DEF Change, TypeOK, Version, PipelineAssumption
  <2> QED BY <1>3, <2>2, <2>3 DEF Change, TypeOK
<1>4. ASSUME NEW c \in Callers, Ask(c) PROVE TypeOK'
  <2>1. session \in Sessions
    BY <1>4 DEF Ask, ReadersTrue
  <2>2. PICK probe \in {FALSE} \cup {cache[session] # None} :
       req' = [req EXCEPT ![c] = [pc    |-> IF probe THEN "probe" ELSE "page",
                                  entry |-> IF probe THEN cache[session] ELSE None,
                                  session |-> session, lean |-> lean, since |-> Version, out |-> None]]
    BY <1>4 DEF Ask
  <2> DEFINE q == [pc    |-> IF probe THEN "probe" ELSE "page",
                   entry |-> IF probe THEN cache[session] ELSE None,
                   session |-> session, lean |-> lean, since |-> Version, out |-> None]
  <2>3. q \in ReqState
    BY <1>0, <2>1 DEF TypeOK, ReqState
  <2>4. req' \in [Callers -> ReqState]
    BY <2>2, <2>3 DEF TypeOK, ReqState
  <2>5. readers' \in [Sessions -> SUBSET (Callers \cup {None})]
    BY <1>4, <2>1 DEF Ask, TypeOK
  <2>6. reads' \in 0..MaxReads
    BY <1>0, <1>4 DEF Ask, TypeOK, PipelineAssumption
  <2> QED BY <1>4, <2>4, <2>5, <2>6 DEF Ask, TypeOK, ReqState
<1>5. ASSUME NEW c \in Callers, NEW id \in Nat, NEW full \in Contents, NEW hit \in BOOLEAN, Deliver(c, full, id, hit),
             req[c].pc # "idle"
      PROVE  /\ req' \in [Callers -> ReqState]
             /\ held' \in [Sessions -> Body \cup {None}]
  <2>1. req[c].session \in Sessions
    BY <1>5 DEF ReadersTrue
  <2>2. PICK out \in Replies : Outcome(c, id, full, hit, out)
    BY <1>5, <2>1, DeliverOutcome
  <2>3. [req[c] EXCEPT !.pc = "reply", !.entry = None, !.out = out] \in ReqState
    BY Known DEF ReqState
  <2>4. req' \in [Callers -> ReqState]
    BY <2>2, <2>3 DEF Outcome, TypeOK, ReqState
  <2>5. [id |-> id, full |-> full] \in Body
    BY DEF Body
  <2> QED BY <2>1, <2>2, <2>4, <2>5 DEF Outcome, TypeOK, Holding
<1>6. ASSUME NEW c \in Callers, Hit(c) PROVE TypeOK'
  <2>1. req[c].entry \in Cached /\ req[c].pc # "idle"
    BY <1>6, Known DEF Hit, ReadTrue, ReqState
  <2> QED BY <1>5, <1>6, <2>1 DEF Hit, TypeOK, Cached, ReqState
<1>7. ASSUME NEW c \in Callers, Miss(c) PROVE TypeOK'
  <2>1. [req[c] EXCEPT !.pc = "page", !.entry = None] \in ReqState
    BY Known DEF ReqState
  <2>2. req' \in [Callers -> ReqState]
    BY <1>7, <2>1 DEF Miss, TypeOK, ReqState
  <2> QED BY <1>7, <2>2 DEF Miss, TypeOK, Drop, ReqState
<1>8. ASSUME NEW c \in Callers, Read(c) PROVE TypeOK'
  <2>1. [req[c] EXCEPT !.pc = "read", !.entry = [id |-> 0, full |-> Page, version |-> Version]] \in ReqState
    BY <1>0, Known DEF ReqState, Cached
  <2>2. req' \in [Callers -> ReqState]
    BY <1>8, <2>1 DEF Read, TypeOK, ReqState
  <2> QED BY <1>8, <2>2 DEF Read, TypeOK, ReqState
<1>9. ASSUME NEW c \in Callers, Answer(c) PROVE TypeOK'
  <2> DEFINE e == [req[c].entry EXCEPT !.id = nextId]
  <2>1. req[c].entry \in Cached /\ req[c].pc # "idle"
    BY <1>9, Known DEF Answer, ReadTrue, ReqState
  <2>2. e \in Cached
    BY <2>1 DEF Cached, TypeOK
  <2>3. nextId' \in Nat
    BY <1>9 DEF Answer, Logged, TypeOK
  <2>4. cache' \in [Sessions -> Cached \cup {None}]
    BY <1>9, <2>2 DEF Answer, TypeOK
  <2>5. Deliver(c, e.full, e.id, FALSE) /\ e.full \in Contents /\ e.id \in Nat
    BY <1>9, <2>2 DEF Answer, Cached
  <2> HIDE DEF e
  <2>6. req' \in [Callers -> ReqState] /\ held' \in [Sessions -> Body \cup {None}]
    BY <1>5, <2>1, <2>5
  <2> QED BY <1>9, <2>3, <2>4, <2>6 DEF Answer, TypeOK, ReqState
<1>10. NoRead \in ReqState
  BY <1>0 DEF NoRead, ReqState, PipelineAssumption
<1>11. ASSUME NEW c \in Callers, Fail(c) PROVE TypeOK'
  <2>1. req' \in [Callers -> ReqState]
    BY <1>10, <1>11 DEF Fail, TypeOK, ReqState
  <2> QED BY <1>11, <2>1 DEF Fail, TypeOK, ReqState, Logged
<1>12. ASSUME NEW c \in Callers, Receive(c) PROVE TypeOK'
  <2>1. req' \in [Callers -> ReqState]
    BY <1>10, <1>12 DEF Receive, TypeOK, ReqState
  <2> DEFINE out == req[c].out
  <2>2. out \in Replies
    BY <1>12, Known DEF Receive, ReadTrue, ReqState
  <2>3. CASE out.kind \in {"body", "delta"} /\ Rebuilt(c, out) # None
    <3>1. out.id \in Nat
      BY <2>2, <2>3 DEF Replies
    <3>2. Rebuilt(c, out) \in Contents
      <4>1. Rebuilt(c, out) \in Since(c)
        BY <1>12, <2>3 DEF Receive, NeverMisled
      <4> QED BY <4>1, <1>12, SinceIsContents DEF Receive
    <3>3. [id |-> out.id, full |-> Rebuilt(c, out)] \in Body
      BY <3>1, <3>2 DEF Body
    <3>4. mind' \in [Callers -> Body \cup {None}]
      BY <1>12, <2>3, <3>3 DEF Receive, TypeOK
    <3> QED BY <1>12, <2>1, <3>4 DEF Receive, TypeOK, ReqState
  <2>4. CASE ~(out.kind \in {"body", "delta"} /\ Rebuilt(c, out) # None)
    BY <1>12, <2>1, <2>4 DEF Receive, TypeOK, ReqState
  <2> QED BY <2>3, <2>4
<1>13. ASSUME NEW c \in Callers, LoseReply(c) PROVE TypeOK'
  <2>1. req' \in [Callers -> ReqState]
    BY <1>10, <1>13 DEF LoseReply, TypeOK, ReqState
  <2> QED BY <1>13, <2>1 DEF LoseReply, TypeOK, ReqState
<1>14. CASE UNCHANGED vars
  BY <1>14 DEF vars, TypeOK
<1> QED BY <1>1, <1>2, <1>3, <1>4, <1>6, <1>7, <1>8, <1>9, <1>11, <1>12, <1>13, <1>14 DEF Next

-----------------------------------------------------------------------------
\* What a step leaves alone.
Acts(c)   == Ask(c) \/ Hit(c) \/ Miss(c) \/ Read(c) \/ Answer(c) \/ Fail(c) \/ Receive(c) \/ LoseReply(c)
Elsewhere == StartSession \/ EndSession \/ Change \/ UNCHANGED vars

LEMMA OthersStay ==
  ASSUME TypeOK, NEW d \in Callers, Acts(d), NEW c \in Callers, c # d PROVE req'[c] = req[c] /\ mind'[c] = mind[c]
<1>1. CASE Hit(d) \/ Answer(d)
  BY <1>1 DEF TypeOK, Hit, Answer, Deliver
<1>2. CASE ~(Hit(d) \/ Answer(d))
  BY <1>2 DEF TypeOK, Acts, Ask, Miss, Read, Fail, Receive, LoseReply
<1> QED BY <1>1, <1>2

LEMMA NobodyActs == Elsewhere => req' = req /\ mind' = mind
BY DEF Elsewhere, StartSession, EndSession, Change, vars

LEMMA HistGrows ==
  ASSUME TypeOK, [Next]_vars
  PROVE  /\ Version \in Nat /\ Version' \in Nat /\ Version <= Version'
         /\ \A i \in 1..Version : hist'[i] = hist[i]
<1>0. Version = Len(hist) /\ hist \in Seq(Contents) /\ Len(hist) \in Nat
  BY DEF TypeOK, Version
<1>1. CASE Change
  <2>1. PICK r \in Contents : hist' = Append(hist, r)
    BY <1>1 DEF Change
  <2> QED BY <1>0, <2>1 DEF Version
<1>2. CASE hist' = hist
  BY <1>0, <1>2 DEF Version
<1>3. Change \/ hist' = hist
  BY DEF Next, StartSession, EndSession, Ask, Hit, Miss, Read, Answer, Fail, Receive, LoseReply, vars
<1> QED BY <1>1, <1>2, <1>3

LEMMA StillSeen == ASSUME TypeOK, [Next]_vars PROVE \A e : Seen(e) => Seen(e)'
BY HistGrows DEF Seen

\* What was read since a caller asked stays so.
LEMMA SinceGrows ==
  ASSUME TypeOK, ReadTrue, [Next]_vars, NEW c \in Callers, req[c].pc # "idle", req'[c].since = req[c].since
  PROVE  Since(c) \subseteq Since(c)'
<1>1. req[c].since \in 1..Version
  BY DEF ReadTrue
<1>2. ASSUME NEW i \in req[c].since..Version PROVE i \in req[c].since..Version' /\ hist'[i] = hist[i]
  BY <1>1, HistGrows
<1> QED BY <1>2 DEF Since

-----------------------------------------------------------------------------
\* What is cached or on the way was read.
ReqTrue(c) ==
  /\ req[c].pc \in {"probe", "read"} => req[c].entry \in Cached /\ Seen(req[c].entry)
  /\ req[c].pc = "read" => req[c].since <= req[c].entry.version
  /\ req[c].pc # "idle" => req[c].since \in 1..Version
  /\ req[c].pc = "reply" => req[c].out \in Replies
CacheTrue == \A s \in Sessions : cache[s] # None => Seen(cache[s])

LEMMA ReadTrueSplit == ReadTrue <=> CacheTrue /\ \A c \in Callers : ReqTrue(c)
BY DEF ReadTrue, CacheTrue, ReqTrue

LEMMA ReqTrueStays ==
  ASSUME TypeOK, [Next]_vars, NEW c \in Callers, req'[c] = req[c], ReqTrue(c) PROVE ReqTrue(c)'
<1>1. \A e : Seen(e) => Seen(e)'
  BY StillSeen
<1>2. req[c].since \in 1..Version => req[c].since \in 1..Version'
  BY HistGrows
<1> QED BY <1>1, <1>2 DEF ReqTrue

LEMMA PageIsContent == ASSUME TypeOK PROVE Page \in Contents
BY DEF TypeOK, Version, Page

LEMMA ReadTrueNext == TypeOK /\ ReadTrue /\ ReadersTrue /\ [Next]_vars => ReadTrue'
<1> SUFFICES ASSUME TypeOK, ReadTrue, ReadersTrue, [Next]_vars PROVE ReadTrue'
  OBVIOUS
<1>0. CacheTrue /\ \A c \in Callers : ReqTrue(c)
  BY ReadTrueSplit
<1>1. CacheTrue'
  <2>1. CASE cache' = cache
    BY <1>0, <2>1, StillSeen DEF CacheTrue
  <2>2. CASE EndSession
    BY <1>0, <2>2, StillSeen DEF CacheTrue, EndSession, Drop, TypeOK
  <2>3. ASSUME NEW c \in Callers, Miss(c) PROVE CacheTrue'
    BY <1>0, <2>3, StillSeen DEF CacheTrue, Miss, Drop, TypeOK
  <2>4. ASSUME NEW c \in Callers, Answer(c) PROVE CacheTrue'
    <3> DEFINE e == [req[c].entry EXCEPT !.id = nextId]
    <3>1. Seen(req[c].entry) /\ req[c].entry \in Cached
      BY <1>0, <2>4, Known DEF Answer, ReqTrue, ReqState
    <3>2. e.version = req[c].entry.version /\ e.full = req[c].entry.full
      BY <3>1 DEF Cached
    <3>3. Seen(e)
      BY <3>1, <3>2 DEF Seen
    <3>4. cache' = [cache EXCEPT ![req[c].session] = e]
      BY <2>4 DEF Answer
    <3> HIDE DEF e
    <3>5. \A s \in Sessions : cache'[s] \in {cache[s], e}
      BY <3>4 DEF TypeOK
    <3> QED BY <1>0, <3>3, <3>5, StillSeen DEF CacheTrue
  <2> QED BY <2>1, <2>2, <2>3, <2>4
       DEF Next, StartSession, Change, Ask, Hit, Read, Fail, Receive, LoseReply, vars, relay
<1>2. ASSUME Elsewhere, NEW c \in Callers PROVE ReqTrue(c)'
  BY <1>0, <1>2, NobodyActs, ReqTrueStays
<1>3. ASSUME NEW d \in Callers, Acts(d), NEW c \in Callers, c # d PROVE ReqTrue(c)'
  BY <1>0, <1>3, OthersStay, ReqTrueStays
<1>4. ASSUME NEW c \in Callers, Acts(c) PROVE ReqTrue(c)'
  <2>0. /\ Version \in 1..Version /\ Version \in Nat
    BY DEF TypeOK, Version
  <2>1. CASE Ask(c)
    <3>1. hist' = hist
      BY <2>1 DEF Ask
    <3>2. session \in Sessions
      BY <2>1 DEF Ask, ReadersTrue
    <3>3. PICK probe \in {FALSE} \cup {cache[session] # None} :
         req' = [req EXCEPT ![c] = [pc    |-> IF probe THEN "probe" ELSE "page",
                                    entry |-> IF probe THEN cache[session] ELSE None,
                                    session |-> session, lean |-> lean, since |-> Version, out |-> None]]
      BY <2>1 DEF Ask
    <3>4. req'[c].pc = "probe" => req'[c].entry = cache[session] /\ cache[session] # None
      BY <3>3 DEF TypeOK
    <3>5. req'[c].pc \in {"probe", "page"} /\ req'[c].since = Version
      BY <3>3 DEF TypeOK
    <3>6. cache[session] # None => cache[session] \in Cached /\ Seen(cache[session])
      BY <1>0, <3>2 DEF CacheTrue, TypeOK
    <3>7. Version' = Version
      BY <3>1 DEF Version
    <3>8. req'[c].pc = "probe" => (Seen(req[c].entry))'
      BY <3>1, <3>4, <3>6, <3>7 DEF Seen
    <3> QED BY <2>0, <3>4, <3>5, <3>6, <3>7, <3>8 DEF ReqTrue
  <2>2. ASSUME NEW id \in Nat, NEW full \in Contents, NEW hit \in BOOLEAN, Deliver(c, full, id, hit),
               req[c].pc # "idle"
        PROVE  ReqTrue(c)'
    <3>1. PICK out \in Replies : Outcome(c, id, full, hit, out)
      BY <2>2, DeliverOutcome DEF ReadersTrue
    <3>2. req'[c].pc = "reply" /\ req'[c].out = out /\ req'[c].since = req[c].since
      BY <3>1, Known DEF Outcome, TypeOK, ReqState
    <3>4. req[c].since \in 1..Version
      BY <1>0, <2>2 DEF ReqTrue
    <3> QED BY <3>2, <3>4, HistGrows DEF ReqTrue
  <2>3. CASE Hit(c)
    BY <2>2, <2>3, <1>0, Known DEF Hit, ReqTrue, ReqState, Cached
  <2>4. CASE Miss(c)
    <3>1. req'[c].pc = "page" /\ req'[c].since = req[c].since /\ hist' = hist
      BY <2>4, Known DEF Miss, TypeOK, ReqState
    <3> QED BY <1>0, <2>4, <3>1, HistGrows DEF ReqTrue, Miss
  <2>5. CASE Read(c)
    <3> DEFINE e == [id |-> 0, full |-> Page, version |-> Version]
    <3>1. req'[c].pc = "read" /\ req'[c].since = req[c].since /\ req'[c].entry = e /\ hist' = hist
      BY <2>5, Known DEF Read, TypeOK, ReqState
    <3>2. req[c].since \in 1..Version
      BY <1>0, <2>5 DEF ReqTrue, Read
    <3>3. Seen(e)
      BY <2>0 DEF Seen, Page
    <3>4. e.version = Version /\ e \in Cached
      BY <2>0, PageIsContent DEF Cached
    <3>5. Version' = Version
      BY <3>1 DEF Version
    <3> HIDE DEF e
    <3>6. Seen(e) => (Seen(req[c].entry))'
      BY <3>1, <3>5 DEF Seen
    <3> QED BY <1>0, <2>5, <3>1, <3>2, <3>3, <3>4, <3>5, <3>6 DEF ReqTrue
  <2>6. CASE Answer(c)
    <3> DEFINE e == [req[c].entry EXCEPT !.id = nextId]
    <3>1. e \in Cached
      BY <1>0, <2>6 DEF Answer, ReqTrue, Cached, TypeOK
    <3>2. Deliver(c, e.full, e.id, FALSE) /\ e.full \in Contents /\ e.id \in Nat
      BY <2>6, <3>1 DEF Answer, Cached
    <3> HIDE DEF e
    <3> QED BY <2>2, <2>6, <3>2 DEF Answer
  <2>7. CASE Fail(c) \/ Receive(c) \/ LoseReply(c)
    BY <2>7 DEF Fail, Receive, LoseReply, NoRead, TypeOK, ReqTrue
  <2> QED BY <1>4, <2>1, <2>3, <2>4, <2>5, <2>6, <2>7 DEF Acts
<1>5. \A c \in Callers : ReqTrue(c)'
  <2>1. CASE Elsewhere
    BY <1>2, <2>1
  <2>2. ASSUME NEW d \in Callers, Acts(d) PROVE \A c \in Callers : ReqTrue(c)'
    BY <1>3, <1>4, <2>2
  <2> QED BY <2>1, <2>2 DEF Next, Acts, Elsewhere
<1>6. ReadTrue <=> CacheTrue /\ \A c \in Callers : ReqTrue(c)
  BY ReadTrueSplit
<1> QED BY <1>1, <1>5 DEF ReadTrue, CacheTrue, ReqTrue

-----------------------------------------------------------------------------
\* Names of bodies.
LEMMA OneBodyStays ==
  ASSUME TypeOK, OneBody, NEW full, \A i, r : Names(i, r)' => Names(i, r) \/ (i = nextId /\ r = full),
         nextId' = nextId + 1
  PROVE  OneBody'
<1>1. nextId \in Nat
  BY DEF TypeOK
<1>2. ASSUME NEW i, NEW r, Names(i, r)' PROVE i \in 0..(nextId' - 1)
  <2>1. CASE Names(i, r)
    BY <1>1, <2>1 DEF OneBody
  <2>2. CASE i = nextId
    BY <1>1, <2>2
  <2> QED BY <1>2, <2>1, <2>2
<1>3. ASSUME NEW i, NEW r, NEW q, Names(i, r)', Names(i, q)' PROVE q = r
  <2>1. ~Names(nextId, r) /\ ~Names(nextId, q)
    BY <1>1 DEF OneBody
  <2>2. (Names(i, r) \/ (i = nextId /\ r = full)) /\ (Names(i, q) \/ (i = nextId /\ q = full))
    BY <1>3
  <2>3. Names(i, r) /\ Names(i, q) => q = r
    BY DEF OneBody
  <2> QED BY <2>1, <2>2, <2>3
<1> QED BY <1>2, <1>3 DEF OneBody

LEMMA OneBodyShrinks ==
  ASSUME TypeOK, OneBody, \A i, r : Names(i, r)' => Names(i, r), nextId' \in {nextId, nextId + 1} PROVE OneBody'
<1>1. nextId \in Nat
  BY DEF TypeOK
<1>2. ASSUME NEW i, NEW r, Names(i, r)' PROVE i \in 0..(nextId' - 1) /\ \A q : Names(i, q)' => q = r
  BY <1>1, <1>2 DEF OneBody
<1> QED BY <1>2 DEF OneBody

LEMMA CallerStays ==
  ASSUME NEW c \in Callers, req'[c] = req[c], mind'[c] = mind[c]
  PROVE  (\A i, r : CallerNames(c, i, r)' <=> CallerNames(c, i, r)) /\ Rebuilt(c, req[c].out)' = Rebuilt(c, req[c].out)
BY DEF CallerNames, Carries, Rebuilt, Has

\* What a caller rebuilds from what it is delivered, if anything, is the full result.
LEMMA DeliverRebuilds ==
  ASSUME TypeOK, OneBody, NEW c \in Callers, req[c].session \in Sessions, NEW id \in Nat, NEW full \in Contents,
         NEW hit \in BOOLEAN, NEW out, Outcome(c, id, full, hit, out), hit => Names(id, full)
  PROVE  /\ Rebuilt(c, out) \in {full, None}
         /\ out.kind \in {"body", "delta"} => out.id = id
<1> DEFINE h == held[req[c].session]
<1>0. ASSUME h # None, Has(c, h.id) PROVE mind[c].full = h.full
  <2>1. Names(h.id, h.full) /\ Names(h.id, mind[c].full)
    BY <1>0 DEF Names, HeldNames, CallerNames, Has
  <2> QED BY <2>1 DEF OneBody
<1>1. CASE out = BodyOf(id, full)
  BY <1>1 DEF BodyOf, Rebuilt
<1>2. CASE out = DeltaOf(id, full, h) /\ h # None
  <2>1. h.full \in Contents
    BY <1>2 DEF TypeOK, Body
  <2>2. Has(c, h.id) => Applied(Delta(h.full, full), mind[c].full) = full
    BY <1>0, <1>2, <2>1, DeltaApplies
  <2> QED BY <1>2, <2>2 DEF DeltaOf, Rebuilt
<1>3. CASE out = PointerTo(h) /\ hit /\ h # None /\ h.id = id
  <2>1. Has(c, id) => Names(id, mind[c].full)
    BY DEF Names, CallerNames, Has
  <2>2. Has(c, id) => mind[c].full = full
    BY <1>3, <2>1 DEF OneBody
  <2> QED BY <1>3, <2>2 DEF PointerTo, Rebuilt
<1>4. CASE out = Shape
  BY <1>4 DEF Shape, Rebuilt
<1> QED BY <1>1, <1>2, <1>3, <1>4 DEF Outcome

\* Whom a delivery gives which body.
LEMMA DeliverNames ==
  ASSUME TypeOK, OneBody, NEW c \in Callers, req[c].session \in Sessions, NEW id \in Nat, NEW full \in Contents,
         NEW hit \in BOOLEAN, NEW out, Outcome(c, id, full, hit, out), hit => Names(id, full), mind' = mind
  PROVE  \A i, r : HeldNames(i, r)' \/ (\E d \in Callers : CallerNames(d, i, r)')
                   => Names(i, r) \/ (i = id /\ r = full)
<1> SUFFICES ASSUME NEW i, NEW r PROVE
      /\ HeldNames(i, r)' => Names(i, r) \/ (i = id /\ r = full)
      /\ \A d \in Callers : CallerNames(d, i, r)' => Names(i, r) \/ (i = id /\ r = full)
  OBVIOUS
<1>1. HeldNames(i, r)' => Names(i, r) \/ (i = id /\ r = full)
  <2>1. held' = held \/ Holding(c, id, full)
    BY DEF Outcome
  <2>2. \A s \in Sessions : held'[s] = held[s] \/ held'[s] = [id |-> id, full |-> full]
    BY <2>1 DEF Holding, TypeOK
  <2> QED BY <2>2 DEF HeldNames, Names
<1>2. ASSUME NEW d \in Callers, d # c, CallerNames(d, i, r)' PROVE Names(i, r)
  <2>1. req'[d] = req[d] /\ mind'[d] = mind[d]
    BY <1>2 DEF Outcome, TypeOK
  <2> QED BY <1>2, <2>1, CallerStays DEF Names
<1>3. CallerNames(c, i, r)' => Names(i, r) \/ (i = id /\ r = full)
  <2>1. req'[c].pc = "reply" /\ req'[c].out = out
    BY Known DEF Outcome, TypeOK, ReqState
  <2>2. Rebuilt(c, out)' = Rebuilt(c, out)
    BY DEF Rebuilt, Has
  <2>3. Carries(c)' => Rebuilt(c, out) = full /\ out.id = id
    BY <2>1, <2>2, DeliverRebuilds DEF Carries
  <2> QED BY <2>1, <2>2, <2>3 DEF CallerNames, Names
<1> QED BY <1>1, <1>2, <1>3

LEMMA OneBodyNext == TypeOK /\ ReadTrue /\ OneBody /\ ReadersTrue /\ [Next]_vars => OneBody'
<1> SUFFICES ASSUME TypeOK, ReadTrue, OneBody, ReadersTrue, [Next]_vars PROVE OneBody'
  OBVIOUS
<1>0. nextId \in Nat /\ nextId' \in {nextId, nextId + 1}
  <2>1. \A c \in Callers : Answer(c) \/ Fail(c) => nextId' = nextId + 1
    BY DEF Answer, Fail, Logged
  <2> QED BY <2>1 DEF Next, StartSession, EndSession, Change, Ask, Hit, Miss, Read, Receive, LoseReply, vars, relay, TypeOK
<1>1. CASE Elsewhere
  <2>1. req' = req /\ mind' = mind /\ nextId' = nextId
    BY <1>1, NobodyActs DEF Elsewhere, StartSession, EndSession, Change, vars, relay
  <2>2. \A s \in Sessions : held'[s] \in {held[s], None} /\ cache'[s] \in {cache[s], None}
    BY <1>1 DEF Elsewhere, StartSession, EndSession, Change, vars, relay, TypeOK, Drop
  <2>3. \A c \in Callers : \A i, r : CallerNames(c, i, r)' => CallerNames(c, i, r)
    BY <2>1, CallerStays
  <2>4. \A i, r : Names(i, r)' => Names(i, r)
    BY <2>2, <2>3 DEF Names, HeldNames, CacheNames
  <2> QED BY <1>0, <2>4, OneBodyShrinks
<1>2. ASSUME NEW c \in Callers, held' = held,
             \A s \in Sessions : cache'[s] \in {cache[s], None}, Acts(c),
             \A i, r : CallerNames(c, i, r)' => Names(i, r)
      PROVE  OneBody'
  <2>1. \A d \in Callers : \A i, r : CallerNames(d, i, r)' => Names(i, r)
    <3>1. ASSUME NEW d \in Callers, d # c, NEW i, NEW r, CallerNames(d, i, r)' PROVE Names(i, r)
      <4>1. req'[d] = req[d] /\ mind'[d] = mind[d]
        BY <1>2, <3>1, OthersStay
      <4> QED BY <3>1, <4>1, CallerStays DEF Names
    <3> QED BY <1>2, <3>1
  <2>2. \A i, r : Names(i, r)' => Names(i, r)
    BY <1>2, <2>1 DEF Names, HeldNames, CacheNames
  <2> QED BY <1>0, <2>2, OneBodyShrinks
<1>3. ASSUME NEW c \in Callers, Ask(c) PROVE OneBody'
  <2>1. session \in Sessions /\ cache' = cache /\ held' = held /\ mind' = mind
    BY <1>3 DEF Ask, ReadersTrue, relay
  <2>2. PICK probe \in {FALSE} \cup {cache[session] # None} :
       req' = [req EXCEPT ![c] = [pc    |-> IF probe THEN "probe" ELSE "page",
                                  entry |-> IF probe THEN cache[session] ELSE None,
                                  session |-> session, lean |-> lean, since |-> Version, out |-> None]]
    BY <1>3 DEF Ask
  <2>3. req'[c].pc # "reply" /\ (req'[c].pc = "probe" => req'[c].entry = cache[session] /\ cache[session] # None)
    BY <2>2 DEF TypeOK
  <2>4. \A i, r : CallerNames(c, i, r)' => Names(i, r)
    BY <2>1, <2>3 DEF CallerNames, Carries, Names, CacheNames
  <2> QED BY <1>2, <1>3, <2>1, <2>4 DEF Acts
<1>4. ASSUME NEW c \in Callers, Hit(c) PROVE OneBody'
  <2> DEFINE e == req[c].entry
  <2>1. e \in Cached /\ Names(e.id, e.full) /\ req[c].session \in Sessions
    BY <1>4 DEF Hit, ReadTrue, ReadersTrue, Names, CallerNames
  <2>2. PICK out \in Replies : Outcome(c, e.id, e.full, TRUE, out)
    BY <1>4, <2>1, DeliverOutcome DEF Hit, Cached
  <2>3. \A i, r : HeldNames(i, r)' \/ (\E d \in Callers : CallerNames(d, i, r)') => Names(i, r) \/ (i = e.id /\ r = e.full)
    <3>1. e.id \in Nat /\ e.full \in Contents /\ mind' = mind
      BY <1>4, <2>1 DEF Hit, Cached
    <3> HIDE DEF e
    <3> QED BY <2>1, <2>2, <3>1, DeliverNames
  <2>4. \A i, r : Names(i, r)' => Names(i, r)
    BY <1>4, <2>1, <2>3 DEF Names, CacheNames, Hit
  <2> QED BY <1>0, <2>4, OneBodyShrinks
<1>5. ASSUME NEW c \in Callers, Miss(c) PROVE OneBody'
  <2>1. req'[c].pc = "page" /\ held' = held /\ mind' = mind /\ \A s \in Sessions : cache'[s] \in {cache[s], None}
    BY <1>5, Known DEF Miss, ReqState, TypeOK, Drop
  <2>2. \A i, r : CallerNames(c, i, r)' => Names(i, r)
    BY <2>1 DEF CallerNames, Carries, Names
  <2> QED BY <1>2, <1>5, <2>1, <2>2 DEF Acts
<1>6. ASSUME NEW c \in Callers, Read(c) \/ Fail(c) \/ LoseReply(c) PROVE OneBody'
  <2>1. req'[c].pc \in {"read", "idle"} /\ held' = held /\ mind' = mind /\ cache' = cache
    BY <1>6, Known DEF Read, Fail, LoseReply, NoRead, ReqState, TypeOK, relay
  <2>2. \A i, r : CallerNames(c, i, r)' => Names(i, r)
    BY <2>1 DEF CallerNames, Carries, Names
  <2> QED BY <1>2, <1>6, <2>1, <2>2 DEF Acts
<1>7. ASSUME NEW c \in Callers, Answer(c) PROVE OneBody'
  <2> DEFINE e == [req[c].entry EXCEPT !.id = nextId]
             full == e.full
  <2>1. e \in Cached /\ e.id = nextId /\ req[c].session \in Sessions
    BY <1>0, <1>7 DEF Answer, ReadTrue, ReadersTrue, Cached
  <2>2. full \in Contents /\ mind' = mind /\ nextId' = nextId + 1 /\ cache' = [cache EXCEPT ![req[c].session] = e]
        /\ Deliver(c, full, nextId, FALSE)
    BY <1>7, <2>1 DEF Answer, Cached, Logged
  <2>3. PICK out \in Replies : Outcome(c, nextId, full, FALSE, out)
    <3> HIDE DEF full
    <3> QED BY <1>0, <2>1, <2>2, DeliverOutcome
  <2>4. \A i, r : HeldNames(i, r)' \/ (\E d \in Callers : CallerNames(d, i, r)') => Names(i, r) \/ (i = nextId /\ r = full)
    <3> HIDE DEF full
    <3> QED BY <1>0, <2>1, <2>2, <2>3, DeliverNames
  <2>5. \A s \in Sessions : cache'[s] \in {cache[s], e}
    BY <2>2 DEF TypeOK
  <2>6. \A i, r : CacheNames(i, r)' => Names(i, r) \/ (i = nextId /\ r = full)
    <3>1. e.id = nextId /\ e.full = full
      BY <2>1
    <3> HIDE DEF e, full
    <3> QED BY <2>5, <3>1 DEF CacheNames, Names
  <2>7. \A i, r : Names(i, r)' => Names(i, r) \/ (i = nextId /\ r = full)
    BY <2>4, <2>6 DEF Names
  <2> HIDE DEF full
  <2> QED BY <2>2, <2>7, OneBodyStays
<1>8. ASSUME NEW c \in Callers, Receive(c) PROVE OneBody'
  <2>1. req'[c].pc = "idle" /\ held' = held /\ cache' = cache
    BY <1>8 DEF Receive, NoRead, TypeOK, relay
  <2>2. mind'[c] = mind[c] \/ (Carries(c) /\ mind'[c] = [id |-> req[c].out.id, full |-> Rebuilt(c, req[c].out)])
    BY <1>8 DEF Receive, Carries, TypeOK
  <2>3. \A i, r : CallerNames(c, i, r)' => Names(i, r)
    BY <2>1, <2>2 DEF CallerNames, Carries, Names
  <2> QED BY <1>2, <1>8, <2>1, <2>3 DEF Acts
<1> QED BY <1>1, <1>3, <1>4, <1>5, <1>6, <1>7, <1>8 DEF Next, Elsewhere

-----------------------------------------------------------------------------
\* What callers rebuild.
LEMMA MisledNext == TypeOK /\ ReadTrue /\ OneBody /\ NeverMisled /\ ReadersTrue /\ [Next]_vars => NeverMisled'
<1> SUFFICES ASSUME TypeOK, ReadTrue, OneBody, NeverMisled, ReadersTrue, [Next]_vars,
                    NEW c \in Callers, req'[c].pc = "reply"
             PROVE  Rebuilt(c, req[c].out)' \in (Since(c))' \cup {None}
  BY DEF NeverMisled
<1>1. CASE req'[c] = req[c] /\ mind'[c] = mind[c]
  <2>1. Rebuilt(c, req[c].out) \in Since(c) \cup {None}
    BY <1>1 DEF NeverMisled
  <2> QED BY <1>1, <2>1, CallerStays, SinceGrows
<1>2. ASSUME NEW id \in Nat, NEW full \in Contents, NEW hit \in BOOLEAN, NEW v \in req[c].since..Version,
             Deliver(c, full, id, hit), full = hist[v],
             req[c].pc # "idle", hit => Names(id, full), mind' = mind
      PROVE  Rebuilt(c, req[c].out)' \in (Since(c))' \cup {None}
  <2>1. req[c].session \in Sessions
    BY <1>2 DEF ReadersTrue
  <2>2. PICK out \in Replies : Outcome(c, id, full, hit, out)
    BY <1>2, <2>1, DeliverOutcome
  <2>3. req'[c].out = out /\ req'[c].since = req[c].since
    BY <2>2, Known DEF Outcome, TypeOK, ReqState
  <2>4. Rebuilt(c, req[c].out)' = Rebuilt(c, out)
    BY <1>2, <2>3 DEF Rebuilt, Has
  <2>5. Rebuilt(c, out) \in {full, None}
    BY <1>2, <2>1, <2>2, DeliverRebuilds
  <2>6. full \in Since(c)
    BY <1>2 DEF Since
  <2>7. Since(c) \subseteq (Since(c))'
    BY <1>2, <2>3, SinceGrows
  <2> QED BY <2>4, <2>5, <2>6, <2>7
<1>3. CASE Hit(c)
  <2> DEFINE e == req[c].entry
  <2>1. e \in Cached /\ e.full = hist[e.version] /\ Names(e.id, e.full) /\ req[c].since \in 1..Version
    BY <1>3 DEF Hit, ReadTrue, Seen, Names, CallerNames
  <2>2. e.version = Version /\ Version \in Nat /\ Version \in req[c].since..Version
    BY <1>3, <2>1, HistGrows DEF Hit
  <2> QED BY <1>2, <1>3, <2>1, <2>2 DEF Hit, Cached
<1>4. CASE Answer(c)
  <2> DEFINE e == [req[c].entry EXCEPT !.id = nextId]
  <2>1. e \in Cached /\ e.full = hist[e.version] /\ e.version \in req[c].since..Version /\ e.id = nextId
    <3>1. req[c].entry \in Cached /\ Seen(req[c].entry) /\ req[c].since <= req[c].entry.version /\ req[c].since \in 1..Version
      BY <1>4 DEF Answer, ReadTrue
    <3>2. e \in Cached /\ e.full = req[c].entry.full /\ e.version = req[c].entry.version /\ e.id = nextId
      BY <3>1 DEF Cached, TypeOK
    <3> HIDE DEF e
    <3> QED BY <3>1, <3>2, HistGrows DEF Seen
  <2>2. Deliver(c, e.full, e.id, FALSE) /\ mind' = mind /\ req[c].pc = "read" /\ e.id \in Nat /\ e.full \in Contents
    BY <1>4, <2>1 DEF Answer, Cached
  <2> HIDE DEF e
  <2> QED BY <1>2, <2>1, <2>2
<1>5. \A d \in Callers : Acts(d) /\ d # c => req'[c] = req[c] /\ mind'[c] = mind[c]
  BY OthersStay
<1>6. Elsewhere => req'[c] = req[c] /\ mind'[c] = mind[c]
  BY NobodyActs
<1>7. ~Ask(c) /\ ~Miss(c) /\ ~Read(c) /\ ~Fail(c) /\ ~Receive(c) /\ ~LoseReply(c)
  BY DEF Ask, Miss, Read, Fail, Receive, LoseReply, NoRead, TypeOK
<1> QED BY <1>1, <1>3, <1>4, <1>5, <1>6, <1>7 DEF Next, Elsewhere, Acts

-----------------------------------------------------------------------------
\* Who reads in which session.
LEMMA DeliverKeeps ==
  ASSUME TypeOK, NEW c \in Callers, NEW full, NEW id, NEW hit, Deliver(c, full, id, hit)
  PROVE  req'[c].session = req[c].session
<1>1. PICK out : req' = [req EXCEPT ![c] = [@ EXCEPT !.pc = "reply", !.entry = None, !.out = out]]
  BY DEF Deliver
<1> QED BY <1>1, Known DEF TypeOK, ReqState

LastOf(c) ==
  req[c].pc # "idle" =>
    /\ req[c].session \in Sessions /\ req[c].session <= session /\ c \in readers[req[c].session]
    /\ ~Later(c, req[c].session)

LEMMA ReadersNext == TypeOK /\ ReadersTrue /\ [Next]_vars => ReadersTrue'
<1> SUFFICES ASSUME TypeOK, ReadersTrue, [Next]_vars PROVE ReadersTrue'
  OBVIOUS
<1>0. /\ session \in Nat /\ MaxSession \in Nat /\ session <= MaxSession
      /\ \A s \in Sessions : s \in Nat
      /\ None \notin Callers
  BY PipelineAssumption DEF TypeOK, Sessions, PipelineAssumption
<1>1. CASE StartSession
  <2>1. session' = session + 1 /\ session' \in Sessions /\ readers' = readers /\ held' = held /\ req' = req
    BY <1>0, <1>1 DEF StartSession, Sessions
  <2>2. \A s \in Sessions : s > session' => s > session
    BY <1>0, <2>1
  <2>3. \A c \in Callers : LastOf(c) => LastOf(c)'
    <3> TAKE c \in Callers
    <3>1. \A s \in Sessions : s <= session => s <= session'
      BY <1>0, <2>1
    <3>2. Later(c, req[c].session)' <=> Later(c, req[c].session)
      BY <2>1 DEF Later
    <3> QED BY <2>1, <3>1, <3>2 DEF LastOf
  <2> QED BY <2>1, <2>2, <2>3 DEF ReadersTrue, LastOf
<1>2. CASE EndSession \/ Change \/ UNCHANGED vars
  <2>1. session' = session /\ readers' = readers /\ req' = req /\ (active' => active)
    BY <1>2 DEF EndSession, Change, vars, relay
  <2>2. \A s \in Sessions : held'[s] \in {held[s], None}
    BY <1>2 DEF EndSession, Change, vars, relay, TypeOK, Drop
  <2> QED BY <2>1, <2>2 DEF ReadersTrue, Later
<1>3. ASSUME NEW c \in Callers, Ask(c) PROVE ReadersTrue'
  <2>1. /\ session \in Sessions /\ readers' = [readers EXCEPT ![session] = @ \cup {c}]
        /\ session' = session /\ held' = held /\ active' = active
    BY <1>3 DEF Ask, ReadersTrue, relay
  <2>2. /\ readers'[session] = readers[session] \cup {c}
        /\ \A s \in Sessions : s # session => readers'[s] = readers[s]
    BY <2>1 DEF TypeOK
  <2>3. req'[c].session = session
    BY <1>3 DEF Ask, TypeOK
  <2>4. \A d \in Callers : d # c => req'[d] = req[d]
    BY <1>3 DEF Ask, TypeOK
  <2>5. LastOf(c)'
    <3>1. \A u \in Sessions : u > session => readers'[u] = {}
      BY <1>0, <2>2 DEF ReadersTrue
    <3> QED BY <1>0, <2>1, <2>2, <2>3, <3>1 DEF LastOf, Later
  <2>6. ASSUME NEW d \in Callers, d # c PROVE LastOf(d)'
    <3>1. LastOf(d)
      BY DEF ReadersTrue, LastOf
    <3>2. \A u \in Sessions : d \in readers'[u] <=> d \in readers[u]
      BY <2>2, <2>6
    <3> QED BY <2>1, <2>4, <2>6, <3>1, <3>2 DEF LastOf, Later
  <2>7. \A s \in Sessions : s > session => readers'[s] = {}
    BY <1>0, <2>2 DEF ReadersTrue
  <2>8. \A s \in Sessions : held[s] # None => readers'[s] # {}
    BY <2>2 DEF ReadersTrue
  <2> QED BY <2>1, <2>5, <2>6, <2>7, <2>8 DEF ReadersTrue, LastOf
<1>4. ASSUME NEW c \in Callers, Acts(c), ~Ask(c) PROVE ReadersTrue'
  <2>1. session' = session /\ active' = active
    <3>1. CASE Hit(c) \/ Miss(c) \/ Answer(c) \/ Fail(c)
      BY <3>1 DEF Hit, Miss, Answer, Fail
    <3>2. CASE Read(c) \/ Receive(c) \/ LoseReply(c)
      BY <3>2 DEF Read, Receive, LoseReply, relay
    <3> QED BY <1>4, <3>1, <3>2 DEF Acts
  <2>2. \A s \in Sessions : readers'[s] \in {readers[s], readers[s] \cup {None}}
    <3>1. CASE LoseReply(c)
      BY <3>1 DEF LoseReply, TypeOK
    <3>2. CASE ~LoseReply(c)
      BY <1>4, <3>2 DEF Acts, Hit, Miss, Read, Answer, Fail, Receive
    <3> QED BY <3>1, <3>2
  <2>3. req[c].pc # "idle" => req[c].session \in Sessions
    BY DEF ReadersTrue
  <2>4. \A s \in Sessions : readers'[s] # readers[s] => s = req[c].session
    BY <1>4 DEF Acts, Hit, Miss, Read, Answer, Fail, Receive, LoseReply, relay, TypeOK
  <2>5. req[c].pc # "idle"
    BY <1>4 DEF Acts, Hit, Miss, Read, Answer, Fail, Receive, LoseReply
  <2>6. c \in readers[req[c].session] /\ req[c].session <= session
    BY <2>5 DEF ReadersTrue
  <2>7. \A s \in Sessions : s > session => readers'[s] = {}
    BY <1>0, <2>3, <2>4, <2>5, <2>6 DEF ReadersTrue
  <2>8. req'[c].pc # "idle" => req'[c].session = req[c].session
    <3>1. CASE Hit(c) \/ Answer(c)
      BY <3>1, Known, DeliverKeeps DEF Hit, Answer
    <3>2. CASE Miss(c) \/ Read(c)
      BY <3>2, Known DEF Miss, Read, TypeOK, ReqState
    <3>3. CASE Fail(c) \/ Receive(c) \/ LoseReply(c)
      BY <3>3 DEF Fail, Receive, LoseReply, NoRead, TypeOK
    <3> QED BY <1>4, <3>1, <3>2, <3>3 DEF Acts
  <2>9. \A d \in Callers : d # c => req'[d] = req[d]
    BY <1>4, OthersStay
  <2>10. \A d \in Callers, s \in Sessions : d \in readers'[s] <=> d \in readers[s]
    BY <1>0, <2>2
  <2>11. ASSUME NEW d \in Callers PROVE LastOf(d)'
    <3>1. LastOf(d)
      BY DEF ReadersTrue, LastOf
    <3>2. req'[d].pc # "idle" => req[d].pc # "idle" /\ req'[d].session = req[d].session
      BY <2>5, <2>8, <2>9
    <3> QED BY <2>1, <2>10, <3>1, <3>2 DEF LastOf, Later
  <2>12. \A s \in Sessions : held'[s] # None => readers'[s] # {}
    <3>1. \A s \in Sessions : held'[s] # held[s] => s = req[c].session
      BY <1>4 DEF Acts, Hit, Miss, Read, Answer, Fail, Receive, LoseReply, Deliver, relay, TypeOK
    <3>2. \A s \in Sessions : s = req[c].session => readers'[s] # {}
      BY <2>6, <2>10
    <3>3. \A s \in Sessions : readers[s] # {} => readers'[s] # {}
      BY <2>2
    <3> QED BY <3>1, <3>2, <3>3 DEF ReadersTrue
  <2> QED BY <2>1, <2>7, <2>11, <2>12 DEF ReadersTrue, LastOf
<1> QED BY <1>1, <1>2, <1>3, <1>4 DEF Next, Acts

-----------------------------------------------------------------------------
\* What is held of a caller that reads alone.
HeldOf(c)  == \A s \in Sessions : Alone(c, s) /\ ~Later(c, s) /\ held[s] # None => mind[c] = held[s]
KeptOf(c)  == /\ req[c].pc # "reply" => HeldOf(c)
              /\ req[c].pc = "reply" /\ Alone(c, req[c].session) => Good(c)

LEMMA KeptSplit == Kept <=> \A c \in Callers : KeptOf(c)
BY DEF Kept, KeptOf, HeldOf

\* It stays as long as nobody else reads in its session.
LEMMA KeptStays ==
  ASSUME TypeOK, NEW c \in Callers, req'[c] = req[c], mind'[c] = mind[c], KeptOf(c),
         \A s \in Sessions : (c \in readers'[s]) = (c \in readers[s]),
         \A s \in Sessions : Alone(c, s)' => Alone(c, s) /\ held'[s] \in {held[s], None}
  PROVE  KeptOf(c)'
<1>1. \A s \in Sessions : Later(c, s)' <=> Later(c, s)
  BY DEF Later
<1>2. HeldOf(c) => HeldOf(c)'
  BY <1>1 DEF HeldOf
<1>3. ASSUME req[c].pc = "reply", Alone(c, req[c].session)' PROVE Good(c)'
  <2>1. req[c].session \in Sessions
    BY <1>3 DEF Alone
  <2>2. Alone(c, req[c].session) /\ held'[req[c].session] \in {held[req[c].session], None}
    BY <1>3, <2>1 DEF Alone
  <2>3. Good(c)
    BY <1>3, <2>2 DEF KeptOf
  <2>4. Rebuilt(c, req[c].out)' = Rebuilt(c, req[c].out)
    BY CallerStays
  <2>5. Told(c)' = Told(c)
    BY <2>4 DEF Told
  <2> QED BY <2>2, <2>3, <2>4, <2>5 DEF Good
<1> QED BY <1>2, <1>3 DEF KeptOf, Alone

\* A delivery to a caller that reads alone leaves held what the caller has when it gets the reply.
LEMMA DeliverKept ==
  ASSUME TypeOK, ReadersTrue, NEW c \in Callers, req[c].pc \notin {"idle", "reply"}, KeptOf(c),
         NEW id \in Nat, NEW full \in Contents, NEW hit \in BOOLEAN, Deliver(c, full, id, hit),
         mind' = mind, readers' = readers
  PROVE  KeptOf(c)'
<1> DEFINE s == req[c].session
           h == held[s]
<1>1. s \in Sessions /\ ~Later(c, s) /\ HeldOf(c)
  BY DEF ReadersTrue, KeptOf
<1>2. PICK out \in Replies : Outcome(c, id, full, hit, out)
  BY <1>1, DeliverOutcome
<1>3. req'[c].pc = "reply" /\ req'[c].out = out /\ req'[c].session = s
  BY <1>2, Known DEF Outcome, TypeOK, ReqState
<1>4. Rebuilt(c, req[c].out)' = Rebuilt(c, out)
  BY <1>3 DEF Rebuilt, Has
<1>5. SUFFICES ASSUME Alone(c, s) PROVE Good(c)'
  BY <1>3 DEF KeptOf, Alone
<1>6. h # None => mind[c] = h
  BY <1>1, <1>5 DEF HeldOf
<1>7. None \notin Contents
  BY PipelineAssumption DEF PipelineAssumption
<1>8. Holding(c, id, full) => held'[s] = [id |-> id, full |-> full]
  BY <1>1 DEF Holding, TypeOK
<1>9. CASE out = BodyOf(id, full) /\ Holding(c, id, full)
  <2>1. Rebuilt(c, out) = full
    BY <1>9 DEF BodyOf, Rebuilt
  <2> QED BY <1>3, <1>4, <1>7, <1>8, <1>9, <2>1 DEF Good, Told, BodyOf
<1>10. CASE out = DeltaOf(id, full, h) /\ h # None /\ Holding(c, id, full)
  <2>1. h.full \in Contents
    BY <1>1, <1>10 DEF TypeOK, Body
  <2>2. Has(c, h.id) /\ mind[c].full = h.full
    BY <1>6, <1>10 DEF Has
  <2>3. Rebuilt(c, out) = full
    BY <1>10, <2>1, <2>2, DeltaApplies DEF DeltaOf, Rebuilt
  <2> QED BY <1>3, <1>4, <1>7, <1>8, <1>10, <2>3 DEF Good, Told, DeltaOf
<1>11. CASE out = PointerTo(h) /\ h # None /\ held' = held
  <2>1. h.full \in Contents
    BY <1>1, <1>11 DEF TypeOK, Body
  <2>2. Has(c, h.id) /\ mind[c].full = h.full
    BY <1>6, <1>11 DEF Has
  <2>3. Rebuilt(c, out) = h.full
    BY <1>11, <2>2 DEF PointerTo, Rebuilt
  <2> QED BY <1>3, <1>4, <1>6, <1>7, <1>11, <2>1, <2>3 DEF Good, Told, PointerTo
<1>12. CASE out = Shape /\ held' = held
  BY <1>3, <1>6, <1>12 DEF Good, Told, Shape
<1> QED BY <1>2, <1>9, <1>10, <1>11, <1>12 DEF Outcome

LEMMA KeptNext == TypeOK /\ ReadTrue /\ NeverMisled /\ ReadersTrue /\ Kept /\ [Next]_vars => Kept'
<1> SUFFICES ASSUME TypeOK, ReadTrue, NeverMisled, ReadersTrue, Kept, [Next]_vars, NEW c \in Callers PROVE KeptOf(c)'
  BY DEF Kept, KeptOf, HeldOf
<1>0. /\ KeptOf(c)
      /\ c # None
      /\ \A s \in Sessions : s \in Nat
      /\ session \in Nat
  BY KeptSplit, PipelineAssumption DEF PipelineAssumption, Sessions, TypeOK
<1>1. CASE Elsewhere
  <2>1. readers' = readers /\ req' = req /\ mind' = mind
    BY <1>1, NobodyActs DEF Elsewhere, StartSession, EndSession, Change, vars
  <2>2. \A s \in Sessions : held'[s] \in {held[s], None}
    BY <1>1 DEF Elsewhere, StartSession, EndSession, Change, vars, relay, TypeOK, Drop
  <2> QED BY <1>0, <2>1, <2>2, KeptStays DEF Alone
<1>2. ASSUME NEW d \in Callers, Acts(d), d # c PROVE KeptOf(c)'
  <2>1. req'[c] = req[c] /\ mind'[c] = mind[c]
    BY <1>2, OthersStay
  <2>2. \A s \in Sessions : readers'[s] \in {readers[s], readers[s] \cup {d}, readers[s] \cup {None}}
    <3>1. CASE Ask(d)
      BY <3>1 DEF Ask, TypeOK
    <3>2. CASE LoseReply(d)
      BY <3>2 DEF LoseReply, TypeOK
    <3>3. CASE ~Ask(d) /\ ~LoseReply(d)
      BY <1>2, <3>3 DEF Acts, Hit, Miss, Read, Answer, Fail, Receive
    <3> QED BY <3>1, <3>2, <3>3
  <2>3. \A s \in Sessions : (c \in readers'[s]) = (c \in readers[s])
    BY <1>0, <1>2, <2>2
  <2>4. \A s \in Sessions : Alone(c, s)' => Alone(c, s)
    <3>1. \A s \in Sessions : readers'[s] = {c} => readers[s] = {c}
      BY <1>0, <1>2, <2>2
    <3> QED BY <3>1 DEF Alone
  <2>5. \A s \in Sessions : Alone(c, s) => held'[s] = held[s]
    <3>1. \A s \in Sessions : held'[s] # held[s] => s = req[d].session /\ req[d].pc # "idle"
      BY <1>2 DEF Acts, Ask, Hit, Miss, Read, Answer, Fail, Receive, LoseReply, Deliver, relay, TypeOK
    <3>2. req[d].pc # "idle" => d \in readers[req[d].session]
      BY DEF ReadersTrue
    <3> QED BY <1>2, <3>1, <3>2 DEF Alone
  <2> QED BY <1>0, <2>1, <2>3, <2>4, <2>5, KeptStays
<1>3. CASE Ask(c)
  <2>1. /\ session \in Sessions /\ readers' = [readers EXCEPT ![session] = @ \cup {c}]
        /\ held' = held /\ mind' = mind /\ req[c].pc = "idle"
    BY <1>3 DEF Ask, ReadersTrue, relay
  <2>2. /\ readers'[session] = readers[session] \cup {c}
        /\ \A s \in Sessions : s # session => readers'[s] = readers[s]
    BY <2>1 DEF TypeOK
  <2>3. req'[c].pc # "reply" /\ HeldOf(c)
    BY <1>0, <1>3, <2>1 DEF Ask, TypeOK, KeptOf
  <2>4. ASSUME NEW s \in Sessions, Alone(c, s)', ~Later(c, s)', held[s] # None PROVE mind[c] = held[s]
    <3>1. ~Later(c, s)
      BY <2>2, <2>4 DEF Later
    <3>2. Alone(c, s)
      <4>1. readers[s] # {}
        BY <2>4 DEF ReadersTrue
      <4>2. readers'[s] = {c}
        BY <2>4 DEF Alone
      <4> QED BY <2>2, <4>1, <4>2 DEF Alone
    <3> QED BY <2>3, <2>4, <3>1, <3>2 DEF HeldOf
  <2> QED BY <2>1, <2>3, <2>4 DEF KeptOf, HeldOf
<1>4. CASE Hit(c)
  <2>1. req[c].entry \in Cached
    BY <1>4 DEF Hit, ReadTrue
  <2> QED BY <1>0, <1>4, <2>1, DeliverKept DEF Hit, Cached
<1>5. CASE Answer(c)
  <2> DEFINE e == [req[c].entry EXCEPT !.id = nextId]
  <2>1. e \in Cached
    BY <1>5 DEF Answer, ReadTrue, Cached, TypeOK
  <2>2. Deliver(c, e.full, e.id, FALSE) /\ mind' = mind /\ readers' = readers /\ req[c].pc = "read"
        /\ e.full \in Contents /\ e.id \in Nat
    BY <1>5, <2>1 DEF Answer, Cached
  <2> HIDE DEF e
  <2> QED BY <1>0, <2>2, DeliverKept
<1>6. CASE Miss(c) \/ Read(c) \/ Fail(c)
  <2>1. req[c].pc # "reply" /\ req'[c].pc # "reply" /\ held' = held /\ mind' = mind /\ readers' = readers
    BY <1>6, Known DEF Miss, Read, Fail, NoRead, TypeOK, ReqState, relay
  <2> QED BY <1>0, <2>1 DEF KeptOf, HeldOf, Alone, Later
<1>7. ASSUME Receive(c) \/ LoseReply(c) PROVE KeptOf(c)'
  <2> DEFINE z == req[c].session
  <2>1. req'[c].pc = "idle" /\ held' = held /\ req[c].pc = "reply"
    BY <1>7 DEF Receive, LoseReply, NoRead, TypeOK, relay
  <2>2. z \in Sessions /\ ~Later(c, z) /\ c \in readers[z]
    BY <2>1 DEF ReadersTrue
  <2>3. \A s \in Sessions : c \in readers[s] /\ ~Later(c, s) => s = z
    BY <1>0, <2>2 DEF Later
  <2>4. \A s \in Sessions : readers'[s] \in {readers[s], readers[s] \cup {None}}
    BY <1>7 DEF Receive, LoseReply, TypeOK
  <2>5. \A s \in Sessions : (c \in readers'[s]) = (c \in readers[s])
    BY <1>0, <2>4
  <2>6. \A s \in Sessions : Alone(c, s)' /\ ~Later(c, s)' => s = z
    BY <2>3, <2>5 DEF Alone, Later
  <2>7. readers'[z] = {c} /\ held[z] # None => mind'[c] = held[z]
    <3>1. CASE LoseReply(c)
      <4>1. None \in readers'[z]
        BY <2>2, <3>1 DEF LoseReply, TypeOK
      <4> QED BY <1>0, <4>1
    <3>2. ASSUME Receive(c), readers'[z] = {c}, held[z] # None PROVE mind'[c] = held[z]
      <4>1. Good(c)
        BY <1>0, <2>1, <2>2, <3>2 DEF Receive, KeptOf, Alone
      <4>2. held[z] = Told(c)
        BY <3>2, <4>1 DEF Good
      <4>3. CASE req[c].out.kind \in {"body", "delta"}
        <5>1. Rebuilt(c, req[c].out) # None
          BY <4>1, <4>3 DEF Good
        <5> QED BY <3>2, <4>2, <4>3, <5>1 DEF Receive, Told, TypeOK
      <4>4. CASE req[c].out.kind \notin {"body", "delta"}
        BY <3>2, <4>2, <4>4 DEF Receive, Told
      <4> QED BY <4>3, <4>4
    <3> QED BY <1>7, <3>1, <3>2
  <2> QED BY <2>1, <2>6, <2>7 DEF KeptOf, HeldOf, Alone
<1> QED BY <1>1, <1>2, <1>3, <1>4, <1>5, <1>6, <1>7 DEF Next, Elsewhere, Acts

-----------------------------------------------------------------------------
\* The results.
LEMMA Holds == Spec => []IInv
<1>1. IInv /\ [Next]_vars => IInv'
  BY TypeNext, ReadTrueNext, OneBodyNext, MisledNext, ReadersNext, KeptNext DEF IInv
<1> QED BY <1>1, InitHolds, PTL DEF Spec

\* Every variable has its type, the deltas on their way included (deliverRead, computeReadDelta).
THEOREM TypeCorrect == Spec => []TypeOK
<1>1. IInv => TypeOK
  BY DEF IInv
<1> QED BY <1>1, Holds, PTL

\* Whatever others read in the session, whatever replies are lost: a caller either cannot apply a reply or gets
\* from it what the page held since it asked, never a mixture (deliverRead: `sameAs` names the body it is about).
THEOREM RepliesTrue == Spec => []NeverMisled
<1>1. IInv => NeverMisled
  BY DEF IInv
<1> QED BY <1>1, Holds, PTL

\* What the relay takes a caller that reads alone in the session to hold is what it has (delivered, in deliverRead).
THEOREM DeliveredIsHeld == Spec => []HeldIsMind
<1>1. ASSUME IInv PROVE HeldIsMind
  <2> SUFFICES ASSUME NEW c \in Callers, Alone(c, session), req[c].pc # "reply", held[session] # None
               PROVE  mind[c] = held[session]
    BY DEF HeldIsMind
  <2>1. session \in Sessions
    BY DEF Alone
  <2>2. ~Later(c, session)
    BY <1>1 DEF IInv, ReadersTrue, Later
  <2> QED BY <1>1, <2>1, <2>2 DEF IInv, Kept
<1> QED BY <1>1, Holds, PTL

\* A caller that reads alone rebuilds every reply that is more than a shape (deliverRead, computeReadDelta, tabulate).
THEOREM AloneRebuilds == Spec => []ReplyRebuilds
<1>1. ASSUME IInv PROVE ReplyRebuilds
  <2> SUFFICES ASSUME NEW c \in Callers, req[c].pc = "reply", Alone(c, req[c].session), req[c].out.kind # "shape"
               PROVE  Rebuilt(c, req[c].out) \in Since(c)
    BY DEF ReplyRebuilds
  <2>1. Good(c)
    BY <1>1 DEF IInv, Kept
  <2> QED BY <1>1, <2>1 DEF IInv, NeverMisled, Good
<1> QED BY <1>1, Holds, PTL
=============================================================================

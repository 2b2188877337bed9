------------------------------ MODULE EventFeed ------------------------------
(***************************************************************************)
(* What a page logs and fetches, from the page to the relay's tables:      *)
(* capture, rings and queues in inject.js, the WebSocket frames, their     *)
(* reassembly and handleAgentMessage in relay.mjs, console_entries,        *)
(* net_entries and text_blobs in db.mjs.  And the commands that wait for   *)
(* an entry, net.wait and console.wait.                                    *)
(*                                                                         *)
(* Entries are numbered in the order they are recorded; the numbers stand  *)
(* for their times.  Sockets are numbered in the order they are opened.    *)
(***************************************************************************)
EXTENDS Integers, FiniteSets, SequencesExt

CONSTANTS
  Kind,        \* "console", "net"
  Text,        \* messages and URLs
  Odd,         \* one that is no string: a rejection's message, the URL object of an XHR
  BatchCap,    \* EVENT_BATCH_CAP
  MaxPending,  \* MAX_PENDING_EVENTS
  MaxRing,     \* MAX_NET_LOG, MAX_CONSOLE_LOG
  MaxEntries, MaxConn, MaxSession  \* bounds

ASSUME FeedAssumption ==
  /\ Kind \subseteq {"console", "net"} /\ "console" \in Kind
  /\ Odd \in Text /\ {BatchCap, MaxPending, MaxRing, MaxConn} \subseteq Nat \ {0}
  /\ {MaxEntries, MaxSession} \subseteq Nat

VARIABLES
  made,          \* every entry recorded: its kind, its text, the session active then (history)
  ring, queue,   \* page: what net.log and console.log show, what waits to be sent
  conn, conns,   \* page: its open socket (0: none), and the sockets opened so far
  wire,          \* bytes under way on each socket: frames, each in two halves
  reg, buf,      \* relay: the socket registered for the agent (0: none), and entry.buffer
  active, begun, \* sessions: the active one (0: none), those begun
  rows, blobs,   \* tables of entries: the rows of each transaction, in the order of their ids; and text_blobs
  wait,   \* a wait command in the page, and those begun
  lost, passed   \* entries given up on the way; entries the ring lacks since the wait began (history)

tab == <<ring, queue, conn>>
waiting == <<wait, passed>>
feedVars == <<made, ring, queue, conn, conns, wire, reg, buf, active, begun, rows, blobs, wait, lost, passed>>

NoWait == [at |-> "off", kind |-> "console", text |-> Odd, since |-> 0]
Ended(how) == [NoWait EXCEPT !.at = how]
Empty == [k \in Kind |-> <<>>]

FeedInit ==
  /\ made = <<>> /\ ring = Empty /\ queue = Empty /\ conn = 0 /\ conns = 0
  /\ wire = [c \in 1..MaxConn |-> <<>>] /\ reg = 0 /\ buf = <<>> /\ active = 0 /\ begun = 0
  /\ rows = <<>> /\ blobs = {} /\ wait = NoWait /\ lost = {} /\ passed = {}

-----------------------------------------------------------------------------
\* The page.

Newest(s, n) == SubSeq(s, Len(s) - n + 1, Len(s))
Bounded(s, n) == IF Len(s) > n THEN Newest(s, n) ELSE s
Queued(s) == Bounded(s, MaxPending)

\* One frame that carries a batch.
Frame(k, entries) == <<[kind |-> k, entries |-> entries, half |-> 1], [kind |-> k, entries |-> entries, half |-> 2]>>

Passed(entries) == IF wait.at = "poll" THEN passed \cup entries ELSE {}

\* recordNet, recordConsole: into the ring and the queue, which is sent at once when it has grown to a batch and
\* the socket is open.  What no longer fits falls out at the front.
Recorded(k, x) ==
  LET e == Len(made) + 1
      kept == Queued(Append(queue[k], e))
      sent == Len(kept) >= BatchCap /\ conn # 0
  IN /\ made' = Append(made, [kind |-> k, text |-> x, in |-> active])
     /\ ring' = [ring EXCEPT ![k] = Bounded(Append(@, e), MaxRing)]
     /\ queue' = [queue EXCEPT ![k] = IF sent THEN <<>> ELSE kept]
     /\ lost' = lost \cup (ToSet(queue[k]) \ ToSet(kept))
     /\ wire' = IF sent THEN [wire EXCEPT ![conn] = @ \o Frame(k, kept)] ELSE wire

\* The application logs, throws or fetches.
Record(k, x) ==
  /\ Len(made) < MaxEntries /\ Recorded(k, x) /\ passed' = Passed(ToSet(ring[k]) \ ToSet(ring'[k]))
  /\ UNCHANGED <<conn, conns, reg, buf, active, begun, rows, blobs, wait>>

\* The timer of 250 ms.
Flush(k) ==
  /\ queue[k] # <<>> /\ conn # 0
  /\ wire' = [wire EXCEPT ![conn] = @ \o Frame(k, queue[k])]
  /\ queue' = [queue EXCEPT ![k] = <<>>]
  /\ UNCHANGED <<made, ring, conn, conns, reg, buf, active, begun, rows, blobs, waiting, lost>>

\* console.clear, net.clear: the ring only.
Clear(k) ==
  /\ ring[k] # <<>>
  /\ ring' = [ring EXCEPT ![k] = <<>>] /\ passed' = Passed(ToSet(ring[k]))
  /\ UNCHANGED <<made, queue, conn, conns, wire, reg, buf, active, begun, rows, blobs, wait, lost>>

\* The page is loaded again: nothing of it survives.
LoadPage ==
  /\ conn # 0 /\ conn' = 0 /\ ring' = Empty /\ queue' = Empty
  /\ lost' = lost \cup UNION {ToSet(queue[k]) : k \in Kind}
  /\ passed' = {} /\ wait' = IF wait.at = "poll" THEN Ended("gone") ELSE wait
  /\ UNCHANGED <<made, conns, wire, reg, buf, active, begun, rows, blobs>>

-----------------------------------------------------------------------------
\* net.wait, console.wait: the ring is searched at once and then every 150 or 200 ms.

Hits(w) == {i \in DOMAIN ring[w.kind] : ring[w.kind][i] >= w.since /\ made[ring[w.kind][i]].text = w.text}
\* includes() of an entry that is no string throws, unless a match comes before it.
Throws(w) == \E i \in DOMAIN ring[w.kind] : made[ring[w.kind][i]].text = Odd /\ \A j \in Hits(w) : j > i

\* since: entries from graceMs before the call on count.
BeginWait(k, x) == \E since \in 1..(Len(made) + 1) :
  /\ wait.at = "off" /\ x # Odd
  /\ LET w == [at |-> "poll", kind |-> k, text |-> x, since |-> since]
     IN IF Throws(w) \/ Hits(w) # {}
        THEN wait' = Ended(IF Throws(w) THEN "failed" ELSE "found") /\ passed' = {}
        ELSE wait' = w /\ passed' = DOMAIN made \ ToSet(ring[k])
  /\ UNCHANGED <<made, tab, conns, wire, reg, buf, active, begun, rows, blobs, lost>>

\* A search finds a match, or the time is up.
Verdict_limit(w, late) == IF late THEN "timeout" ELSE IF Hits(w) # {} THEN "found" ELSE "poll"
Verdict(w, late) == IF Hits(w) # {} THEN "found" ELSE IF late THEN "timeout" ELSE "poll"
Poll == \E late \in BOOLEAN :
  /\ wait.at = "poll" /\ ~Throws(wait) /\ Verdict(wait, late) # "poll"
  /\ wait' = Ended(Verdict(wait, late)) /\ passed' = {}
  /\ UNCHANGED <<made, tab, conns, wire, reg, buf, active, begun, rows, blobs, lost>>

\* An error thrown by a later search reaches nobody: the command is never answered, the page records the error.
PollThrows(x) ==
  /\ wait.at = "poll" /\ Throws(wait) /\ Len(made) < MaxEntries /\ x # Odd
  /\ wait' = Ended("silent") /\ passed' = {} /\ Recorded("console", x)
  /\ UNCHANGED <<conn, conns, reg, buf, active, begun, rows, blobs>>

-----------------------------------------------------------------------------
\* Sockets.

InBuffer == UNION {ToSet(buf[i].entries) : i \in DOMAIN buf}

\* server 'upgrade': the new socket takes the agent's name; what the old one had delivered of a frame is dropped.
Connect ==
  /\ conn = 0 /\ conns < MaxConn
  /\ conns' = conns + 1 /\ conn' = conns + 1 /\ reg' = conns + 1
  /\ buf' = <<>> /\ lost' = lost \cup InBuffer
  /\ UNCHANGED <<made, ring, queue, wire, active, begun, rows, blobs, waiting>>

\* The page's socket closes.
LoseSocket ==
  /\ conn # 0 /\ conn' = 0
  /\ UNCHANGED <<made, ring, queue, conns, wire, reg, buf, active, begun, rows, blobs, waiting, lost>>

\* The relay's end closes: the page closed it, another tab took the name, or the relay began anew.
RelayCloses ==
  /\ reg # 0 /\ reg' = 0 /\ buf' = <<>> /\ lost' = lost \cup InBuffer
  /\ UNCHANGED <<made, tab, conns, wire, active, begun, rows, blobs, waiting>>

-----------------------------------------------------------------------------
\* The relay.

\* decodeFrame, again and again: the batches that are complete, and the bytes left over.
Complete(bytes) == Len(bytes) \div 2
Decoded_one(bytes) ==
  IF Complete(bytes) = 0 THEN [batches |-> <<>>, rest |-> bytes]
  ELSE [batches |-> <<bytes[2]>>, rest |-> SubSeq(bytes, 3, Len(bytes))]
Decoded(bytes) ==
  [batches |-> [i \in 1..Complete(bytes) |-> bytes[2 * i]],
   rest |-> SubSeq(bytes, 2 * Complete(bytes) + 1, Len(bytes))]

\* insertConsoleEntries, insertNetEntries: a batch in one transaction.  A console message that is no string cannot
\* be hashed, and the whole batch is rolled back.
Stores(b) == active # 0 /\ ~(b.kind = "console" /\ \E e \in ToSet(b.entries) : made[e].text = Odd)
Texts(b) == {made[e].text : e \in ToSet(b.entries)}
\* The texts stored when batch i's turn comes: one seen before is stored by its hash alone.
Known(batches, i) == blobs \cup UNION {Texts(batches[m]) : m \in {m \in 1..(i - 1) : Stores(batches[m])}}
Transaction(batches, i) ==
  LET b == batches[i]
      Text1(j) == made[b.entries[j]].text
      Seen(j) == Text1(j) \in Known(batches, i) \/ \E h \in 1..(j - 1) : Text1(h) = Text1(j)
  IN IF ~Stores(b) THEN <<>>
     ELSE [j \in DOMAIN b.entries |-> [session |-> active, kind |-> b.kind, entry |-> b.entries[j], hash |-> Text1(j),
                                       text |-> IF Seen(j) THEN "" ELSE Text1(j)]]
Dropped(batches) == UNION {ToSet(b.entries) : b \in {b \in ToSet(batches) : ~Stores(b)}}

\* socket 'data': any number of bytes; those of a socket that is not the registered one are ignored.
Ours_any(c) == TRUE
Ours(c) == c = reg
Deliver(c) == \E n \in 1..Len(wire[c]) :
  LET chunk == SubSeq(wire[c], 1, n)
      got == Decoded(buf \o chunk)
  IN /\ wire' = [wire EXCEPT ![c] = SubSeq(@, n + 1, Len(@))]
     /\ IF Ours(c)
        THEN /\ buf' = got.rest
             /\ rows' = rows \o [i \in DOMAIN got.batches |-> Transaction(got.batches, i)]
             /\ blobs' = Known(got.batches, Len(got.batches) + 1)
             /\ lost' = lost \cup Dropped(got.batches)
        ELSE lost' = lost \cup UNION {ToSet(chunk[i].entries) : i \in 1..n} /\ UNCHANGED <<buf, rows, blobs>>
     /\ UNCHANGED <<made, tab, conns, reg, active, begun, waiting>>

StartSession ==
  /\ active = 0 /\ begun < MaxSession /\ begun' = begun + 1 /\ active' = begun + 1
  /\ UNCHANGED <<made, tab, conns, wire, reg, buf, rows, blobs, waiting, lost>>
EndSession ==
  /\ active # 0 /\ active' = 0
  /\ UNCHANGED <<made, tab, conns, wire, reg, buf, begun, rows, blobs, waiting, lost>>

-----------------------------------------------------------------------------
FeedNext ==
  \/ \E k \in Kind, x \in Text : Record(k, x) \/ BeginWait(k, x)
  \/ \E k \in Kind : Flush(k) \/ Clear(k)
  \/ \E x \in Text : PollThrows(x)
  \/ LoadPage \/ Poll \/ Connect \/ LoseSocket \/ RelayCloses
  \/ \E c \in 1..MaxConn : Deliver(c)
  \/ StartSession \/ EndSession

FeedSpec == FeedInit /\ [][FeedNext]_feedVars

\* The page's timers run, a lost socket is opened again, and bytes arrive or are dropped.
FeedFairness ==
  /\ \A k \in Kind : WF_feedVars(Flush(k))
  /\ WF_feedVars(Connect)
  /\ \A c \in 1..MaxConn : WF_feedVars(Deliver(c))
FairFeedSpec == FeedSpec /\ FeedFairness

-----------------------------------------------------------------------------

\* hydrateConsoleEntry, hydrateNetEntry.
TextOf(row) == IF row.text = "" THEN IF row.hash \in blobs THEN row.hash ELSE "" ELSE row.text

\* Through lost sockets, frames cut anywhere, reloads and rolled-back batches, the entries of a kind are stored
\* at most once, in the order they were recorded, under the session of their time or a later one, and read back
\* with their text (socket 'data', handleAgentMessage, insertConsoleEntries, insertNetEntries).
StoredInOrder ==
  \A t \in DOMAIN rows : \A i \in DOMAIN rows[t] :
    LET r == rows[t][i]
    IN /\ \A u \in DOMAIN rows : \A j \in DOMAIN rows[u] :
            (t < u \/ (t = u /\ i < j)) /\ rows[u][j].kind = r.kind => r.entry < rows[u][j].entry
       /\ r.session >= made[r.entry].in /\ TextOf(r) = made[r.entry].text

\* A wait that reports a timeout has not overlooked anything: what matched it was cleared or pushed out of the
\* ring before the search that ended it (net.wait, console.wait).
WaitSees ==
  [][wait.at = "poll" /\ wait'.at = "timeout" =>
       \A e \in DOMAIN made :
         made[e].kind = wait.kind /\ made[e].text = wait.text /\ e >= wait.since => e \in passed]_feedVars

\* Entries do not stay on the way: again and again, each one recorded so far is stored, or lost to a full queue, a
\* reload, a dead socket, a missing session or a batch that was rolled back.  (At the bound on sockets a page may
\* stay disconnected.)
FeedDrains ==
  []<>(\/ DOMAIN made = lost \cup UNION {{r.entry : r \in ToSet(rows[t])} : t \in DOMAIN rows}
       \/ conn = 0 /\ conns = MaxConn)

\* Does not hold: a wait is answered, whatever the application logs meanwhile.
WaitAnswered == wait.at = "poll" ~> wait.at \notin {"poll", "silent", "gone"}
=============================================================================

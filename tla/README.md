# Web-scout in TLA+

A verification development for Web-scout: the relay that lets command-line and
MCP clients drive a browser tab, the agent that runs in the tab, and the
machinery around them. The modules are translated from the sources under
`src/`; `PROJECT.json` maps every definition to the lines it stands for.

1. [The system](#the-system)
2. [The modules](#the-modules)
3. [What the runs check](#what-the-runs-check)
4. [What is proved](#what-is-proved)
5. [What is only model-checked, and what is not modelled](#limits)
6. [Disagreements between the code and what it says](#disagreements)
7. [Plan](#plan)

## The system

| part | state | operations | talks to |
|---|---|---|---|
| relay (`relay.mjs`, `routes-*.mjs`) | `pending` (command id -> promise), `agents` (name -> socket), `nextCommandId`, per-session caches and counters | HTTP handlers, WebSocket frames, timers | everything |
| in-page agent (`inject.js`) | `ws`, `pageEpoch`, log rings, queues of entries to send | one handler per command type, reconnect, event batches | relay over one WebSocket |
| database (`db.mjs`) | sessions, actions, bodies shared by hash, snapshots, diffs, log entries, ledgers in SQLite | synchronous statements, each committed alone | relay only |
| clients (`client.mjs`, `cli.mjs`, `mcp-server.mjs`) | autostart cooldown | one HTTP request per command; start a relay that is down or stale | relay, relay control |
| relay control (`relay-control.mjs`) | pidfile, event log, registry of relays | start, stop, restart, reap | relay processes |
| state tools (`routes-state.mjs`, part of `relay.mjs`, `db.mjs`) | snapshots and diffs | snapshot, verify, diff, restore, crv run, cleanup since a snapshot | page, database |
| sessions and macros (`routes-sessions.mjs`, `routes-macros.mjs`) | sessions, macros | start, end, replay, cleanup; record, run, heal, edit | page, database |
| friction tracker (`friction.mjs`, `routes-friction.mjs`) | counters per session in memory, what was said in the database, decisions | warn, refuse, announce, suggest, resolve, snooze | relay, database |
| reports (`session-viz.mjs`, parts of `db.mjs`, `friction.mjs`, `relay.mjs`) | two caches | loops, waste, episodes, causes, macro runs, what is new | database |
| read pipeline (`read-pipeline.mjs`) | per session: what the caller holds, its habits, its budget | shape a read into body, table, delta, pointer or peek | relay |
| browser harness (`browser-harness.mjs`, `browser-slots.mjs`, `scratch*.mjs`, `win-job.mjs`, `browser-reaper.mjs`) | slot files, profile directories and their markers, `held` | launch, close, sweep, guard, reap | other processes through the file system |

**Concurrency.** The relay is one Node process: a handler runs to its next
`await` alone, then anything may run before it goes on. Tabs are separate
processes behind sockets that die, are replaced by a later tab of the same
name, and come back on their own. Clients, test runs and relays are separate
processes that share files. Everything difficult is at those seams: state
read before an `await` and used after it (session, mutation counter, origin),
replies that come late or to the wrong process, files that change between a
look and a removal, statements that commit one by one, caches over a log that
grows while they are filled.

**What makes each part correct.**

* *Agent link*: a caller is woken exactly once; each command that was sent has
  its row; a write runs only where a session allowed it; a reply resolves its
  own command; a repair never runs on top of what it repairs; every request ends.
* *Read cache*: what is served is what the page would answer.
* *Read pipeline*: a pointer or delta refers to a body its caller has, and from
  it the caller gets what the page held.
* *Persistence*: sharing, counting, pruning and crashes are invisible to a
  reader of the log; what analytics remembers is what the tables say.
* *Snapshots*: what is read back is what the page held, and differences are
  reported as they are; a cleanup takes only what is new.
* *Macros, replay, cleanup*: what is run again has the effect of what was
  recorded; a plan that was shown is the plan carried out.
* *Event feed*: entries arrive once, in order, or are dropped at a stated limit;
  a wait overlooks nothing.
* *Friction*: counters are a function of the log, also after a restart; warnings
  are earned, said once, and heeded.
* *Reports and advice*: a pass over the log finds what is there, and what is
  said live agrees with it.
* *Relay control*: a relay that runs can be found and stopped; what is stopped
  is what was meant.
* *Browsers*: no more than the cap, none touched while its launch lives, none
  left when its process has died.

The hazards these properties are aimed at are listed line by line in
`PROJECT.json`.

## The modules

| module | what it models | state corresponds to |
|---|---|---|
| `AgentLink` | one command's way from `POST /command` through guard, dispatch, socket, page, reply or timeout, with the chain of follow-up dispatches a failure sets off | `pending`, `conn`/`connOrigin` = `agents`, `nextId` = `nextCommandId`, `req` = where each handler is suspended, `page`/`up` = frames in transit and running handlers, `cur`/`sess` = the sessions table, `log` = rows of the actions table |
| `ReadCache` | the read cache and both of its counters, with the page's asynchronous reads and writes | `cache` = `readResultCache`, `counter` = `sessionMutationCounters`, `epoch` = `pageEpoch`, `running` = handlers and transactions under way |
| `ReadPipeline` | what a caller is handed for a read, what the relay then takes it to hold, and what the caller rebuilds from the replies, across sessions | `held` = the `delivered` entry of a call, `cache` = its entry in `readResultCache`, `req` = where `POST /command` is, `hist` = what the page held, `mind` = what the caller has |
| `Ledger` | the abstract log: entries keep their parameters, their result until it is forgotten on purpose, documents their body for good | |
| `Journal` | how `db.mjs` stores it, one commit per step, with pruning, crashes and the analytics memo; refines `Ledger` | `actions`, `docs`, `resultBlobs`/`paramsBlobs` = the blob tables with their counts, `job` = between two statements, `memo`, `dirty` = `dirtyActionIds` |
| `StateTools` | snapshots, diffs, verification, restore and cleanup, down to shared rows, column dictionaries and served-from pointers | `rowBlobs`, `snaps`, `diffs` = the tables, `job` = the request under way, `page` = IndexedDB |
| `Replay` | macros recorded, templated, compacted, run, healed and edited; replay of a session; cleanup by its log, of which old replies may have been pruned | `log` with `kept` = the reply is still stored, `macro`, `page`, `task` = the run, replay or cleanup between two steps; `chain` and `writer` are history |
| `EventFeed` | entries from the page's hooks through rings, queues, frames and transactions to the tables, and the commands that wait for one | `ring`, `queue`, `wire`, `wait`; `buf` = `entry.buffer`; `rows` = the tables of entries, transaction by transaction; `blobs` = `text_blobs` |
| `Friction` | live counters, warnings, refusals, announcements and suggestions, hydration after a restart, decisions | `live`, `hydrated`, `warned`, `announced` = `createFrictionTracker`'s maps, `storedWarn`/`storedSaid` = their tables |
| `Analytics`, `SessionView` | reports, each as the pass the code makes and again as what it should find | pure operators over rows |
| `Advice` | what the relay says about the work: first failures, notices to other agents, the offer of a macro, over two caches and the reports; EXTENDS both | `log`, `current`, `announced`, `pending` = `pendingFrictionNotices`, `stats` = `analyticsCache`, `candidates` = `macroCandidateCache` |
| `RelayControl` | start, stop, restart, autostart, boot, reaping, as steps of several processes | `owner` = the port, `pidfile`, `registry`, `unclean` = the event log, `st`/`what` = processes and how far each relay has booted, `seen`/`snapshot` = what a boot has read of pidfile and registry, `call` = where a client is; `killed` and `stopped` are history |
| `BrowserSlots` | slot files, one file operation per step | `file` = `slot-<n>.json`, `held`, `scan` = a `tryTake` or `slotHolders` under way |
| `BrowserHarness` | launch, close, sweep, guard, job host, reaper; EXTENDS and composes with `BrowserSlots` | `dir` = profile and marker, `run` = the browser, `at` = where a launch is |
| `AgentLinkProofs`, `ReadCacheProofs`, `ReadPipelineProofs`, `JournalProofs`, `StateToolsProofs`, `FrictionProofs`, `RelayControlProofs`, `BrowserHarnessProofs` | the theorems about the module of that name; `JournalProofs` also about `Replay`, `RelayControlProofs` about `Advice`, `BrowserHarnessProofs` about `BrowserSlots` and `EventFeed`, each in a part of its own | |
| `MC*` | constants for TLC | |

Modelling decisions a reader should know:

* **Event loop.** In `AgentLink` a handler that is between two awaits is
  `"due"`; every other action is guarded by `Quiet`, so the synchronous stretch
  from one await to the next dispatch is not interrupted. Elsewhere the
  synchronous stretches are single actions, except where other processes look
  on (`BrowserSlots`, `BrowserHarness`, `RelayControl`: one file operation or
  system call per step) or where a crash can fall between two commits
  (`Journal`, `StateTools`: one commit per step). In `RelayControl` a few
  stretches are longer: appending to the event log (read and written by one
  call), a relay's own end (it removes its pidfile and its registry line and
  exits), and a reaped test relay, which ends as it is killed. The reaper's
  kills and its writing of the registry are one step after its reading of it,
  and resolving a pid is one look at pidfile and port.
* **Loops over rows.** Where a property can be said of rows without the loop
  that finds them, the model says it so: failures and loops in `Advice`, the
  rows a replay or cleanup takes in `Replay` and the counters of a hydration in
  `Friction` are sets of positions and their cardinalities. `EventFeed` keeps
  the rows of each transaction together, since a batch is stored whole or not
  at all; the ids of the table are the order of the rows in it.
* **Time.** Timers are untimed: a pending command may time out at any moment.
  That covers every ratio of page speed to timeout, at the price of saying
  nothing about durations. Only `Advice` has a clock, because its caches and
  reports compare times; it ticks when a command begins.
* **Sockets.** A command written to a socket reaches the page only if the
  page's end lives, and is lost with it if it has not been read. A reply is
  sent on whatever socket the page has by then, as `inject.js` does, and is
  dropped if that socket is not the one registered.
* **Commands.** `AgentLink` has one command type for each combination of
  registry flags that the handler tells apart; a DOM command is assumed to
  carry a selector (without one the relay skips verification and screenshot).
  Reads that the cache may answer belong to `ReadCache`. `ping`, `page.epoch`,
  the briefing and the preflight also use `dispatchCommand`, without a row in
  the log; a session is started with `briefing: false`.
* **Histories.** `crossed` in `AgentLink`, `lapsed` and `floor` in `ReadCache`,
  `hist`, `mind` and `readers` in `ReadPipeline`, `lost` in `StateTools`,
  `chain` and `writer` in `Replay`, `heard` in `Friction`, `heard` and `mixed`
  in `Advice`, `killed`, `stopped` and the flag `over` in `seen` in
  `RelayControl` are history: nothing the code does depends on them.
* **Who owns the port.** In `RelayControl` another program on the relay's port
  is `"foreign"`, which answers HTTP within the 1.5 s that `stopRelay` gives it,
  or `"slow"`, which may not. What answers is refused, relays too, because their
  answer is tested unwrapped (`relay-control.mjs:141`; see Disagreements); what
  does not is killed as a wedged relay. A program whose answer has the fields of
  a relay's result at its top level would pass for a relay; it is outside.
* **Pruning.** `Replay!Prune` drops the replies of any prefix of the log but
  for rows of the active session, at any moment: the seven days at least that
  `pruneOldResults` asks for are not counted. A put whose reply is gone is not
  seen by a cleanup, since only the reply names its key.
* **Page content.** In `ReadCache` a store or a log is the number of times it
  changed, so a stale answer is a smaller number. `lapsed` collects the keys
  that changed where neither counter looks: the page was reloaded, another tab
  wrote to the shared database, or a `net.clear` timed out. The properties
  except them; `MovedPageIsAsked` (below) does not.
* **Replies.** In `ReadPipeline` a result is a set of rows with ids, and sizes
  are counted in rows; the thresholds keep their order (a delta must be 30%
  smaller, a table needs three rows, the strict guard is below the others). A
  result is known by the action that read it, as `===` knows the object. When
  a cache entry may be served is left to `ReadCache`; here it is served if the
  page has not changed since. The caller keeps the last body and does with a
  pointer or delta what its note says; a caller whose context was compacted is
  outside, as the usage text says itself.
* **Hashes.** A hash is the content it is of: collisions are not modelled.
* **Processes.** Process ids are not reused, except in `RelayControl` with
  `Reuse`. A process may be killed between any two file operations, also
  between creating its slot file and writing it (`Torn`). On Windows
  `process.kill` ends a process at once, elsewhere it leaves a signal the
  process may act on later.
* **Reports.** A pass is written as a fold over the rows, as in the code, next
  to a definition by quantifiers of what it should find. They are compared on
  every log that `Advice` can produce, with rows of two agents, probes,
  screenshots and macro steps between each other, which is what a unit test
  with a hand-written list of rows does not have.

## What the runs check

| run | instance | shows |
|---|---|---|
| `agent_link` | 2 tabs that share one name, 1 caller clicking, 2 origins, an ordinary and a strict-CRV session, 3 ids | callers are woken, commands are logged, writes run where they were allowed and no remedy races what it repairs, while the tabs replace each other, navigate and reconnect |
| `agent_ends` | 1 tab, 1 caller, a strict write to a local page, 3 ids, 2 relay processes, fair | every request ends; replies are mixed up only across a restart |
| `read_cache` | 2 tabs, 2 callers, 3 requests to start, 1 move of a page | vouched entries are current; hits are fresh |
| `pipeline` | 2 callers, 2 sessions (lean or not), 3 reads, 2 changes of the page, every flag and the pairs whose order matters, every budget level | a caller alone in its session rebuilds every result; the relay knows what it has |
| `journal` | 2 bodies, 1 set of parameters, 2 rows, 1 document, 2 sessions, 1 crash | counts cover references, the memo is exact, and the tables implement the abstract log |
| `state_tools` | 2 stores (one keyed by `id`), 2 values, 2 snapshots, 1 diff, 1 write of the application, 1 fault | snapshots read back, verification is true, cleanup spares what was there |
| `replay` | 2 keys, 2 values, 2 sessions, 2 commands, 2 jobs, 2 faults, interferences or prunings | macro runs apply what was recorded, plans stay, a cleanup leaves only rows whose reply was pruned |
| `feed` | console entries with a plain and an odd text, batches, rings and queues of 2, 3 entries, 2 sockets, 1 session, 1 wait, fair | entries are stored once and in order, a wait sees what was there, nothing stays on the way |
| `friction` | 2 agents of different origins, 1 target, 2 sessions, 4 calls, 1 decision, 1 restart, blocking on | counters are the log, warnings are earned and need news, an escalated target stays refused |
| `advice` | 2 agents, a write and a read, 3 commands, 1 macro replay, 2 troubles (failures, pauses, polls, macro changes, later sessions) | every report finds what is there; other agents hear of a repeated failure once; the end of a session agrees with what was said live; an offered macro stands |
| `relay_control` | 2 callers with 1 operation each, 3 processes, POSIX and Windows, 2 tabs, 1 event from outside | the pidfile is true, no foreign program that answers is signalled, no session is killed by a restart, a boot after a reported stop does not report it as a crash |
| `harness` | 2 processes, 4 launches (one by an old copy without markers), 1 slot, 3 units of work (a launch, or a step that fails), 1 death, POSIX and Windows, fair | within the cap, the living are spared, orphans end, slots are exclusive until a death, dead owners are evicted |

**Bounds.** `MaxId` bounds command ids: three are a strict-CRV triple, or a
write with its verification and remedy. `MaxBoot = 2` is the first at which a
page can outlive its relay. `MaxSession = 1` in `AgentLink` lets a session
start and end at any point of a request (a session that ended and none at all
look alike to the guard). Interleavings of two callers in `AgentLink` are not
in a run (the state space passes the time a run has); the theorems, which hold
for any number of callers, cover them for all but `RequestEnds`. In `ReadCache` three requests are what it takes to store, write
and read again, each possibly doubled by a probe that misses. In `ReadPipeline`
three reads are a body, a delta of it and a pointer to, or a delta of, that. In
`Journal` two rows share or do not share a body, with a crash between any two
statements. In `StateTools` two snapshots are a baseline and what is compared
with it, and one write of the application falls anywhere between their reads.
In `Replay` two commands and two jobs are a macro, its failed run and the run
resumed from there, and one of the two troubles may be a pruning before a
cleanup or during it. In `RelayControl` two callers with one operation each, a
relay running or not, and three ids are a stop, a successor that another caller
starts meanwhile and one more relay, each interrupted anywhere. In `EventFeed`
every buffer overflows at the third entry. In `Friction` four calls reach every threshold in one session, or share it with
another. In `Advice` three commands and a replay leave up to nine rows, with a
loop, a repeated read, a retry, a check, a pause and rows of the other agent
between them; each of these was seen to occur. Deadlock is checked in
`relay_control`, where the one end of a behaviour is that every call is over;
the other instances stop when their bounds are used up.

**Fairness.** `agent_ends` assumes that a handler between two awaits goes on
(weak fairness of its dispatch) and that an armed timer fires (strong fairness
of `Timeout`: it is disabled whenever another handler is between two awaits,
and the event loop comes round to expired timers however often that happens).
No fairness is assumed of tabs, sockets or pages. `feed` assumes that the
page's flush timer runs, that a lost socket is opened again, and that bytes
arrive or their socket dies. `harness` assumes that what a process does without
waiting gets done, that its 300 ms sleeps end however often its other callers
are served, that job hosts and guards act, that time passes, and that reaping
recurs (strong fairness of `StartReap`: the session hooks run it again and
again). No fairness is assumed of a process that is to exit or to close its
browser.

**Mutants.** Every property has a plausible slip in a mapped definition that it
catches: the definitions marked `Mutated`, or named like the one they change
with a word added (`Unlink_kept`), are not used by any specification.

## What is proved

Eight modules prove 39 theorems about twelve of the components' modules with
TLAPS; 33 of them state a property that a run checks.
What TLC shows on an instance, they show for any number of tabs, callers,
processes, agents, stores, bodies, ids and sessions. Each has the same outline:
lemmas about the operators the model is built from; an inductive invariant
`IInv` (checked by TLC on the run's instance before it was proved) as a
conjunction of named parts; one lemma or step per action that shows each part
preserved; and short theorems that read the properties off it. Constants are
assumed to be what the modules' named `ASSUME`s say and nothing more; TLC
evaluates these in the runs. Four theorems carry a hypothesis in their
statement, `~Reuse` or `~Scoped`, because without it the code does not have
the property (see Disagreements; a reused process id can also make a pidfile
name a stranger, or a relay that crashed look like the one of its id that was
stopped).

| module | theorem | states |
|---|---|---|
| `AgentLinkProofs` | `TypeCorrect`, `NoLostWakeup`, `ActionsRecorded`, `GuardHoldsAtPage`, `RepliesNotMixed`, `RemediesWait` | `TypeOK`, `WaitersMatchPending`, `EveryCommandLogged`, `RunsWhereAllowed`, `MismatchOnlyAcrossRestart`, `RemedyNeverRaces` |
| `ReadCacheProofs` | `TypeCorrect`, `VouchedCurrent`, `HitsFresh` | `TypeOK`, `VouchedIsCurrent`, `HitIsFresh` |
| `ReadPipelineProofs` | `TypeCorrect`, `RepliesTrue`, `DeliveredIsHeld`, `AloneRebuilds` | `TypeOK`, `NeverMisled` (of the proof module), `HeldIsMind`, `ReplyRebuilds` |
| `JournalProofs` | `TypeCorrect`, `CountsCover`, `MemoIsExact`, `TablesImplementLedger` | `TypeOK`, `RefsCover`, `MemoExact`, and that `Journal` implements `Ledger` |
| | `DryRunHolds`, `CleanupLeavesNothing` | of `Replay`: `PlanStays`, `CleanupComplete` |
| `StateToolsProofs` | `SnapshotsReadBack`, `DiffsTrue`, `OldRowsSpared` | `ReadsBack`, `DiffTrue`, `CleanupSparesOld` under `~Scoped` |
| `FrictionProofs` | `CountersAreLog`, `WarningsNeedNews`, `WarningsBacked`, `EscalatedRefused` | `LiveIsLog`, `WarnNeedsNews`, what a warning has in the log, `EscalatedStaysRefused` |
| `RelayControlProofs` | `SessionStartSpares`, `StopsAreClean`, `PidfileNamesOwner`, `ForeignLives` | `RestartsOnlyOvertaken`, and under `~Reuse` `StoppedIsClean`, `PidfileTrue`, `ForeignSpared` |
| | `OthersHearOnce`, `EndRepeatsWhatWasSaid`, `OffersBacked` | of `Advice`: `OthersHear`, `EndAgreesWithLive`, `OfferStands` |
| `BrowserHarnessProofs` | `HarnessUsesSlots`, `SlotsExclusive`, `RunsWithinCap`, `LivingSpared` | that the composition keeps to `BrowserSlots`, `ExclusiveUntilADeath`, `WithinCap`, `SparesTheLiving` |
| | `FeedStored`, `WaitOverlooksNothing` | of `EventFeed`: `StoredInOrder`, `WaitSees` |

**Agent link.** The five properties are made inductive by `FreshIds` (nothing is
pending or logged under an id not given out yet), `SocketsKnown` (a socket the
page believes open and the relay has registered carries the origin of the page
now loaded: why the guard's decision on `connOrigin` still holds when the
command arrives), `UnderStarted` (a command in a page names a session that
exists) and `AnswersAgree` (a reply or running command of this process whose id
is pending is the one its waiter awaits). `RemedyNeverRaces` needs the order of
a request's steps: `Behind` says what a request that got to a step may still
have in some page (no message of a try to come; a write only while it is
awaited or after it timed out; no remedy before the write has failed with an
answer). An answered write is in no page because there is one copy of each
command (`OneCopy`) and none once its reply is under way (`Answered`). The part
is conditional on `crossed = {}`: a reply taken for another's across a restart
is the one way past it.

**Read cache.** An entry is vouched for by the mutation counter and the page's
epoch. `CacheGood`, `RowsGood` and `RepliesGood` state the same promise for an
entry, for a read whose transaction has begun and for a reply on its way: if the
epoch is still the one it was read at, the value is current, or the key has
lapsed, or the log it was read from is just being cleared. The clear needs
`ClearOnce` (an awaited clear is on its way exactly once, and a reply of a log
read before it is ahead of it in the queue). `Routed` and `IdsUsed` tie what is
on its way to the request that awaits it. A hit is fresh by `ProbesGood`: a
probe is about an entry that was current when its caller asked, or that the page
has moved on from. Every action is either a step of a page or a step of the
relay for one caller (`PageStep`, `RelayStep`), and what each kind leaves alone
is proved once.

**Read pipeline.** `OneBody` says that the id of an action names one body,
wherever it is remembered (cache, probe, reply, held, mind), so a delta is
applied to the body it was computed from or cannot be applied at all;
`NeverMisled` says so of everybody, also of callers that share a session, and is
stronger than what the runs check. `Kept` follows a caller alone in its session
between the delivery, which changes what is held, and the reply, which changes
what it has. `ReadersTrue` makes "alone" stable.

**Journal.** `RefsCover` is inductive with `Shape` (a cell that names a body
carries that body or none, and no other). The work is in the sums: the names of
a body are those in rows, those in documents and the one in the statement under
way, and inserting, forgetting results, forgetting rows and releasing each move
them by as much as the count changes (`NamesAddUp` and the lemmas around it).
`MemoExact` needs `Ordered` (a set of rows has a newest one) and `MemoShape`.
For the refinement, `NamesResolve` shows that what a row names is there to read,
because a named body is counted; then `Init` maps to `Log!Init` and each step
to a step of `Ledger` or a stutter, the steps of retention included.

**Snapshots.** `GoodRow` says of a snapshot's row, written or about to be, that
its blobs are stored and expand to the content it was taken of, or that it
points at a row that holds the same; `GoodDiff` the same of a diff. The lemmas
below it are about the column dictionary: the number of keys up to a key tells
it from the others, every value of a store is in the dictionary, so expanding
undoes compacting. `JobOK` follows the request under way from what it has read
to what it saves, deletes or puts. Cleanup spares old rows because its base was
read before anything it compares with it.

**Friction.** `OneMore` shows that one more row changes the counters that a
replay of the log gives as the tracker notes it. `LiveIsLog` is inductive with
`Carried` (a command of the running session had its counters hydrated, so that
its row is counted on top of the log's), `Begun` and `Cold` (nothing is counted
of a session that has not begun or is not hydrated). `WarnNeedsNews` needs
`Remembered`: since the last warning that counted failures, the streak grew by
no more than the failures logged since, and the database remembers the warning
as the memory does.

**Relay control.** `Effect` sums up what an action of any of the processes may
do to processes, port and pidfile; the invariants are proved against it once.
`GInv` holds with ids reused: `Guarded` (a session start that goes on to a
restart saw no use, or was overtaken) and `Owns` (what is past its bind owns
the port). `NInv` needs `~Reuse`. `Aimed` says that what a caller has in hand is
still what it identified, so what answered is not killed, and with `Listed` (a
line of another port is a test relay's) nor is it reaped. A stop that was
reported has no pidfile of its process (`Cleared`), because by then the process
is past its boot and writes none, and the stop's own removal follows the kill;
so no boot reads one that is over (`Unseen`), whatever happens between its
reading, its event and its writing. What a boot had read before the report it
may still record: `StoppedIsClean` does not say otherwise.

**Browsers.** `SlotInv` says of a process that what it holds has its file, that
it counts a reference per call, and that before the first death nobody is about
to remove a file (`Settled`); `Launch` ties each step of a launch to its slot,
its profile and its browser; `StaleIsOver` says that what a sweep has found
stale is over, also when the sweep acts on it much later. `HarnessUsesSlots`
lets the invariant of the slots be proved in the terms of `BrowserSlots` and
used in the composition.

**Event feed.** `Flow` follows the entries of a kind from the table back to the
page: those stored are older than those the relay has or will have of the
registered socket (`Bytes`: its buffer and what is on the wire), those are older
than those queued, and each of the three is in order (`Ordered`, `Frames`,
`QueueOK`). It is stated of numbers at positions, so that no induction over
queues is needed: cutting bytes off, dropping a socket and overflowing a queue
leave part of what there was, and a send or a delivery moves a part from one to
the next (`FlowSend`, `FlowTake`). `Halves` shows that two halves of a frame are
one batch wherever the bytes were cut. `Texted` gives the session and the text
of what is read back: a text is left out of a row only when it is stored under
its hash. A wait that times out has missed nothing by `Searched`: what it looks
for is in the ring, or has gone out of it since the wait began.

**Replay and cleanup.** That a plan stays is a fact about one step: a row is
added at the end of the log, so it is after the session's first failure, and
a replay's own row is none that the whole plan takes (`PlanStays` says no more
than that of the log, and not that the page is the same). A cleanup leaves only
what was pruned by `Owned` (a row that a session put, and was told so, is the
doing of the last acknowledged step in the log that touches its key) and
`Cleans` (while no delete has failed and nobody has interfered, each row the
session still owns whose reply is stored is one the cleanup has yet to come
to). `Owned` makes the put's row in the log the one that decides in the
cleanup's pass, if the pass can see it; a pruning meanwhile only takes rows
from what `Cleans` speaks of (`PruneCleans`).

**Advice.** All three start from `TellerShape`, what the variables hold.

* An offer stands by `CachesTrue`: what a cache was built from is the beginning
  of the log and had every row older than the cache (`Since`), also a cache
  built from another cache (`Stands`, with the age of both). So no row older
  than the two lifetimes together is missing from what the offer rests on.
* The end of a session agrees with what was said live by `Said`: a failure
  that was reported outside a replay was announced as the first of its call,
  unless the call had failed in another session.
* Others hear once by `BooksKept`. An entry per call and session (`Balance`)
  relates four things: the failures of the call, those of them not yet
  reported (at most one, the newest), whether they are fewer than the threshold
  at which others are told, and what each agent has heard or has in its queue.
  Below the threshold nobody has heard; from there on everybody except the
  agent of the failure that reached it has heard once (`Hears`), or may have
  missed it because its queue was full of later notices or the session is over
  (`Excused`). `PushTold` and `Hearsay` are about one notice entering a queue at
  its limit, which may drop another; `OwnFailures` ties a probe to the failure
  its agent is about to report. Calls whose count a replay or an overlapping
  report has disturbed (`mixed`) are excepted, as in the property.

## <a name="limits"></a>What is only model-checked, and what is not modelled

Checked on the instances above and not proved:

* *Liveness* (`RequestEnds`, `FeedDrains`, `OrphansEnd`, `DeadOwnersEvicted`):
  temporal reasoning with fairness and `ENABLED` is out of reach of the
  installed provers.
* *What a fold over rows computes* (`WarningIsEarned`, `ReportsExact`,
  `RunApplies`): here the pass itself is what the property is about (the
  streak across the rows of a target, a report against what it should find, a
  sequence of steps applied to a page), so it stays a fold, and an induction
  over the rows would instantiate a theorem with an operator as parameter.
  `WarningsBacked` proves of `WarningIsEarned` what does not depend on the pass
  over other sessions' rows.

Not modelled, with the reason:

* *Text*: command-line parsing and help, MCP translation, the dashboard, report
  pages, transcripts, traces, token estimates, the wording of every notice.
  They read state and change none.
* *Aggregates* that sum or rank rows without regard to their order: costs by
  type and target, savings ledgers, heat maps, sparklines, clusters of
  error texts. A reference definition of a sum would repeat it.
* *Page commands* (`inject.js`): the DOM and React readers, pickers,
  screenshots and the waits on the DOM. What is in them of interest is listed
  under the readings below.
* *Self repair*: a literal replacement in one file, on request.
* *In modelled parts*: the browser that processes share and operator tabs
  (`BrowserHarness`), the delayed removal of a locked directory, reuse of a
  process id by a browser; clicks and verification snapshots in macros
  (`Replay`); known issues, remediation, mid-session and cache nudges and
  failures declared fixed (`Advice`; the last are in `Friction`); the command
  and intent dimensions (`Friction`), which count as selectors do; rows without
  ids and hints (`ReadPipeline`); schema migrations (`Journal`); renaming and
  staleness of sessions; the folding of strict-CRV rows into steps
  (`SessionView`).

The map covers about a fifth of the implementation's lines. The rest is, by
size, the first two groups above and the page's readers; the control that is
left in them does not carry more properties than those here.

The diff of a strict-CRV command covers everything that changed between its
two snapshots, writes of other callers included. The code takes no lock and
promises none, so no property speaks of it.

## <a name="disagreements"></a>Disagreements between the code and what it says

Each of these is a definition marked "Does not hold" with the promise it
quotes. None is in a run; to see its counterexample, put it into the
configuration named (alone, and without the symmetry).

| definition | what happens | to see it |
|---|---|---|
| `AgentLink!NoRetryOnTopOfTimeout` | the recovery retry of `POST /command` runs on top of a command that timed out and may still be running; the sibling retry says in its comment why that must not be | `agent_link`, invariant, one tab (`Tabs = {t1}`, `NameOf <- OneTab`), `MaxId = 4` |
| `AgentLink!NoStraySyntheticWrite` | a request that began under a session dispatches unguarded once that session has ended | `agent_link`, invariant |
| `BrowserSlots!OneSlotPerProcess` | an `acquireSlot` that had to wait takes a slot of its own although its process holds one by then; the slot taken first stays until the process ends | `harness`, invariant, `Procs = {p1, p2, p3}`, `Owner <- SharedOfThree`, `Cap = 2`, `Legacy = {}`, `MaxWork = 4`, `MaxDeaths = 0`, POSIX |
| `ReadCache!MovedPageIsAsked` | after a reload that the relay did not order, `pageEpoch` counts from 0 again and can stand where a cached read recorded it | `read_cache`, property |
| `ReadPipeline!HeldWasDelivered` | what a caller holds is remembered per session, so a caller is told that nothing changed since a body that only another caller received | `pipeline`, invariant |
| `Friction!NewFailureIsSaid` | a streak that broke and grew again to the length it was warned at is not warned about, although something new has failed | `friction`, property, `LiveFails = 1` |
| `RelayControl!RealRelaySpared` | an old registry line whose process id was given to the real relay has it reaped | `relay_control`, invariant, `Reuse = TRUE` |
| `RelayControl!PortLookupStops` | a relay that has lost its pidfile (an overlapping stop removed it) is found through the port and refused, because `stopRelay` tests `body.status` where the relay replies `{ok, result}` (`relay-control.mjs:141`, `relay.mjs:3455`; `relay-control.mjs:92`: "the fallback for a relay with no pidfile") | `relay_control`, property, `MaxCalls = 2`, `MaxEvents = 0`, POSIX |
| `RelayControl!SilentSpared` | a program on the port that does not answer HTTP within 1.5 s is killed, being taken for a relay (`relay-control.mjs:144`: "not answering at all - a wedged relay is exactly when stop is needed") | `relay_control`, invariant |
| `RelayControl!StopNeverCounts` | a boot that had read the pidfile before a stop removed it records an unclean exit of the relay that was stopped (`relay-control.mjs:57`: "so it never counts") | `relay_control`, invariant |
| `Replay!CleanupTakesAll` | a cleanup does not see a put whose reply was pruned and says it has succeeded (`routes-sessions.mjs:369`: "exactly which rows are still live and were written by this session") | `replay`, property |
| `StateTools!DiffTrueForEveryKey` | a diff of two stored snapshots has lost the keyPath of stores not keyed by `id` and reports one row at most | `state_tools`, invariant |
| `StateTools!CleanupSparesOld` | a cleanup since a snapshot that was scoped by content takes rows outside the scope for new (`routes-sessions.mjs:383`: "treats every row that is new since N") | `state_tools`, invariant, `Scoped = TRUE` |
| `EventFeed!WaitAnswered` | `net.wait` and `console.wait` never end while the application logs an entry that upsets their search | `feed`, property |
| `BrowserHarness!LegacySpared` | a young browser of an old copy without markers is killed by the reaper, which the sweep would have spared | `harness`, property |
| `BrowserHarness!FailedGivesBack` | a launch that throws before its `try` keeps its slot for the life of the process | `harness`, invariant |
| `Analytics!RunIsOne` | a row of another caller between two steps lists one macro replay as two (`relay.mjs`: "always logged back-to-back") | `advice`, as an invariant of `log` |
| `Advice!OffersWhatWorks` | a replay reads the analytics before its first row and drops the candidates after its last; they are then built again from the analytics it left, and the macro that just failed is offered for up to a minute | `advice`, property |
| `SessionView!RepeatedChainIsKept` | `repair causal-diff` compares links by the ids of their steps, which two sessions never share: a chain that formed again is reported as removed and added (`session-viz.mjs`: "shows exactly which inferred chain no longer forms"; its test compares a session with itself) | `advice`, as an invariant of `log` and two sessions, `MaxAsked = 2`, `MaxTrouble = 3` |
| `SessionView!RecoveredDidWork` | the screenshot the relay takes of a failed write counts as the step that recovered its episode | `advice`, as an invariant of the rows of a session |

Seen while reading, and not stated in a module:

* the notice to other agents goes out when the count is exactly three: failures
  whose reports overlap, or a macro step that is the third, skip or repeat it
  (`relay.mjs:1247`; `mixed` excepts it in `OthersHear`);
* the totals by macro are said to "foot to" the total cost (`db.mjs`, about
  line 1503) and do not where a reply was delivered smaller than its result;
* `findRedundantCalls` counts two failures, and reads whose results were
  pruned, as the same answer;
* "first session ever to see this type fail" at a session's end counts
  failures declared fixed and automatic screenshots, the live line does not;
* `buildSteps` folds a strict-CRV call's rows into "the step it belongs to" by
  position, which is another agent's step when two interleave
  (`session-viz.mjs:163`);
* compaction drops a repeated click; the puts of a restore count as the
  session's own in its cleanup; a POSIX orphan whose profile lost its marker is
  no longer recognised; nudges repeat after a restart of the relay;
* in the page: the capture listener of `dom.pick` swallows the click another
  caller's `dom.click` reports as done (`inject.js:1066`); `dom.clickWait
  --changed` takes its baseline 200 ms after the click; `idb.put` and
  `idb.patch` answer at the request's success, before the transaction commits;
  `dom.settle` says settled before a delayed rebuild begins.

## Plan

Done: the modules above, and theorems for `AgentLink`, `ReadCache`,
`ReadPipeline`, `Journal` with its refinement of `Ledger`, `StateTools`,
`Replay`, `EventFeed`, `Friction`, `Advice`, `RelayControl`, `BrowserSlots` and
`BrowserHarness`.

Left: page commands and their waits against two callers; the browser that
processes share.

# Verification of oggregator

TLA+ models of the parts of oggregator where the order of events decides
whether the program is right, the TLC runs that check them on small instances,
and TLAPS proofs of the theorems that matter most. Every definition is
translated from the code; `PROJECT.json` names the lines under `map`, the
hazards the properties are for, a mutant for each property, and the findings.

Run a model with `tlc -workers 2 -config <X>.cfg <module>`, a proof with
`tlapm <X>_proofs.tla`.

## The system

oggregator collects option markets of nine venues, shows them merged in a web
app, lets users trade on paper, runs a funded-account program on the paper desk,
and has a daemon that is to trade live. It is a TypeScript monorepo
(`src/packages/*`); each process is one Node event loop, so that code between
two awaits is atomic and anything may happen at an await.

| Part | State it keeps | Operations | Interacts with | What is hard | What makes it correct |
|---|---|---|---|---|---|
| Live control (`execution/src/control.ts`) | state per actor, lazily cached | arm, disarm, kill, reset, status, killEveryone | journal, alerter, venue gateway, step-up | awaits in a kill, append that throws, restart | a kill latches, armed never survives a restart, memory and journal agree |
| Journal (`journal.ts`) | hash-chained rows, idempotency table in SQLite | append, lastOfTypeFor, save/get response | control, command socket | write failures | nothing acknowledged before it is on disk |
| Alerter (`alerts/`) | test delivered, critical lost, cooldowns, digest | send, sendTest, flushDigest | sinks, journal | partial delivery | no arming without working alerts |
| Command socket (`socket-server.ts`, `server/src/execution-client.ts`) | nonces, per-socket queue | handleLine | control, journal | timeouts, retries, overlap | idempotency |
| Step-up (`step-up.ts`, `totp.ts`) | last step and failures per actor | enroll, verify | control | sliding window, drift, restart | one use per code, exact lock |
| Keys, cipher, signing, CLI | files | - | control | none (cryptography, files) | - |
| Pre-trade risk, order ids (`risk/`, `orders/`) | none | pure checks | nobody yet | boundaries | limits |
| Funded engine (`funded/src`) | rows in Postgres: runs, settlements | startRun, settleAllActive, withdrawRun | paper desk, daily job, admin route | no transactions, stale reads, crashes | legal statuses, every verdict acted on |
| Chain runtime (`core/src/runtime/chain`) | merged chain, pending ticks, builds | subscribe, buildSnapshot, pushDelta | venue adapters (workers), sessions | builds race ticks, overflow, idle, late venues | shows the last quotes, emits a gapless feed |
| Registry of runtimes | reference counts | acquire, release, cleanup | sessions, runtimes | cleanup awaits | pinned is kept, abandoned is reclaimed |
| Chain session and route (`server/src/chain-stream-session.ts`, `routes/ws-chain.ts`) | last number sent, resync owed | subscribe, replaceSubscription, sendEngineEvent, dispose | runtime, socket | backpressure, slow clients, close during acquire | no lost diff, no leaked lease |
| Chain client (`web/src/hooks/useChainWs.ts`) | active subscription, batched diffs, cached chain | handleMessage, flushDeltas, checkSilence, reconnect | session | silence, reconnects, batching | shows a chain that existed, catches up |
| Feed worker (`core/src/feeds/worker`) | handlers, subscriptions, pending calls | subscribe, respawn, restore | adapters, runtimes | worker death mid-call | every subscription replayed once |
| Subscription coordinator, `sdk-base` | reference counts per venue and chain | acquire, release | runtimes, venue sockets | failing subscribe, queued operations | counts match holders |
| JSON-RPC / topic socket clients | connection, channels, backoff | connect, subscribe, resubscribe | venues | reconnect races, half-open sockets | every channel resubscribed |
| Deferred persistence (`db/src/deferred-persistence.ts`, `oi-window.ts`) | append-only files, pending counts | write, prune, flush, recover, loadWindow | Postgres stores | crash between rename and write, failing disk, reads under a flush | no acknowledged row lost, windows whole |
| Paper desk (`trading/src/desk`, `server/src/routes/paper`, `settlement-service.ts`) | orders, fills, positions, cash, trades | place, open, close, settle | Postgres, daily job | no transactions, overlapping settlements | position = sum of fills, expired is settled |
| Other runtimes, analytics, API routes, web views, ingest, tradfi | caches | - | - | little | - |

The daemon's own chain: the API server sends signed commands (ExecutionClient)
to the command socket, which calls the live control, which verifies codes,
writes the journal, asks the venue and sends alerts. The market's chain: a
venue's worker posts batches of ticks to a chain runtime, which the registry
keeps while sessions hold leases on it; a session forwards the runtime's events
to a browser. A runtime gets its ticks through the subscription coordinator,
which counts who wants which chain; the worker's proxy adapter, which forwards
what it is asked to a worker thread; and the adapter there, which has a
websocket client of its own. The paper desk writes to Postgres query by query;
open interest goes to a file first and to Postgres later.

## Modules

```
KillSwitch  <--refines--  LiveControl  <--EXTENDS--  CommandServer
                                                          |    (codes as in StepUp)
                                                  CommandServer_proofs

FundedEngine  <--EXTENDS--  FundedEngine_proofs

ChainFeed  <--refines--  ChainRuntime  <--EXTENDS--  ChainRuntime_proofs
    ^------EXTENDS-----  ChainStream   <--EXTENDS--  ChainStream_proofs

ChainLeases, VenueFeed  <--EXTENDS--  FeedDemand_proofs

OiOutbox        <--EXTENDS--  OiOutbox_proofs        <---.
JsonRpcSession  <--EXTENDS--  JsonRpcSession_proofs  <---+--EXTENDS--  SideBySide_proofs
StepUp, PaperDesk             (by way of MCSideBySide) <-'
```

Each `MC*` module instantiates one of them for TLC, save two. `MCFeedDemand` has
`ChainLeases` and `VenueFeed`, `MCSideBySide` has `StepUp`, `JsonRpcSession`,
`OiOutbox` and `PaperDesk`. The components there share no state, so nothing is
gained by interleaving them: one moves while the others are where they started,
the states add up, and each is explored as it would be alone. `TypesOK` is the
four type invariants together.

### LiveControl and KillSwitch

`KillSwitch` is what the class comment of `LiveControl` promises: an actor
trades only while armed, a kill latches until that actor's reset, nobody trades
after a restart, and a latch that was recorded survives it. `LiveControl` is
`control.ts` over `journal.ts` and `alerter.ts`. A call of a command is a slot
in `Requests`; each command is one action up to its first await, and one more
per continuation (`VenueSettles`, `AlertSettles`, `CriticalSettles`); between
them every other command may run. `mem` is the map `LiveControl.actors` with
its lazy entries, `lastRow` the only thing the code reads from the journal: the
newest control row of the actor or of System. `JournalMayFail` lets any append
throw, after the assignment it follows in the code. `Restart` is a death or a
stop at any moment.

### CommandServer

`handleLine` over `LiveControl`, whose actions it reuses: `Execute` looks the
key up and runs the command to its first await, `Resume` continues it, and
`Save` follows in the same turn of the event loop. Keys stand for a command of
an actor with its one-time code, so a retry is the same key on any connection at
any time. A row or a response that cannot be written outside a try block is an
unhandled rejection: `Dies` and `CSRestart`.

### StepUp

`StepUpVerifier` for one actor. Time is counted in TOTP steps and a code is the
step it is the code of. Two history variables hold what the code throws away:
all wrong guesses and all accepted steps.

### FundedEngine

The engine query by query. `call[c]` is where a call waits and what it has read
(`seen`, `pnl`); every update is unconditional, as in `funded-store.ts`.
`CutOff` ends a call at any query: a failing query or a crash. `NextDay`
assumes that the settlement of a boundary is over before the next one: the job
schedules itself only when its run is over, and a run lasts seconds.

### ChainFeed, ChainRuntime

`ChainFeed` is what listeners may rely on: a numbered series of snapshots and
patches, where a patch names contracts the chain holds. `ChainRuntime` is
`chain-runtime.ts` with its projection, and the venues behind it as workers:
what a worker posts (`wire[v]`) arrives in order, a fetch answers with the
store as it was when served, a batch may be overtaken by it. A quote is the
count of its contract's ticks. Builds in flight are records of their version,
their cutoff and the venues not heard from.

### ChainStream

A session, the socket and the browser's connection over `ChainFeed`. The
session's listener runs within the runtime's step, so `RuntimeSnapshot` and
`RuntimeDelta` include `SendEngineEvent`: the resync owed, the slow-client
check, the frame or its deferral. `bufferedAmount` is the number of frames not
yet received. Subscription ids are reused once nothing refers to them, which
keeps the model finite. `truth` remembers the chain the newest frame was made
from.

### ChainLeases

The registry's counts and the route's sessions, which hold a lease from the call
of `acquire` on, also when their socket is gone. `Reclaim` is one turn of
cleanup's loop on the list it made at its start.

### VenueFeed

One venue, from the callers of the coordinator down to the exchange. `ops` is
the chain of promises of `runVenueOperation`: its head runs, and when the head
rejects everything behind it rejects without having run (`OpFails`).
`requestRefs` are the coordinator's counts, `subs` the proxy's subscriptions,
`held` and `chainRefs` the worker's subscriptions and the counts of its adapter,
`venue` what the exchange streams. Two calls can be on their way to the worker,
the running operation's and the one of `restore()`; a call is heard in the step
that answers it, and `inbox` has those the worker has not taken. `WorkerDies`
may come at any point, rejects both calls and forgets all the worker had.

### JsonRpcSession

`JsonRpcWsClient` with its socket as the code sees it (`none` for a null,
otherwise the ready state), the reconnect timer, the set of channels and the
reconnect callbacks under way, of which there may be two: the timer of a socket
that died in a replay starts another one. A closing socket is a state of its own:
`isConnected` is false, its close event is still to come, and an owner that
connects now replaces the socket, whose close is then ignored (`unreplayed`).
`streamed` is the venue's side.

### OiOutbox

`DeferredOiSnapshotStore`: the two files as sequences of rows, the two counts,
a flush batch by batch, and a reader of `loadWindow` in its three steps. Appends
may fail half-way and leave a line that is cut short; what is appended next
becomes part of that line (`wrecked`). `FlushFails` is the catch of `flush`,
`FlushFailsForGood` the catch that fails itself, `RenameFails` the rename before
the try, `Crash` and `Reopen` a process that dies and starts again,
`ReopenFails` one that dies while it puts the rows back.

### PaperDesk

Requests against one contract of one account, query by query: the fill, the
position read and written, the cash entry, the trade's row read and written, the
trade closed. `booked` and `linked` are the sums of the rows that are only ever
inserted, which is what the others should agree with. `stale` says that some
request has overwritten what had changed since it read it. `CronRuns` and
`SettleNow` are two ways into the same settlement.

## Runs

| Run | Shows | Bounds |
|---|---|---|
| `live_control` | `MemoryMatchesJournal`, `KillStands`, `ImplementsKillSwitch` and, with fairness, `KillIsAlerted` | 2 actors (one without a key), 2 calls, failing journal, 1 restart |
| `kill_reaches_venue` | violated: a kill whose row cannot be written never asks the venue | as above |
| `command_server` | `RunsOnce`, `AcknowledgedIsOnDisk`, `LateRetryIsHarmless` | 3 keys, 2 connections, 1 restart; retries unbounded |
| `command_overlap` | violated: an overlapping retry executes twice | no failures, no restart |
| `step_up`: the codes | `GuessesAreRare`, `LockIsExact`, `NoCodeTwice` | lock after 2 for 3 steps, clock to 7, 1 restart |
| `step_up`: the venue socket | `SubscribedIsStreamed` and, with fairness, `SubscribedComesBack` | 3 channels in batches of 2, 2 replays, 2 faults |
| `step_up`: the outbox | `WrittenIsKept`, `WindowIsWhole` and, with fairness, `WrittenIsStored` | 3 rows, an outbox of 1 with a slack of 1, batches of 1, 2 mishaps |
| `step_up`: the paper desk | `BooksAgree` and, with fairness, `ExpiredIsSettled` | 2 clients, 2 requests, 1 trade, 1 death |
| `funded_engine` | `TransitionsAreLegal`, `SettlementsAreActedOn`, `RunLimit` | 3 runs, limit 1, 2 calls, 2 days |
| `funded_credit` | violated: a passed test is breached without a loss | as above |
| `chain_runtime` | `CaughtUp`, `ImplementsFeed` | 1 venue, 2 contracts, 3 quotes each, buffer of 1, 3 builds, failing fetches |
| `chain_runtime_two_venues` | `CaughtUp` violated | 2 venues, 2 quotes, 2 builds, no failures |
| `chain_stream` | `ShowsARealChain`, `NothingIsLost` and, with fairness, `CatchesUp` | 2 contracts, 3 events, limits of 2 and 3 frames, 1 trouble, 1 status |
| `chain_leases`: the registry | `PinnedIsKept`, `CountsAgree`, `NoLeaseLeftBehind` and, with fairness, `AbandonedIsReclaimed` | 3 sockets, 1 chain, 4 sessions, 2 cleanups |
| `chain_leases`: the venue's feed | `HeldIsServed`, `NothingIsOrphaned` and, with fairness, `LostIsReplayed` | 2 callers, 2 requests, 1 refusal, 2 deaths of the worker |
| `chain_leases_two_chains` | `PinnedIsKept` violated | 2 sockets, 2 chains |

Why the bounds are enough. Two calls are what a race needs, and the third
run, socket or session is the one that finds the state the two left behind. In
`step_up` the clock is long enough for a lock to begin, be tried, end and begin
again. A buffer of one makes every second contract overflow; three builds let
one be superseded while another is in flight. In `chain_stream` three
frames cross both limits, and one trouble is a lost socket or a stall at any
moment. Both temporal properties of interest (a quiet market, an abandoned
chain) hold after the bounds are used up, which is where the bounds leave the
model. A venue's feed needs a second death to fall into the restore of the first,
and a refusal to fail one replay of two. Three channels in batches of two make a
replay pause, halve and end early. An outbox of one row trims, and two mishaps are
what it takes to overwrite a file set aside, or to be interrupted again while
rows are put back. Two requests and the daily run are three writers of one row.

`CHECK_DEADLOCK FALSE` is set where a bound uses up what may happen: the chain
runtime (quotes and builds), and `MCSideBySide` (steps of the clock, rows,
requests), whose components do stop.

Two safety properties hold in a small world and fail in a larger one. `CaughtUp`
holds with one venue, whose batches and answers keep their order, and fails
with two. `PinnedIsKept` holds with one chain, where cleanup's list has one
entry, and fails with two. The passing runs show that nothing else breaks them.

Not in any run, since a bound keeps them out: more than one restart of the
daemon, more than two calls of the engine at once, two deaths of requests on the
paper account, more than one loadWindow at a time.

### Fairness

`LiveControl`: every continuation runs. Sinks abort after ten seconds and are
retried twice, and the stub gateway answers; a real gateway without a timeout
would break it. `ChainStream`: the network delivers while a socket lives,
animation frames and reconnect timers run, and a client that hears nothing
probes; nothing is assumed of the market or of the runtime. `ChainLeases`: timers
fire and every `acquire` and `dispose` ends, since requests to venues time out.
Subscribing, leaving and failing are never fair.
`VenueFeed`: promises settle, messages arrive, timers fire, and the venue
answers or the request to it times out. `JsonRpcSession`: sockets open or fail,
closing ones close, timers fire, calls of a replay are answered or time out; of
the owners nothing is assumed. `OiOutbox`: the interval fires, the database
answers, a process that died is started again. `PaperDesk`: queries are answered
and the settlement job runs. The faults of all of them are bounded, so that the
liveness properties say what happens once they stop.

## Findings

1. `KillReachesVenue`: `kill` and `killEveryone` append their row before they
   ask the gateway. When the append throws, nobody is asked and no alert is sent;
   `killEveryone` is meant for a failing journal (`control.ts:153`, `:158`, `:165`).
2. `NotReexecuted`: the idempotency key is looked up before the await and stored
   after it (`socket-server.ts:75`, `:94`). `LateRetryIsHarmless` and
   `RunsOnce` bound the damage.
3. `BreachMeansLoss`: `ensureAccount` does not top up the account of a passed
   test (`engine.ts:180`), so the next settlement breaches its floor.
4. `CaughtUp` with two venues: a rebuild that waits for a slow venue puts back
   the quote that another venue has replaced and pushed (`chain-runtime.ts:434`).
5. `PinnedIsKept` with two chains: cleanup disposes of a runtime that was
   acquired while it awaited another one (`chain-runtime-registry.ts:100`).

### Seen on the way

Behaviour the models have, no document of the repository denies, and a property
had to make an exception for. They are no runs of their own.

- `subscription-coordinator.ts:247`: what is queued behind a rejected operation
  is skipped. A skipped release leaves a count nobody will take down.
- `sdk-base.ts:412` answers a subscribe that comes before the instruments of a
  new worker as if the chain had none; `sdk-base.ts:446` takes away the count of
  a caller that joined a subscribe that fails. Both are the exceptions of `HeldIsServed`.
- `jsonrpc-client.ts:226`: an owner that connects while a close is awaited gets a
  socket that nothing replays the channels on (`unreplayed`).
- `deferred-persistence.ts:306`: a line appended behind one that was cut short is
  lost with it, though its write resolved. `:631`: a rename that throws leaves
  `flushing` set. `:649`: when the rows cannot be put back, the next flush renames
  over them. A `loadWindow` between the two files misses rows a failing flush moves back.
- `apply-fill.ts:8` calls `applyFill` "atomic for a single fill": its three
  queries are not one transaction. `workspace.ts:841` says re-running a
  settlement is safe, which holds for runs one after the other (`ExpiredIsSettled`)
  and not for two at once, which both pay. Trades that cancel out at account level
  are never settled, and two closes of one trade turn it round.

## Proofs

All theorems hold for every value of the constants allowed by the named
assumptions of their module, with no bound on actors, calls, runs or days.

Every invariant and every action property of a passing run is a theorem, two of them
under a hypothesis that the code needs as well (one venue, one chain). The assumptions
say no more than what the constants stand for: which sets are finite (symbols,
callers, calls), which limits are natural numbers, and that a sentinel is no member
of the set it stands beside.

`CommandServer_proofs` is about `LiveControl` and about `CommandServer`, which
extends it. For the daemon alone: `TypeCorrect`; `JournalAgreement`
(`MemoryMatchesJournal`) and `KillsStand` (`KillStands`) from it; and `Refinement`:
`LiveControl` implements `KillSwitch`. `MemoryMatchesJournal` is inductive with the
types: each command either changes `mem[a]` and `lastRow[a]` together or puts `a`
into `unjournaled`, and filling the cache copies what the row says. `KillStands`
needs nothing more than the types, since it speaks of `StateOf`, which a restart
leaves as the row has it. The refinement uses both: a restart forgets exactly
the armed, and what it forgets of the killed was unjournaled.

Behind the socket the steps are not those of `LiveControl`: a replay answers
without asking it, a process that dies answers nothing. But each of them is
`Moved`, which is all the theorems rest on, so the three hold there too
(`CSJournalAgreement`, `CSKillsStand`, `CSRefinement`). `CSInv` adds what a request
in flight may rely on: a kill or an arm waits only once its row is on disk
(`WaitingIsRecorded`), which makes `AcknowledgedIsOnDisk` inductive; a key that ran
has an answer, a line that will bring one, or a run that left none
(`RunsAreAnswered`), from which `RunsOnce`; and what took effect has spent its
code (`ActedIsSpent`), from which `LateRetryIsHarmless`.

`FundedEngine_proofs`. The statuses are legal because of one fact that no line of
the code states: the settlement row of a run and a day is written by one call.
While it is missing, nobody can have moved the run out of its test, and once it is
there, the call that wrote it is alone in moving it. `Invariant` says so: for
each call, what it may rely on at its query (`CallOK`); that at most one call
inserts a run, and at most one moves it; and that a verdict not acted on belongs
to a call at work or to `cutOff`. It gives `TypeCorrect`, `ActedOn`
(`SettlementsAreActedOn`) and `Transitions` (`TransitionsAreLegal`), whose
one exception, a breach racing a withdrawal, the code really has.

`LimitHolds` (`RunLimit`): a call that is past the count of the user's runs counts as
if it had its run already, and one more passes only while fewer than the limit
are there.

`ChainRuntime_proofs`. `FeedRefinement` (`ImplementsFeed`): of the runtime's many
steps two kinds change what listeners are told. A build shows any chain, which the
feed allows; a push must name contracts that the chain holds and carry all that
changed, which `applyDeltas` sees to for each contract it knows. `CatchesUpAlone`
(`CaughtUp`) follows each quote a venue has sent: what a worker posted, what a fetch
read and what is buffered is the last quote, unless something newer is behind it,
in the worker's batch or further down its wire (`TicksAreFollowed`,
`ReadsAreFollowed`, `PendingIsFollowed`), and a fetch from before the
subscription is behind its announcement. These hold for any number of venues. What a
build in flight owes (`ShownOrComing`) follows only when no other venue keeps it
waiting, so the theorem assumes a single one: run `chain_runtime_two_venues` shows
the property violated with two.

`ChainStream_proofs`. `RealChain` (`ShowsARealChain`) and `AllSent`
(`NothingIsLost`) come from one invariant. The frames on their way are `Linked`: each
diff was made from the chain that the client will show when it comes, be it the
data of the last frame of its subscription before it or what it shows now. While the
session owes no snapshot, they end in the runtime's chain (`Ends`), so that the
next diff is linked as well; a diff that is held back makes the session owe one,
and a snapshot flushed in front of a diff already has what the diff says. A
subscribe on its way has an id that neither the session nor a frame has (`Asked`),
so that a new subscription begins with an empty queue. `Merged` is the loop over the
batched patches, a recursive function; that one patch more is one application more
is proved by induction over sets of numbers (`Climbing`), the principle that a set
which has 0 and each successor has them all.

`FeedDemand_proofs`, on the registry. `LeasesAreOwned` (`NoLeaseLeftBehind`) rests on
its converse, `SessionIsOwn`: what a socket's session variable names is a session
that is wanted, and the socket's own. Neither is inductive alone: a subscribe
may end the session the variable names only because that session is the one of
this socket and of no other. Both hold for many chains, where `PinnedIsKept` fails,
so that finding 5 costs a runtime and never a lease. With one chain the count of the
runtime is the number of leases on it and a run of cleanup has nothing left on its
list after the first (`OneChainInv`): `CountsAgreeAlone` and `PinnedIsKeptAlone`, for
any number of sockets and of runs of cleanup at once.

On the venue's feed. `HeldServed` (`HeldIsServed`) and `NothingOrphaned`
(`NothingIsOrphaned`) need to know who answers for a request at every moment:
the operation the worker is asked for is the head's (`OpCallInv`); a count counts those
who hold, leave or are being subscribed (`CountsInv`), and what is counted has a
subscription of the proxy (`SubsInv`); one without its worker is one that `restore()`
will come to (`LostInv`); an id belongs to one subscription, or to the call that gives
it up (`IdsInv`); and what the adapter counts is streamed, or the subscribe that
counted first is still with the venue (`StreamedInv`). A worker that dies resets
everything below the proxy at once, which is why it may die anywhere.

`SideBySide_proofs`, on the codes. `CodesCountOnce` (`NoCodeTwice`): the code keeps one
number, `lastStep`, and the proof keeps why one is enough: the codes accepted since
the start rise, and `lastStep` bounds them all. `ExactLock` (`LockIsExact`) and
`RareGuesses` (`GuessesAreRare`): the list of failures that the code keeps and cuts is
the end of the list of all wrong guesses, and what it lacks is out of the window for
good (`FailuresOK`).

On the paper desk. `BooksCorrect` (`BooksAgree`): while requests are under way each sum
falls behind the next by what the requests between the two writes owe (`CashInv`,
`PositionInv`, `RowsInv`), and at rest nothing is owed. A sum over requests is the
cardinality of a set of unit pairs, since a recursive sum says nothing to the
prover. Positions, rows and statuses are claimed only while no row was overwritten
that had changed since it was read, which is what `stale` is for.

`Apart`: a behaviour of the run that has the four components side by side is one of
each of them, so that what is proved of them holds of what TLC checks
(`AllTypesCorrect`: `TypesOK`).

`OiOutbox_proofs`. `AcknowledgedIsKept` (`WrittenIsKept`) needs to know what a
count is good for: `flush` believes `pendingRows` and overwrites the file set
aside without looking at it. So the invariant says that a count of nothing tells
the truth of the acknowledged rows of its file (`NothingPending`,
`NothingFlushing`), that a file left behind has newer rows beside it
(`LeftBehind`), and that a flush has stored what it read of its file and no longer
holds (`FlushedOrUnread`), which is what lets it remove the file. Below it are
lemmas on what appending, cutting short and putting back do to the rows of a
file. `WindowsAreWhole` (`WindowIsWhole`) adds where the rows still owed are at
each of the three reads (`WindowSoFar`): a step moves rows only towards what is
read later, but for the flush that fails, which puts them back into the file
read first. Both hold
whatever `MaxPending`, the slack, the batch size and the number of mishaps are;
the trimming, the prune and the disk that destroys rows are the exceptions the
properties name.

`JsonRpcSession_proofs`. `NoChannelForgotten` (`SubscribedIsStreamed`). While no
timer is set, each channel of the set is streamed, asked for by its owner, or
held by a replay that will send it (`NothingForgotten`): a batch halved keeps its
channels in its halves, and a replay that fails closes the socket, arms the timer, or
leaves the work to the one waiting for the next socket. What an
earlier socket left pausing counts for nothing until the present one is open;
without that the step of the replay that gives up would break the invariant.

Only model-checked: liveness (`KillIsAlerted`, `CatchesUp`, `AbandonedIsReclaimed`,
`LostIsReplayed`, `SubscribedComesBack`, `WrittenIsStored`, `ExpiredIsSettled`).
Fairness and ENABLED are out of the prover's reach. So is induction stated by an
operator; where a recursive function must be unfolded to any depth, `Climbing` states
it of a set. RECURSIVE operators the models avoid, and `Recent` and `LastShown` are
written with SubSeq and CHOOSE where SelectSeq, which is recursive, would hide them
from the prover.

## Not modelled

Cryptography, file formats, parsing and formatting; the hash chain of the
journal; the alert cooldown (a choice) and digest; nonces (a choice); the
dispose of a chain runtime, venues registered after its start, and the analytics
computed from a chain; the hub that shares connections in the browser and a
change of tenor on an open one; dispose of the
coordinator and of an adapter, the recorders, surface coverage; the topic client,
the heartbeat and the lengths of back-offs; the stores that keep their outbox in
memory (dealer book, trades, metrics); prices, margins and partial reduces of the
paper desk; everything the table above names that has no
module. Each component of `PROJECT.json` says why.

## Plan

1. Proofs: how far two venues may fall behind in `ChainRuntime`, and what cleanup
   still keeps with two chains in `ChainLeases`, each stated as the weaker
   property that does hold.
2. The deferred dealer book: rows and a cutoff that change under a flush that
   fails, and the schedule that catches up.
3. `ChainHub` of the web app: connections shared by their users.
4. Pre-trade risk as operators against a reference definition, once it has a caller.

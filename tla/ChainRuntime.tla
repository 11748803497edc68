---------------------------- MODULE ChainRuntime ----------------------------
(***************************************************************************)
(* ChainRuntime (packages/core/src/runtime/chain/chain-runtime.ts) and its *)
(* ChainProjection: one option chain put together from several venues,     *)
(* kept current by their ticks, rebuilt when it may have missed some.      *)
(*                                                                         *)
(* Each venue's adapter runs in a worker of its own (FEED_WORKER=1), so    *)
(* that what reaches the runtime - batches of ticks, answers to            *)
(* fetchOptionChain, the acknowledgement of a subscription - arrives in    *)
(* the order in which that worker posted it, and in no order across        *)
(* workers.  A quote is the count of its contract's ticks.  Time (the 50 ms*)
(* batches, the 500 ms push timer, the rebuild intervals) is left out: a   *)
(* timer may fire whenever it is set.                                      *)
(***************************************************************************)
EXTENDS ChainFeed, Sequences, FiniteSets

CONSTANTS
    Venues,         \* activeRequest.venues
    VenueOf,        \* the venue that lists each contract
    MaxPending,     \* MAX_PENDING_DELTAS, 5,000 in the code
    FetchMayFail,   \* TRUE when fetchOptionChain may reject
    MaxBuilds       \* bound: snapshot builds ever started

\* An engine none of whose venues has registered yet has nothing to fetch.
ASSUME RuntimeAssumption ==
    /\ IsFiniteSet(Symbols)
    /\ Venues # {}
    /\ VenueOf \in [Symbols -> Venues]
    /\ MaxPending \in Nat \ {0}
    /\ FetchMayFail \in BOOLEAN
    /\ MaxBuilds \in Nat

VARIABLES
    quote,          \* the adapters' quote stores
    streaming,      \* venues whose ticks go to this runtime
    batch,          \* contracts with ticks not yet posted by their worker
    wire,           \* per venue, the messages on their way from its worker
    held,           \* venues whose handle this runtime holds (handles)
    listening,      \* a listener is attached, so the push timer runs
    pending,        \* pendingBySymbol: contracts with a tick not yet pushed
    arrival,        \* the version of each contract's pending tick
    deltaVersion,   \* pendingDeltaVersion
    needsResync,
    missed,         \* the projection's missedSymbols
    builds,         \* snapshot builds in flight
    buildVersion,   \* snapshotBuildVersion
    resumeBuild,    \* the version of the build a resume waits for, or None
    lateTimer       \* lateVenueRebuildTimer is set

venueVars == <<quote, streaming, batch>>
bufferVars == <<pending, arrival, deltaVersion, needsResync>>
buildVars == <<builds, buildVersion>>
vars == <<chain, seq, event, quote, streaming, batch, wire, held, listening, pending, arrival,
          deltaVersion, needsResync, missed, builds, buildVersion, resumeBuild, lateTimer>>

Listed(v) == {s \in Symbols : VenueOf[s] = v}

Messages ==
    [kind : {"deltas"}, quotes : Patches]
    \cup [kind : {"chain"}, version : 1..MaxBuilds, quotes : UNION {[Listed(v) -> {None} \cup Quotes] : v \in Venues}]
    \cup {[kind |-> "acquired"]}

TypeOK ==
    /\ chain \in Chains
    /\ seq \in Nat
    /\ quote \in [Symbols -> Quotes]
    /\ held \subseteq streaming /\ streaming \subseteq Venues
    /\ batch \subseteq {s \in Symbols : VenueOf[s] \in streaming}
    /\ wire \in [Venues -> Seq(Messages)]
    /\ {listening, needsResync, missed, lateTimer} \subseteq BOOLEAN
    /\ pending \in Patches /\ Cardinality(DOMAIN pending) <= MaxPending
    /\ arrival \in [DOMAIN pending -> 1..deltaVersion]
    /\ \A b \in builds : b.waiting # {} /\ b.version \in 1..buildVersion /\ b.cutoff <= deltaVersion
    /\ buildVersion \in 0..MaxBuilds
    /\ resumeBuild \in 0..buildVersion

Init ==
    /\ FeedInit
    /\ quote = [s \in Symbols |-> 1]
    /\ streaming = {}
    /\ batch = {}
    /\ wire = [v \in Venues |-> <<>>]
    /\ held = {}
    /\ listening = FALSE
    /\ pending = [s \in {} |-> None]
    /\ arrival = [s \in {} |-> None]
    /\ deltaVersion = 0
    /\ needsResync = FALSE
    /\ missed = FALSE
    /\ builds = {}
    /\ buildVersion = 0
    /\ resumeBuild = None
    /\ lateTimer = FALSE

-----------------------------------------------------------------------------
(* The venues' workers.                                                    *)

Post(v, m) == wire' = [wire EXCEPT ![v] = Append(@, m)]

\* A venue whose subscription is not up yet may still move: its quotes are
\* read from the store by the next build.
VenueTicks(s) ==
    /\ quote[s] < MaxQuote
    /\ quote' = [quote EXCEPT ![s] = @ + 1]
    /\ batch' = IF VenueOf[s] \in streaming THEN batch \cup {s} ELSE batch
    /\ UNCHANGED <<feedVars, streaming, wire, held, listening, bufferVars, missed, buildVars, resumeBuild, lateTimer>>

FlushBatch(v) ==
    LET ready == batch \cap Listed(v) IN
    /\ ready # {}
    /\ Post(v, [kind |-> "deltas", quotes |-> [s \in ready |-> quote[s]]])
    /\ batch' = batch \ ready
    /\ UNCHANGED <<feedVars, quote, streaming, held, listening, bufferVars, missed, buildVars, resumeBuild, lateTimer>>

\* The worker serves the calls it got in their order; a fetch reads the store
\* and its answer may overtake a batch still being filled.
ServeFetch(v) ==
    \E b \in builds :
        /\ v \in b.unread
        /\ \A older \in builds : v \in older.unread => b.version <= older.version
        /\ \E ok \in BOOLEAN :
              /\ ok \/ FetchMayFail
              /\ Post(v, [kind |-> "chain", version |-> b.version,
                          quotes |-> [s \in Listed(v) |-> IF ok THEN quote[s] ELSE None]])
        /\ builds' = (builds \ {b}) \cup {[b EXCEPT !.unread = @ \ {v}]}
        /\ UNCHANGED <<feedVars, venueVars, held, listening, bufferVars, missed, buildVersion, resumeBuild, lateTimer>>

\* The venue's subscription is up, now or long after the first snapshot.
ServeSubscribe(v) ==
    /\ v \notin streaming
    /\ streaming' = streaming \cup {v}
    /\ Post(v, [kind |-> "acquired"])
    /\ UNCHANGED <<feedVars, quote, batch, held, listening, bufferVars, missed, buildVars, resumeBuild, lateTimer>>

-----------------------------------------------------------------------------
(* Building a snapshot.                                                    *)

\* fetchSnapshotBuildResult up to its await.
BuildSnapshot ==
    /\ buildVersion < MaxBuilds
    /\ buildVersion' = buildVersion + 1
    /\ builds' = builds \cup {[version |-> buildVersion + 1, cutoff |-> deltaVersion, unread |-> Venues,
                               waiting |-> Venues, data |-> [s \in Symbols |-> None]]}

Forget(S) ==
    /\ pending' = [s \in DOMAIN pending \ S |-> pending[s]]
    /\ arrival' = [s \in DOMAIN pending \ S |-> arrival[s]]

NothingLearnt == UNCHANGED <<feedVars, pending, arrival, needsResync, missed>>

\* The rest of buildSnapshot, once every venue has answered.
Built(b) ==
    IF b.version # buildVersion
    THEN NothingLearnt
    ELSE /\ Forget({s \in DOMAIN pending : arrival[s] <= b.cutoff})
         /\ needsResync' = FALSE
         /\ missed' = FALSE
         /\ FeedSnapshot(b.data)

OnChain(v, m) ==
    \E b \in builds :
        LET answered == [b EXCEPT !.waiting = @ \ {v}, !.data = Applied(m.quotes, @)] IN
        /\ b.version = m.version
        /\ IF answered.waiting = {}
           THEN /\ builds' = builds \ {b}
                /\ resumeBuild' = IF resumeBuild = b.version THEN None ELSE resumeBuild
                /\ Built(answered)
           ELSE /\ builds' = (builds \ {b}) \cup {answered}
                /\ UNCHANGED resumeBuild
                /\ NothingLearnt
        /\ UNCHANGED <<held, deltaVersion, lateTimer>>

-----------------------------------------------------------------------------
(* What arrives from a worker.                                             *)

\* Mutant of Overflow: the buffer is dropped and nobody told.
OverflowInSilence ==
    /\ Forget(Symbols)
    /\ UNCHANGED needsResync

Overflow ==
    /\ Forget(Symbols)
    /\ needsResync' = TRUE

\* Mutant of Overflows: one contract too many is let in.
OverflowsLate(contracts) == Cardinality(contracts) > MaxPending + 1

Overflows(contracts) == Cardinality(contracts) > MaxPending

\* Ticks for a runtime nobody listens to are dropped.
OnDeltas(m) ==
    LET merged == DOMAIN pending \cup DOMAIN m.quotes IN
    /\ IF ~listening
       THEN UNCHANGED bufferVars
       ELSE /\ deltaVersion' = deltaVersion + 1
            /\ IF Overflows(merged)
               THEN Overflow
               ELSE /\ pending' = [s \in merged |-> IF s \in DOMAIN m.quotes THEN m.quotes[s] ELSE pending[s]]
                    /\ arrival' = [s \in merged |-> IF s \in DOMAIN m.quotes THEN deltaVersion' ELSE arrival[s]]
                    /\ UNCHANGED needsResync
    /\ UNCHANGED <<feedVars, held, missed, builds, resumeBuild, lateTimer>>

\* handleVenueAcquired: a straggler is folded in by a rebuild.
OnAcquired(v) ==
    /\ held' = held \cup {v}
    /\ lateTimer' = (lateTimer \/ buildVersion > 0)
    /\ UNCHANGED <<feedVars, bufferVars, missed, builds, resumeBuild>>

Arrives(v) ==
    /\ wire[v] # <<>>
    /\ LET m == Head(wire[v]) IN
          \/ m.kind = "chain" /\ OnChain(v, m)
          \/ m.kind = "deltas" /\ OnDeltas(m)
          \/ m.kind = "acquired" /\ OnAcquired(v)
    /\ wire' = [wire EXCEPT ![v] = Tail(@)]
    /\ UNCHANGED <<venueVars, listening, buildVersion>>

-----------------------------------------------------------------------------
(* The runtime's own life.                                                 *)

\* initialize: the first build starts when every venue is held, or at the
\* deadline, whatever is held by then.
Initialize ==
    /\ buildVersion = 0
    /\ BuildSnapshot
    /\ UNCHANGED <<feedVars, venueVars, wire, held, listening, bufferVars, missed, resumeBuild, lateTimer>>

\* ready() has resolved.
IsReady == buildVersion > 0 /\ \A b \in builds : b.version # 1

\* Mutant of Resume: streaming resumes on the chain as it was left.
ResumeAsItWas ==
    /\ listening' = TRUE
    /\ resumeBuild' = None
    /\ UNCHANGED buildVars

\* ensurePushTimer.
Resume ==
    /\ listening' = TRUE
    /\ BuildSnapshot
    /\ resumeBuild' = buildVersion'

\* The first listener attaches; those that follow change nothing here.
Subscribe ==
    /\ IsReady
    /\ ~listening
    /\ Resume
    /\ UNCHANGED <<feedVars, venueVars, wire, held, bufferVars, missed, lateTimer>>

\* The last listener leaves.
Unsubscribe ==
    /\ listening
    /\ listening' = FALSE
    /\ Forget(Symbols)
    /\ UNCHANGED <<feedVars, venueVars, wire, held, deltaVersion, needsResync, missed, buildVars, resumeBuild, lateTimer>>

\* fetchSnapshotData, for a caller that a live snapshot does not serve.
FetchSnapshotData ==
    /\ IsReady
    /\ resumeBuild = None
    /\ ~listening \/ seq = 0 \/ needsResync
    /\ BuildSnapshot
    /\ UNCHANGED <<feedVars, venueVars, wire, held, listening, bufferVars, missed, resumeBuild, lateTimer>>

\* Mutant of LateVenueRebuild: the timer runs out and nothing is rebuilt.
LateVenueForgotten ==
    /\ lateTimer
    /\ lateTimer' = FALSE
    /\ UNCHANGED <<feedVars, venueVars, wire, held, listening, bufferVars, missed, buildVars, resumeBuild>>

LateVenueRebuild ==
    /\ lateTimer
    /\ lateTimer' = FALSE
    /\ BuildSnapshot
    /\ UNCHANGED <<feedVars, venueVars, wire, held, listening, bufferVars, missed, resumeBuild>>

\* The push timer, when a rebuild is owed.
PushResync ==
    /\ listening
    /\ needsResync
    /\ needsResync' = FALSE
    /\ BuildSnapshot
    /\ UNCHANGED <<feedVars, venueVars, wire, held, listening, pending, arrival, deltaVersion, missed, resumeBuild, lateTimer>>

\* Mutant of Known: a patch may name contracts the chain does not hold.
Everything == DOMAIN pending

\* The contracts whose tick the projection can apply.
Known == {s \in DOMAIN pending : chain[s] # None}

\* The push timer otherwise (pushDelta, applyDeltas).  A tick for a contract
\* the projection was not loaded with asks for a rebuild, at most one every ten
\* seconds, so that one may or may not be due.
PushDelta ==
    LET known == Known IN
    /\ listening
    /\ ~needsResync
    /\ pending # [s \in {} |-> None]
    /\ Forget(Symbols)
    /\ missed' = (missed \/ known # DOMAIN pending)
    /\ \/ UNCHANGED buildVars
       \/ missed' /\ BuildSnapshot
    /\ IF known = {}
       THEN UNCHANGED feedVars
       ELSE LET patch == [s \in known |-> pending[s]] IN
            /\ chain' = Applied(patch, chain)
            /\ seq' = seq + 1
            /\ event' = Delta(patch)
    /\ UNCHANGED <<venueVars, wire, held, listening, deltaVersion, needsResync, resumeBuild, lateTimer>>

Next ==
    \/ \E s \in Symbols : VenueTicks(s)
    \/ \E v \in Venues : FlushBatch(v) \/ ServeFetch(v) \/ ServeSubscribe(v) \/ Arrives(v)
    \/ Initialize
    \/ Subscribe
    \/ Unsubscribe
    \/ FetchSnapshotData
    \/ LateVenueRebuild
    \/ PushResync
    \/ PushDelta

Spec == Init /\ [][Next]_vars
-----------------------------------------------------------------------------
(* Properties.                                                             *)

\* Nothing is under way: whatever the chain shows now, it will go on showing
\* until a venue moves.
AtRest ==
    /\ listening
    /\ builds = {}
    /\ batch = {}
    /\ \A v \in Venues : wire[v] = <<>>
    /\ pending = [s \in {} |-> None]
    /\ ~needsResync
    /\ ~lateTimer

\* "A live engine keeps currentSnapshot current via deltas"
\* (chain-runtime.ts:245): a runtime at rest shows the last quote of every
\* contract it holds, of every venue whose subscription is up, whatever was
\* dropped while nobody listened, overflowed or came late.
CaughtUp ==
    AtRest => \A s \in Symbols :
        chain[s] # None /\ VenueOf[s] \in held => chain[s] = quote[s]

\* A runtime tells its listeners a ChainFeed: every change of the chain has a
\* number of its own, and a patch only touches contracts the chain holds and
\* carries all that changed (buildSnapshot, pushDelta, applyDeltas).
ImplementsFeed == FeedSpec
=============================================================================

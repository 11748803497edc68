----------------------------- MODULE VenueFeed -----------------------------
(***************************************************************************)
(* One venue's option chains, from those who ask for them to the exchange: *)
(*   - VenueSubscriptionCoordinator (packages/core/src/core/               *)
(*     subscription-coordinator.ts) counts the callers of each request and *)
(*     runs one operation of a venue at a time;                            *)
(*   - FeedWorkerHost and WorkerVenueAdapter (packages/core/src/feeds/     *)
(*     worker/feed-worker-client.ts) forward its subscriptions to a worker *)
(*     thread, respawn a worker that died and replay what it held;         *)
(*   - serveFeedWorker (feed-worker-server.ts) runs the venue's adapter,   *)
(*     whose counting is SdkBaseAdapter.subscribe (shared/sdk-base.ts).    *)
(*                                                                         *)
(* The model starts once the venue's markets are loaded: the adapter is    *)
(* registered only then.  A worker's answer is heard in the step that      *)
(* posts it: until it is heard nobody can tell it from one not posted.     *)
(* Handler ids are left out: none is ever used twice.  The generation of a *)
(* restore is left out too: the rejections a worker's death causes end the *)
(* restore under way before the next one can begin.                        *)
(***************************************************************************)
EXTENDS Integers, Sequences, FiniteSets

CONSTANTS
    Users,      \* callers of the coordinator
    Requests,   \* chains of the venue: requestKey(request)
    Deaths,     \* bound: how often the worker dies
    Refusals,   \* bound: how often the venue refuses a call
    NoRequest   \* none of the requests

\* What an id of the worker may stand for, but for a request.
Free == "free"         \* no subscription has this id
Nothing == "nothing"   \* a subscription that found no instruments

ASSUME VenueFeedAssumption ==
    /\ IsFiniteSet(Users) /\ IsFiniteSet(Requests)
    /\ NoRequest \notin Requests /\ Free \notin Requests /\ Nothing \notin Requests
    /\ Deaths \in Nat /\ Refusals \in Nat

VARIABLES
    users,      \* of each caller: its request and how far acquire or release got
    ops,        \* pendingVenueOperations: whose operations are chained, the head's is running
    requestRefs, \* requestEntries: the refCount of each request, 0 where there is no entry
    running,    \* FeedWorkerHost.handle is a worker
    subs,       \* WorkerVenueAdapter.subscriptions, at most one per request
    restore,    \* the restore() under way
    calls,      \* the worker call each of the two waits for
    inbox,      \* the messages the worker has not taken yet, by whom they were sent
    markets,    \* the worker's adapter has its instruments
    held,       \* the worker's subscriptions: the request of each id
    chainRefs,  \* requestRefCounts of the worker's adapter
    venue,      \* requests the exchange streams to this worker
    deaths,     \* so far
    refusals    \* so far

userVars == <<users, ops, requestRefs>>
proxyVars == <<running, subs, restore>>
workerVars == <<markets, held, chainRefs, venue>>
feedVars == <<userVars, proxyVars, calls, inbox, workerVars, deaths, refusals>>

\* The coordinator has one call to the worker in flight, restore() another.
Lanes == {"operation", "restore"}

\* Subscription ids.  The worker counts up; here an id no longer in use comes again.
Ids == 1 .. 2 * Cardinality(Requests) + 1
NoId == 0              \* null

Out == [at |-> "out", request |-> NoRequest]
NoSub == [id |-> NoId, needsReplay |-> FALSE, is |-> FALSE]
NoCall == [t |-> "none", request |-> NoRequest, id |-> NoId, working |-> FALSE]
NoReplay == [request |-> NoRequest, released |-> FALSE]
AtRest == [at |-> "rest", todo |-> {}, current |-> NoReplay, failed |-> FALSE]

Replays == [request : Requests, released : BOOLEAN]

VFTypeOK ==
    /\ users \in [Users -> [at : {"asking", "holding", "leaving"}, request : Requests] \cup {Out}]
    /\ ops \in Seq(Users) /\ Len(ops) <= Cardinality(Users)
    /\ requestRefs \in [Requests -> Nat]
    /\ running \in BOOLEAN
    /\ subs \in [Requests -> [id : Ids \cup {NoId}, needsReplay : BOOLEAN, is : {TRUE}] \cup {NoSub}]
    /\ restore \in [at : {"rest", "loading", "replaying", "undoing", "waiting"}, todo : SUBSET Replays,
                    current : Replays \cup {NoReplay}, failed : BOOLEAN]
    /\ calls \in [Lanes -> [t : {"loadMarkets", "subscribe", "unsubscribe"}, request : Requests \cup {NoRequest},
                            id : Ids \cup {NoId}, working : BOOLEAN] \cup {NoCall}]
    /\ inbox \in Seq(Lanes) /\ Len(inbox) <= 2
    /\ markets \in BOOLEAN
    /\ held \in [Ids -> Requests \cup {Free, Nothing}]
    /\ chainRefs \in [Requests -> Nat]
    /\ venue \subseteq Requests
    /\ deaths \in 0 .. Deaths /\ refusals \in 0 .. Refusals

VFInit ==
    /\ users = [u \in Users |-> Out]
    /\ ops = <<>>
    /\ requestRefs = [r \in Requests |-> 0]
    /\ running = TRUE
    /\ subs = [r \in Requests |-> NoSub]
    /\ restore = AtRest
    /\ calls = [l \in Lanes |-> NoCall]
    /\ inbox = <<>>
    /\ markets = TRUE
    /\ held = [i \in Ids |-> Free]
    /\ chainRefs = [r \in Requests |-> 0]
    /\ venue = {}
    /\ deaths = 0
    /\ refusals = 0

-----------------------------------------------------------------------------
(* Calls between the threads.                                              *)

\* host.request() of a caller; box is the inbox without what is being taken.
Send(lane, t, r, id, box) ==
    /\ calls' = [calls EXCEPT ![lane] = [t |-> t, request |-> r, id |-> id, working |-> FALSE]]
    /\ inbox' = Append(box, lane)

\* A caller that asks for nothing more.
Hush(lane, box) ==
    /\ calls' = [calls EXCEPT ![lane] = NoCall]
    /\ inbox' = box

-----------------------------------------------------------------------------
(* The coordinator.                                                        *)

\* An operation whose turn has come runs as a microtask, before a caller acts again.
OpIsDue == ops # <<>> /\ calls["operation"] = NoCall
NothingDue == ~OpIsDue

Acquire(u, r) ==
    /\ NothingDue
    /\ users[u] = Out
    /\ users' = [users EXCEPT ![u] = [at |-> "asking", request |-> r]]
    /\ ops' = Append(ops, u)
    /\ UNCHANGED <<requestRefs, proxyVars, calls, inbox, workerVars, deaths, refusals>>

\* The handle's release(): only its first call counts.
ReleaseHandle(u) ==
    /\ NothingDue
    /\ users[u].at = "holding"
    /\ users' = [users EXCEPT ![u].at = "leaving"]
    /\ ops' = Append(ops, u)
    /\ UNCHANGED <<requestRefs, proxyVars, calls, inbox, workerVars, deaths, refusals>>

\* The running operation is done: it leaves its caller at at.
OpDone(at) ==
    /\ users' = [users EXCEPT ![Head(ops)] = IF at = "out" THEN Out ELSE [@ EXCEPT !.at = at]]
    /\ ops' = Tail(ops)

\* The running operation rejects, and so does every operation chained on it,
\* none of which has run.
OpFails ==
    /\ users' = [u \in Users |-> IF \E i \in 1 .. Len(ops) : ops[i] = u THEN Out ELSE users[u]]
    /\ ops' = <<>>

Retired(replay, r) == IF replay.request = r THEN [replay EXCEPT !.released = TRUE] ELSE replay

\* What the release of a subscription does to a restore() that has it to replay.
RestoreWithout(r) ==
    [restore EXCEPT !.todo = {Retired(o, r) : o \in @}, !.current = Retired(@, r)]

\* acquire() once it is its turn.
RunAcquire(u, r) ==
    /\ users[u].at = "asking"
    /\ \/ /\ requestRefs[r] > 0
          /\ requestRefs' = [requestRefs EXCEPT ![r] = @ + 1]
          /\ OpDone("holding")
          /\ UNCHANGED <<calls, inbox>>
       \/ /\ requestRefs[r] = 0
          /\ running
          /\ requestRefs' = [requestRefs EXCEPT ![r] = 1]
          /\ Send("operation", "subscribe", r, NoId, inbox)
          /\ UNCHANGED <<users, ops>>
       \/ /\ requestRefs[r] = 0
          /\ ~running
          /\ OpFails
          /\ UNCHANGED <<requestRefs, calls, inbox>>
    /\ UNCHANGED <<subs, restore>>

\* Mutant of RunRelease: the proxy's subscription is dropped by whoever leaves first.
RunReleaseAtOnce(u, r) ==
    /\ users[u].at = "leaving"
    /\ requestRefs' = [requestRefs EXCEPT ![r] = @ - 1]
    /\ subs' = [subs EXCEPT ![r] = NoSub]
    /\ restore' = RestoreWithout(r)
    /\ IF subs[r].id # NoId
       THEN Send("operation", "unsubscribe", r, subs[r].id, inbox) /\ UNCHANGED <<users, ops>>
       ELSE OpDone("out") /\ UNCHANGED <<calls, inbox>>

\* release() once it is its turn; the last one out releases the proxy's
\* subscription, which the worker knows only if it has an id.
RunRelease(u, r) ==
    /\ users[u].at = "leaving"
    /\ requestRefs' = [requestRefs EXCEPT ![r] = @ - 1]
    /\ \/ /\ requestRefs[r] > 1
          /\ OpDone("out")
          /\ UNCHANGED <<subs, restore, calls, inbox>>
       \/ /\ requestRefs[r] = 1
          /\ subs' = [subs EXCEPT ![r] = NoSub]
          /\ restore' = RestoreWithout(r)
          /\ IF subs[r].id # NoId
             THEN Send("operation", "unsubscribe", r, subs[r].id, inbox) /\ UNCHANGED <<users, ops>>
             ELSE OpDone("out") /\ UNCHANGED <<calls, inbox>>

RunOp ==
    /\ OpIsDue
    /\ LET u == Head(ops) IN RunAcquire(u, users[u].request) \/ RunRelease(u, users[u].request)
    /\ UNCHANGED <<running, workerVars, deaths, refusals>>

\* The worker answered the call of the running operation.
HearOp(ok, id, box) ==
    LET call == calls["operation"] IN
    /\ Hush("operation", box)
    /\ IF ok THEN OpDone(IF call.t = "subscribe" THEN "holding" ELSE "out") ELSE OpFails
    /\ requestRefs' = IF call.t = "subscribe" /\ ~ok THEN [requestRefs EXCEPT ![call.request] = 0] ELSE requestRefs
    /\ subs' = IF call.t = "subscribe" /\ ok
               THEN [subs EXCEPT ![call.request] = [id |-> id, needsReplay |-> FALSE, is |-> TRUE]]
               ELSE subs
    /\ UNCHANGED restore

-----------------------------------------------------------------------------
(* restore().                                                              *)

\* Mutant of Replay: a restore that failed in part is not tried again.
ReplayOnce(todo, failed, box) ==
    \/ todo = {} /\ restore' = AtRest /\ Hush("restore", box)
    \/ \E o \in todo :
       /\ restore' = [at |-> "replaying", todo |-> todo \ {o}, current |-> o, failed |-> failed]
       /\ Send("restore", "subscribe", o.request, NoId, box)

\* The next subscription to replay, or the end of it.
Replay(todo, failed, box) ==
    \/ /\ todo = {}
       /\ restore' = IF failed THEN [AtRest EXCEPT !.at = "waiting"] ELSE AtRest
       /\ Hush("restore", box)
    \/ \E o \in todo :
       /\ restore' = [at |-> "replaying", todo |-> todo \ {o}, current |-> o, failed |-> failed]
       /\ Send("restore", "subscribe", o.request, NoId, box)

\* The subscriptions restore() finds to replay.
Lost == {[request |-> r, released |-> FALSE] : r \in {q \in Requests : subs[q].needsReplay}}

\* Mutant of Undo: the answer of a replay is kept though nobody wants it.
UndoNothing == FALSE

\* The replayed subscription was released meanwhile.
Undo == restore.current.released

\* The worker answered a call of restore().
HearRestore(ok, id, box) ==
    /\ CASE restore.at = "loading" ->
              /\ UNCHANGED subs
              /\ IF ok THEN Replay(Lost, FALSE, box)
                 ELSE restore' = [AtRest EXCEPT !.at = "waiting"] /\ Hush("restore", box)
         [] restore.at = "replaying" /\ ~ok ->
              UNCHANGED subs /\ Replay(restore.todo, TRUE, box)
         [] restore.at = "replaying" /\ ok /\ Undo ->
              /\ UNCHANGED subs
              /\ restore' = [restore EXCEPT !.at = "undoing"]
              /\ Send("restore", "unsubscribe", restore.current.request, id, box)
         [] restore.at = "replaying" /\ ok /\ ~Undo ->
              /\ subs' = [subs EXCEPT ![restore.current.request] =
                             [id |-> id, needsReplay |-> FALSE, is |-> TRUE]]
              /\ Replay(restore.todo, restore.failed, box)
         [] restore.at = "undoing" ->
              UNCHANGED subs /\ Replay(restore.todo, restore.failed, box)
    /\ UNCHANGED userVars

Hear(lane, ok, id, box) ==
    \/ lane = "operation" /\ HearOp(ok, id, box)
    \/ lane = "restore" /\ HearRestore(ok, id, box)

RestoreBegins(state, box) ==
    /\ restore' = [AtRest EXCEPT !.at = state]
    /\ Send("restore", "loadMarkets", NoRequest, NoId, box)

\* Mutant of RetryFires: a new worker leaves the timer of its predecessor set.
RetryFiresLate ==
    /\ running /\ deaths > 0
    /\ RestoreBegins("loading", inbox)
    /\ UNCHANGED <<userVars, running, subs, workerVars, deaths, refusals>>

RetryFires ==
    /\ running /\ restore.at = "waiting"
    /\ RestoreBegins("loading", inbox)
    /\ UNCHANGED <<userVars, running, subs, workerVars, deaths, refusals>>

-----------------------------------------------------------------------------
(* The worker.                                                             *)

NewId == CHOOSE i \in Ids : held[i] = Free /\ \A l \in Lanes : calls[l].id # i

Holding(what) == held' = [held EXCEPT ![NewId] = what]

\* The worker waits for the venue in the handler of a call.
Works(lane) ==
    /\ calls' = [calls EXCEPT ![lane].working = TRUE]
    /\ inbox' = Tail(inbox)
    /\ UNCHANGED <<userVars, subs, restore>>

TakeLoad(lane) ==
    /\ calls[lane].t = "loadMarkets"
    /\ IF markets THEN Hear(lane, TRUE, NoId, Tail(inbox)) ELSE Works(lane)
    /\ UNCHANGED workerVars

\* SdkBaseAdapter.subscribe up to its await.
TakeSubscribe(lane, r) ==
    /\ calls[lane].t = "subscribe"
    /\ \/ /\ ~markets
          /\ Holding(Nothing)
          /\ Hear(lane, TRUE, NewId, Tail(inbox))
          /\ UNCHANGED chainRefs
       \/ /\ markets
          /\ chainRefs' = [chainRefs EXCEPT ![r] = @ + 1]
          /\ IF chainRefs[r] = 0
             THEN Works(lane) /\ UNCHANGED held
             ELSE Holding(r) /\ Hear(lane, TRUE, NewId, Tail(inbox))
    /\ UNCHANGED <<markets, venue>>

\* The release closure of that subscribe, up to its await.  What the venue does
\* once it was told to stop does not matter to anybody.
TakeUnsubscribe(lane, id) ==
    /\ calls[lane].t = "unsubscribe"
    /\ held' = [held EXCEPT ![id] = Free]
    /\ IF held[id] \in {Free, Nothing}
       THEN Hear(lane, TRUE, NoId, Tail(inbox)) /\ UNCHANGED <<chainRefs, venue>>
       ELSE /\ chainRefs' = [chainRefs EXCEPT ![held[id]] = IF @ > 0 THEN @ - 1 ELSE 0]
            /\ IF chainRefs[held[id]] > 1
               THEN Hear(lane, TRUE, NoId, Tail(inbox)) /\ UNCHANGED venue
               ELSE Works(lane) /\ venue' = venue \ {held[id]}
    /\ UNCHANGED markets

TakeMessage ==
    /\ running /\ inbox # <<>>
    /\ LET lane == Head(inbox) IN
          TakeLoad(lane) \/ TakeSubscribe(lane, calls[lane].request) \/ TakeUnsubscribe(lane, calls[lane].id)
    /\ UNCHANGED <<running, deaths, refusals>>

\* loadMarkets has its instruments and goes on to the eager subscriptions.
InstrumentsFetched ==
    /\ ~markets /\ calls["restore"].t = "loadMarkets" /\ calls["restore"].working
    /\ markets' = TRUE
    /\ UNCHANGED <<userVars, proxyVars, calls, inbox, held, chainRefs, venue, deaths, refusals>>

\* The venue did what the handler waits for.
VenueAnswers(lane) ==
    LET call == calls[lane] IN
    /\ running /\ call.working
    /\ \/ call.t = "loadMarkets" /\ markets /\ Hear(lane, TRUE, NoId, inbox) /\ UNCHANGED workerVars
       \/ /\ call.t = "subscribe"
          /\ venue' = venue \cup {call.request}
          /\ Holding(call.request)
          /\ Hear(lane, TRUE, NewId, inbox)
          /\ UNCHANGED <<markets, chainRefs>>
       \/ call.t = "unsubscribe" /\ Hear(lane, TRUE, NoId, inbox) /\ UNCHANGED workerVars
    /\ UNCHANGED <<running, deaths, refusals>>

\* Mutant of Forgotten: the count of the one that failed stays.
ForgottenNothing(call) == chainRefs

\* A subscribeChain that failed takes the whole count of its request with it.
Forgotten(call) ==
    IF call.t = "subscribe" THEN [chainRefs EXCEPT ![call.request] = 0] ELSE chainRefs

\* The venue refuses, or the request to it times out.
VenueRefuses(lane) ==
    /\ running /\ calls[lane].working /\ refusals < Refusals
    /\ refusals' = refusals + 1
    /\ chainRefs' = Forgotten(calls[lane])
    /\ Hear(lane, FALSE, NoId, inbox)
    /\ UNCHANGED <<running, markets, held, venue, deaths>>

-----------------------------------------------------------------------------
(* The worker's death and its successor.                                   *)

\* Mutant of LostSubs: only those the worker had answered are marked.
LostSubsKept == subs

LostSubs == [r \in Requests |-> IF subs[r].is THEN [id |-> NoId, needsReplay |-> TRUE, is |-> TRUE] ELSE NoSub]

\* onExit: every call in flight rejects, and restore() ends; should it set its
\* retry timer, the respawn clears it.
WorkerDies ==
    /\ running /\ deaths < Deaths
    /\ deaths' = deaths + 1
    /\ running' = FALSE
    /\ subs' = LostSubs
    /\ restore' = AtRest
    /\ calls' = [l \in Lanes |-> NoCall]
    /\ inbox' = <<>>
    /\ markets' = FALSE
    /\ held' = [i \in Ids |-> Free]
    /\ chainRefs' = [r \in Requests |-> 0]
    /\ venue' = {}
    /\ IF calls["operation"] = NoCall
       THEN UNCHANGED userVars
       ELSE /\ OpFails
            /\ requestRefs' = IF calls["operation"].t = "subscribe"
                           THEN [requestRefs EXCEPT ![calls["operation"].request] = 0]
                           ELSE requestRefs
    /\ UNCHANGED refusals

Respawn ==
    /\ ~running
    /\ running' = TRUE
    /\ RestoreBegins("loading", inbox)
    /\ UNCHANGED <<userVars, subs, workerVars, deaths, refusals>>

-----------------------------------------------------------------------------
VFNext ==
    \/ \E u \in Users : ReleaseHandle(u) \/ \E r \in Requests : Acquire(u, r)
    \/ RunOp
    \/ TakeMessage
    \/ InstrumentsFetched
    \/ \E l \in Lanes : VenueAnswers(l) \/ VenueRefuses(l)
    \/ WorkerDies
    \/ Respawn
    \/ RetryFires

VFSpec == VFInit /\ [][VFNext]_feedVars

\* Promises settle, messages between the threads arrive, timers fire, and every
\* request to a venue is answered or times out.
VFFairness ==
    /\ WF_feedVars(RunOp)
    /\ WF_feedVars(TakeMessage)
    /\ WF_feedVars(InstrumentsFetched)
    /\ \A l \in Lanes : WF_feedVars(VenueAnswers(l))
    /\ WF_feedVars(Respawn)
    /\ WF_feedVars(RetryFires)

VFFairSpec == VFSpec /\ VFFairness

-----------------------------------------------------------------------------
(* Properties.                                                             *)

\* Nothing is under way that could still bring a subscription about.
Quiet == running /\ restore.at = "rest" /\ calls["operation"] = NoCall

\* Whoever holds a request is served, through any number of worker deaths,
\* refusals and releases: the request is counted, and once nothing is under way
\* a subscription of the present worker streams it.  Two callers are not served:
\* one whose subscribe reached a new worker before its instruments, which the
\* adapter answers as if there were none (sdk-base.ts:412), and one that joined
\* a subscribeChain that then failed (sdk-base.ts:446).
HeldIsServed ==
    \A u \in Users : users[u].at = "holding" =>
        LET r == users[u].request IN
        /\ requestRefs[r] >= Cardinality({v \in Users : users[v] = users[u]})
        /\ subs[r].is
        /\ Quiet => /\ subs[r].id # NoId
                    /\ \/ held[subs[r].id] = r /\ (r \in venue \/ chainRefs[r] = 0)
                       \/ held[subs[r].id] = Nothing

\* Each subscription of the worker belongs to somebody: a proxy's subscription
\* has its id, or the call that gives it up is under way ("belongs to nobody",
\* the comment in WorkerVenueAdapter.restore).
NothingIsOrphaned ==
    \A i \in Ids : held[i] # Free =>
        \/ \E r \in Requests : subs[r].id = i
        \/ \E l \in Lanes : calls[l].t = "unsubscribe" /\ calls[l].id = i

\* "a crashed worker is respawned and its state replayed" (FeedWorkerHost):
\* however often it dies, there comes a time when no subscription is without its
\* worker: each has got the next one, or was released.
LostIsReplayed == []<>(\A r \in Requests : ~subs[r].needsReplay)
=============================================================================

----------------------------- MODULE ChainStream -----------------------------
(***************************************************************************)
(* One browser watching one chain: the chain runtime (ChainFeed), the      *)
(* server's ChainStreamSession (packages/server/src/chain-stream-session.ts)*)
(* behind the /ws/chain route, the socket, and the ChainFeedConnection of  *)
(* the web client (packages/web/src/hooks/useChainWs.ts), which asks for   *)
(* field-level diffs and so must not miss any.                             *)
(*                                                                         *)
(* bufferedAmount is counted in frames.  Time (the slow client's grace, the*)
(* silence before a probe, the reconnect delay) is left out: a timer may   *)
(* run out as soon as it is set.                                           *)
(***************************************************************************)
EXTENDS ChainFeed, Sequences

CONSTANTS
    SoftLimit,      \* SOFT_BACKPRESSURE_BYTES: diffs are held back from here
    HardLimit,      \* MAX_SOCKET_BUFFERED_BYTES: a slow client from here
    Subscriptions,  \* bound: subscription ids in use at once (an id is used again)
    Unknown,        \* no subscription, or no chain
    Loads,          \* bound: the chains that snapshot builds load
    MaxSeq,         \* bound: events of the runtime
    MaxStatuses,    \* bound: venue status events
    MaxTroubles     \* bound: sockets lost, given up, or stalled until a probe

ASSUME StreamAssumption ==
    /\ SoftLimit \in Nat \ {0}
    /\ HardLimit \in Nat /\ SoftLimit <= HardLimit
    /\ Unknown \notin Subscriptions \cup Chains
    /\ Loads \subseteq Chains
    /\ {MaxSeq, MaxStatuses, MaxTroubles} \subseteq Nat

VARIABLES
    session,    \* the server's session of this socket
    socket,     \* frames the server has sent and the client not yet received
    requests,   \* subscribe messages on their way to the server
    client,     \* the connection of the web client and its cached chain
    truth,      \* history: the runtime's chain as of the newest frame taken in
    statuses,   \* venue status events so far
    troubles    \* sockets lost or stalled so far

streamVars == <<session, socket, requests, client, truth, statuses, troubles>>
vars == <<feedVars, streamVars>>

NoSession == [state |-> "none", sub |-> Unknown, lastSentSeq |-> 0, needsResync |-> FALSE, slow |-> FALSE]

Frames ==
    [kind : {"snapshot"}, sub : Subscriptions, seq : 1..MaxSeq, data : Chains]
    \cup [kind : {"diff"}, sub : Subscriptions, seq : 1..MaxSeq, patch : Patches, data : Chains]
    \cup [kind : {"subscribed", "status"}, sub : Subscriptions]
    \cup {[kind |-> "close"]}

TypeOK ==
    /\ chain \in Chains
    /\ seq \in 0..MaxSeq
    /\ session \in [state : {"none", "live", "closed"}, sub : Subscriptions \cup {Unknown},
                    lastSentSeq : 0..seq, needsResync : BOOLEAN, slow : BOOLEAN]
    /\ socket \in Seq(Frames)
    /\ requests \in Seq(Subscriptions)
    /\ client \in [open : BOOLEAN, sub : Subscriptions \cup {Unknown}, shown : Chains \cup {Unknown},
                   lastSeq : 0..seq, batched : Seq(Patches), probing : BOOLEAN]
    /\ truth \in Chains \cup {Unknown}
    /\ statuses \in 0..MaxStatuses
    /\ troubles \in 0..MaxTroubles

Init ==
    /\ FeedInit
    /\ session = NoSession
    /\ socket = <<>>
    /\ requests = <<>>
    /\ client = [open |-> FALSE, sub |-> Unknown, shown |-> Unknown, lastSeq |-> 0,
                 batched |-> <<>>, probing |-> FALSE]
    /\ truth = Unknown
    /\ statuses = 0
    /\ troubles = 0

-----------------------------------------------------------------------------
(* The session.  Its listener is called within the runtime's step, after   *)
(* currentSnapshot has moved on.                                           *)

Backpressured(queue) == Len(queue) >= SoftLimit
Full(queue) == Len(queue) >= HardLimit

SnapshotFrame(sub) == [kind |-> "snapshot", sub |-> sub, seq |-> seq', data |-> chain']

\* diffPatch: only what differs from the snapshot before.
DiffFrame(sub, patch) ==
    [kind |-> "diff", sub |-> sub, seq |-> seq', data |-> chain',
     patch |-> [s \in {s \in DOMAIN patch : patch[s] # chain[s]} |-> patch[s]]]

\* Mutant of Deferred: a diff held back leaves no trace.
DeferredAndForgotten(s, held) == FALSE

\* A session that held a diff back owes a snapshot.
Deferred(s, held) == held \/ s.needsResync

\* sendEngineEvent in session s, whose socket holds queue: the snapshot owed, if
\* it can go out now, then the frame of the event itself.
SendEngineEvent(s, queue, kind, frame) ==
    LET flushes == s.needsResync /\ ~Backpressured(queue) /\ seq' > 0
        flushed == IF flushes
                   THEN [s EXCEPT !.needsResync = FALSE, !.lastSentSeq = seq']
                   ELSE s
        filled == IF flushes THEN Append(queue, SnapshotFrame(s.sub)) ELSE queue
        held == kind = "delta" /\ Backpressured(filled)
        sent == IF held THEN filled ELSE Append(filled, frame)
    IN
    IF kind # "status" /\ seq' <= s.lastSentSeq
    THEN /\ session' = s
         /\ socket' = queue
    ELSE \/ /\ Full(filled) /\ s.slow          \* disposeForSlowClient
            /\ session' = [NoSession EXCEPT !.state = "closed"]
            /\ socket' = Append(filled, [kind |-> "close"])
         \/ /\ socket' = sent
            /\ session' = [flushed EXCEPT
                  !.needsResync = Deferred(flushed, held),
                  !.lastSentSeq = IF kind = "status" \/ held THEN @ ELSE seq',
                  !.slow = Full(sent)]

Broadcast(kind, frame) ==
    IF session.state = "live"
    THEN SendEngineEvent(session, socket, kind, frame)
    ELSE UNCHANGED <<session, socket>>

RuntimeSnapshot ==
    /\ seq < MaxSeq
    /\ \E data \in Loads : FeedSnapshot(data)
    /\ Broadcast("snapshot", SnapshotFrame(session.sub))
    /\ UNCHANGED <<requests, client, truth, statuses, troubles>>

RuntimeDelta ==
    /\ seq < MaxSeq
    /\ \E patch \in Patches :
          /\ FeedPatch(patch)
          /\ Broadcast("delta", DiffFrame(session.sub, patch))
    /\ UNCHANGED <<requests, client, truth, statuses, troubles>>

VenueStatus ==
    /\ statuses < MaxStatuses
    /\ statuses' = statuses + 1
    /\ UNCHANGED feedVars
    /\ Broadcast("status", [kind |-> "status", sub |-> session.sub])
    /\ UNCHANGED <<requests, client, truth, troubles>>

\* Mutants of Renewed: the number sent last is kept; the id is.
RenewedKeepsSeq(s, sub) == [s EXCEPT !.sub = sub]
RenewedUnnamed(s, sub) == [s EXCEPT !.lastSentSeq = 0]

\* replaceSubscription.
Renewed(s, sub) == [s EXCEPT !.sub = sub, !.lastSentSeq = 0]

\* The route gets a subscribe message: the session of the socket is renewed, or
\* one is made (subscribe, its wait for the runtime over); either way it says so
\* and sends the snapshot there is.
HandleSubscribe ==
    /\ requests # <<>>
    /\ requests' = Tail(requests)
    /\ UNCHANGED feedVars
    /\ IF session.state = "closed"
       THEN UNCHANGED <<session, socket>>
       ELSE LET sub == Head(requests)
                renewed == Renewed([session EXCEPT !.state = "live"], sub)
                queue == Append(socket, [kind |-> "subscribed", sub |-> sub])
            IN
            IF seq > 0
            THEN SendEngineEvent(renewed, queue, "snapshot", SnapshotFrame(sub))
            ELSE /\ session' = renewed
                 /\ socket' = queue
    /\ UNCHANGED <<client, truth, statuses, troubles>>

-----------------------------------------------------------------------------
(* The client.                                                             *)

\* Mutant of OnSnapshot: what is still batched survives the snapshot.
OnSnapshotKeepsBatch(m) ==
    client' = [client EXCEPT !.probing = FALSE, !.shown = m.data, !.lastSeq = m.seq]

OnSnapshot(m) ==
    client' = [client EXCEPT !.probing = FALSE, !.shown = m.data, !.lastSeq = m.seq, !.batched = <<>>]

\* A diff waits for the next animation frame.
OnDiff(m) ==
    client' = [client EXCEPT !.probing = FALSE, !.lastSeq = m.seq, !.batched = Append(@, m.patch)]

\* What the client shows comes from the frames of its active subscription.
IsShown(m) == m.kind \in {"snapshot", "diff"} /\ m.sub = client.sub

\* A close drops the session on both sides; anything else proves the socket
\* alive.
HandleMessage ==
    /\ client.open
    /\ socket # <<>>
    /\ LET m == Head(socket) IN
          IF m.kind = "close"
          THEN /\ client' = [client EXCEPT !.open = FALSE]
               /\ socket' = <<>>
               /\ requests' = <<>>
               /\ session' = NoSession
               /\ UNCHANGED truth
          ELSE /\ socket' = Tail(socket)
               /\ UNCHANGED <<requests, session>>
               /\ IF IsShown(m)
                  THEN /\ truth' = m.data
                       /\ \/ m.kind = "snapshot" /\ OnSnapshot(m)
                          \/ m.kind = "diff" /\ OnDiff(m)
                  ELSE /\ client' = [client EXCEPT !.probing = FALSE]
                       /\ UNCHANGED truth
    /\ UNCHANGED <<feedVars, statuses, troubles>>

\* The patches applied one after the other.
Merged(patches, data) ==
    LET after[i \in 0..Len(patches)] ==
            IF i = 0 THEN data ELSE Applied(patches[i], after[i - 1])
    IN after[Len(patches)]

\* The chain after the patches still batched.
AfterBatch == IF client.shown = Unknown THEN Unknown ELSE Merged(client.batched, client.shown)

FlushDeltas ==
    /\ client.batched # <<>>
    /\ client' = [client EXCEPT !.shown = AfterBatch, !.batched = <<>>]
    /\ UNCHANGED <<feedVars, session, socket, requests, truth, statuses, troubles>>

InUse(sub) ==
    \/ sub \in {client.sub, session.sub}
    \/ \E i \in 1..Len(requests) : requests[i] = sub
    \/ \E i \in 1..Len(socket) : socket[i].kind # "close" /\ socket[i].sub = sub

Free == {sub \in Subscriptions : ~InUse(sub)}
FirstFree == CHOOSE sub \in Free : TRUE

SendSubscribe ==
    /\ Free # {}
    /\ requests' = Append(requests, FirstFree)
    /\ client' = [client EXCEPT !.open = TRUE, !.sub = FirstFree, !.probing = client.open]

\* connect, and the subscribe message of onopen.
Connect ==
    /\ ~client.open
    /\ SendSubscribe
    /\ UNCHANGED <<feedVars, session, socket, truth, statuses, troubles>>

\* checkSilence: nothing was heard for a while, so the chain is asked for again;
\* there may be nothing to hear, or frames on their way may be stuck.
Silent == socket = <<>> /\ requests = <<>>

Probe ==
    /\ client.open
    /\ ~client.probing
    /\ requests = <<>>
    /\ SendSubscribe
    /\ IF Silent THEN UNCHANGED troubles ELSE troubles < MaxTroubles /\ troubles' = troubles + 1
    /\ UNCHANGED <<feedVars, session, socket, truth, statuses>>

\* The socket breaks, or the client gives it up (replaceSocket); the route's
\* close handler disposes of the session.
SocketLost ==
    /\ client.open
    /\ troubles < MaxTroubles
    /\ troubles' = troubles + 1
    /\ client' = [client EXCEPT !.open = FALSE]
    /\ session' = NoSession
    /\ socket' = <<>>
    /\ requests' = <<>>
    /\ UNCHANGED <<feedVars, truth, statuses>>

Next ==
    \/ RuntimeSnapshot
    \/ RuntimeDelta
    \/ VenueStatus
    \/ HandleSubscribe
    \/ HandleMessage
    \/ FlushDeltas
    \/ Connect
    \/ Probe
    \/ SocketLost

Spec == Init /\ [][Next]_vars

\* The network delivers, the timers and animation frames run, and a client that
\* hears nothing probes.
FairSpec ==
    /\ Spec
    /\ WF_vars(HandleSubscribe)
    /\ WF_vars(HandleMessage)
    /\ WF_vars(FlushDeltas)
    /\ WF_vars(Connect)
    /\ WF_vars(Silent /\ Probe)
-----------------------------------------------------------------------------
(* Properties.                                                             *)

\* What the client shows, once it has applied the patches it is batching, is a
\* chain the runtime had, whole: never diffs applied to a base they were not
\* made for, through backpressure, resyncs, probes and reconnects
\* (chain-stream-session.ts:205-344, useChainWs.ts:339-534).
ShowsARealChain == AfterBatch = truth

LastShown ==
    CHOOSE i \in DOMAIN socket :
        IsShown(socket[i]) /\ \A j \in i + 1..Len(socket) : ~IsShown(socket[j])

\* The chain the client will show when it has received all that is on its way.
OnItsWay ==
    IF \E i \in DOMAIN socket : IsShown(socket[i]) THEN socket[LastShown].data ELSE truth

\* A session that owes no snapshot has sent everything: the client need only
\* receive it to show the runtime's present chain.
NothingIsLost ==
    session.state = "live" /\ session.sub = client.sub /\ ~session.needsResync /\ seq > 0
        => OnItsWay = chain

\* Once the market is quiet the client comes to show the runtime's chain and
\* keeps showing it, although a session that owes a snapshot only sends it with
\* the next event: a silent client asks again (checkSilence).
CatchesUp == <>[](seq > 0 => client.shown = chain /\ client.batched = <<>>)
=============================================================================

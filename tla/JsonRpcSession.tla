--------------------------- MODULE JsonRpcSession ---------------------------
(***************************************************************************)
(* JsonRpcWsClient (packages/core/src/feeds/shared/jsonrpc-client.ts): one *)
(* websocket to a venue, the channels subscribed over it, and their        *)
(* replay, in batches, on the socket that replaces a lost one.             *)
(*                                                                         *)
(* A channel has one owner, which waits for the answer to one call before  *)
(* it makes the next: the reference counts of SdkBaseAdapter see to that.  *)
(* An owner that finds the client down connects it itself (ensureConnected *)
(* of the Derive adapter).  The options are those of that adapter: a       *)
(* replay goes on after no timeout.  Delays, the flap and rate-limit       *)
(* back-off and the heartbeat are left out: they move a timer, and a timer *)
(* may fire at any time.  disconnect() is left out: its only caller never  *)
(* connects again.                                                         *)
(***************************************************************************)
EXTENDS Integers, Sequences, FiniteSets

CONSTANTS
    Channels,   \* channels of the venue
    BatchSize,  \* resubscribeBatchSize
    Replays,    \* bound: reconnect callbacks under way at once
    Faults      \* bound: sockets lost, handshakes failed, calls refused or timed out

ASSUME SessionAssumption ==
    /\ IsFiniteSet(Channels)
    /\ BatchSize \in Nat \ {0}
    /\ Faults \in Nat

VARIABLES
    socket,     \* this.ws: none, or its ready state
    unreplayed, \* the socket took the place of one whose close was still awaited, and no
                \* replay has begun on it
    timer,      \* reconnectTimer is set
    subscribed, \* subscribedChannels
    owners,     \* of each channel: what its owner did last or waits for
    replays,    \* the reconnect callbacks under way
    streamed,   \* channels the venue sends on the present socket
    faults      \* so far

sessionVars == <<socket, unreplayed, timer, subscribed, owners, replays, streamed, faults>>

NoReplay == [at |-> "none", rest |-> {}, parts |-> <<>>, batch |-> {}]

JRTypeOK ==
    /\ socket \in {"none", "connecting", "open", "closing"}
    /\ unreplayed \in BOOLEAN /\ timer \in BOOLEAN
    /\ subscribed \subseteq Channels
    /\ owners \in [Channels -> {"off", "connecting", "connected", "subscribing", "on", "unsubscribing",
                                "subscribing on a lost socket", "unsubscribing on a lost socket"}]
    /\ \A p \in Replays :
          /\ replays[p].at \in {"none", "connecting", "calling", "pausing", "calling a lost socket"}
          /\ replays[p].rest \cup replays[p].batch \subseteq Channels
          /\ replays[p].parts \in Seq(SUBSET Channels)
    /\ streamed \subseteq Channels
    /\ faults \in 0 .. Faults

JRInit ==
    /\ socket = "none"
    /\ unreplayed = FALSE
    /\ timer = FALSE
    /\ subscribed = {}
    /\ owners = [c \in Channels |-> "off"]
    /\ replays = [p \in Replays |-> NoReplay]
    /\ streamed = {}
    /\ faults = 0

Fault == faults < Faults /\ faults' = faults + 1

-----------------------------------------------------------------------------
(* The socket.                                                             *)

\* What a new socket leaves behind of a closing one: its calls are never answered.
OrphanedOwner(o) ==
    CASE o = "subscribing" -> "subscribing on a lost socket"
      [] o = "unsubscribing" -> "unsubscribing on a lost socket"
      [] OTHER -> o
OrphanedReplay(p) == IF p.at = "calling" THEN [p EXCEPT !.at = "calling a lost socket"] ELSE p

\* connect() of a caller that is not connected: it joins an attempt under way,
\* or makes a socket, whatever becomes of the one that is closing.
Connects ==
    /\ socket # "open"
    /\ socket' = "connecting"
    /\ unreplayed' = (unreplayed \/ socket = "closing")
    /\ replays' = IF socket = "closing" THEN [p \in Replays |-> OrphanedReplay(replays[p])] ELSE replays

\* The handshake succeeds: connect() resolves for all who wait for it.
Opens ==
    /\ socket = "connecting"
    /\ socket' = "open"
    /\ owners' = [c \in Channels |-> IF owners[c] = "connecting" THEN "connected" ELSE owners[c]]
    /\ UNCHANGED <<unreplayed, timer, subscribed, replays, streamed, faults>>

\* Mutant of Rearmed: a handshake that failed arms no timer.
RearmedOnceOpen == socket # "connecting"

\* scheduleReconnect: the close of whatever socket arms the timer.
Rearmed == TRUE

\* What the rejection "connection closed" makes of an owner's call: unsubscribe()
\* swallows it and drops the channel, subscribe() keeps the channel for the replay.
Rejected(o) == IF o \in {"on", "off", "connected"} THEN o ELSE "off"
Unsubscribing == {c \in Channels : owners[c] \in {"unsubscribing", "unsubscribing on a lost socket"}}

\* The close event of the present socket: the pending calls are rejected
\* (cleanup), and with them the replays that wait for one.
TearDown ==
    /\ socket' = "none"
    /\ unreplayed' = FALSE
    /\ timer' = Rearmed
    /\ subscribed' = subscribed \ Unsubscribing
    /\ owners' = [c \in Channels |-> Rejected(owners[c])]
    /\ replays' = [p \in Replays |-> IF replays[p].at = "pausing" THEN replays[p] ELSE NoReplay]
    /\ streamed' = {}

\* The handshake fails or times out.
HandshakeFails ==
    /\ socket = "connecting"
    /\ TearDown
    /\ Fault

\* The venue closes the socket, or terminate() is called: by the feed watchdog,
\* by an adapter whose subscribe failed, by a replay that failed.
Drops == socket' = "closing" /\ streamed' = {}

SocketDrops ==
    /\ socket = "open" /\ \A p \in Replays : replays[p].at # "connecting"
    /\ Drops
    /\ Fault
    /\ UNCHANGED <<unreplayed, timer, subscribed, owners, replays>>

CloseEvent ==
    /\ socket = "closing"
    /\ TearDown
    /\ UNCHANGED faults

-----------------------------------------------------------------------------
(* The owners of the channels.                                             *)

\* subscribe() returns at once for a channel it has, calls the venue otherwise.
Asks(c) ==
    /\ owners' = [owners EXCEPT ![c] = IF c \in subscribed THEN "on" ELSE "subscribing"]
    /\ subscribed' = subscribed \cup {c}

\* The adapter's subscribeChain, which connects first.
Subscribe(c) ==
    /\ owners[c] = "off"
    /\ IF socket = "open"
       THEN Asks(c) /\ UNCHANGED <<socket, unreplayed, replays>>
       ELSE /\ Connects
            /\ owners' = [d \in Channels |->
                             IF d = c THEN "connecting"
                             ELSE IF socket = "closing" THEN OrphanedOwner(owners[d]) ELSE owners[d]]
            /\ UNCHANGED subscribed
    /\ UNCHANGED <<timer, streamed, faults>>

\* The adapter is connected and has fetched the tickers; should the socket be
\* lost again by now, the call throws "not connected".
SubscribeGoesOn(c) ==
    /\ owners[c] = "connected"
    /\ IF socket = "open" THEN Asks(c)
       ELSE /\ owners' = [owners EXCEPT ![c] = IF c \in subscribed THEN "on" ELSE "off"]
            /\ UNCHANGED subscribed
    /\ UNCHANGED <<socket, unreplayed, timer, replays, streamed, faults>>

SubscribeAnswered(c) ==
    /\ owners[c] = "subscribing" /\ socket = "open"
    /\ owners' = [owners EXCEPT ![c] = "on"]
    /\ streamed' = streamed \cup {c}
    /\ UNCHANGED <<socket, unreplayed, timer, subscribed, replays, faults>>

\* Mutant of RolledBack: the channel stays in the set.
RolledBackNothing(c) == subscribed

\* A definite failure takes the channel out of the set again.
RolledBack(c) == subscribed \ {c}

\* The call is refused, or times out: whether the venue heard it nobody knows.
SubscribeFails(c) ==
    /\ \/ owners[c] = "subscribing" /\ socket = "open" /\ Fault /\ streamed' \in {streamed, streamed \cup {c}}
       \/ owners[c] = "subscribing on a lost socket" /\ UNCHANGED <<faults, streamed>>
    /\ owners' = [owners EXCEPT ![c] = "off"]
    /\ subscribed' = RolledBack(c)
    /\ UNCHANGED <<socket, unreplayed, timer, replays>>

\* unsubscribe() does nothing while the client is down.
Unsubscribe(c) ==
    /\ owners[c] = "on"
    /\ owners' = [owners EXCEPT ![c] = IF socket = "open" THEN "unsubscribing" ELSE "off"]
    /\ UNCHANGED <<socket, unreplayed, timer, subscribed, replays, streamed, faults>>

\* It forgets the channel whether the venue answers, refuses or is silent.
UnsubscribeEnds(c) ==
    /\ \/ owners[c] = "unsubscribing" /\ socket = "open" /\ UNCHANGED faults /\ streamed' = streamed \ {c}
       \/ owners[c] = "unsubscribing" /\ socket = "open" /\ Fault /\ UNCHANGED streamed
       \/ owners[c] = "unsubscribing on a lost socket" /\ UNCHANGED <<faults, streamed>>
    /\ owners' = [owners EXCEPT ![c] = "off"]
    /\ subscribed' = subscribed \ {c}
    /\ UNCHANGED <<socket, unreplayed, timer, replays>>

-----------------------------------------------------------------------------
(* The reconnect timer and resubscribe().                                  *)

Batches(rest) == {b \in SUBSET rest : Cardinality(b) = IF BatchSize < Cardinality(rest) THEN BatchSize ELSE Cardinality(rest)}

\* Replay p goes on with what is left of a batch that timed out, else with the
\* next batch, else it is over.  all is what it has left to send.
NextBatch(p, all, parts) ==
    CASE parts # <<>> ->
            replays' = [replays EXCEPT ![p] = [at |-> "calling", rest |-> all, parts |-> Tail(parts), batch |-> Head(parts)]]
      [] parts = <<>> /\ all = {} -> replays' = [replays EXCEPT ![p] = NoReplay]
      [] parts = <<>> /\ all # {} ->
            \E b \in Batches(all) :
               replays' = [replays EXCEPT ![p] = [at |-> "calling", rest |-> all \ b, parts |-> <<>>, batch |-> b]]

\* Mutant of Snapshot: only channels with an owner are replayed.
SnapshotOfOwned == {c \in subscribed : owners[c] = "on"}

\* The channels a replay sets out to send.
Snapshot == subscribed

\* The timer fires: connect(), and the replay once it resolves.
TimerFires ==
    /\ timer
    /\ timer' = FALSE
    /\ \E p \in Replays :
          /\ replays[p] = NoReplay
          /\ IF socket = "open"
             THEN unreplayed' = FALSE /\ NextBatch(p, Snapshot, <<>>) /\ UNCHANGED <<socket, owners>>
             ELSE /\ socket' = "connecting"
                  /\ UNCHANGED unreplayed
                  /\ replays' = [q \in Replays |->
                        IF q = p THEN [NoReplay EXCEPT !.at = "connecting"]
                        ELSE IF socket = "closing" THEN OrphanedReplay(replays[q]) ELSE replays[q]]
                  /\ owners' = IF socket = "closing" THEN [c \in Channels |-> OrphanedOwner(owners[c])] ELSE owners
    /\ UNCHANGED <<subscribed, streamed, faults>>

\* connect() has resolved for the replay.
ReplayBegins(p) ==
    /\ replays[p].at = "connecting" /\ socket = "open"
    /\ unreplayed' = FALSE
    /\ NextBatch(p, Snapshot, <<>>)
    /\ UNCHANGED <<socket, timer, subscribed, owners, streamed, faults>>

\* The venue acknowledges a batch; before the next one there is a pause.
BatchAnswered(p) ==
    /\ replays[p].at = "calling" /\ socket = "open"
    /\ streamed' = streamed \cup replays[p].batch
    /\ IF replays[p].parts = <<>> /\ replays[p].rest # {}
       THEN replays' = [replays EXCEPT ![p] = [@ EXCEPT !.at = "pausing", !.batch = {}]]
       ELSE NextBatch(p, replays[p].rest, replays[p].parts)
    /\ UNCHANGED <<socket, unreplayed, timer, subscribed, owners, faults>>

\* The catch of the callback: a client that is connected is terminated, one
\* that is not has its reconnect scheduled.
ReplayFails(p) ==
    /\ replays' = [replays EXCEPT ![p] = NoReplay]
    /\ IF socket = "open"
       THEN Drops /\ UNCHANGED timer
       ELSE timer' = (timer \/ socket # "connecting") /\ UNCHANGED <<socket, streamed>>
    /\ UNCHANGED <<unreplayed, subscribed, owners>>

\* The pause is over; a replay that finds the client down gives up.
PauseEnds(p) ==
    /\ replays[p].at = "pausing"
    /\ \/ /\ socket = "open"
          /\ NextBatch(p, replays[p].rest, <<>>)
          /\ UNCHANGED <<socket, unreplayed, timer, subscribed, owners, streamed, faults>>
       \/ socket # "open" /\ ReplayFails(p) /\ UNCHANGED faults

\* A batch times out, heard by the venue or not: its halves are sent next.
BatchHalved(p) ==
    /\ replays[p].at = "calling" /\ socket = "open" /\ Cardinality(replays[p].batch) > 1
    /\ Fault
    /\ \E half \in SUBSET replays[p].batch :
          /\ Cardinality(half) = (Cardinality(replays[p].batch) + 1) \div 2
          /\ NextBatch(p, replays[p].rest, <<half, replays[p].batch \ half>> \o replays[p].parts)
    /\ streamed' \in {streamed, streamed \cup replays[p].batch}
    /\ UNCHANGED <<socket, unreplayed, timer, subscribed, owners>>

\* A batch is refused, a single channel times out, or a call lost with its socket does.
BatchFails(p) ==
    /\ \/ replays[p].at = "calling" /\ socket = "open" /\ Fault
       \/ replays[p].at = "calling a lost socket" /\ UNCHANGED faults
    /\ ReplayFails(p)

-----------------------------------------------------------------------------
JRNext ==
    \/ Opens
    \/ HandshakeFails
    \/ SocketDrops
    \/ CloseEvent
    \/ \E c \in Channels :
          \/ Subscribe(c)
          \/ SubscribeGoesOn(c)
          \/ SubscribeAnswered(c)
          \/ SubscribeFails(c)
          \/ Unsubscribe(c)
          \/ UnsubscribeEnds(c)
    \/ TimerFires
    \/ \E p \in Replays :
          \/ ReplayBegins(p)
          \/ BatchAnswered(p)
          \/ PauseEnds(p)
          \/ BatchHalved(p)
          \/ BatchFails(p)

JRSpec == JRInit /\ [][JRNext]_sessionVars

\* Sockets open or fail, a closing one closes, timers fire, and the venue
\* answers the calls of a replay or they time out.  An owner may wait for ever.
JRFairness ==
    /\ WF_sessionVars(Opens \/ HandshakeFails)
    /\ WF_sessionVars(CloseEvent)
    /\ WF_sessionVars(TimerFires)
    /\ WF_sessionVars(\E p \in Replays :
          ReplayBegins(p) \/ BatchAnswered(p) \/ PauseEnds(p) \/ BatchFails(p))

JRFairSpec == JRSpec /\ JRFairness

-----------------------------------------------------------------------------
(* Properties.                                                             *)

\* The client is connected and no replay is under way or due.
AtRest == socket = "open" /\ ~timer /\ \A p \in Replays : replays[p] = NoReplay

\* "keeps intended subscriptions for replay when the connection drops" (a test of
\* the client): through drops, failed and halved batches, and calls that fail,
\* the venue streams every channel of the set that is not just being asked for,
\* and the set holds every channel whose owner believes it subscribed.  The one
\* exception is a socket an owner opened while the close of the one before was
\* still awaited: that close is ignored (line 226), and nothing is replayed.
SubscribedIsStreamed ==
    /\ \A c \in Channels : owners[c] = "on" => c \in subscribed
    /\ AtRest /\ ~unreplayed =>
          \A c \in subscribed : owners[c] \notin {"subscribing", "unsubscribing"} => c \in streamed

\* Channels come back after every drop: again and again there is a time when the
\* venue streams every channel whose owner believes it subscribed, or the exception
\* above applies.
SubscribedComesBack == []<>(unreplayed \/ \A c \in Channels : owners[c] = "on" => c \in streamed)
=============================================================================

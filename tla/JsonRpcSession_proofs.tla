----------------------- MODULE JsonRpcSession_proofs -----------------------
(***************************************************************************)
(* SubscribedIsStreamed, for any number of channels, batches of any size,  *)
(* any number of faults and of replays at once.                            *)
(***************************************************************************)
EXTENDS JsonRpcSession, TLAPS

Batch == SUBSET Channels
ReplayStates == [at : {"none", "connecting", "calling", "pausing", "calling a lost socket"},
                 rest : SUBSET Channels, parts : Seq(Batch), batch : Batch]

OwnerStates == {"off", "connecting", "connected", "subscribing", "on", "unsubscribing",
                "subscribing on a lost socket", "unsubscribing on a lost socket"}

JRShapes ==
    /\ subscribed \subseteq Channels
    /\ owners \in [Channels -> OwnerStates]
    /\ replays \in [Replays -> ReplayStates]

\* The channels of the batches of a sequence, and those a replay still answers for.
InParts(parts) == UNION {parts[i] : i \in DOMAIN parts}
Held(r) == IF r.at = "pausing" THEN r.rest ELSE r.rest \cup r.batch \cup InParts(r.parts)

\* A replay will send the channel over the present socket.  What an earlier socket
\* left pausing or waiting does not count while this one is not open.
Replayed(c) ==
    \E p \in Replays :
       \/ replays[p].at = "connecting"
       \/ replays[p].at \in {"calling", "pausing"} /\ socket = "open" /\ c \in Held(replays[p])

Served(c) == owners[c] \in {"subscribing", "unsubscribing"} \/ c \in streamed \/ Replayed(c)

\* A channel is in the set from the moment its owner asks for it.
OwnersAreKnown == \A c \in Channels : owners[c] \in {"subscribing", "on", "subscribing on a lost socket"} => c \in subscribed

\* With no timer to start a replay, each channel of the set is served, asked for
\* or about to be replayed; unless a close is still to come or was ignored.
NothingForgotten == socket # "closing" /\ ~timer /\ ~unreplayed => \A c \in subscribed : Served(c)

JRInv == JRShapes /\ OwnersAreKnown /\ NothingForgotten

-----------------------------------------------------------------------------
(* Batches.                                                                *)

LEMMA PartsTaken ==
    ASSUME NEW parts \in Seq(Batch), parts # <<>>
    PROVE  /\ Head(parts) \in Batch /\ Tail(parts) \in Seq(Batch)
           /\ InParts(parts) \subseteq Head(parts) \cup InParts(Tail(parts))
<1>1. Len(parts) \in Nat /\ Len(parts) > 0 /\ DOMAIN parts = 1 .. Len(parts)
    OBVIOUS
<1>2. /\ Tail(parts) \in Seq(Batch) /\ Head(parts) = parts[1]
      /\ DOMAIN Tail(parts) = 1 .. Len(parts) - 1
      /\ \A i \in 1 .. Len(parts) - 1 : Tail(parts)[i] = parts[i + 1]
    BY <1>1
<1>3. ASSUME NEW i \in 1 .. Len(parts), i # 1, NEW c \in parts[i] PROVE c \in InParts(Tail(parts))
    <2>1. i - 1 \in DOMAIN Tail(parts) /\ Tail(parts)[i - 1] = parts[i]
        BY <1>1, <1>2, <1>3
    <2> QED
        BY <1>3, <2>1 DEF InParts
<1>4. parts[1] \in Batch
    BY <1>1
<1> QED
    BY <1>1, <1>2, <1>3, <1>4 DEF InParts

LEMMA PartsPutInFront ==
    ASSUME NEW a \in Batch, NEW b \in Batch, NEW parts \in Seq(Batch)
    PROVE  /\ <<a, b>> \o parts \in Seq(Batch)
           /\ a \cup b \cup InParts(parts) \subseteq InParts(<<a, b>> \o parts)
<1> DEFINE longer == <<a, b>> \o parts
<1>1. Len(parts) \in Nat /\ DOMAIN parts = 1 .. Len(parts)
    OBVIOUS
<1>2. /\ longer \in Seq(Batch) /\ Len(longer) = 2 + Len(parts)
      /\ DOMAIN longer = 1 .. 2 + Len(parts)
      /\ longer[1] = a /\ longer[2] = b
      /\ \A i \in 1 .. Len(parts) : longer[2 + i] = parts[i]
    BY <1>1
<1> HIDE DEF longer
<1>3. a \subseteq InParts(longer) /\ b \subseteq InParts(longer)
    <2>1. 1 \in DOMAIN longer /\ 2 \in DOMAIN longer
        BY <1>1, <1>2
    <2> QED
        BY <1>2, <2>1 DEF InParts
<1>4. ASSUME NEW c \in InParts(parts) PROVE c \in InParts(longer)
    <2>1. PICK i \in 1 .. Len(parts) : c \in parts[i]
        BY <1>1, <1>4 DEF InParts
    <2>2. 2 + i \in DOMAIN longer /\ c \in longer[2 + i]
        BY <1>1, <1>2, <2>1
    <2> QED
        BY <2>2 DEF InParts
<1> QED
    BY <1>2, <1>3, <1>4 DEF longer

LEMMA NoParts == <<>> \in Seq(Batch) /\ {} \in Batch /\ InParts(<<>>) = {}
BY DEF Batch, InParts

LEMMA NoReplayIsReplay == NoReplay \in ReplayStates
BY NoParts DEF NoReplay, ReplayStates

\* Nothing a replay has left to send falls between two of its batches.
LEMMA NextBatchHoldsAll ==
    ASSUME replays \in [Replays -> ReplayStates], NEW p \in Replays,
           NEW all \in SUBSET Channels, NEW parts \in Seq(Batch), NextBatch(p, all, parts)
    PROVE  /\ replays' \in [Replays -> ReplayStates]
           /\ \A q \in Replays : q # p => replays'[q] = replays[q]
           /\ \A c \in all \cup InParts(parts) : replays'[p].at = "calling" /\ c \in Held(replays'[p])
<1>1. CASE parts # <<>>
    <2>1. replays' = [replays EXCEPT ![p] = [at |-> "calling", rest |-> all, parts |-> Tail(parts), batch |-> Head(parts)]]
        BY <1>1 DEF NextBatch
    <2>2. [at |-> "calling", rest |-> all, parts |-> Tail(parts), batch |-> Head(parts)] \in ReplayStates
        <3>1. Head(parts) \in Batch /\ Tail(parts) \in Seq(Batch)
            BY <1>1, PartsTaken
        <3> QED
            BY <3>1 DEF ReplayStates
    <2>3. replays'[p] = [at |-> "calling", rest |-> all, parts |-> Tail(parts), batch |-> Head(parts)]
        BY <2>1
    <2>4. Held(replays'[p]) = all \cup Head(parts) \cup InParts(Tail(parts))
        BY <2>3 DEF Held
    <2> QED
        BY <1>1, <2>1, <2>2, <2>3, <2>4, PartsTaken
<1>2. CASE parts = <<>> /\ all = {}
    <2>1. replays' = [replays EXCEPT ![p] = NoReplay]
        BY <1>2 DEF NextBatch
    <2> QED
        BY <1>2, <2>1, NoParts, NoReplayIsReplay
<1>3. CASE parts = <<>> /\ all # {}
    <2>1. PICK b \in Batches(all) :
             replays' = [replays EXCEPT ![p] = [at |-> "calling", rest |-> all \ b, parts |-> <<>>, batch |-> b]]
        BY <1>3 DEF NextBatch
    <2>2. b \subseteq all
        BY DEF Batches
    <2>3. [at |-> "calling", rest |-> all \ b, parts |-> <<>>, batch |-> b] \in ReplayStates
        <3>1. b \in Batch /\ all \ b \in SUBSET Channels
            BY <2>2 DEF Batch
        <3> QED
            BY <3>1, NoParts DEF ReplayStates
    <2>4. replays'[p] = [at |-> "calling", rest |-> all \ b, parts |-> <<>>, batch |-> b]
        BY <2>1
    <2>5. all \subseteq Held(replays'[p]) /\ InParts(parts) = {}
        BY <1>3, <2>2, <2>4 DEF Held, InParts
    <2> QED
        BY <2>1, <2>3, <2>4, <2>5
<1> QED
    BY <1>1, <1>2, <1>3

-----------------------------------------------------------------------------
(* The socket and the owners.                                              *)

LEMMA SessionBegins == JRInit => JRInv
BY NoReplayIsReplay DEF JRInit, JRInv, JRShapes, OwnerStates, OwnersAreKnown, NothingForgotten

LEMMA OpensKeeps ==
    ASSUME JRInv, Opens
    PROVE  JRInv'
<1>1. /\ socket = "connecting" /\ socket' = "open"
      /\ owners' = [c \in Channels |-> IF owners[c] = "connecting" THEN "connected" ELSE owners[c]]
      /\ UNCHANGED <<unreplayed, timer, subscribed, replays, streamed>>
    BY DEF Opens
<1>2. JRShapes'
    BY <1>1 DEF JRInv, JRShapes, OwnerStates
<1>3. OwnersAreKnown'
    BY <1>1 DEF JRInv, OwnersAreKnown
<1>4. ASSUME NEW c \in Channels, Served(c) PROVE Served(c)'
    BY <1>1, <1>4 DEF Served, Replayed
<1>5. NothingForgotten'
    BY <1>1, <1>4 DEF JRInv, JRShapes, NothingForgotten
<1> QED
    BY <1>2, <1>3, <1>5 DEF JRInv

\* The close of a socket arms the timer.
LEMMA TearDownKeeps ==
    ASSUME JRInv, TearDown
    PROVE  JRInv'
<1>1. /\ timer' = TRUE
      /\ subscribed' = subscribed \ Unsubscribing
      /\ owners' = [c \in Channels |-> Rejected(owners[c])]
      /\ replays' = [p \in Replays |-> IF replays[p].at = "pausing" THEN replays[p] ELSE NoReplay]
    BY DEF TearDown, Rearmed
<1>2. JRShapes'
    BY <1>1, NoReplayIsReplay DEF JRInv, JRShapes, OwnerStates, Rejected
<1>3. OwnersAreKnown'
    BY <1>1 DEF JRInv, JRShapes, OwnersAreKnown, Rejected, Unsubscribing
<1>4. NothingForgotten'
    BY <1>1 DEF NothingForgotten
<1> QED
    BY <1>2, <1>3, <1>4 DEF JRInv

\* What an owner does while the socket and the replays stay as they are.
LEMMA OwnerKeeps ==
    ASSUME JRInv, NEW c \in Channels, NEW o \in OwnerStates,
           owners' = [owners EXCEPT ![c] = o],
           subscribed' \subseteq subscribed \cup {c}, subscribed \ {c} \subseteq subscribed',
           o \in {"subscribing", "on", "subscribing on a lost socket"} => c \in subscribed',
           streamed \ {c} \subseteq streamed',
           c \in subscribed' => \/ o \in {"subscribing", "unsubscribing"} \/ c \in streamed'
                                \/ /\ c \in subscribed /\ owners[c] \notin {"subscribing", "unsubscribing"}
                                   /\ c \in streamed => c \in streamed',
           UNCHANGED <<socket, unreplayed, timer, replays>>
    PROVE  JRInv'
<1>1. JRShapes'
    BY DEF JRInv, JRShapes
<1>2. /\ owners'[c] = o
      /\ \A d \in Channels : d # c => owners'[d] = owners[d]
    BY DEF JRInv, JRShapes
<1>3. OwnersAreKnown'
    BY <1>2 DEF JRInv, OwnersAreKnown
<1>4. \A d : Replayed(d) <=> Replayed(d)'
    BY DEF Replayed
<1>5. NothingForgotten'
    <2>1. SUFFICES ASSUME socket # "closing", ~timer, ~unreplayed, NEW d \in subscribed'
                   PROVE  Served(d)'
        BY DEF NothingForgotten
    <2>2. CASE d = c
        <3>1. CASE o \in {"subscribing", "unsubscribing"} \/ c \in streamed'
            BY <1>2, <2>2, <3>1 DEF Served
        <3>2. CASE c \in subscribed /\ owners[c] \notin {"subscribing", "unsubscribing"} /\ (c \in streamed => c \in streamed')
            <4>1. Served(c)
                BY <2>1, <3>2 DEF JRInv, NothingForgotten
            <4> QED
                BY <1>4, <2>2, <3>2, <4>1 DEF Served
        <3> QED
            BY <2>1, <2>2, <3>1, <3>2
    <2>3. CASE d # c
        <3>1. d \in Channels /\ d \in subscribed
            BY <2>1, <2>3 DEF JRInv, JRShapes
        <3>2. Served(d)
            BY <2>1, <3>1 DEF JRInv, NothingForgotten
        <3> QED
            BY <1>2, <1>4, <2>3, <3>1, <3>2 DEF Served
    <2> QED
        BY <2>2, <2>3
<1> QED
    BY <1>1, <1>3, <1>5 DEF JRInv

LEMMA AsksKeeps ==
    ASSUME JRInv, NEW c \in Channels, Asks(c), owners[c] \in {"off", "connected"},
           UNCHANGED <<socket, unreplayed, timer, replays, streamed>>
    PROVE  JRInv'
<1>1. CASE c \in subscribed
    <2>1. owners' = [owners EXCEPT ![c] = "on"] /\ subscribed' = subscribed
        BY <1>1 DEF Asks
    <2> QED
        BY <1>1, <2>1, OwnerKeeps DEF OwnerStates
<1>2. CASE c \notin subscribed
    <2>1. owners' = [owners EXCEPT ![c] = "subscribing"] /\ subscribed' = subscribed \cup {c}
        BY <1>2 DEF Asks
    <2> QED
        BY <1>2, <2>1, OwnerKeeps DEF OwnerStates
<1> QED
    BY <1>1, <1>2

\* An owner connects the client itself: when the close of the socket before is
\* still to come, that is recorded.
LEMMA SubscribeKeeps ==
    ASSUME JRInv, NEW c \in Channels, Subscribe(c)
    PROVE  JRInv'
<1>1. owners[c] = "off" /\ UNCHANGED <<timer, streamed>>
    BY DEF Subscribe
<1>2. CASE socket = "open"
    BY <1>1, <1>2, AsksKeeps DEF Subscribe
<1>3. CASE socket # "open"
    <2>1. /\ socket' = "connecting"
          /\ unreplayed' = (unreplayed \/ socket = "closing")
          /\ replays' = IF socket = "closing" THEN [p \in Replays |-> OrphanedReplay(replays[p])] ELSE replays
          /\ owners' = [d \in Channels |->
                           IF d = c THEN "connecting"
                           ELSE IF socket = "closing" THEN OrphanedOwner(owners[d]) ELSE owners[d]]
          /\ UNCHANGED subscribed
        BY <1>3 DEF Subscribe, Connects
    <2>2. replays' \in [Replays -> ReplayStates]
        BY <2>1 DEF JRInv, JRShapes, OrphanedReplay, ReplayStates
    <2>3. owners' \in [Channels -> OwnerStates]
        BY <2>1 DEF JRInv, JRShapes, OrphanedOwner, OwnerStates
    <2>4. OwnersAreKnown'
        BY <2>1 DEF JRInv, JRShapes, OwnersAreKnown, OrphanedOwner, OwnerStates
    <2>5. NothingForgotten'
        <3>1. SUFFICES ASSUME ~timer, ~unreplayed', NEW d \in subscribed PROVE Served(d)'
            BY <1>1, <2>1 DEF NothingForgotten
        <3>2. ~unreplayed /\ socket # "closing" /\ d \in Channels
            BY <2>1, <3>1 DEF JRInv, JRShapes
        <3>3. Served(d)
            BY <3>1, <3>2 DEF JRInv, NothingForgotten
        <3>4. owners[d] \in {"subscribing", "unsubscribing"} => owners'[d] = owners[d]
            BY <1>1, <2>1, <3>2
        <3>5. Replayed(d) => Replayed(d)'
            BY <1>3, <2>1, <3>2 DEF Replayed
        <3> QED
            BY <1>1, <3>3, <3>4, <3>5 DEF Served
    <2> QED
        BY <2>1, <2>2, <2>3, <2>4, <2>5 DEF JRInv, JRShapes
<1> QED
    BY <1>2, <1>3

LEMMA OtherCallsKeep ==
    ASSUME JRInv, NEW c \in Channels,
           \/ SubscribeGoesOn(c) \/ SubscribeAnswered(c) \/ SubscribeFails(c)
           \/ Unsubscribe(c) \/ UnsubscribeEnds(c)
    PROVE  JRInv'
<1>1. CASE SubscribeGoesOn(c)
    <2>1. CASE socket = "open"
        BY <1>1, <2>1, AsksKeeps DEF SubscribeGoesOn
    <2>2. CASE socket # "open" /\ c \in subscribed
        <3>1. /\ owners[c] = "connected" /\ owners' = [owners EXCEPT ![c] = "on"]
              /\ UNCHANGED <<socket, unreplayed, timer, subscribed, replays, streamed>>
            BY <1>1, <2>2 DEF SubscribeGoesOn
        <3> QED
            BY <2>2, <3>1, OwnerKeeps DEF OwnerStates
    <2>3. CASE socket # "open" /\ c \notin subscribed
        <3>1. /\ owners[c] = "connected" /\ owners' = [owners EXCEPT ![c] = "off"]
              /\ UNCHANGED <<socket, unreplayed, timer, subscribed, replays, streamed>>
            BY <1>1, <2>3 DEF SubscribeGoesOn
        <3> QED
            BY <2>3, <3>1, OwnerKeeps DEF OwnerStates
    <2> QED
        BY <2>1, <2>2, <2>3
<1>2. CASE SubscribeAnswered(c)
    <2>1. /\ owners[c] = "subscribing" /\ owners' = [owners EXCEPT ![c] = "on"]
          /\ streamed' = streamed \cup {c}
          /\ UNCHANGED <<socket, unreplayed, timer, subscribed, replays>>
        BY <1>2 DEF SubscribeAnswered
    <2>2. c \in subscribed
        BY <2>1 DEF JRInv, OwnersAreKnown
    <2> QED
        BY <2>1, <2>2, OwnerKeeps DEF OwnerStates
<1>3. CASE SubscribeFails(c)
    <2>1. /\ owners' = [owners EXCEPT ![c] = "off"]
          /\ subscribed' = subscribed \ {c}
          /\ streamed \subseteq streamed'
          /\ UNCHANGED <<socket, unreplayed, timer, replays>>
        BY <1>3 DEF SubscribeFails, RolledBack
    <2> QED
        BY <2>1, OwnerKeeps DEF OwnerStates
<1>4. CASE Unsubscribe(c)
    <2>1. PICK o \in {"unsubscribing", "off"} : owners' = [owners EXCEPT ![c] = o]
        BY <1>4 DEF Unsubscribe
    <2>2. /\ owners[c] = "on"
          /\ UNCHANGED <<socket, unreplayed, timer, subscribed, replays, streamed>>
        BY <1>4 DEF Unsubscribe
    <2> QED
        BY <2>1, <2>2, OwnerKeeps DEF OwnerStates
<1>5. CASE UnsubscribeEnds(c)
    <2>1. /\ owners' = [owners EXCEPT ![c] = "off"]
          /\ subscribed' = subscribed \ {c}
          /\ streamed \ {c} \subseteq streamed'
          /\ UNCHANGED <<socket, unreplayed, timer, replays>>
        BY <1>5 DEF UnsubscribeEnds
    <2> QED
        BY <2>1, OwnerKeeps DEF OwnerStates
<1> QED
    BY <1>1, <1>2, <1>3, <1>4, <1>5

-----------------------------------------------------------------------------
(* The timer and the replays.                                              *)

\* A replay that begins takes the whole set with it.
LEMMA WholeSetReplayed ==
    ASSUME JRInv, NEW p \in Replays, NextBatch(p, Snapshot, <<>>),
           socket = "open", UNCHANGED <<socket, subscribed, owners>>
    PROVE  JRInv'
<1>1. subscribed \in SUBSET Channels /\ replays \in [Replays -> ReplayStates]
    BY DEF JRInv, JRShapes
<1>2. /\ replays' \in [Replays -> ReplayStates]
      /\ \A c \in subscribed : replays'[p].at = "calling" /\ c \in Held(replays'[p])
    BY <1>1, NoParts, NextBatchHoldsAll DEF Snapshot
<1>3. JRShapes' /\ OwnersAreKnown'
    BY <1>2 DEF JRInv, JRShapes, OwnersAreKnown
<1>4. \A c \in subscribed : Served(c)'
    BY <1>2 DEF Served, Replayed
<1> QED
    BY <1>3, <1>4 DEF JRInv, NothingForgotten

LEMMA TimerFiresKeeps ==
    ASSUME JRInv, TimerFires
    PROVE  JRInv'
<1>1. PICK p \in Replays :
         /\ replays[p] = NoReplay
         /\ IF socket = "open"
            THEN unreplayed' = FALSE /\ NextBatch(p, Snapshot, <<>>) /\ UNCHANGED <<socket, owners>>
            ELSE /\ socket' = "connecting"
                 /\ UNCHANGED unreplayed
                 /\ replays' = [q \in Replays |->
                       IF q = p THEN [NoReplay EXCEPT !.at = "connecting"]
                       ELSE IF socket = "closing" THEN OrphanedReplay(replays[q]) ELSE replays[q]]
                 /\ owners' = IF socket = "closing" THEN [c \in Channels |-> OrphanedOwner(owners[c])] ELSE owners
    BY DEF TimerFires
<1>2. UNCHANGED subscribed
    BY DEF TimerFires
<1>3. CASE socket = "open"
    BY <1>1, <1>2, <1>3, WholeSetReplayed
<1>4. CASE socket # "open"
    <2>1. [NoReplay EXCEPT !.at = "connecting"] \in ReplayStates
        BY NoParts DEF NoReplay, ReplayStates
    <2>2. \A q \in Replays : OrphanedReplay(replays[q]) \in ReplayStates
        BY DEF JRInv, JRShapes, OrphanedReplay, ReplayStates
    <2>3. replays' \in [Replays -> ReplayStates]
        BY <1>1, <1>4, <2>1, <2>2 DEF JRInv, JRShapes
    <2>4. owners' \in [Channels -> OwnerStates]
        BY <1>1, <1>4 DEF JRInv, JRShapes, OrphanedOwner, OwnerStates
    <2>5. OwnersAreKnown'
        BY <1>1, <1>2, <1>4 DEF JRInv, JRShapes, OwnersAreKnown, OrphanedOwner, OwnerStates
    <2>6. replays'[p].at = "connecting"
        BY <1>1, <1>4 DEF NoReplay
    <2>7. NothingForgotten'
        BY <2>6 DEF NothingForgotten, Served, Replayed
    <2> QED
        BY <1>2, <2>3, <2>4, <2>5, <2>7 DEF JRInv, JRShapes
<1> QED
    BY <1>3, <1>4

\* A replay that goes on holds what it held, but for what the venue streams by now.
LEMMA ReplayGoesOn ==
    ASSUME JRInv, NEW p \in Replays, NEW all \in SUBSET Channels, NEW parts \in Seq(Batch),
           NextBatch(p, all, parts), replays[p].at \in {"calling", "pausing"},
           Held(replays[p]) \subseteq all \cup InParts(parts) \cup streamed', streamed \subseteq streamed',
           socket = "open", UNCHANGED <<socket, unreplayed, timer, subscribed, owners>>
    PROVE  JRInv'
<1>1. /\ replays' \in [Replays -> ReplayStates]
      /\ \A q \in Replays : q # p => replays'[q] = replays[q]
      /\ \A c \in all \cup InParts(parts) : replays'[p].at = "calling" /\ c \in Held(replays'[p])
    BY NextBatchHoldsAll DEF JRInv, JRShapes
<1>2. JRShapes' /\ OwnersAreKnown'
    BY <1>1 DEF JRInv, JRShapes, OwnersAreKnown
<1>3. ASSUME NEW c \in Channels, Served(c) PROVE Served(c)'
    <2>1. CASE owners[c] \in {"subscribing", "unsubscribing"} \/ c \in streamed
        BY <2>1 DEF Served
    <2>2. CASE Replayed(c)
        <3>1. PICK q \in Replays :
                 \/ replays[q].at = "connecting"
                 \/ replays[q].at \in {"calling", "pausing"} /\ c \in Held(replays[q])
            BY <2>2 DEF Replayed
        <3>2. CASE q # p
            BY <1>1, <3>1, <3>2 DEF Served, Replayed
        <3>3. CASE q = p
            <4>1. c \in all \cup InParts(parts) \cup streamed'
                BY <3>1, <3>3
            <4> QED
                BY <1>1, <4>1 DEF Served, Replayed
        <3> QED
            BY <3>2, <3>3
    <2> QED
        BY <1>3, <2>1, <2>2 DEF Served
<1>4. NothingForgotten'
    BY <1>3 DEF JRInv, JRShapes, NothingForgotten
<1> QED
    BY <1>2, <1>4 DEF JRInv

LEMMA BatchAnsweredKeeps ==
    ASSUME JRInv, NEW p \in Replays, BatchAnswered(p)
    PROVE  JRInv'
<1>1. /\ replays[p].at = "calling" /\ socket = "open"
      /\ streamed' = streamed \cup replays[p].batch
      /\ UNCHANGED <<socket, unreplayed, timer, subscribed, owners>>
    BY DEF BatchAnswered
<1>2. replays[p] \in ReplayStates
    BY DEF JRInv, JRShapes
<1>3. Held(replays[p]) = replays[p].rest \cup replays[p].batch \cup InParts(replays[p].parts)
    BY <1>1 DEF Held
<1>4. CASE replays[p].parts = <<>> /\ replays[p].rest # {}
    <2>1. replays' = [replays EXCEPT ![p] = [replays[p] EXCEPT !.at = "pausing", !.batch = {}]]
        BY <1>4 DEF BatchAnswered
    <2>2. /\ replays' \in [Replays -> ReplayStates]
          /\ replays'[p].at = "pausing" /\ replays'[p].rest = replays[p].rest
          /\ \A q \in Replays : q # p => replays'[q] = replays[q]
        BY <1>2, <2>1, NoParts DEF JRInv, JRShapes, ReplayStates
    <2>3. Held(replays[p]) \subseteq Held(replays'[p]) \cup streamed'
        BY <1>1, <1>3, <1>4, <2>2, NoParts DEF Held
    <2>4. ASSUME NEW c \in Channels, Served(c) PROVE Served(c)'
        BY <1>1, <2>2, <2>3, <2>4 DEF Served, Replayed
    <2>5. JRShapes' /\ OwnersAreKnown' /\ NothingForgotten'
        BY <1>1, <2>2, <2>4 DEF JRInv, JRShapes, OwnersAreKnown, NothingForgotten
    <2> QED
        BY <2>5 DEF JRInv
<1>5. CASE ~(replays[p].parts = <<>> /\ replays[p].rest # {})
    <2>1. NextBatch(p, replays[p].rest, replays[p].parts)
        BY <1>5 DEF BatchAnswered
    <2>2. replays[p].rest \in SUBSET Channels /\ replays[p].parts \in Seq(Batch)
        BY <1>2 DEF ReplayStates
    <2>3. Held(replays[p]) \subseteq replays[p].rest \cup InParts(replays[p].parts) \cup streamed'
        BY <1>1, <1>3
    <2> QED
        BY <1>1, <2>1, <2>2, <2>3, ReplayGoesOn
<1> QED
    BY <1>4, <1>5

LEMMA BatchHalvedKeeps ==
    ASSUME JRInv, NEW p \in Replays, BatchHalved(p)
    PROVE  JRInv'
<1>1. /\ replays[p].at = "calling" /\ socket = "open"
      /\ streamed \subseteq streamed'
      /\ UNCHANGED <<socket, unreplayed, timer, subscribed, owners>>
    BY DEF BatchHalved
<1>2. PICK half \in SUBSET replays[p].batch :
         NextBatch(p, replays[p].rest, <<half, replays[p].batch \ half>> \o replays[p].parts)
    BY DEF BatchHalved
<1>3. replays[p].rest \in SUBSET Channels /\ replays[p].batch \in Batch /\ replays[p].parts \in Seq(Batch)
    BY DEF JRInv, JRShapes, ReplayStates
<1>4. half \in Batch /\ replays[p].batch \ half \in Batch
    BY <1>3 DEF Batch
<1>5. /\ <<half, replays[p].batch \ half>> \o replays[p].parts \in Seq(Batch)
      /\ replays[p].batch \cup InParts(replays[p].parts)
            \subseteq InParts(<<half, replays[p].batch \ half>> \o replays[p].parts)
    BY <1>3, <1>4, PartsPutInFront
<1>6. Held(replays[p]) = replays[p].rest \cup replays[p].batch \cup InParts(replays[p].parts)
    BY <1>1 DEF Held
<1>7. Held(replays[p]) \subseteq
         replays[p].rest \cup InParts(<<half, replays[p].batch \ half>> \o replays[p].parts) \cup streamed'
    BY <1>5, <1>6
<1> QED
    BY <1>1, <1>2, <1>3, <1>5, <1>7, ReplayGoesOn

\* A replay that fails closes the socket, arms the timer, or leaves the work to
\* the replay that waits for the next socket.
LEMMA ReplayFailsKeeps ==
    ASSUME JRInv, NEW p \in Replays, ReplayFails(p), replays[p].at # "connecting"
    PROVE  JRInv'
<1>1. /\ replays' = [replays EXCEPT ![p] = NoReplay]
      /\ UNCHANGED <<unreplayed, subscribed, owners>>
    BY DEF ReplayFails
<1>2. JRShapes' /\ OwnersAreKnown'
    BY <1>1, NoReplayIsReplay DEF JRInv, JRShapes, OwnersAreKnown
<1>3. CASE socket = "open"
    <2>1. NothingForgotten'
        BY <1>3 DEF ReplayFails, Drops, NothingForgotten
    <2> QED
        BY <1>2, <2>1 DEF JRInv
<1>4. CASE socket # "open"
    <2>1. (timer => timer') /\ UNCHANGED <<socket, streamed>>
        BY <1>4 DEF ReplayFails
    <2>2. ASSUME NEW c \in Channels, Served(c) PROVE Served(c)'
        <3>1. Replayed(c) => Replayed(c)'
            BY <1>1, <1>4, <2>1 DEF Replayed, JRInv, JRShapes
        <3> QED
            BY <1>1, <2>1, <2>2, <3>1 DEF Served
    <2>3. NothingForgotten'
        BY <1>1, <2>1, <2>2 DEF JRInv, JRShapes, NothingForgotten
    <2> QED
        BY <1>2, <2>3 DEF JRInv
<1> QED
    BY <1>3, <1>4

LEMMA PauseEndsKeeps ==
    ASSUME JRInv, NEW p \in Replays, PauseEnds(p)
    PROVE  JRInv'
<1>1. replays[p].at = "pausing" /\ replays[p].rest \in SUBSET Channels
    BY DEF PauseEnds, JRInv, JRShapes, ReplayStates
<1>2. CASE socket = "open"
    <2>1. NextBatch(p, replays[p].rest, <<>>) /\ UNCHANGED <<socket, unreplayed, timer, subscribed, owners, streamed>>
        BY <1>2 DEF PauseEnds
    <2>2. Held(replays[p]) = replays[p].rest
        BY <1>1 DEF Held
    <2> QED
        BY <1>1, <1>2, <2>1, <2>2, NoParts, ReplayGoesOn
<1>3. CASE socket # "open"
    BY <1>1, <1>3, ReplayFailsKeeps DEF PauseEnds
<1> QED
    BY <1>2, <1>3

LEMMA SessionKeeps == JRInv /\ [JRNext]_sessionVars => JRInv'
<1> SUFFICES ASSUME JRInv, [JRNext]_sessionVars PROVE JRInv'
    OBVIOUS
<1>1. CASE Opens
    BY <1>1, OpensKeeps
<1>2. CASE HandshakeFails \/ CloseEvent
    BY <1>2, TearDownKeeps DEF HandshakeFails, CloseEvent
<1>3. CASE SocketDrops
    BY <1>3 DEF SocketDrops, Drops, JRInv, JRShapes, OwnersAreKnown, NothingForgotten
<1>4. ASSUME NEW c \in Channels,
             \/ Subscribe(c) \/ SubscribeGoesOn(c) \/ SubscribeAnswered(c) \/ SubscribeFails(c)
             \/ Unsubscribe(c) \/ UnsubscribeEnds(c)
      PROVE  JRInv'
    BY <1>4, SubscribeKeeps, OtherCallsKeep
<1>5. CASE TimerFires
    BY <1>5, TimerFiresKeeps
<1>6. ASSUME NEW p \in Replays, ReplayBegins(p) PROVE JRInv'
    BY <1>6, WholeSetReplayed DEF ReplayBegins
<1>7. ASSUME NEW p \in Replays, BatchAnswered(p) \/ BatchHalved(p) \/ PauseEnds(p) PROVE JRInv'
    BY <1>7, BatchAnsweredKeeps, BatchHalvedKeeps, PauseEndsKeeps
<1>8. ASSUME NEW p \in Replays, BatchFails(p) PROVE JRInv'
    BY <1>8, ReplayFailsKeeps DEF BatchFails
<1>9. CASE UNCHANGED sessionVars
    BY <1>9 DEF sessionVars, JRInv, JRShapes, OwnersAreKnown, NothingForgotten, Served, Replayed
<1> QED
    BY <1>1, <1>2, <1>3, <1>4, <1>5, <1>6, <1>7, <1>8, <1>9 DEF JRNext

LEMMA SessionSuffices == JRInv => SubscribedIsStreamed
<1> SUFFICES ASSUME JRInv PROVE SubscribedIsStreamed
    OBVIOUS
<1>1. ASSUME AtRest, ~unreplayed, NEW c \in subscribed, owners[c] \notin {"subscribing", "unsubscribing"}
      PROVE  c \in streamed
    <2>1. ~Replayed(c)
        BY <1>1 DEF AtRest, NoReplay, Replayed
    <2>2. Served(c)
        BY <1>1 DEF AtRest, JRInv, NothingForgotten
    <2> QED
        BY <1>1, <2>1, <2>2 DEF Served
<1> QED
    BY <1>1 DEF SubscribedIsStreamed, JRInv, OwnersAreKnown

\* Once no replay is under way or due, the venue streams every channel of the set
\* (jsonrpc-client.ts:344-627): through drops, failed and halved batches, however
\* many replays overlap, unless the close of a socket was ignored.
THEOREM NoChannelForgotten == JRSpec => []SubscribedIsStreamed
BY SessionBegins, SessionKeeps, SessionSuffices, PTL DEF JRSpec

-----------------------------------------------------------------------------
(* Types.                                                                  *)

\* What the invariant above does not need to know.
JRCounts ==
    /\ socket \in {"none", "connecting", "open", "closing"}
    /\ unreplayed \in BOOLEAN /\ timer \in BOOLEAN
    /\ streamed \subseteq Channels
    /\ faults \in 0 .. Faults

LEMMA CountsBegin == JRInit => JRCounts
<1>1. JRInit => faults \in 0 .. Faults
    BY SessionAssumption DEF JRInit
<1>2. JRInit => unreplayed \in BOOLEAN /\ timer \in BOOLEAN
    BY DEF JRInit
<1>3. JRInit => socket \in {"none", "connecting", "open", "closing"} /\ streamed \subseteq Channels
    BY DEF JRInit
<1> QED
    BY <1>1, <1>2, <1>3 DEF JRCounts

LEMMA FaultCounts == ASSUME JRCounts, Fault PROVE faults' \in 0 .. Faults
BY SessionAssumption DEF JRCounts, Fault

LEMMA CountsKeep == JRInv /\ JRCounts /\ [JRNext]_sessionVars => JRCounts'
<1> SUFFICES ASSUME JRInv, JRCounts, [JRNext]_sessionVars PROVE JRCounts'
    OBVIOUS
<1> USE DEF JRCounts
<1>0. \A p \in Replays : replays[p].batch \subseteq Channels
    BY DEF JRInv, JRShapes, ReplayStates, Batch
<1>1. CASE Opens
    BY <1>1 DEF Opens
<1>2. CASE HandshakeFails
    BY <1>2, FaultCounts DEF HandshakeFails, TearDown, Rearmed
<1>3. CASE CloseEvent
    BY <1>3 DEF CloseEvent, TearDown, Rearmed
<1>4. CASE SocketDrops
    BY <1>4, FaultCounts DEF SocketDrops, Drops
<1>5. ASSUME NEW c \in Channels, Subscribe(c) PROVE JRCounts'
    <2>1. CASE socket = "open"
        BY <1>5, <2>1 DEF Subscribe
    <2>2. CASE socket # "open"
        BY <1>5, <2>2 DEF Subscribe, Connects
    <2> QED
        BY <2>1, <2>2
<1>6. ASSUME NEW c \in Channels, SubscribeGoesOn(c) \/ SubscribeAnswered(c) \/ Unsubscribe(c) PROVE JRCounts'
    BY <1>6 DEF SubscribeGoesOn, SubscribeAnswered, Unsubscribe
<1>7. ASSUME NEW c \in Channels, SubscribeFails(c) \/ UnsubscribeEnds(c) PROVE JRCounts'
    <2>1. faults' \in 0 .. Faults
        BY <1>7, FaultCounts DEF SubscribeFails, UnsubscribeEnds
    <2> QED
        BY <1>7, <2>1 DEF SubscribeFails, UnsubscribeEnds
<1>8. CASE TimerFires
    <2>1. CASE socket = "open"
        BY <1>8, <2>1 DEF TimerFires
    <2>2. CASE socket # "open"
        BY <1>8, <2>2 DEF TimerFires
    <2> QED
        BY <2>1, <2>2
<1>9. ASSUME NEW p \in Replays, ReplayBegins(p) \/ BatchAnswered(p) PROVE JRCounts'
    BY <1>0, <1>9 DEF ReplayBegins, BatchAnswered
<1>10. ASSUME NEW p \in Replays, BatchHalved(p) PROVE JRCounts'
    BY <1>0, <1>10, FaultCounts DEF BatchHalved
<1>11. ASSUME NEW p \in Replays, ReplayFails(p)
       PROVE  socket' \in {"none", "connecting", "open", "closing"} /\ unreplayed' \in BOOLEAN
              /\ timer' \in BOOLEAN /\ streamed' \subseteq Channels
    <2>1. CASE socket = "open"
        BY <1>11, <2>1 DEF ReplayFails, Drops
    <2>2. CASE socket # "open"
        BY <1>11, <2>2 DEF ReplayFails
    <2> QED
        BY <2>1, <2>2
<1>12. ASSUME NEW p \in Replays, PauseEnds(p) \/ BatchFails(p) PROVE JRCounts'
    <2>1. CASE ReplayFails(p)
        <3>1. faults' \in 0 .. Faults
            BY <1>12, FaultCounts DEF PauseEnds, BatchFails
        <3> QED
            BY <1>11, <2>1, <3>1
    <2>2. CASE UNCHANGED <<socket, unreplayed, timer, streamed, faults>>
        BY <2>2
    <2> QED
        BY <1>12, <2>1, <2>2 DEF PauseEnds, BatchFails
<1>13. CASE UNCHANGED sessionVars
    BY <1>13 DEF sessionVars
<1> QED
    BY <1>1, <1>2, <1>3, <1>4, <1>5, <1>6, <1>7, <1>8, <1>9, <1>10, <1>12, <1>13 DEF JRNext

\* Every variable of the session keeps its type.
THEOREM JRTypeCorrect == JRSpec => []JRTypeOK
<1>1. JRInv /\ JRCounts => JRTypeOK
    BY DEF JRInv, JRShapes, JRCounts, JRTypeOK, OwnerStates, ReplayStates, Batch
<1> QED
    BY <1>1, SessionBegins, SessionKeeps, CountsBegin, CountsKeep, PTL DEF JRSpec
=============================================================================

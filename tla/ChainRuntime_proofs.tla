------------------------ MODULE ChainRuntime_proofs ------------------------
(***************************************************************************)
(* ChainRuntime for every finite set of contracts, every set of venues and *)
(* every bound: it is well typed, it implements ChainFeed, and a runtime   *)
(* of a single venue that is at rest shows the last quotes.                *)
(***************************************************************************)
EXTENDS ChainRuntime, FiniteSetTheorems, TLAPS

-----------------------------------------------------------------------------
(* Sequences, patches and messages.                                        *)

LEMMA AppendFacts ==
    ASSUME NEW S, NEW w \in Seq(S), NEW m \in S
    PROVE  /\ Append(w, m) \in Seq(S)
           /\ Len(Append(w, m)) = Len(w) + 1
           /\ Append(w, m)[Len(w) + 1] = m
           /\ \A i \in 1..Len(w) : Append(w, m)[i] = w[i]
  OBVIOUS

LEMMA TailFacts ==
    ASSUME NEW S, NEW w \in Seq(S), w # <<>>
    PROVE  /\ Len(w) \in Nat \ {0}
           /\ Head(w) = w[1] /\ Head(w) \in S
           /\ Tail(w) \in Seq(S)
           /\ Len(Tail(w)) = Len(w) - 1
           /\ \A i \in 1..Len(Tail(w)) : Tail(w)[i] = w[i + 1]
  OBVIOUS

LEMMA EmptySeqType ==
    ASSUME NEW S
    PROVE  <<>> \in Seq(S)
  OBVIOUS

LEMMA PatchIntro ==
    ASSUME NEW S \in SUBSET Symbols, NEW p \in [S -> Quotes]
    PROVE  p \in Patches /\ DOMAIN p = S
  BY DEF Patches

LEMMA PatchElim ==
    ASSUME NEW p \in Patches
    PROVE  DOMAIN p \in SUBSET Symbols /\ p \in [DOMAIN p -> Quotes]
  BY DEF Patches

LEMMA SymbolsFinite ==
    ASSUME NEW S \in SUBSET Symbols
    PROVE  IsFiniteSet(S) /\ Cardinality(S) \in Nat
  BY RuntimeAssumption, FS_Subset, FS_CardinalityType DEF RuntimeAssumption

LEMMA FewerSymbols ==
    ASSUME NEW S \in SUBSET Symbols, NEW T \in SUBSET S
    PROVE  Cardinality(T) <= Cardinality(S)
  BY SymbolsFinite, FS_Subset

LEMMA AppliedType ==
    ASSUME NEW data \in Chains, NEW p, \A s \in DOMAIN p \cap Symbols : p[s] \in {None} \cup Quotes
    PROVE  Applied(p, data) \in Chains
  BY DEF Applied, Chains

\* What a worker posts.
DeltasMessage(m) == m.kind = "deltas" /\ m.quotes \in Patches

ChainMessage(m) ==
    /\ m.kind = "chain"
    /\ m.version \in 1..MaxBuilds
    /\ \E v \in Venues : m.quotes \in [Listed(v) -> {None} \cup Quotes]

LEMMA MessageKinds ==
    ASSUME NEW m \in Messages
    PROVE  DeltasMessage(m) \/ ChainMessage(m) \/ m.kind = "acquired"
  BY DEF Messages, DeltasMessage, ChainMessage

LEMMA DeltasPosted ==
    ASSUME NEW p \in Patches
    PROVE  [kind |-> "deltas", quotes |-> p] \in Messages
  BY DEF Messages

LEMMA ChainPosted ==
    ASSUME NEW n \in 1..MaxBuilds, NEW v \in Venues, NEW q \in [Listed(v) -> {None} \cup Quotes]
    PROVE  [kind |-> "chain", version |-> n, quotes |-> q] \in Messages
  BY DEF Messages

LEMMA AcquiredPosted == [kind |-> "acquired"] \in Messages
  BY DEF Messages

-----------------------------------------------------------------------------
(* Type correctness.                                                       *)

\* The records of the builds in flight.
BuildRecords ==
    [version : Nat, cutoff : Nat, unread : SUBSET Venues, waiting : SUBSET Venues, data : Chains]

RuntimeTypes ==
    /\ TypeOK
    /\ builds \subseteq BuildRecords
    /\ deltaVersion \in Nat

Blank == [s \in Symbols |-> None]

LEMMA BlankIsChain == Blank \in Chains
  BY DEF Blank, Chains

LEMMA Constants ==
    /\ Venues # {}
    /\ MaxPending \in Nat \ {0}
    /\ MaxBuilds \in Nat
    /\ MaxQuote \in Nat \ {0}
    /\ VenueOf \in [Symbols -> Venues]
  BY RuntimeAssumption, FeedAssumption DEF RuntimeAssumption, FeedAssumption

LEMMA BuildSnapshotType ==
    ASSUME RuntimeTypes, BuildSnapshot, deltaVersion' = deltaVersion
    PROVE  /\ builds' \subseteq BuildRecords
           /\ \A b \in builds' : b.waiting # {} /\ b.version \in 1..buildVersion' /\ b.cutoff <= deltaVersion'
           /\ buildVersion' \in 0..MaxBuilds
           /\ buildVersion' = buildVersion + 1
  <1> DEFINE new == [version |-> buildVersion + 1, cutoff |-> deltaVersion, unread |-> Venues,
                     waiting |-> Venues, data |-> Blank]
  <1>1. builds' = builds \cup {new}
    BY DEF BuildSnapshot, Blank
  <1>2. buildVersion \in Nat /\ buildVersion' = buildVersion + 1 /\ buildVersion < MaxBuilds
    BY Constants DEF BuildSnapshot, RuntimeTypes, TypeOK
  <1>3. new \in BuildRecords
    BY <1>2, BlankIsChain DEF BuildRecords, RuntimeTypes
  <1>4. \A b \in builds : b.waiting # {} /\ b.version \in 1..buildVersion /\ b.cutoff <= deltaVersion
    BY DEF RuntimeTypes, TypeOK
  <1>5. new.waiting # {} /\ new.version \in 1..buildVersion' /\ new.cutoff <= deltaVersion'
    BY <1>2, Constants DEF RuntimeTypes
  <1>6. builds' \subseteq BuildRecords
    BY <1>1, <1>3 DEF RuntimeTypes
  <1> HIDE DEF new
  <1>7. buildVersion' \in 0..MaxBuilds
    BY <1>2, Constants
  <1>8. \A b \in builds' : b.waiting # {} /\ b.version \in 1..buildVersion' /\ b.cutoff <= deltaVersion'
    BY <1>1, <1>2, <1>4, <1>5
  <1>9. QED
    BY <1>2, <1>6, <1>7, <1>8

LEMMA ForgetType ==
    ASSUME RuntimeTypes, NEW S, Forget(S)
    PROVE  /\ pending' \in Patches
           /\ DOMAIN pending' = DOMAIN pending \ S
           /\ \A s \in DOMAIN pending' : pending'[s] = pending[s]
           /\ Cardinality(DOMAIN pending') <= MaxPending
           /\ arrival' \in [DOMAIN pending' -> 1..deltaVersion]
  <1>1. DOMAIN pending \in SUBSET Symbols /\ pending \in [DOMAIN pending -> Quotes]
    BY PatchElim DEF RuntimeTypes, TypeOK
  <1>2. pending' \in [DOMAIN pending \ S -> Quotes] /\ DOMAIN pending' = DOMAIN pending \ S
    BY <1>1 DEF Forget
  <1>3. pending' \in Patches
    BY <1>1, <1>2, PatchIntro
  <1>4. Cardinality(DOMAIN pending') <= MaxPending
    <2>1. DOMAIN pending' \in SUBSET DOMAIN pending
      BY <1>2
    <2>2. Cardinality(DOMAIN pending') <= Cardinality(DOMAIN pending)
      BY <1>1, <2>1, FewerSymbols
    <2>3. Cardinality(DOMAIN pending') \in Nat /\ Cardinality(DOMAIN pending) \in Nat
      BY <1>1, <2>1, SymbolsFinite
    <2>4. Cardinality(DOMAIN pending) <= MaxPending
      BY DEF RuntimeTypes, TypeOK
    <2>5. QED
      BY <2>2, <2>3, <2>4, Constants
  <1>5. arrival' \in [DOMAIN pending' -> 1..deltaVersion]
    BY <1>2 DEF Forget, RuntimeTypes, TypeOK
  <1>6. QED
    BY <1>2, <1>3, <1>4, <1>5 DEF Forget

LEMMA PostType ==
    ASSUME RuntimeTypes, NEW v \in Venues, NEW m \in Messages, Post(v, m)
    PROVE  wire' \in [Venues -> Seq(Messages)]
  BY AppendFacts DEF Post, RuntimeTypes, TypeOK

LEMMA InitTypes ==
    ASSUME Init
    PROVE  RuntimeTypes
  <1>1. wire \in [Venues -> Seq(Messages)]
    BY EmptySeqType DEF Init
  <1>2. pending \in Patches /\ DOMAIN pending = {}
    <2>1. pending \in [{} -> Quotes]
      BY DEF Init
    <2>2. QED
      BY <2>1, PatchIntro
  <1>3. Cardinality(DOMAIN pending) <= MaxPending
    BY <1>2, FS_EmptySet, Constants
  <1>4. {listening, needsResync, missed, lateTimer} \subseteq BOOLEAN
    BY Zenon DEF Init
  <1>5. quote \in [Symbols -> Quotes]
    BY Constants DEF Init, Quotes
  <1>6. chain \in Chains /\ seq \in Nat
    BY BlankIsChain DEF Init, FeedInit, Blank
  <1>7. buildVersion \in 0..MaxBuilds /\ resumeBuild \in 0..buildVersion
    BY Constants DEF Init, None
  <1>8. QED
    BY <1>1, <1>2, <1>3, <1>4, <1>5, <1>6, <1>7 DEF Init, RuntimeTypes, TypeOK

-----------------------------------------------------------------------------
(* The workers' steps.                                                     *)

LEMMA VenueTicksType ==
    ASSUME RuntimeTypes, NEW s \in Symbols, VenueTicks(s)
    PROVE  RuntimeTypes'
  <1>1. quote' \in [Symbols -> Quotes]
    BY Constants DEF VenueTicks, RuntimeTypes, TypeOK, Quotes
  <1>2. batch' \subseteq {q \in Symbols : VenueOf[q] \in streaming'}
    BY DEF VenueTicks, RuntimeTypes, TypeOK
  <1>3. QED
    BY <1>1, <1>2 DEF VenueTicks, RuntimeTypes, TypeOK, feedVars, bufferVars, buildVars

LEMMA FlushBatchType ==
    ASSUME RuntimeTypes, NEW v \in Venues, FlushBatch(v)
    PROVE  RuntimeTypes'
  <1> DEFINE ready == batch \cap Listed(v)
  <1>1. ready \in SUBSET Symbols
    BY DEF Listed
  <1>2. [s \in ready |-> quote[s]] \in Patches
    BY <1>1, PatchIntro DEF RuntimeTypes, TypeOK
  <1>3. wire' \in [Venues -> Seq(Messages)]
    BY <1>2, DeltasPosted, PostType DEF FlushBatch
  <1>4. batch' \subseteq {q \in Symbols : VenueOf[q] \in streaming'}
    BY DEF FlushBatch, RuntimeTypes, TypeOK
  <1>5. QED
    BY <1>3, <1>4 DEF FlushBatch, RuntimeTypes, TypeOK, feedVars, bufferVars, buildVars

LEMMA ServeFetchType ==
    ASSUME RuntimeTypes, NEW v \in Venues, ServeFetch(v)
    PROVE  RuntimeTypes'
  <1>1. PICK b \in builds, ok \in BOOLEAN :
           /\ v \in b.unread
           /\ Post(v, [kind |-> "chain", version |-> b.version,
                       quotes |-> [s \in Listed(v) |-> IF ok THEN quote[s] ELSE None]])
           /\ builds' = (builds \ {b}) \cup {[b EXCEPT !.unread = @ \ {v}]}
    BY DEF ServeFetch
  <1> DEFINE new == [b EXCEPT !.unread = @ \ {v}]
             q == [s \in Listed(v) |-> IF ok THEN quote[s] ELSE None]
  <1>2. b \in BuildRecords /\ b.version \in 1..buildVersion /\ b.waiting # {} /\ b.cutoff <= deltaVersion
    BY DEF RuntimeTypes, TypeOK
  <1>3. new \in BuildRecords
    BY <1>2 DEF BuildRecords
  <1>4. new.version = b.version /\ new.waiting = b.waiting /\ new.cutoff = b.cutoff
    BY <1>2 DEF BuildRecords
  <1>5. q \in [Listed(v) -> {None} \cup Quotes]
    BY DEF Listed, RuntimeTypes, TypeOK
  <1>6. b.version \in 1..MaxBuilds
    BY <1>2, Constants DEF RuntimeTypes, TypeOK
  <1>7. wire' \in [Venues -> Seq(Messages)]
    BY <1>1, <1>5, <1>6, ChainPosted, PostType
  <1> HIDE DEF new
  <1>8. builds' \subseteq BuildRecords
    BY <1>1, <1>3 DEF new, RuntimeTypes
  <1>9. \A x \in builds' : x.waiting # {} /\ x.version \in 1..buildVersion /\ x.cutoff <= deltaVersion
    <2>1. ASSUME NEW x \in builds' PROVE x \in builds \/ x = new
      BY <1>1, <2>1 DEF new
    <2>2. QED
      BY <1>2, <1>4, <2>1 DEF RuntimeTypes, TypeOK
  <1>10. UNCHANGED <<feedVars, venueVars, held, listening, bufferVars, missed, buildVersion, resumeBuild, lateTimer>>
    BY DEF ServeFetch
  <1>11. QED
    BY <1>7, <1>8, <1>9, <1>10 DEF RuntimeTypes, TypeOK, feedVars, venueVars, bufferVars

LEMMA ServeSubscribeType ==
    ASSUME RuntimeTypes, NEW v \in Venues, ServeSubscribe(v)
    PROVE  RuntimeTypes'
  <1>1. wire' \in [Venues -> Seq(Messages)]
    BY AcquiredPosted, PostType DEF ServeSubscribe
  <1>2. QED
    BY <1>1 DEF ServeSubscribe, RuntimeTypes, TypeOK, feedVars, bufferVars, buildVars

-----------------------------------------------------------------------------
(* What arrives.                                                           *)

LEMMA ArrivesHead ==
    ASSUME RuntimeTypes, NEW v \in Venues, Arrives(v)
    PROVE  /\ Head(wire[v]) \in Messages
           /\ wire' \in [Venues -> Seq(Messages)]
  BY TailFacts DEF Arrives, RuntimeTypes, TypeOK

\* What an answer does: the chain it completes is shown if it is the newest.
OnChainCases(v, m) ==
    \E b \in builds :
        LET data == Applied(m.quotes, b.data) IN
        /\ b.version = m.version
        /\ data \in Chains
        /\ \/ /\ b.waiting \subseteq {v}
              /\ builds' = builds \ {b}
              /\ resumeBuild' \in {None, resumeBuild}
              /\ \/ b.version # buildVersion /\ NothingLearnt
                 \/ /\ b.version = buildVersion
                    /\ Forget({s \in DOMAIN pending : arrival[s] <= b.cutoff})
                    /\ needsResync' = FALSE
                    /\ missed' = FALSE
                    /\ FeedSnapshot(data)
           \/ /\ ~(b.waiting \subseteq {v})
              /\ builds' = (builds \ {b}) \cup {[b EXCEPT !.waiting = @ \ {v}, !.data = data]}
              /\ UNCHANGED resumeBuild
              /\ NothingLearnt

LEMMA OnChainIsCases ==
    ASSUME RuntimeTypes, NEW v \in Venues, NEW m \in Messages, m.kind = "chain", OnChain(v, m)
    PROVE  OnChainCases(v, m)
  <1> DEFINE answered(b) == [b EXCEPT !.waiting = @ \ {v}, !.data = Applied(m.quotes, @)]
  <1>1. PICK b \in builds :
           /\ b.version = m.version
           /\ IF answered(b).waiting = {}
              THEN /\ builds' = builds \ {b}
                   /\ resumeBuild' = IF resumeBuild = b.version THEN None ELSE resumeBuild
                   /\ Built(answered(b))
              ELSE /\ builds' = (builds \ {b}) \cup {answered(b)}
                   /\ UNCHANGED resumeBuild
                   /\ NothingLearnt
    BY DEF OnChain
  <1> DEFINE data == Applied(m.quotes, b.data)
  <1>2. b \in BuildRecords
    BY DEF RuntimeTypes
  <1>3. /\ answered(b).waiting = b.waiting \ {v}
        /\ answered(b).data = data
        /\ answered(b).version = b.version
        /\ answered(b).cutoff = b.cutoff
    BY <1>2 DEF BuildRecords
  <1>4. answered(b) = [b EXCEPT !.waiting = @ \ {v}, !.data = data]
    BY <1>2 DEF BuildRecords
  <1>5. data \in Chains
    <2>1. \A s \in DOMAIN m.quotes : m.quotes[s] \in {None} \cup Quotes
      BY MessageKinds DEF ChainMessage, DeltasMessage
    <2>2. b.data \in Chains
      BY <1>2 DEF BuildRecords
    <2>3. QED
      BY <2>1, <2>2, AppliedType
  <1> HIDE DEF data
  <1>6. CASE answered(b).waiting = {}
    <2>1. b.waiting \subseteq {v}
      BY <1>3, <1>6
    <2>2. builds' = builds \ {b} /\ resumeBuild' \in {None, resumeBuild}
      BY <1>1, <1>6
    <2>3. Built(answered(b))
      BY <1>1, <1>6
    <2> HIDE DEF answered
    <2>4. \/ b.version # buildVersion /\ NothingLearnt
          \/ /\ b.version = buildVersion
             /\ Forget({s \in DOMAIN pending : arrival[s] <= b.cutoff})
             /\ needsResync' = FALSE
             /\ missed' = FALSE
             /\ FeedSnapshot(data)
      BY <1>3, <2>3 DEF Built
    <2>5. QED
      BY <1>1, <1>5, <2>1, <2>2, <2>4 DEF OnChainCases, data
  <1>7. CASE answered(b).waiting # {}
    <2>1. ~(b.waiting \subseteq {v})
      BY <1>3, <1>7
    <2>2. builds' = (builds \ {b}) \cup {[b EXCEPT !.waiting = @ \ {v}, !.data = data]}
      BY <1>1, <1>4, <1>7
    <2>3. UNCHANGED resumeBuild /\ NothingLearnt
      BY <1>1, <1>7
    <2>4. QED
      BY <1>1, <1>5, <2>1, <2>2, <2>3 DEF OnChainCases, data
  <1>8. QED
    BY <1>6, <1>7

LEMMA OnChainType ==
    ASSUME RuntimeTypes, NEW v \in Venues, NEW m \in Messages, m.kind = "chain", OnChain(v, m),
           wire' \in [Venues -> Seq(Messages)], UNCHANGED <<venueVars, listening, buildVersion>>
    PROVE  RuntimeTypes'
  <1> DEFINE data(b) == Applied(m.quotes, b.data)
             answered(b) == [b EXCEPT !.waiting = @ \ {v}, !.data = data(b)]
  <1>1. UNCHANGED <<held, deltaVersion, lateTimer>>
    BY DEF OnChain
  <1>2. PICK b \in builds :
        /\ data(b) \in Chains
        /\ \/ /\ builds' = builds \ {b}
              /\ resumeBuild' \in {None, resumeBuild}
              /\ \/ NothingLearnt
                 \/ /\ Forget({s \in DOMAIN pending : arrival[s] <= b.cutoff})
                    /\ needsResync' = FALSE
                    /\ missed' = FALSE
                    /\ FeedSnapshot(data(b))
           \/ /\ ~(b.waiting \subseteq {v})
              /\ builds' = (builds \ {b}) \cup {answered(b)}
              /\ UNCHANGED resumeBuild
              /\ NothingLearnt
    BY OnChainIsCases DEF OnChainCases
  <1>3. b \in BuildRecords /\ b.version \in 1..buildVersion /\ b.cutoff <= deltaVersion
    BY DEF RuntimeTypes, TypeOK
  <1>4. /\ builds' \subseteq BuildRecords
        /\ \A x \in builds' : x.waiting # {} /\ x.version \in 1..buildVersion /\ x.cutoff <= deltaVersion
    <2>1. CASE builds' = builds \ {b}
      BY <2>1 DEF RuntimeTypes, TypeOK
    <2>2. CASE ~(b.waiting \subseteq {v}) /\ builds' = (builds \ {b}) \cup {answered(b)}
      <3>1. /\ answered(b) \in BuildRecords
            /\ answered(b).waiting # {}
            /\ answered(b).version = b.version
            /\ answered(b).cutoff = b.cutoff
        BY <1>2, <1>3, <2>2 DEF BuildRecords
      <3> HIDE DEF answered
      <3>2. ASSUME NEW x \in builds' PROVE x \in builds \/ x = answered(b)
        BY <2>2, <3>2
      <3>3. QED
        BY <1>3, <3>1, <3>2 DEF RuntimeTypes, TypeOK
    <2>3. QED
      BY <1>2, <2>1, <2>2
  <1>5. resumeBuild' \in 0..buildVersion
    BY <1>2 DEF RuntimeTypes, TypeOK, None
  <1>6. CASE NothingLearnt
    BY <1>1, <1>4, <1>5, <1>6 DEF NothingLearnt, RuntimeTypes, TypeOK, feedVars, venueVars
  <1>7. CASE /\ Forget({s \in DOMAIN pending : arrival[s] <= b.cutoff})
             /\ needsResync' = FALSE
             /\ missed' = FALSE
             /\ FeedSnapshot(data(b))
    <2>1. /\ pending' \in Patches
          /\ Cardinality(DOMAIN pending') <= MaxPending
          /\ arrival' \in [DOMAIN pending' -> 1..deltaVersion]
      BY <1>7, ForgetType
    <2>2. chain' \in Chains /\ seq' \in Nat
      BY <1>2, <1>7 DEF FeedSnapshot, RuntimeTypes, TypeOK
    <2>3. {listening, needsResync', missed', lateTimer} \subseteq BOOLEAN
      BY <1>7 DEF RuntimeTypes, TypeOK
    <2> HIDE DEF data
    <2>4. QED
      BY <1>1, <1>4, <1>5, <2>1, <2>2, <2>3 DEF RuntimeTypes, TypeOK, venueVars
  <1>8. QED
    BY <1>2, <1>6, <1>7

LEMMA OnDeltasType ==
    ASSUME RuntimeTypes, NEW v \in Venues, NEW m \in Messages, m.kind = "deltas", OnDeltas(m),
           wire' \in [Venues -> Seq(Messages)], UNCHANGED <<venueVars, listening, buildVersion>>
    PROVE  RuntimeTypes'
  <1> DEFINE merged == DOMAIN pending \cup DOMAIN m.quotes
  <1>1. UNCHANGED <<feedVars, held, missed, builds, resumeBuild, lateTimer>>
    BY DEF OnDeltas
  <1>2. /\ pending' \in Patches
        /\ Cardinality(DOMAIN pending') <= MaxPending
        /\ arrival' \in [DOMAIN pending' -> 1..deltaVersion']
        /\ deltaVersion' \in Nat /\ deltaVersion <= deltaVersion'
        /\ needsResync' \in BOOLEAN
    <2>0. needsResync \in BOOLEAN
      BY DEF RuntimeTypes, TypeOK
    <2>1. CASE UNCHANGED bufferVars
      BY <2>0, <2>1 DEF bufferVars, RuntimeTypes, TypeOK
    <2>2. CASE deltaVersion' = deltaVersion + 1 /\ Overflow
      <3>1. /\ pending' \in Patches
            /\ Cardinality(DOMAIN pending') <= MaxPending
            /\ arrival' \in [DOMAIN pending' -> 1..deltaVersion]
        BY <2>2, ForgetType DEF Overflow
      <3>2. deltaVersion' \in Nat /\ deltaVersion <= deltaVersion'
        BY <2>2 DEF RuntimeTypes
      <3>3. 1..deltaVersion \subseteq 1..deltaVersion'
        BY <3>2 DEF RuntimeTypes
      <3>4. needsResync' \in BOOLEAN
        BY <2>2 DEF Overflow
      <3>5. QED
        BY <3>1, <3>2, <3>3, <3>4
    <2>3. CASE /\ deltaVersion' = deltaVersion + 1
               /\ ~Overflows(merged)
               /\ pending' = [s \in merged |-> IF s \in DOMAIN m.quotes THEN m.quotes[s] ELSE pending[s]]
               /\ arrival' = [s \in merged |-> IF s \in DOMAIN m.quotes THEN deltaVersion' ELSE arrival[s]]
               /\ UNCHANGED needsResync
      <3>1. /\ m.quotes \in Patches
            /\ DOMAIN m.quotes \in SUBSET Symbols
            /\ m.quotes \in [DOMAIN m.quotes -> Quotes]
        BY MessageKinds, PatchElim DEF DeltasMessage, ChainMessage
      <3>2. DOMAIN pending \in SUBSET Symbols /\ pending \in [DOMAIN pending -> Quotes]
        BY PatchElim DEF RuntimeTypes, TypeOK
      <3>3. merged \in SUBSET Symbols /\ Cardinality(merged) <= MaxPending
        <4>1. merged \in SUBSET Symbols
          BY <3>1, <3>2
        <4>2. Cardinality(merged) \in Nat
          BY <4>1, SymbolsFinite
        <4>3. QED
          BY <2>3, <4>1, <4>2, Constants DEF Overflows
      <3>4. pending' \in [merged -> Quotes] /\ DOMAIN pending' = merged
        BY <2>3, <3>1, <3>2
      <3>5. arrival' \in [merged -> 1..deltaVersion']
        BY <2>3 DEF RuntimeTypes, TypeOK
      <3>6. deltaVersion' \in Nat /\ deltaVersion <= deltaVersion'
        BY <2>3 DEF RuntimeTypes
      <3> HIDE DEF merged
      <3>7. pending' \in Patches
        BY <3>3, <3>4, PatchIntro
      <3>8. needsResync' \in BOOLEAN
        BY <2>0, <2>3
      <3>9. QED
        BY <3>3, <3>4, <3>5, <3>6, <3>7, <3>8
    <2>4. QED
      BY <2>1, <2>2, <2>3 DEF OnDeltas
  <1>3. \A b \in builds : b.cutoff <= deltaVersion'
    BY <1>2 DEF RuntimeTypes, TypeOK, BuildRecords
  <1>4. {listening', needsResync', missed', lateTimer'} \subseteq BOOLEAN
    BY <1>1, <1>2 DEF RuntimeTypes, TypeOK
  <1>5. QED
    BY <1>1, <1>2, <1>3, <1>4 DEF RuntimeTypes, TypeOK, feedVars, venueVars

LEMMA OnAcquiredType ==
    ASSUME RuntimeTypes, NEW v \in Venues, OnAcquired(v), v \in streaming,
           wire' \in [Venues -> Seq(Messages)], UNCHANGED <<venueVars, listening, buildVersion>>
    PROVE  RuntimeTypes'
  <1>1. lateTimer' \in BOOLEAN
    BY Zenon DEF OnAcquired
  <1>2. {listening', needsResync', missed', lateTimer'} \subseteq BOOLEAN
    BY <1>1 DEF OnAcquired, bufferVars, RuntimeTypes, TypeOK
  <1>3. held' \subseteq streaming'
    BY DEF OnAcquired, venueVars, RuntimeTypes, TypeOK
  <1>4. QED
    BY <1>2, <1>3 DEF OnAcquired, RuntimeTypes, TypeOK, feedVars, venueVars, bufferVars

-----------------------------------------------------------------------------
(* The runtime's own life.                                                 *)

LEMMA InitializeType ==
    ASSUME RuntimeTypes, Initialize
    PROVE  RuntimeTypes'
  BY BuildSnapshotType DEF Initialize, RuntimeTypes, TypeOK, feedVars, venueVars, bufferVars, None

LEMMA SubscribeType ==
    ASSUME RuntimeTypes, Subscribe
    PROVE  RuntimeTypes'
  <1>1. BuildSnapshot /\ resumeBuild' = buildVersion' /\ listening' = TRUE
    BY DEF Subscribe, Resume
  <1>2. UNCHANGED <<feedVars, venueVars, wire, held, bufferVars, missed, lateTimer>>
    BY DEF Subscribe
  <1>3. {listening', needsResync', missed', lateTimer'} \subseteq BOOLEAN
    BY <1>1, <1>2 DEF RuntimeTypes, TypeOK, bufferVars
  <1>4. resumeBuild' \in 0..buildVersion'
    BY <1>1, <1>2, BuildSnapshotType DEF RuntimeTypes, TypeOK, bufferVars
  <1>5. QED
    BY <1>1, <1>2, <1>3, <1>4, BuildSnapshotType
    DEF RuntimeTypes, TypeOK, feedVars, venueVars, bufferVars

LEMMA UnsubscribeType ==
    ASSUME RuntimeTypes, Unsubscribe
    PROVE  RuntimeTypes'
  <1>1. Forget(Symbols) /\ listening' = FALSE
    BY DEF Unsubscribe
  <1>2. UNCHANGED <<feedVars, venueVars, wire, held, deltaVersion, needsResync, missed, buildVars, resumeBuild, lateTimer>>
    BY DEF Unsubscribe
  <1>3. {listening', needsResync', missed', lateTimer'} \subseteq BOOLEAN
    BY <1>1, <1>2 DEF RuntimeTypes, TypeOK
  <1>4. QED
    BY <1>1, <1>2, <1>3, ForgetType DEF RuntimeTypes, TypeOK, feedVars, venueVars, buildVars

LEMMA FetchSnapshotDataType ==
    ASSUME RuntimeTypes, FetchSnapshotData
    PROVE  RuntimeTypes'
  <1>1. BuildSnapshot
    BY DEF FetchSnapshotData
  <1>2. UNCHANGED <<feedVars, venueVars, wire, held, listening, bufferVars, missed, resumeBuild, lateTimer>>
    BY DEF FetchSnapshotData
  <1>3. resumeBuild' \in 0..buildVersion'
    BY <1>1, <1>2, BuildSnapshotType DEF RuntimeTypes, TypeOK, bufferVars
  <1>4. QED
    BY <1>1, <1>2, <1>3, BuildSnapshotType
    DEF RuntimeTypes, TypeOK, feedVars, venueVars, bufferVars

LEMMA LateVenueRebuildType ==
    ASSUME RuntimeTypes, LateVenueRebuild
    PROVE  RuntimeTypes'
  <1>1. BuildSnapshot /\ lateTimer' = FALSE
    BY DEF LateVenueRebuild
  <1>2. UNCHANGED <<feedVars, venueVars, wire, held, listening, bufferVars, missed, resumeBuild>>
    BY DEF LateVenueRebuild
  <1>3. {listening', needsResync', missed', lateTimer'} \subseteq BOOLEAN
    BY <1>1, <1>2 DEF RuntimeTypes, TypeOK, bufferVars
  <1>4. resumeBuild' \in 0..buildVersion'
    BY <1>1, <1>2, BuildSnapshotType DEF RuntimeTypes, TypeOK, bufferVars
  <1>5. QED
    BY <1>1, <1>2, <1>3, <1>4, BuildSnapshotType
    DEF RuntimeTypes, TypeOK, feedVars, venueVars, bufferVars

LEMMA PushResyncType ==
    ASSUME RuntimeTypes, PushResync
    PROVE  RuntimeTypes'
  <1>1. BuildSnapshot /\ needsResync' = FALSE
    BY DEF PushResync
  <1>2. UNCHANGED <<feedVars, venueVars, wire, held, listening, pending, arrival, deltaVersion, missed, resumeBuild, lateTimer>>
    BY DEF PushResync
  <1>3. {listening', needsResync', missed', lateTimer'} \subseteq BOOLEAN
    BY <1>1, <1>2 DEF RuntimeTypes, TypeOK
  <1>4. resumeBuild' \in 0..buildVersion'
    BY <1>1, <1>2, BuildSnapshotType DEF RuntimeTypes, TypeOK
  <1>5. QED
    BY <1>1, <1>2, <1>3, <1>4, BuildSnapshotType DEF RuntimeTypes, TypeOK, feedVars, venueVars

\* What a push does to the chain: it applies the ticks of known contracts.
LEMMA PushDeltaFeed ==
    ASSUME RuntimeTypes, PushDelta
    PROVE  \/ UNCHANGED feedVars
           \/ \E patch \in Patches : FeedPatch(patch)
  <1> DEFINE patch == [s \in Known |-> pending[s]]
  <1>1. CASE Known = {}
    BY <1>1 DEF PushDelta
  <1>2. CASE Known # {}
    <2>1. DOMAIN pending \in SUBSET Symbols /\ pending \in [DOMAIN pending -> Quotes]
      BY PatchElim DEF RuntimeTypes, TypeOK
    <2>2. Known \in SUBSET Symbols /\ patch \in [Known -> Quotes]
      BY <2>1 DEF Known
    <2>3. patch \in Patches /\ DOMAIN patch = Known
      BY <2>2, PatchIntro
    <2>4. \A s \in Known : chain[s] # None
      BY DEF Known
    <2>5. chain' = Applied(patch, chain) /\ seq' = seq + 1 /\ event' = Delta(patch)
      BY <1>2 DEF PushDelta
    <2>6. FeedPatch(patch)
      BY <1>2, <2>3, <2>4, <2>5 DEF FeedPatch
    <2>7. QED
      BY <2>3, <2>6
  <1>3. QED
    BY <1>1, <1>2

LEMMA FeedPatchType ==
    ASSUME RuntimeTypes, NEW patch \in Patches, FeedPatch(patch)
    PROVE  chain' \in Chains /\ seq' \in Nat
  <1>1. \A s \in DOMAIN patch : patch[s] \in {None} \cup Quotes
    BY PatchElim
  <1>2. QED
    BY <1>1, AppliedType DEF FeedPatch, RuntimeTypes, TypeOK

LEMMA PushDeltaType ==
    ASSUME RuntimeTypes, PushDelta
    PROVE  RuntimeTypes'
  <1>1. chain' \in Chains /\ seq' \in Nat
    BY PushDeltaFeed, FeedPatchType DEF feedVars, RuntimeTypes, TypeOK
  <1>2. UNCHANGED <<venueVars, wire, held, listening, deltaVersion, needsResync, resumeBuild, lateTimer>>
    BY DEF PushDelta
  <1>3. /\ pending' \in Patches
        /\ Cardinality(DOMAIN pending') <= MaxPending
        /\ arrival' \in [DOMAIN pending' -> 1..deltaVersion']
    BY <1>2, ForgetType DEF PushDelta
  <1>4. missed' \in BOOLEAN
    BY Zenon DEF PushDelta
  <1>5. {listening', needsResync', missed', lateTimer'} \subseteq BOOLEAN
    BY <1>2, <1>4 DEF RuntimeTypes, TypeOK
  <1>6. /\ builds' \subseteq BuildRecords
        /\ \A b \in builds' : b.waiting # {} /\ b.version \in 1..buildVersion' /\ b.cutoff <= deltaVersion'
        /\ buildVersion' \in 0..MaxBuilds
        /\ resumeBuild' \in 0..buildVersion'
    <2>1. CASE UNCHANGED buildVars
      BY <1>2, <2>1 DEF buildVars, RuntimeTypes, TypeOK
    <2>2. CASE BuildSnapshot
      BY <1>2, <2>2, BuildSnapshotType DEF RuntimeTypes, TypeOK
    <2>3. QED
      BY <2>1, <2>2 DEF PushDelta
  <1>7. QED
    BY <1>1, <1>2, <1>3, <1>5, <1>6 DEF RuntimeTypes, TypeOK, venueVars

-----------------------------------------------------------------------------
(* The wires: nothing that a tick says is lost without a newer message on  *)
(* its way.                                                                *)

Carries(v, i, s) == wire[v][i].kind = "deltas" /\ s \in DOMAIN wire[v][i].quotes
Announces(v, i) == wire[v][i].kind = "acquired"

\* A newer tick of s is in the batch, or on its wire behind position i.
Superseded(s, i) ==
    \/ s \in batch
    \/ \E j \in 1..Len(wire[VenueOf[s]]) : j > i /\ Carries(VenueOf[s], j, s)

\* Its subscription is announced behind position i, or not up yet.
NotYetUp(v, i) ==
    \/ v \notin streaming
    \/ \E j \in 1..Len(wire[v]) : j > i /\ Announces(v, j)

\* A worker posts about the contracts of its venue, and answers for all.
OwnContracts ==
    \A v \in Venues : \A i \in 1..Len(wire[v]) :
        /\ wire[v][i].kind = "deltas" => DOMAIN wire[v][i].quotes \subseteq Listed(v)
        /\ wire[v][i].kind = "chain" => DOMAIN wire[v][i].quotes = Listed(v)

\* It announces its subscription once, and the runtime then holds it.
AnnouncedOnce ==
    \A v \in Venues : \A i \in 1..Len(wire[v]) : Announces(v, i) =>
        /\ v \in streaming
        /\ v \notin held
        /\ \A j \in 1..Len(wire[v]) : Announces(v, j) => j = i

\* The last tick of a contract on the wire is its last quote, unless a later
\* one is still in the batch.
TicksAreFollowed ==
    \A s \in Symbols : \A i \in 1..Len(wire[VenueOf[s]]) :
        Carries(VenueOf[s], i, s) =>
            wire[VenueOf[s]][i].quotes[s] = quote[s] \/ Superseded(s, i)

\* What a fetch read is the last quote, or a tick follows it, or the venue's
\* subscription was not up when it was read.
ReadsAreFollowed ==
    \A s \in Symbols : \A i \in 1..Len(wire[VenueOf[s]]) :
        wire[VenueOf[s]][i].kind = "chain" =>
            \/ wire[VenueOf[s]][i].quotes[s] \in {None, quote[s]}
            \/ Superseded(s, i)
            \/ NotYetUp(VenueOf[s], i)

PendingIsFollowed ==
    \A s \in DOMAIN pending : pending[s] = quote[s] \/ Superseded(s, 0)

NoTicksBefore ==
    \A s \in Symbols : VenueOf[s] \notin streaming =>
        s \notin DOMAIN pending /\ ~Superseded(s, 0)

\* Nothing is buffered for a runtime nobody listens to.
NothingUnheard == ~listening => DOMAIN pending = {}

WireInv ==
    /\ OwnContracts
    /\ AnnouncedOnce
    /\ TicksAreFollowed
    /\ ReadsAreFollowed
    /\ PendingIsFollowed
    /\ NoTicksBefore
    /\ NothingUnheard

LEMMA WireType ==
    ASSUME RuntimeTypes, NEW v \in Venues
    PROVE  wire[v] \in Seq(Messages) /\ Len(wire[v]) \in Nat
  <1>1. wire[v] \in Seq(Messages)
    BY DEF RuntimeTypes, TypeOK
  <1>2. QED
    BY <1>1

\* The wires after m was posted on v's.
Posted(v, m) ==
    /\ \A u \in Venues : \A j \in 1..Len(wire[u]) :
          j \in 1..Len(wire'[u]) /\ wire'[u][j] = wire[u][j]
    /\ \A u \in Venues : \A j \in 1..Len(wire'[u]) :
          \/ j \in 1..Len(wire[u])
          \/ u = v /\ j = Len(wire[v]) + 1
    /\ Len(wire[v]) + 1 \in 1..Len(wire'[v])
    /\ wire'[v][Len(wire[v]) + 1] = m

LEMMA PostFacts ==
    ASSUME RuntimeTypes, NEW v \in Venues, NEW m \in Messages, Post(v, m)
    PROVE  Posted(v, m)
  <1>1. wire[v] \in Seq(Messages) /\ wire'[v] = Append(wire[v], m)
    BY DEF Post, RuntimeTypes, TypeOK
  <1>2. \A u \in Venues \ {v} : wire'[u] = wire[u]
    BY DEF Post, RuntimeTypes, TypeOK
  <1>3. Len(wire[v]) \in Nat
    BY WireType
  <1>4. /\ Len(wire'[v]) = Len(wire[v]) + 1
        /\ wire'[v][Len(wire[v]) + 1] = m
        /\ \A j \in 1..Len(wire[v]) : wire'[v][j] = wire[v][j]
    BY <1>1, AppendFacts
  <1>5. QED
    BY <1>2, <1>3, <1>4 DEF Posted

\* The wires after the first message of v's was taken in.
Consumed(v) ==
    /\ 1 \in 1..Len(wire[v])
    /\ Head(wire[v]) = wire[v][1]
    /\ \A u \in Venues \ {v} : wire'[u] = wire[u]
    /\ \A j \in 1..Len(wire'[v]) : j + 1 \in 1..Len(wire[v]) /\ wire'[v][j] = wire[v][j + 1]
    /\ \A j \in 1..Len(wire[v]) :
          j > 1 => j - 1 \in 1..Len(wire'[v]) /\ wire'[v][j - 1] = wire[v][j]

LEMMA ArrivesFacts ==
    ASSUME RuntimeTypes, NEW v \in Venues, Arrives(v)
    PROVE  Consumed(v)
  <1>1. wire[v] \in Seq(Messages) /\ wire[v] # <<>> /\ wire'[v] = Tail(wire[v])
    BY DEF Arrives, RuntimeTypes, TypeOK
  <1>2. \A u \in Venues \ {v} : wire'[u] = wire[u]
    BY DEF Arrives, RuntimeTypes, TypeOK
  <1>3. /\ Len(wire[v]) \in Nat \ {0}
        /\ Head(wire[v]) = wire[v][1]
        /\ Len(wire'[v]) = Len(wire[v]) - 1
        /\ \A j \in 1..Len(wire'[v]) : wire'[v][j] = wire[v][j + 1]
    BY <1>1, TailFacts
  <1>4. \A j \in 1..Len(wire'[v]) : j + 1 \in 1..Len(wire[v])
    BY <1>3
  <1>5. \A j \in 1..Len(wire[v]) : j > 1 => j - 1 \in 1..Len(wire'[v]) /\ (j - 1) + 1 = j
    BY <1>3
  <1>6. QED
    BY <1>2, <1>3, <1>4, <1>5 DEF Consumed

\* A message posted stands behind all others, which stay where they are.
LEMMA PostKeeps ==
    ASSUME RuntimeTypes, NEW v \in Venues, NEW m \in Messages, Post(v, m), NEW i
    PROVE  /\ \A s \in Symbols : Superseded(s, i) /\ batch \subseteq batch' => Superseded(s, i)'
           /\ \A u \in Venues : NotYetUp(u, i) /\ streaming' = streaming => NotYetUp(u, i)'
  <1>1. \A u \in Venues : \A j \in 1..Len(wire[u]) :
            /\ j \in 1..Len(wire'[u])
            /\ \A s \in Symbols : Carries(u, j, s) => Carries(u, j, s)'
            /\ Announces(u, j) => Announces(u, j)'
    BY PostFacts DEF Posted, Carries, Announces
  <1>2. \A s \in Symbols : VenueOf[s] \in Venues
    BY Constants
  <1>3. QED
    BY <1>1, <1>2 DEF Superseded, NotYetUp

\* What holds of the wires after a post, if it held before, is said of the
\* message posted.
LEMMA PostOwn ==
    ASSUME NEW v \in Venues, NEW m, Posted(v, m), OwnContracts,
           m.kind = "deltas" => DOMAIN m.quotes \subseteq Listed(v),
           m.kind = "chain" => DOMAIN m.quotes = Listed(v)
    PROVE  OwnContracts'
  <1>1. ASSUME NEW u \in Venues, NEW i \in 1..Len(wire'[u])
        PROVE  /\ wire'[u][i].kind = "deltas" => DOMAIN wire'[u][i].quotes \subseteq Listed(u)
               /\ wire'[u][i].kind = "chain" => DOMAIN wire'[u][i].quotes = Listed(u)
    <2>1. CASE i \in 1..Len(wire[u])
      <3>1. wire'[u][i] = wire[u][i]
        BY <2>1 DEF Posted
      <3>2. QED
        BY <2>1, <3>1 DEF OwnContracts
    <2>2. CASE u = v /\ i = Len(wire[v]) + 1
      <3>1. wire'[u][i] = m
        BY <2>2 DEF Posted
      <3>2. QED
        BY <2>2, <3>1
    <2>3. QED
      BY <2>1, <2>2 DEF Posted
  <1>2. QED
    BY <1>1 DEF OwnContracts, Listed

LEMMA PostAnnounces ==
    ASSUME NEW v \in Venues, NEW m, Posted(v, m)
    PROVE  \A u \in Venues : \A j \in 1..Len(wire'[u]) : Announces(u, j)' =>
               \/ j \in 1..Len(wire[u]) /\ Announces(u, j)
               \/ u = v /\ j = Len(wire[v]) + 1 /\ m.kind = "acquired"
  BY DEF Posted, Announces

LEMMA PostCarries ==
    ASSUME NEW v \in Venues, NEW m, Posted(v, m)
    PROVE  \A u \in Venues : \A j \in 1..Len(wire'[u]) : \A s \in Symbols : Carries(u, j, s)' =>
               \/ j \in 1..Len(wire[u]) /\ Carries(u, j, s)
               \/ u = v /\ j = Len(wire[v]) + 1 /\ m.kind = "deltas" /\ s \in DOMAIN m.quotes
  BY DEF Posted, Carries

LEMMA VenueTicksWire ==
    ASSUME RuntimeTypes, WireInv, NEW t \in Symbols, VenueTicks(t)
    PROVE  WireInv'
  <1> USE DEF WireInv
  <1>1. /\ \A s \in Symbols \ {t} : quote'[s] = quote[s]
        /\ batch \subseteq batch'
        /\ VenueOf[t] \in streaming => t \in batch'
        /\ VenueOf[t] \notin streaming => batch' = batch
    BY DEF VenueTicks, RuntimeTypes, TypeOK
  <1>2. UNCHANGED <<streaming, wire, held, listening, pending>>
    BY DEF VenueTicks, bufferVars
  <1>3. \A s \in Symbols : \A i : Superseded(s, i) => Superseded(s, i)'
    BY <1>1, <1>2 DEF Superseded, Carries
  <1>4. \A s \in Symbols, i \in Nat : VenueOf[t] \in streaming => Superseded(t, i)'
    BY <1>1 DEF Superseded
  <1>5. VenueOf[t] \notin streaming => t \notin DOMAIN pending /\ ~Superseded(t, 0)
    BY DEF NoTicksBefore
  <1>6. VenueOf[t] \notin streaming => \A i \in 1..Len(wire[VenueOf[t]]) : ~Carries(VenueOf[t], i, t)
    BY <1>5 DEF Superseded
  <1>7. OwnContracts'
    BY <1>2 DEF OwnContracts
  <1>8. AnnouncedOnce'
    BY <1>2 DEF AnnouncedOnce, Announces
  <1>9. TicksAreFollowed'
    BY <1>1, <1>2, <1>3, <1>4, <1>6 DEF TicksAreFollowed, Carries
  <1>10. ReadsAreFollowed'
    BY <1>1, <1>2, <1>3, <1>4 DEF ReadsAreFollowed, NotYetUp, Announces
  <1>11. PendingIsFollowed'
    <2>1. DOMAIN pending \subseteq Symbols
      BY PatchElim DEF RuntimeTypes, TypeOK
    <2>2. QED
      BY <1>1, <1>2, <1>3, <1>4, <1>5, <2>1 DEF PendingIsFollowed
  <1>12. NoTicksBefore'
    BY <1>1, <1>2, <1>5 DEF NoTicksBefore, Superseded, Carries, VenueTicks
  <1>13. NothingUnheard'
    BY <1>2 DEF NothingUnheard
  <1>14. QED
    BY <1>7, <1>8, <1>9, <1>10, <1>11, <1>12, <1>13

\* A tick leaves the batch for the end of its wire.
LEMMA FlushBatchKeeps ==
    ASSUME RuntimeTypes, NEW v \in Venues, FlushBatch(v)
    PROVE  \A s \in Symbols : \A i \in {0} \cup 1..Len(wire[VenueOf[s]]) :
               Superseded(s, i) => Superseded(s, i)'
  <1> DEFINE ready == batch \cap Listed(v)
             p == [s \in ready |-> quote[s]]
             m == [kind |-> "deltas", quotes |-> p]
             last == Len(wire[v]) + 1
  <1>1. batch' = batch \ ready
    BY DEF FlushBatch
  <1>2. \A s \in ready : s \in Symbols /\ VenueOf[s] = v
    BY DEF Listed
  <1>3. m \in Messages /\ Post(v, m)
    <2>1. p \in Patches
      BY <1>2, PatchIntro DEF RuntimeTypes, TypeOK
    <2>2. QED
      BY <2>1, DeltasPosted DEF FlushBatch
  <1>4. m.kind = "deltas" /\ DOMAIN m.quotes = ready
    OBVIOUS
  <1> HIDE DEF m, p, ready
  <1>5. Posted(v, m) /\ Len(wire[v]) \in Nat
    BY <1>3, PostFacts, WireType
  <1> HIDE DEF last
  <1>6. \A i \in {0} \cup 1..Len(wire[v]) : last > i
    BY <1>5 DEF last
  <1>7. \A s \in Symbols : VenueOf[s] \in Venues
    BY Constants
  <1>8. \A s \in ready : \A i \in {0} \cup 1..Len(wire[v]) : Superseded(s, i)'
    BY <1>2, <1>4, <1>5, <1>6 DEF Posted, Superseded, Carries, last
  <1>9. ASSUME NEW s \in Symbols \ ready, NEW i, Superseded(s, i) PROVE Superseded(s, i)'
    BY <1>1, <1>5, <1>7, <1>9 DEF Posted, Superseded, Carries, last
  <1>10. QED
    BY <1>2, <1>8, <1>9

LEMMA FlushBatchWire ==
    ASSUME RuntimeTypes, WireInv, NEW v \in Venues, FlushBatch(v)
    PROVE  WireInv'
  <1> USE DEF WireInv
  <1> DEFINE ready == batch \cap Listed(v)
             p == [s \in ready |-> quote[s]]
             m == [kind |-> "deltas", quotes |-> p]
             last == Len(wire[v]) + 1
  <1>1. UNCHANGED <<quote, streaming, held, listening, pending>> /\ batch' = batch \ ready
    BY DEF FlushBatch, bufferVars
  <1>2. \A s \in ready : s \in Symbols /\ VenueOf[s] = v /\ v \in streaming
    BY DEF Listed, RuntimeTypes, TypeOK
  <1>3. m \in Messages /\ Post(v, m)
    <2>1. p \in Patches
      BY <1>2, PatchIntro DEF RuntimeTypes, TypeOK
    <2>2. QED
      BY <2>1, DeltasPosted DEF FlushBatch
  <1>4. m.kind = "deltas" /\ DOMAIN m.quotes = ready /\ ready \subseteq Listed(v) /\ \A s \in ready : m.quotes[s] = quote[s]
    OBVIOUS
  <1> HIDE DEF m, p, ready
  <1>5. Posted(v, m) /\ Len(wire[v]) \in Nat
    BY <1>3, PostFacts, WireType
  <1> HIDE DEF last
  <1>7. \A s \in Symbols : VenueOf[s] \in Venues
    BY Constants
  <1>9. \A s \in Symbols : \A i \in {0} \cup 1..Len(wire[VenueOf[s]]) : Superseded(s, i) => Superseded(s, i)'
    BY FlushBatchKeeps
  <1>10. OwnContracts'
    BY <1>4, <1>5, PostOwn
  <1>11. AnnouncedOnce'
    <2>1. \A u \in Venues : \A j \in 1..Len(wire'[u]) :
              Announces(u, j)' => j \in 1..Len(wire[u]) /\ Announces(u, j)
      BY <1>4, <1>5, PostAnnounces
    <2>2. QED
      BY <1>1, <2>1 DEF AnnouncedOnce
  <1>12. TicksAreFollowed'
    <2>1. ASSUME NEW s \in Symbols, NEW i \in 1..Len(wire'[VenueOf[s]]), Carries(VenueOf[s], i, s)'
          PROVE  wire'[VenueOf[s]][i].quotes[s] = quote[s] \/ Superseded(s, i)'
      <3>1. CASE i \in 1..Len(wire[VenueOf[s]])
        BY <1>5, <1>7, <1>9, <2>1, <3>1 DEF Posted, TicksAreFollowed, Carries
      <3>2. CASE VenueOf[s] = v /\ i = last
        BY <1>4, <1>5, <2>1, <3>2 DEF Posted, Carries, last
      <3>3. QED
        BY <1>5, <1>7, <3>1, <3>2 DEF Posted, last
    <2>2. QED
      BY <1>1, <2>1 DEF TicksAreFollowed
  <1>13. ReadsAreFollowed'
    <2>1. ASSUME NEW s \in Symbols, NEW i \in 1..Len(wire'[VenueOf[s]]),
                 wire'[VenueOf[s]][i].kind = "chain"
          PROVE  \/ wire'[VenueOf[s]][i].quotes[s] \in {None, quote[s]}
                 \/ Superseded(s, i)'
                 \/ NotYetUp(VenueOf[s], i)'
      <3>1. i \in 1..Len(wire[VenueOf[s]])
        BY <1>4, <1>5, <1>7, <2>1 DEF Posted
      <3>2. NotYetUp(VenueOf[s], i) => NotYetUp(VenueOf[s], i)'
        BY <1>1, <1>3, <1>7, PostKeeps
      <3>3. QED
        BY <1>5, <1>7, <1>9, <2>1, <3>1, <3>2 DEF Posted, ReadsAreFollowed
    <2>2. QED
      BY <1>1, <2>1 DEF ReadsAreFollowed
  <1>14. PendingIsFollowed'
    <2>1. DOMAIN pending \subseteq Symbols
      BY PatchElim DEF RuntimeTypes, TypeOK
    <2>2. QED
      BY <1>1, <1>9, <2>1 DEF PendingIsFollowed
  <1>15. NoTicksBefore'
    <2>1. ASSUME NEW s \in Symbols, VenueOf[s] \notin streaming
          PROVE  s \notin DOMAIN pending /\ ~Superseded(s, 0)'
      <3>1. s \notin DOMAIN pending /\ ~Superseded(s, 0)
        BY <2>1 DEF NoTicksBefore
      <3>2. s \notin ready
        BY <1>2, <2>1
      <3>3. \A j \in 1..Len(wire'[VenueOf[s]]) : Carries(VenueOf[s], j, s)' =>
                j \in 1..Len(wire[VenueOf[s]]) /\ Carries(VenueOf[s], j, s)
        BY <1>4, <1>5, <1>7, <3>2, PostCarries
      <3>4. QED
        BY <1>1, <3>1, <3>3 DEF Superseded
    <2>2. QED
      BY <1>1, <2>1 DEF NoTicksBefore
  <1>16. NothingUnheard'
    BY <1>1 DEF NothingUnheard
  <1>17. QED
    BY <1>10, <1>11, <1>12, <1>13, <1>14, <1>15, <1>16

\* A worker posts a message without ticks: an answer or its announcement.
LEMMA PostUntickedWire ==
    ASSUME RuntimeTypes, WireInv, NEW v \in Venues, NEW m \in Messages, Post(v, m),
           UNCHANGED <<quote, batch, held, listening, pending>>,
           \/ /\ m.kind = "chain"
              /\ DOMAIN m.quotes = Listed(v)
              /\ \A s \in Listed(v) : m.quotes[s] \in {None, quote[s]}
              /\ streaming' = streaming
           \/ m.kind = "acquired" /\ v \notin streaming /\ streaming' = streaming \cup {v}
    PROVE  WireInv'
  <1> USE DEF WireInv
  <1> DEFINE last == Len(wire[v]) + 1
  <1>1. Posted(v, m) /\ Len(wire[v]) \in Nat
    BY PostFacts, WireType
  <1>2. m.kind \in {"chain", "acquired"} /\ streaming \subseteq streaming'
    OBVIOUS
  <1>3. \A s \in Symbols : VenueOf[s] \in Venues
    BY Constants
  <1>4. \A s \in Symbols : \A i : Superseded(s, i) => Superseded(s, i)'
    BY PostKeeps
  <1>5. \A s \in Symbols : \A i \in 1..Len(wire'[VenueOf[s]]) :
            Carries(VenueOf[s], i, s)' => i \in 1..Len(wire[VenueOf[s]]) /\ Carries(VenueOf[s], i, s)
    BY <1>1, <1>2, <1>3, PostCarries
  <1>6. OwnContracts'
    BY <1>1, <1>2, PostOwn
  <1>7. AnnouncedOnce'
    <2>1. CASE m.kind = "chain"
      <3>1. \A u \in Venues : \A j \in 1..Len(wire'[u]) :
                Announces(u, j)' => j \in 1..Len(wire[u]) /\ Announces(u, j)
        BY <1>1, <2>1, PostAnnounces
      <3>2. QED
        BY <1>2, <3>1 DEF AnnouncedOnce
    <2>2. CASE m.kind = "acquired"
      <3>1. v \notin streaming /\ v \notin held /\ v \in streaming'
        BY <2>2 DEF RuntimeTypes, TypeOK
      <3>2. \A i \in 1..Len(wire[v]) : ~Announces(v, i)
        BY <3>1 DEF AnnouncedOnce
      <3>3. \A u \in Venues : \A j \in 1..Len(wire'[u]) : Announces(u, j)' =>
                \/ u = v /\ j = last
                \/ u # v /\ j \in 1..Len(wire[u]) /\ Announces(u, j)
        BY <1>1, <3>2, PostAnnounces
      <3>4. QED
        BY <1>2, <3>1, <3>3 DEF AnnouncedOnce
    <2>3. QED
      BY <1>2, <2>1, <2>2
  <1>8. TicksAreFollowed'
    BY <1>1, <1>3, <1>4, <1>5 DEF Posted, TicksAreFollowed
  <1>9. ReadsAreFollowed'
    <2>1. ASSUME NEW s \in Symbols, NEW i \in 1..Len(wire'[VenueOf[s]]),
                 wire'[VenueOf[s]][i].kind = "chain"
          PROVE  \/ wire'[VenueOf[s]][i].quotes[s] \in {None, quote[s]}
                 \/ Superseded(s, i)'
                 \/ NotYetUp(VenueOf[s], i)'
      <3>1. CASE i \in 1..Len(wire[VenueOf[s]])
        <4>1. NotYetUp(VenueOf[s], i) => NotYetUp(VenueOf[s], i)'
          <5>1. CASE streaming' = streaming
            BY <1>3, <5>1, PostKeeps
          <5>2. CASE m.kind = "acquired" /\ v \notin streaming /\ streaming' = streaming \cup {v}
            <6>1. CASE VenueOf[s] = v
              <7>1. PICK j \in 1..Len(wire'[v]) : j = last /\ Announces(v, j)'
                BY <1>1, <5>2 DEF Posted, Announces
              <7>2. j > i
                BY <1>1, <3>1, <6>1, <7>1
              <7>3. QED
                BY <6>1, <7>1, <7>2 DEF NotYetUp
            <6>2. CASE VenueOf[s] # v
              <7>1. VenueOf[s] \notin streaming => VenueOf[s] \notin streaming'
                BY <5>2, <6>2
              <7>2. \A j \in 1..Len(wire[VenueOf[s]]) : Announces(VenueOf[s], j) =>
                        j \in 1..Len(wire'[VenueOf[s]]) /\ Announces(VenueOf[s], j)'
                BY <1>1, <1>3 DEF Posted, Announces
              <7>3. QED
                BY <7>1, <7>2 DEF NotYetUp
            <6>3. QED
              BY <6>1, <6>2
          <5>3. QED
            BY <5>1, <5>2
        <4>2. QED
          BY <1>1, <1>3, <1>4, <2>1, <3>1, <4>1 DEF Posted, ReadsAreFollowed
      <3>2. CASE VenueOf[s] = v /\ i = last
        BY <1>1, <2>1, <3>2 DEF Posted, Listed
      <3>3. QED
        BY <1>1, <1>3, <3>1, <3>2 DEF Posted
    <2>2. QED
      BY <2>1 DEF ReadsAreFollowed
  <1>10. PendingIsFollowed'
    <2>1. DOMAIN pending \subseteq Symbols
      BY PatchElim DEF RuntimeTypes, TypeOK
    <2>2. QED
      BY <1>4, <2>1 DEF PendingIsFollowed
  <1>11. NoTicksBefore'
    BY <1>2, <1>5 DEF NoTicksBefore, Superseded
  <1>12. NothingUnheard'
    BY DEF NothingUnheard
  <1>13. QED
    BY <1>6, <1>7, <1>8, <1>9, <1>10, <1>11, <1>12

LEMMA ServeFetchWire ==
    ASSUME RuntimeTypes, WireInv, NEW v \in Venues, ServeFetch(v)
    PROVE  WireInv'
  <1>1. UNCHANGED <<quote, streaming, batch, held, listening, pending>>
    BY DEF ServeFetch, venueVars, bufferVars
  <1>2. PICK b \in builds, ok \in BOOLEAN :
           Post(v, [kind |-> "chain", version |-> b.version,
                    quotes |-> [s \in Listed(v) |-> IF ok THEN quote[s] ELSE None]])
    BY DEF ServeFetch
  <1> DEFINE q == [s \in Listed(v) |-> IF ok THEN quote[s] ELSE None]
             m == [kind |-> "chain", version |-> b.version, quotes |-> q]
  <1>3. q \in [Listed(v) -> {None} \cup Quotes]
    BY DEF Listed, RuntimeTypes, TypeOK
  <1>4. b.version \in 1..MaxBuilds
    BY Constants DEF RuntimeTypes, TypeOK
  <1>5. m \in Messages
    BY <1>3, <1>4, ChainPosted
  <1>6. /\ m.kind = "chain"
        /\ DOMAIN m.quotes = Listed(v)
        /\ \A s \in Listed(v) : m.quotes[s] \in {None, quote[s]}
    OBVIOUS
  <1>7. Post(v, m)
    BY <1>2
  <1> HIDE DEF m
  <1>8. QED
    BY <1>1, <1>5, <1>6, <1>7, PostUntickedWire

LEMMA ServeSubscribeWire ==
    ASSUME RuntimeTypes, WireInv, NEW v \in Venues, ServeSubscribe(v)
    PROVE  WireInv'
  <1> DEFINE m == [kind |-> "acquired"]
  <1>1. UNCHANGED <<quote, batch, held, listening, pending>>
    BY DEF ServeSubscribe, bufferVars
  <1>2. m \in Messages /\ m.kind = "acquired" /\ Post(v, m)
    BY AcquiredPosted DEF ServeSubscribe
  <1>3. v \notin streaming /\ streaming' = streaming \cup {v}
    BY DEF ServeSubscribe
  <1> HIDE DEF m
  <1>4. QED
    BY <1>1, <1>2, <1>3, PostUntickedWire

\* Whatever follows a message still does when one in front of it is taken in.
LEMMA ArrivesKeeps ==
    ASSUME RuntimeTypes, NEW v \in Venues, Arrives(v)
    PROVE  /\ \A s \in Symbols : VenueOf[s] = v =>
                 \A i \in 1..Len(wire'[v]) : Superseded(s, i + 1) => Superseded(s, i)'
           /\ \A s \in Symbols : VenueOf[s] # v => \A i : Superseded(s, i) <=> Superseded(s, i)'
           /\ \A s \in Symbols : VenueOf[s] = v => (Superseded(s, 1) => Superseded(s, 0)')
           /\ \A s \in Symbols : Superseded(s, 0)' => Superseded(s, 0)
           /\ \A i \in 1..Len(wire'[v]) : NotYetUp(v, i + 1) => NotYetUp(v, i)'
           /\ NotYetUp(v, 1) => NotYetUp(v, 0)'
           /\ \A u \in Venues \ {v} : \A i : NotYetUp(u, i) => NotYetUp(u, i)'
           /\ \A s \in Symbols : ~Carries(v, 1, s) /\ Superseded(s, 0) => Superseded(s, 0)'
  <1>1. Consumed(v)
    BY ArrivesFacts
  <1>2. UNCHANGED <<batch, streaming>>
    BY DEF Arrives, venueVars
  <1>3. \A s \in Symbols : VenueOf[s] \in Venues
    BY Constants
  <1>4. \A j \in 1..Len(wire'[v]) :
            /\ j + 1 \in 1..Len(wire[v]) /\ j + 1 > 1
            /\ \A s \in Symbols : Carries(v, j, s)' <=> Carries(v, j + 1, s)
            /\ Announces(v, j)' <=> Announces(v, j + 1)
    BY <1>1 DEF Consumed, Carries, Announces
  <1>5. \A j \in 1..Len(wire[v]) : j > 1 =>
            /\ j - 1 \in 1..Len(wire'[v])
            /\ \A s \in Symbols : Carries(v, j - 1, s)' <=> Carries(v, j, s)
            /\ Announces(v, j - 1)' <=> Announces(v, j)
    BY <1>1 DEF Consumed, Carries, Announces
  <1>6. \A i \in Nat : \A j \in 1..Len(wire[v]) : j > i + 1 => j > 1 /\ j - 1 > i
    OBVIOUS
  <1>7. \A i \in 1..Len(wire'[v]) : i \in Nat
    OBVIOUS
  <1>8. \A s \in Symbols : VenueOf[s] = v => \A i \in Nat : Superseded(s, i + 1) => Superseded(s, i)'
    BY <1>2, <1>5, <1>6 DEF Superseded
  <1>9. \A i \in Nat : NotYetUp(v, i + 1) => NotYetUp(v, i)'
    BY <1>2, <1>5, <1>6 DEF NotYetUp
  <1>10. \A s \in Symbols : VenueOf[s] # v => \A i : Superseded(s, i) <=> Superseded(s, i)'
    BY <1>1, <1>2, <1>3 DEF Consumed, Superseded, Carries
  <1>11. \A u \in Venues \ {v} : \A i : NotYetUp(u, i) => NotYetUp(u, i)'
    BY <1>1, <1>2 DEF Consumed, NotYetUp, Announces
  <1>12. \A s \in Symbols : Superseded(s, 0)' => Superseded(s, 0)
    <2>1. \A s \in Symbols : VenueOf[s] = v => (Superseded(s, 0)' => Superseded(s, 0))
      BY <1>2, <1>4 DEF Superseded
    <2>2. QED
      BY <1>10, <2>1
  <1>13. \A s \in Symbols : ~Carries(v, 1, s) /\ Superseded(s, 0) => Superseded(s, 0)'
    <2>1. ASSUME NEW s \in Symbols, VenueOf[s] = v, ~Carries(v, 1, s), Superseded(s, 0)
          PROVE  Superseded(s, 1)
      BY <2>1 DEF Superseded
    <2>2. QED
      BY <1>8, <1>10, <2>1
  <1>14. QED
    BY <1>7, <1>8, <1>9, <1>10, <1>11, <1>12, <1>13

LEMMA ArrivesWireItself ==
    ASSUME RuntimeTypes, WireInv, NEW v \in Venues, Arrives(v)
    PROVE  OwnContracts' /\ TicksAreFollowed' /\ ReadsAreFollowed'
  <1> USE DEF WireInv
  <1>1. Consumed(v)
    BY ArrivesFacts
  <1>2. UNCHANGED <<quote, batch, streaming>>
    BY DEF Arrives, venueVars
  <1>3. \A s \in Symbols : VenueOf[s] \in Venues
    BY Constants
  <1>4. OwnContracts'
    BY <1>1 DEF Consumed, OwnContracts
  <1>5. TicksAreFollowed'
    <2>1. ASSUME NEW s \in Symbols, NEW i \in 1..Len(wire'[VenueOf[s]]), Carries(VenueOf[s], i, s)'
          PROVE  wire'[VenueOf[s]][i].quotes[s] = quote[s] \/ Superseded(s, i)'
      <3>1. CASE VenueOf[s] = v
        <4>1. i + 1 \in 1..Len(wire[v]) /\ wire'[v][i] = wire[v][i + 1] /\ Carries(v, i + 1, s)
          BY <1>1, <2>1, <3>1 DEF Consumed, Carries
        <4>2. wire[v][i + 1].quotes[s] = quote[s] \/ Superseded(s, i + 1)
          BY <3>1, <4>1 DEF TicksAreFollowed
        <4>3. QED
          BY <3>1, <4>1, <4>2, ArrivesKeeps
      <3>2. CASE VenueOf[s] # v
        BY <1>1, <1>3, <2>1, <3>2, ArrivesKeeps DEF Consumed, TicksAreFollowed, Carries
      <3>3. QED
        BY <3>1, <3>2
    <2>2. QED
      BY <1>2, <2>1 DEF TicksAreFollowed
  <1>6. ReadsAreFollowed'
    <2>1. ASSUME NEW s \in Symbols, NEW i \in 1..Len(wire'[VenueOf[s]]),
                 wire'[VenueOf[s]][i].kind = "chain"
          PROVE  \/ wire'[VenueOf[s]][i].quotes[s] \in {None, quote[s]}
                 \/ Superseded(s, i)'
                 \/ NotYetUp(VenueOf[s], i)'
      <3>1. CASE VenueOf[s] = v
        <4>1. i + 1 \in 1..Len(wire[v]) /\ wire'[v][i] = wire[v][i + 1]
          BY <1>1, <3>1 DEF Consumed
        <4>2. \/ wire[v][i + 1].quotes[s] \in {None, quote[s]}
              \/ Superseded(s, i + 1)
              \/ NotYetUp(v, i + 1)
          BY <2>1, <3>1, <4>1 DEF ReadsAreFollowed
        <4>3. QED
          BY <3>1, <4>1, <4>2, ArrivesKeeps
      <3>2. CASE VenueOf[s] # v
        BY <1>1, <1>3, <2>1, <3>2, ArrivesKeeps DEF Consumed, ReadsAreFollowed
      <3>3. QED
        BY <3>1, <3>2
    <2>2. QED
      BY <1>2, <2>1 DEF ReadsAreFollowed
  <1>7. QED
    BY <1>4, <1>5, <1>6

LEMMA ArrivesHeld ==
    ASSUME RuntimeTypes, WireInv, NEW v \in Venues, Arrives(v),
           held' = IF Announces(v, 1) THEN held \cup {v} ELSE held
    PROVE  AnnouncedOnce' /\ (Announces(v, 1) => v \in streaming)
  <1> USE DEF WireInv
  <1>1. Consumed(v) /\ streaming' = streaming
    BY ArrivesFacts DEF Arrives, venueVars
  <1>2. \A j \in 1..Len(wire'[v]) :
            j + 1 \in 1..Len(wire[v]) /\ j + 1 # 1 /\ (Announces(v, j)' => Announces(v, j + 1))
    BY <1>1 DEF Consumed, Announces
  <1>3. CASE Announces(v, 1)
    <2>1. v \in streaming /\ \A j \in 1..Len(wire[v]) : Announces(v, j) => j = 1
      BY <1>1, <1>3 DEF AnnouncedOnce, Consumed
    <2>2. \A j \in 1..Len(wire'[v]) : ~Announces(v, j)'
      BY <1>2, <2>1
    <2>3. QED
      BY <1>1, <1>3, <2>1, <2>2 DEF AnnouncedOnce, Consumed, Announces
  <1>4. CASE ~Announces(v, 1)
    <2>1. \A i, j \in 1..Len(wire'[v]) : i + 1 = j + 1 => i = j
      OBVIOUS
    <2>2. \A i \in 1..Len(wire'[v]) : Announces(v, i)' =>
              /\ v \in streaming
              /\ v \notin held
              /\ \A j \in 1..Len(wire'[v]) : Announces(v, j)' => j = i
      BY <1>2, <2>1 DEF AnnouncedOnce
    <2>3. \A u \in Venues \ {v} : wire'[u] = wire[u]
      BY <1>1 DEF Consumed
    <2>4. QED
      BY <1>1, <1>4, <2>2, <2>3 DEF AnnouncedOnce, Announces
  <1>5. QED
    BY <1>3, <1>4

\* Nothing is added to the buffer, or the ticks of the message taken in are.
LEMMA ArrivesPending ==
    ASSUME RuntimeTypes, WireInv, NEW v \in Venues, Arrives(v),
           \/ /\ DOMAIN pending' \subseteq DOMAIN pending
              /\ \A s \in DOMAIN pending' : pending'[s] = pending[s]
              /\ wire[v][1].kind = "deltas" => DOMAIN pending' = {}
           \/ /\ wire[v][1].kind = "deltas"
              /\ DOMAIN pending' = DOMAIN pending \cup DOMAIN wire[v][1].quotes
              /\ \A s \in DOMAIN pending' :
                    pending'[s] = IF s \in DOMAIN wire[v][1].quotes
                                  THEN wire[v][1].quotes[s] ELSE pending[s]
              /\ listening
    PROVE  PendingIsFollowed' /\ NoTicksBefore' /\ NothingUnheard'
  <1> USE DEF WireInv
  <1>1. Consumed(v) /\ UNCHANGED <<quote, batch, streaming, listening>>
    BY ArrivesFacts DEF Arrives, venueVars
  <1>2. DOMAIN pending \subseteq Symbols
    BY PatchElim DEF RuntimeTypes, TypeOK
  <1>3. \A s \in Symbols : Carries(v, 1, s) =>
            /\ VenueOf[s] = v
            /\ wire[v][1].quotes[s] = quote[s] \/ Superseded(s, 0)'
            /\ Superseded(s, 0)
    <2>1. ASSUME NEW s \in Symbols, Carries(v, 1, s)
          PROVE  /\ VenueOf[s] = v
                 /\ wire[v][1].quotes[s] = quote[s] \/ Superseded(s, 0)'
                 /\ Superseded(s, 0)
      <3>1. VenueOf[s] = v
        BY <1>1, <2>1 DEF Consumed, OwnContracts, Carries, Listed
      <3>2. wire[v][1].quotes[s] = quote[s] \/ Superseded(s, 1)
        BY <1>1, <2>1, <3>1 DEF Consumed, TicksAreFollowed
      <3>3. Superseded(s, 0)
        BY <1>1, <2>1, <3>1 DEF Consumed, Superseded
      <3>4. QED
        BY <3>1, <3>2, <3>3, ArrivesKeeps
    <2>2. QED
      BY <2>1
  <1>4. CASE /\ DOMAIN pending' \subseteq DOMAIN pending
             /\ \A s \in DOMAIN pending' : pending'[s] = pending[s]
             /\ wire[v][1].kind = "deltas" => DOMAIN pending' = {}
    <2>1. \A s \in DOMAIN pending' : Superseded(s, 0) => Superseded(s, 0)'
      BY <1>2, <1>4, ArrivesKeeps DEF Carries
    <2>2. QED
      BY <1>1, <1>2, <1>4, <2>1, ArrivesKeeps DEF PendingIsFollowed, NoTicksBefore, NothingUnheard
  <1>5. CASE /\ wire[v][1].kind = "deltas"
             /\ DOMAIN pending' = DOMAIN pending \cup DOMAIN wire[v][1].quotes
             /\ \A s \in DOMAIN pending' :
                   pending'[s] = IF s \in DOMAIN wire[v][1].quotes
                                 THEN wire[v][1].quotes[s] ELSE pending[s]
             /\ listening
    <2>1. DOMAIN wire[v][1].quotes \subseteq Symbols
      BY <1>1, <1>5 DEF Consumed, OwnContracts, Listed
    <2>2. \A s \in DOMAIN wire[v][1].quotes : Carries(v, 1, s)
      BY <1>5 DEF Carries
    <2>3. \A s \in DOMAIN pending \ DOMAIN wire[v][1].quotes : Superseded(s, 0) => Superseded(s, 0)'
      BY <1>2, ArrivesKeeps DEF Carries
    <2>4. PendingIsFollowed'
      BY <1>1, <1>3, <1>5, <2>1, <2>2, <2>3 DEF PendingIsFollowed
    <2>5. NoTicksBefore'
      BY <1>1, <1>3, <1>5, <2>1, <2>2, ArrivesKeeps DEF NoTicksBefore
    <2>6. NothingUnheard'
      BY <1>1, <1>5 DEF NothingUnheard
    <2>7. QED
      BY <2>4, <2>5, <2>6
  <1>6. QED
    BY <1>4, <1>5

LEMMA ArrivesWire ==
    ASSUME RuntimeTypes, WireInv, NEW v \in Venues, Arrives(v)
    PROVE  RuntimeTypes' /\ WireInv'
  <1> DEFINE m == Head(wire[v])
  <1>1. m \in Messages /\ wire' \in [Venues -> Seq(Messages)] /\ m = wire[v][1]
    BY ArrivesHead, ArrivesFacts DEF Consumed
  <1>2. UNCHANGED <<venueVars, listening, buildVersion>>
    BY DEF Arrives
  <1>3. OwnContracts' /\ TicksAreFollowed' /\ ReadsAreFollowed'
    BY ArrivesWireItself
  <1>4. CASE m.kind = "chain" /\ OnChain(v, m)
    <2>1. RuntimeTypes'
      BY <1>1, <1>2, <1>4, OnChainType
    <2>2. held' = held /\ ~Announces(v, 1)
      BY <1>1, <1>4 DEF OnChain, Announces
    <2>3. pending' = pending \/ \E S : Forget(S)
      BY <1>1, <1>4, OnChainIsCases DEF OnChainCases, NothingLearnt
    <2>4. /\ DOMAIN pending' \subseteq DOMAIN pending
          /\ \A s \in DOMAIN pending' : pending'[s] = pending[s]
      BY <2>3, ForgetType
    <2>5. wire[v][1].kind # "deltas"
      BY <1>1, <1>4
    <2>6. PendingIsFollowed' /\ NoTicksBefore' /\ NothingUnheard'
      BY <2>4, <2>5, ArrivesPending
    <2>7. AnnouncedOnce'
      BY <2>2, ArrivesHeld
    <2>8. QED
      BY <1>3, <2>1, <2>6, <2>7 DEF WireInv
  <1>5. CASE m.kind = "deltas" /\ OnDeltas(m)
    <2>1. RuntimeTypes'
      BY <1>1, <1>2, <1>5, OnDeltasType
    <2>2. held' = held /\ ~Announces(v, 1)
      BY <1>1, <1>5 DEF OnDeltas, Announces
    <2>3. AnnouncedOnce'
      BY <2>2, ArrivesHeld
    <2>4. PendingIsFollowed' /\ NoTicksBefore' /\ NothingUnheard'
      <3>1. DOMAIN pending \subseteq Symbols
        BY PatchElim DEF RuntimeTypes, TypeOK
      <3>2. CASE ~listening /\ UNCHANGED bufferVars
        BY <3>2, ArrivesPending DEF bufferVars, WireInv, NothingUnheard
      <3>3. CASE Overflow
        <4>1. DOMAIN pending' = {}
          BY <3>1, <3>3, ForgetType DEF Overflow
        <4>2. QED
          BY <4>1, ArrivesPending
      <3>4. CASE /\ listening
                 /\ pending' = [s \in DOMAIN pending \cup DOMAIN m.quotes |->
                                   IF s \in DOMAIN m.quotes THEN m.quotes[s] ELSE pending[s]]
        <4>1. /\ DOMAIN pending' = DOMAIN pending \cup DOMAIN wire[v][1].quotes
              /\ \A s \in DOMAIN pending' :
                    pending'[s] = IF s \in DOMAIN wire[v][1].quotes
                                  THEN wire[v][1].quotes[s] ELSE pending[s]
          BY <1>1, <3>4
        <4>2. wire[v][1].kind = "deltas"
          BY <1>1, <1>5
        <4>3. QED
          BY <3>4, <4>1, <4>2, ArrivesPending
      <3>5. QED
        BY <1>5, <3>2, <3>3, <3>4 DEF OnDeltas
    <2>5. QED
      BY <1>3, <2>1, <2>3, <2>4 DEF WireInv
  <1>6. CASE m.kind = "acquired" /\ OnAcquired(v)
    <2>1. Announces(v, 1) /\ held' = held \cup {v}
      BY <1>1, <1>6 DEF OnAcquired, Announces
    <2>2. AnnouncedOnce' /\ v \in streaming
      BY <2>1, ArrivesHeld
    <2>3. RuntimeTypes'
      BY <1>1, <1>2, <1>6, <2>2, OnAcquiredType
    <2>4. pending' = pending /\ wire[v][1].kind # "deltas"
      BY <1>1, <1>6 DEF OnAcquired, bufferVars
    <2>5. PendingIsFollowed' /\ NoTicksBefore' /\ NothingUnheard'
      BY <2>4, ArrivesPending
    <2>6. QED
      BY <1>3, <2>2, <2>3, <2>5 DEF WireInv
  <1>7. QED
    BY <1>4, <1>5, <1>6 DEF Arrives

\* The other steps leave the wires alone and only ever shorten the buffer.
LEMMA QuietWire ==
    ASSUME RuntimeTypes, WireInv, UNCHANGED <<quote, streaming, batch, wire, held>>,
           DOMAIN pending' \subseteq DOMAIN pending,
           \A s \in DOMAIN pending' : pending'[s] = pending[s],
           listening' \/ DOMAIN pending' = {}
    PROVE  WireInv'
  <1>1. DOMAIN pending \subseteq Symbols
    BY PatchElim DEF RuntimeTypes, TypeOK
  <1>2. QED
    BY <1>1 DEF WireInv, OwnContracts, AnnouncedOnce, TicksAreFollowed, ReadsAreFollowed,
        PendingIsFollowed, NoTicksBefore, NothingUnheard, Superseded, NotYetUp, Carries, Announces

-----------------------------------------------------------------------------
(* The invariant of every runtime.                                         *)

NothingBuilt == buildVersion = 0 => chain = Blank

RInv ==
    /\ RuntimeTypes
    /\ WireInv
    /\ NothingBuilt

LEMMA InitRInv ==
    ASSUME Init
    PROVE  RInv
  <1>1. RuntimeTypes
    BY InitTypes
  <1>2. DOMAIN pending = {} /\ \A v \in Venues : Len(wire[v]) = 0
    BY DEF Init
  <1>3. batch = {} /\ listening = FALSE /\ chain = Blank
    BY DEF Init, FeedInit, Blank
  <1>4. \A s \in Symbols : VenueOf[s] \in Venues
    BY Constants
  <1>5. WireInv
    BY <1>2, <1>3, <1>4 DEF WireInv, OwnContracts, AnnouncedOnce, TicksAreFollowed,
        ReadsAreFollowed, PendingIsFollowed, NoTicksBefore, NothingUnheard, Superseded
  <1>6. QED
    BY <1>1, <1>3, <1>5 DEF RInv, NothingBuilt

\* The steps that begin a rebuild, and those that change nothing of the chain.
LEMMA RebuildStep ==
    ASSUME RuntimeTypes, WireInv, Initialize \/ Subscribe \/ FetchSnapshotData \/ LateVenueRebuild \/ PushResync
    PROVE  /\ WireInv'
           /\ BuildSnapshot
           /\ UNCHANGED <<feedVars, venueVars, wire, held, deltaVersion>>
  <1>1. /\ BuildSnapshot
        /\ UNCHANGED <<feedVars, venueVars, wire, held, pending, deltaVersion>>
        /\ listening' = listening \/ listening' = TRUE
    BY DEF Initialize, Subscribe, Resume, FetchSnapshotData, LateVenueRebuild, PushResync, bufferVars
  <1>2. listening' \/ DOMAIN pending' = {}
    BY <1>1 DEF WireInv, NothingUnheard
  <1>3. WireInv'
    BY <1>1, <1>2, QuietWire DEF venueVars
  <1>4. QED
    BY <1>1, <1>3

LEMMA UnsubscribeWire ==
    ASSUME RuntimeTypes, WireInv, Unsubscribe
    PROVE  WireInv'
  <1>1. DOMAIN pending \subseteq Symbols
    BY PatchElim DEF RuntimeTypes, TypeOK
  <1>2. DOMAIN pending' = {}
    BY <1>1, ForgetType DEF Unsubscribe
  <1>3. QED
    BY <1>2, QuietWire DEF Unsubscribe, venueVars

LEMMA PushDeltaWire ==
    ASSUME RuntimeTypes, WireInv, PushDelta
    PROVE  WireInv'
  <1>1. DOMAIN pending \subseteq Symbols
    BY PatchElim DEF RuntimeTypes, TypeOK
  <1>2. DOMAIN pending' = {}
    BY <1>1, ForgetType DEF PushDelta
  <1>3. QED
    BY <1>2, QuietWire DEF PushDelta, venueVars

\* Nothing happens to a chain that was never built.
LEMMA NothingBuiltStep ==
    ASSUME RuntimeTypes, NothingBuilt,
           \/ UNCHANGED <<chain, buildVersion>>
           \/ BuildSnapshot
           \/ PushDelta
           \/ \E v \in Venues : Arrives(v)
    PROVE  NothingBuilt'
  <1>1. CASE UNCHANGED <<chain, buildVersion>>
    BY <1>1 DEF NothingBuilt
  <1>2. CASE BuildSnapshot
    BY <1>2 DEF BuildSnapshot, NothingBuilt, RuntimeTypes, TypeOK
  <1>3. CASE PushDelta
    <2>1. CASE BuildSnapshot
      BY <2>1 DEF BuildSnapshot, NothingBuilt, RuntimeTypes, TypeOK
    <2>2. CASE UNCHANGED buildVars /\ buildVersion = 0
      <3>1. DOMAIN pending \subseteq Symbols
        BY PatchElim DEF RuntimeTypes, TypeOK
      <3>2. Known = {}
        BY <2>2, <3>1 DEF Known, NothingBuilt, Blank
      <3>3. UNCHANGED feedVars
        BY <1>3, <3>2 DEF PushDelta
      <3>4. QED
        BY <2>2, <3>3 DEF feedVars, buildVars, NothingBuilt
    <2>3. QED
      BY <1>3, <2>1, <2>2 DEF PushDelta, buildVars, NothingBuilt
  <1>4. ASSUME NEW v \in Venues, Arrives(v) PROVE NothingBuilt'
    <2>1. buildVersion' = buildVersion
      BY <1>4 DEF Arrives
    <2>2. CASE buildVersion = 0
      <3>1. builds = {}
        BY <2>2 DEF RuntimeTypes, TypeOK
      <3>2. chain' = chain
        BY <1>4, <3>1 DEF Arrives, OnChain, OnDeltas, OnAcquired, feedVars
      <3>3. QED
        BY <2>2, <3>2 DEF NothingBuilt
    <2>3. QED
      BY <2>1, <2>2 DEF NothingBuilt
  <1>5. QED
    BY <1>1, <1>2, <1>3, <1>4

LEMMA NextRInv ==
    ASSUME RInv, [Next]_vars
    PROVE  RInv'
  <1> USE DEF RInv
  <1>1. ASSUME NEW s \in Symbols, VenueTicks(s) PROVE RInv'
    <2>1. NothingBuilt'
      BY <1>1, NothingBuiltStep DEF VenueTicks, feedVars, buildVars
    <2>2. QED
      BY <1>1, <2>1, VenueTicksType, VenueTicksWire
  <1>2. ASSUME NEW v \in Venues, FlushBatch(v) PROVE RInv'
    <2>1. NothingBuilt'
      BY <1>2, NothingBuiltStep DEF FlushBatch, feedVars, buildVars
    <2>2. QED
      BY <1>2, <2>1, FlushBatchType, FlushBatchWire
  <1>3. ASSUME NEW v \in Venues, ServeFetch(v) PROVE RInv'
    <2>1. NothingBuilt'
      BY <1>3, NothingBuiltStep DEF ServeFetch, feedVars
    <2>2. QED
      BY <1>3, <2>1, ServeFetchType, ServeFetchWire
  <1>4. ASSUME NEW v \in Venues, ServeSubscribe(v) PROVE RInv'
    <2>1. NothingBuilt'
      BY <1>4, NothingBuiltStep DEF ServeSubscribe, feedVars, buildVars
    <2>2. QED
      BY <1>4, <2>1, ServeSubscribeType, ServeSubscribeWire
  <1>5. ASSUME NEW v \in Venues, Arrives(v) PROVE RInv'
    BY <1>5, ArrivesWire, NothingBuiltStep
  <1>6. CASE Initialize \/ Subscribe \/ FetchSnapshotData \/ LateVenueRebuild \/ PushResync
    <2>1. RuntimeTypes'
      BY <1>6, InitializeType, SubscribeType, FetchSnapshotDataType, LateVenueRebuildType, PushResyncType
    <2>2. QED
      BY <1>6, <2>1, RebuildStep, NothingBuiltStep
  <1>7. CASE Unsubscribe
    <2>1. NothingBuilt'
      BY <1>7, NothingBuiltStep DEF Unsubscribe, feedVars, buildVars
    <2>2. QED
      BY <1>7, <2>1, UnsubscribeType, UnsubscribeWire
  <1>8. CASE PushDelta
    BY <1>8, PushDeltaType, PushDeltaWire, NothingBuiltStep
  <1>9. CASE UNCHANGED vars
    <2>1. RuntimeTypes'
      BY <1>9 DEF vars, RuntimeTypes, TypeOK
    <2>2. WireInv'
      BY <1>9 DEF vars, WireInv, OwnContracts, AnnouncedOnce, TicksAreFollowed, ReadsAreFollowed,
          PendingIsFollowed, NoTicksBefore, NothingUnheard, Superseded, NotYetUp, Carries, Announces
    <2>3. QED
      BY <1>9, <2>1, <2>2 DEF vars, NothingBuilt
  <1>10. QED
    BY <1>1, <1>2, <1>3, <1>4, <1>5, <1>6, <1>7, <1>8, <1>9 DEF Next

\* The wires lose no news: what a worker posted or a fetch read is the last
\* quote unless something newer is behind it, in the batch or on the wire.
THEOREM RuntimeInvariant == Spec => []RInv
  <1>1. Init => RInv
    BY InitRInv
  <1>2. RInv /\ [Next]_vars => RInv'
    BY NextRInv
  <1>3. QED
    BY <1>1, <1>2, PTL DEF Spec

\* Every reachable state is well typed: the buffer never holds more than
\* MAX_PENDING_DELTAS contracts, and only streaming venues are held.
THEOREM RuntimeTypeCorrect == Spec => []TypeOK
  <1>1. RInv => TypeOK
    BY DEF RInv, RuntimeTypes
  <1>2. QED
    BY <1>1, RuntimeInvariant, PTL

-----------------------------------------------------------------------------
(* ChainRuntime implements ChainFeed.                                      *)

LEMMA ArrivesFeed ==
    ASSUME RuntimeTypes, NEW v \in Venues, Arrives(v)
    PROVE  UNCHANGED feedVars \/ \E data \in Chains : FeedSnapshot(data)
  <1> DEFINE m == Head(wire[v])
  <1>1. CASE m.kind = "chain" /\ OnChain(v, m)
    BY <1>1, ArrivesHead, OnChainIsCases DEF OnChainCases, NothingLearnt
  <1>2. CASE OnDeltas(m) \/ OnAcquired(v)
    BY <1>2 DEF OnDeltas, OnAcquired
  <1>3. QED
    BY <1>1, <1>2 DEF Arrives

LEMMA NextFeed ==
    ASSUME RInv, [Next]_vars
    PROVE  [FeedNext]_feedVars
  <1> USE DEF RInv
  <1>1. ASSUME NEW s \in Symbols, VenueTicks(s) PROVE UNCHANGED feedVars
    BY <1>1 DEF VenueTicks
  <1>2. ASSUME NEW v \in Venues, FlushBatch(v) \/ ServeFetch(v) \/ ServeSubscribe(v)
        PROVE  UNCHANGED feedVars
    BY <1>2 DEF FlushBatch, ServeFetch, ServeSubscribe
  <1>3. ASSUME NEW v \in Venues, Arrives(v)
        PROVE  UNCHANGED feedVars \/ \E data \in Chains : FeedSnapshot(data)
    BY <1>3, ArrivesFeed
  <1>4. CASE Initialize \/ Subscribe \/ FetchSnapshotData \/ LateVenueRebuild \/ PushResync
    BY <1>4, RebuildStep
  <1>5. CASE Unsubscribe
    BY <1>5 DEF Unsubscribe
  <1>6. CASE PushDelta
    BY <1>6, PushDeltaFeed DEF FeedNext
  <1>7. CASE UNCHANGED vars
    BY <1>7 DEF vars, feedVars
  <1>8. QED
    BY <1>1, <1>2, <1>3, <1>4, <1>5, <1>6, <1>7 DEF Next, FeedNext

\* Whatever arrives in whatever order, a runtime's listeners are told a
\* ChainFeed: full chains, and patches of contracts the chain holds that carry
\* all that changed (buildSnapshot, pushDelta, applyDeltas).
THEOREM FeedRefinement == Spec => ImplementsFeed
  <1>1. Init => FeedInit
    BY DEF Init
  <1>2. RInv /\ [Next]_vars => [FeedNext]_feedVars
    BY NextFeed
  <1>3. QED
    BY <1>1, <1>2, RuntimeInvariant, PTL DEF Spec, ImplementsFeed, FeedSpec

-----------------------------------------------------------------------------
(* A runtime of one venue catches up.                                      *)

\* An answer that will be shown is being read, or on its way.
Rebuilding(v) ==
    \/ \E b \in builds : b.version = buildVersion /\ v \in b.unread
    \/ \E i \in 1..Len(wire[v]) : wire[v][i].kind = "chain" /\ wire[v][i].version = buildVersion

\* What the chain shows of s is the last quote, or something is under way
\* that will replace it.
ShownOrComing(s) ==
    listening /\ VenueOf[s] \in held /\ chain[s] # None =>
        \/ chain[s] = quote[s]
        \/ Superseded(s, 0)
        \/ s \in DOMAIN pending
        \/ needsResync
        \/ lateTimer
        \/ Rebuilding(VenueOf[s])

Shown == \A s \in Symbols : ShownOrComing(s)

LEMMA ShownAtRest ==
    ASSUME RuntimeTypes, Shown
    PROVE  CaughtUp
  <1> SUFFICES ASSUME AtRest, NEW s \in Symbols, chain[s] # None, VenueOf[s] \in held
               PROVE  chain[s] = quote[s]
    BY DEF CaughtUp
  <1>1. VenueOf[s] \in Venues
    BY Constants
  <1>2. Len(wire[VenueOf[s]]) = 0
    BY <1>1 DEF AtRest
  <1>3. batch = {} /\ builds = {} /\ DOMAIN pending = {} /\ ~needsResync /\ ~lateTimer /\ listening
    BY DEF AtRest
  <1>4. QED
    BY <1>2, <1>3 DEF Shown, ShownOrComing, Superseded, Rebuilding

\* A rebuild that begins will read every contract.
LEMMA BuildSnapshotShown ==
    ASSUME RuntimeTypes, BuildSnapshot
    PROVE  Shown'
  <1> DEFINE new == [version |-> buildVersion + 1, cutoff |-> deltaVersion, unread |-> Venues,
                     waiting |-> Venues, data |-> [s \in Symbols |-> None]]
  <1>1. new \in builds' /\ new.version = buildVersion' /\ new.unread = Venues
    BY DEF BuildSnapshot
  <1>2. \A s \in Symbols : VenueOf[s] \in Venues
    BY Constants
  <1> HIDE DEF new
  <1>3. \A s \in Symbols : \E b \in builds' : b.version = buildVersion' /\ VenueOf[s] \in b.unread
    BY <1>1, <1>2
  <1>4. QED
    BY <1>3 DEF Shown, ShownOrComing, Rebuilding

\* A worker's posts lose nothing that is on its way.
LEMMA PostedShown ==
    ASSUME Shown, UNCHANGED <<chain, quote, held, listening, pending, needsResync, lateTimer>>,
           \A s \in Symbols : Superseded(s, 0) => Superseded(s, 0)',
           \A u \in Venues : Rebuilding(u) => Rebuilding(u)'
    PROVE  Shown'
  BY Constants DEF Shown, ShownOrComing

LEMMA PostRebuilds ==
    ASSUME RuntimeTypes, NEW v \in Venues, NEW m \in Messages, Post(v, m), UNCHANGED buildVars
    PROVE  \A u \in Venues : Rebuilding(u) => Rebuilding(u)'
  BY PostFacts DEF Posted, Rebuilding, buildVars

LEMMA VenueTicksShown ==
    ASSUME RInv, Shown, NEW t \in Symbols, VenueTicks(t)
    PROVE  Shown'
  <1>1. UNCHANGED <<chain, wire, held, listening, pending, needsResync, lateTimer, builds, buildVersion>>
    BY DEF VenueTicks, feedVars, bufferVars, buildVars
  <1>2. /\ \A s \in Symbols \ {t} : quote'[s] = quote[s]
        /\ batch \subseteq batch'
        /\ VenueOf[t] \in held => t \in batch'
    BY DEF VenueTicks, RInv, RuntimeTypes, TypeOK
  <1>3. \A s \in Symbols : Superseded(s, 0) => Superseded(s, 0)'
    BY <1>1, <1>2 DEF Superseded, Carries
  <1>4. VenueOf[t] \in held => Superseded(t, 0)'
    BY <1>2 DEF Superseded
  <1>5. \A u \in Venues : Rebuilding(u) => Rebuilding(u)'
    BY <1>1 DEF Rebuilding
  <1>6. QED
    BY <1>1, <1>2, <1>3, <1>4, <1>5, Constants DEF Shown, ShownOrComing

LEMMA FlushBatchShown ==
    ASSUME RInv, Shown, NEW v \in Venues, FlushBatch(v)
    PROVE  Shown'
  <1> DEFINE m == [kind |-> "deltas", quotes |-> [s \in batch \cap Listed(v) |-> quote[s]]]
  <1>1. m \in Messages /\ Post(v, m)
    <2>0. batch \cap Listed(v) \in SUBSET Symbols
      BY DEF Listed
    <2>1. [s \in batch \cap Listed(v) |-> quote[s]] \in Patches
      BY <2>0, PatchIntro DEF RInv, RuntimeTypes, TypeOK
    <2>2. QED
      BY <2>1, DeltasPosted DEF FlushBatch
  <1> HIDE DEF m
  <1>2. UNCHANGED <<chain, quote, held, listening, pending, needsResync, lateTimer, buildVars>>
    BY DEF FlushBatch, feedVars, bufferVars
  <1>3. \A s \in Symbols : Superseded(s, 0) => Superseded(s, 0)'
    BY FlushBatchKeeps DEF RInv
  <1>4. \A u \in Venues : Rebuilding(u) => Rebuilding(u)'
    BY <1>1, <1>2, PostRebuilds DEF RInv
  <1>5. QED
    BY <1>2, <1>3, <1>4, PostedShown

LEMMA ServeSubscribeShown ==
    ASSUME RInv, Shown, NEW v \in Venues, ServeSubscribe(v)
    PROVE  Shown'
  <1> DEFINE m == [kind |-> "acquired"]
  <1>1. m \in Messages /\ Post(v, m)
    BY AcquiredPosted DEF ServeSubscribe
  <1> HIDE DEF m
  <1>2. UNCHANGED <<chain, quote, batch, held, listening, pending, needsResync, lateTimer, buildVars>>
    BY DEF ServeSubscribe, feedVars, bufferVars
  <1>3. \A s \in Symbols : Superseded(s, 0) => Superseded(s, 0)'
    BY <1>1, <1>2, PostKeeps DEF RInv
  <1>4. \A u \in Venues : Rebuilding(u) => Rebuilding(u)'
    BY <1>1, <1>2, PostRebuilds DEF RInv
  <1>5. QED
    BY <1>2, <1>3, <1>4, PostedShown

\* What a build still had to read is read, and its answer posted.
LEMMA ServeFetchShown ==
    ASSUME RInv, Shown, NEW v \in Venues, ServeFetch(v)
    PROVE  Shown'
  <1>1. PICK b \in builds, ok \in BOOLEAN :
           /\ Post(v, [kind |-> "chain", version |-> b.version,
                       quotes |-> [s \in Listed(v) |-> IF ok THEN quote[s] ELSE None]])
           /\ builds' = (builds \ {b}) \cup {[b EXCEPT !.unread = @ \ {v}]}
    BY DEF ServeFetch
  <1> DEFINE q == [s \in Listed(v) |-> IF ok THEN quote[s] ELSE None]
             m == [kind |-> "chain", version |-> b.version, quotes |-> q]
             new == [b EXCEPT !.unread = @ \ {v}]
  <1>2. m \in Messages /\ m.kind = "chain" /\ m.version = b.version
    <2>1. q \in [Listed(v) -> {None} \cup Quotes]
      BY DEF Listed, RInv, RuntimeTypes, TypeOK
    <2>2. b.version \in 1..MaxBuilds
      BY Constants DEF RInv, RuntimeTypes, TypeOK
    <2>3. QED
      BY <2>1, <2>2, ChainPosted
  <1>3. b \in BuildRecords /\ new.version = b.version /\ new.unread = b.unread \ {v}
    BY DEF RInv, RuntimeTypes, BuildRecords
  <1>4. Post(v, m) /\ builds' = (builds \ {b}) \cup {new}
    BY <1>1
  <1> HIDE DEF m, new
  <1>5. UNCHANGED <<chain, quote, batch, held, listening, pending, needsResync, lateTimer, buildVersion>>
    BY DEF ServeFetch, feedVars, venueVars, bufferVars
  <1>6. \A s \in Symbols : Superseded(s, 0) => Superseded(s, 0)'
    BY <1>2, <1>4, <1>5, PostKeeps DEF RInv
  <1>7. Posted(v, m)
    BY <1>2, <1>4, PostFacts DEF RInv
  <1>8. ASSUME NEW u \in Venues, Rebuilding(u) PROVE Rebuilding(u)'
    <2>1. CASE \E i \in 1..Len(wire[u]) : wire[u][i].kind = "chain" /\ wire[u][i].version = buildVersion
      BY <1>5, <1>7, <2>1 DEF Posted, Rebuilding
    <2>2. CASE \E x \in builds : x.version = buildVersion /\ u \in x.unread
      <3>1. PICK x \in builds : x.version = buildVersion /\ u \in x.unread
        BY <2>2
      <3>2. CASE x = b /\ u = v
        BY <1>2, <1>5, <1>7, <3>1, <3>2 DEF Posted, Rebuilding
      <3>3. CASE x = b /\ u # v
        BY <1>3, <1>4, <1>5, <3>1, <3>3 DEF Rebuilding
      <3>4. CASE x # b
        BY <1>4, <1>5, <3>1, <3>4 DEF Rebuilding
      <3>5. QED
        BY <3>2, <3>3, <3>4
    <2>3. QED
      BY <1>8, <2>1, <2>2 DEF Rebuilding
  <1>9. QED
    BY <1>5, <1>6, <1>8, PostedShown

\* An answer on its way stays so while another message is taken in.
LEMMA ArrivesRebuilds ==
    ASSUME RuntimeTypes, NEW v \in Venues, Arrives(v),
           ~(wire[v][1].kind = "chain" /\ wire[v][1].version = buildVersion),
           \A b \in builds : b.version = buildVersion => b \in builds'
    PROVE  Rebuilding(v) => Rebuilding(v)'
  <1>1. Consumed(v) /\ buildVersion' = buildVersion
    BY ArrivesFacts DEF Arrives
  <1>2. CASE \E b \in builds : b.version = buildVersion /\ v \in b.unread
    BY <1>1, <1>2 DEF Rebuilding
  <1>3. ASSUME NEW i \in 1..Len(wire[v]), wire[v][i].kind = "chain", wire[v][i].version = buildVersion
        PROVE  Rebuilding(v)'
    <2>1. i > 1
      BY <1>3
    <2>2. i - 1 \in 1..Len(wire'[v]) /\ wire'[v][i - 1] = wire[v][i]
      BY <1>1, <2>1 DEF Consumed
    <2>3. QED
      BY <1>1, <1>3, <2>2 DEF Rebuilding
  <1>4. QED
    BY <1>2, <1>3 DEF Rebuilding

\* The one venue's answer is the whole chain, and only that of the newest
\* build is shown.
LEMMA OnChainShown ==
    ASSUME RInv, Shown, NEW v \in Venues, Venues = {v}, Arrives(v),
           Head(wire[v]).kind = "chain", OnChain(v, Head(wire[v]))
    PROVE  Shown'
  <1> USE DEF RInv
  <1> DEFINE m == Head(wire[v])
  <1>1. Consumed(v) /\ m = wire[v][1] /\ m \in Messages /\ m.kind = "chain"
    BY ArrivesFacts, ArrivesHead DEF Consumed
  <1>2. UNCHANGED <<quote, batch, streaming, listening, buildVersion, held, lateTimer>>
    BY DEF Arrives, OnChain, venueVars
  <1>3. \A s \in Symbols : VenueOf[s] = v
    BY Constants
  <1>4. PICK b \in builds :
           /\ b.version = m.version
           /\ builds' = builds \ {b}
           /\ \/ b.version # buildVersion /\ NothingLearnt
              \/ b.version = buildVersion /\ chain' = Applied(m.quotes, b.data)
    <2>1. \A b \in builds : b.waiting \subseteq {v}
      BY DEF RuntimeTypes, BuildRecords
    <2>2. OnChainCases(v, m)
      BY <1>1, OnChainIsCases
    <2> HIDE DEF m
    <2>3. QED
      BY <2>1, <2>2 DEF OnChainCases, FeedSnapshot
  <1>5. m.kind = "chain" /\ DOMAIN m.quotes = Symbols
    <2>1. Listed(v) = Symbols
      BY <1>3 DEF Listed
    <2> HIDE DEF m
    <2>2. QED
      BY <1>1, <2>1 DEF Consumed, WireInv, OwnContracts
  <1>6. \A s \in Symbols : ~Carries(v, 1, s)
    BY <1>1, <1>5 DEF Carries
  <1> HIDE DEF m
  <1>7. CASE b.version # buildVersion /\ NothingLearnt
    <2>1. UNCHANGED <<chain, pending, needsResync>>
      BY <1>7 DEF NothingLearnt, feedVars
    <2>2. Rebuilding(v) => Rebuilding(v)'
      BY <1>1, <1>4, <1>7, ArrivesRebuilds
    <2>3. \A s \in Symbols : Superseded(s, 0) => Superseded(s, 0)'
      BY <1>6, ArrivesKeeps
    <2>4. QED
      BY <1>2, <2>1, <2>2, <2>3, PostedShown
  <1>8. CASE b.version = buildVersion /\ chain' = Applied(m.quotes, b.data)
    <2>1. \A s \in Symbols : chain'[s] = m.quotes[s]
      BY <1>5, <1>8 DEF Applied
    <2>2. v \in held => ~NotYetUp(v, 1)
      BY DEF NotYetUp, WireInv, AnnouncedOnce, RuntimeTypes, TypeOK
    <2>3. \A s \in Symbols : m.quotes[s] \in {None, quote[s]} \/ Superseded(s, 1) \/ NotYetUp(v, 1)
      BY <1>1, <1>3, <1>5 DEF Consumed, WireInv, ReadsAreFollowed
    <2>4. \A s \in Symbols : Superseded(s, 1) => Superseded(s, 0)'
      BY <1>3, ArrivesKeeps
    <2>5. QED
      BY <1>2, <1>3, <2>1, <2>2, <2>3, <2>4 DEF Shown, ShownOrComing
  <1>9. QED
    BY <1>4, <1>7, <1>8

LEMMA OnDeltasShown ==
    ASSUME RInv, Shown, NEW v \in Venues, Venues = {v}, Arrives(v),
           Head(wire[v]).kind = "deltas", OnDeltas(Head(wire[v]))
    PROVE  Shown'
  <1> USE DEF RInv
  <1> DEFINE m == Head(wire[v])
             merged == DOMAIN pending \cup DOMAIN m.quotes
  <1>1. Consumed(v) /\ m = wire[v][1]
    BY ArrivesFacts DEF Consumed
  <1>2. UNCHANGED <<chain, quote, batch, streaming, listening, builds, buildVersion, held, lateTimer>>
    BY DEF Arrives, OnDeltas, venueVars, feedVars
  <1>3. \A s \in Symbols : VenueOf[s] = v
    BY Constants
  <1>4. Rebuilding(v) => Rebuilding(v)'
    BY <1>1, <1>2, ArrivesRebuilds
  <1>5. \A s \in Symbols : Superseded(s, 0) => Superseded(s, 0)' \/ s \in DOMAIN m.quotes
    BY <1>1, ArrivesKeeps DEF Carries
  <1>6. CASE ~listening
    BY <1>2, <1>6 DEF Shown, ShownOrComing
  <1>7. CASE Overflow
    BY <1>7 DEF Overflow, Shown, ShownOrComing
  <1>8. CASE DOMAIN pending' = merged /\ UNCHANGED needsResync
    BY <1>2, <1>3, <1>4, <1>5, <1>8 DEF Shown, ShownOrComing
  <1>9. QED
    BY <1>6, <1>7, <1>8 DEF OnDeltas

\* A venue that is held only now is folded in by a rebuild, if anything was
\* built yet.
LEMMA OnAcquiredShown ==
    ASSUME RInv, Shown, NEW v \in Venues, Arrives(v), OnAcquired(v)
    PROVE  Shown'
  <1>1. buildVersion = 0 \/ buildVersion > 0
    BY DEF RInv, RuntimeTypes, TypeOK
  <1>2. chain' = chain /\ (lateTimer' \/ buildVersion = 0)
    BY <1>1, Zenon DEF OnAcquired, feedVars
  <1>3. CASE lateTimer'
    BY <1>3 DEF Shown, ShownOrComing
  <1>4. CASE buildVersion = 0
    BY <1>2, <1>4 DEF RInv, NothingBuilt, Blank, Shown, ShownOrComing
  <1>5. QED
    BY <1>2, <1>3, <1>4

\* A push shows what was pending of the contracts the chain holds.
LEMMA PushDeltaShown ==
    ASSUME RInv, Shown, PushDelta
    PROVE  Shown'
  <1>1. CASE BuildSnapshot
    BY <1>1, BuildSnapshotShown DEF RInv
  <1>2. CASE UNCHANGED buildVars
    <2>1. UNCHANGED <<quote, batch, wire, held, listening, needsResync, lateTimer, builds, buildVersion>>
      BY <1>2 DEF PushDelta, venueVars, buildVars
    <2>2. \A s \in Symbols : chain'[s] = IF s \in Known THEN pending[s] ELSE chain[s]
      <3>1. CASE Known = {}
        BY <3>1 DEF PushDelta, feedVars
      <3>2. CASE Known # {}
        BY <3>2 DEF PushDelta, Applied
      <3>3. QED
        BY <3>1, <3>2
    <2>3. \A s \in Symbols : Superseded(s, 0) => Superseded(s, 0)'
      BY <2>1 DEF Superseded, Carries
    <2>4. \A u \in Venues : Rebuilding(u) => Rebuilding(u)'
      BY <2>1 DEF Rebuilding
    <2>5. \A s \in DOMAIN pending : pending[s] = quote[s] \/ Superseded(s, 0)
      BY DEF RInv, WireInv, PendingIsFollowed
    <2>6. ASSUME NEW s \in Symbols PROVE ShownOrComing(s)'
      <3>1. CASE s \in Known
        BY <2>1, <2>2, <2>3, <2>5, <3>1 DEF Known, ShownOrComing
      <3>2. CASE s \in DOMAIN pending \ Known
        BY <2>2, <3>2 DEF Known, ShownOrComing
      <3>3. CASE s \notin DOMAIN pending
        BY <2>1, <2>2, <2>3, <2>4, <3>3, Constants DEF Known, Shown, ShownOrComing
      <3>4. QED
        BY <3>1, <3>2, <3>3
    <2>7. QED
      BY <2>6 DEF Shown
  <1>3. QED
    BY <1>1, <1>2 DEF PushDelta

LEMMA NextShown ==
    ASSUME RInv, Shown, NEW v \in Venues, Venues = {v}, [Next]_vars
    PROVE  Shown'
  <1>1. ASSUME NEW s \in Symbols, VenueTicks(s) PROVE Shown'
    BY <1>1, VenueTicksShown
  <1>2. CASE FlushBatch(v)
    BY <1>2, FlushBatchShown
  <1>3. CASE ServeFetch(v)
    BY <1>3, ServeFetchShown
  <1>4. CASE ServeSubscribe(v)
    BY <1>4, ServeSubscribeShown
  <1>5. CASE Arrives(v)
    BY <1>5, OnChainShown, OnDeltasShown, OnAcquiredShown DEF Arrives
  <1>6. CASE Initialize \/ Subscribe \/ FetchSnapshotData \/ LateVenueRebuild \/ PushResync
    BY <1>6, RebuildStep, BuildSnapshotShown DEF RInv
  <1>7. CASE Unsubscribe
    BY <1>7 DEF Unsubscribe, Shown, ShownOrComing
  <1>8. CASE PushDelta
    BY <1>8, PushDeltaShown
  <1>9. CASE UNCHANGED vars
    BY <1>9 DEF vars, Shown, ShownOrComing, Superseded, Carries, Rebuilding
  <1>10. QED
    BY <1>1, <1>2, <1>3, <1>4, <1>5, <1>6, <1>7, <1>8, <1>9 DEF Next

\* A runtime of a single venue at rest shows the last quote of every contract
\* it holds, whatever overflowed, was dropped while nobody listened or came
\* late.  The hypothesis is needed: a runtime of two venues may not (the run
\* chain_runtime_two_venues shows how).
THEOREM CatchesUpAlone ==
    ASSUME NEW CONSTANT v, Venues = {v}
    PROVE  Spec => []CaughtUp
  <1>1. Init => Shown
    BY DEF Init, Shown, ShownOrComing
  <1>2. RInv /\ Shown /\ [Next]_vars => Shown'
    BY NextShown
  <1>3. RInv /\ Shown => CaughtUp
    BY ShownAtRest DEF RInv
  <1>4. QED
    BY <1>1, <1>2, <1>3, RuntimeInvariant, PTL DEF Spec
=============================================================================

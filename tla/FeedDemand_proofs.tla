------------------------- MODULE FeedDemand_proofs -------------------------
(***************************************************************************)
(* Proofs about who keeps a chain alive and whom the venue's feed serves   *)
(* (the two that MCFeedDemand runs side by side).                          *)
(*                                                                         *)
(* ChainLeases, for any number of sockets, chains, runtimes and runs of    *)
(* cleanup: its type invariant, and that no lease is left behind, which    *)
(* rests on what a socket's session variable means - the session it names  *)
(* is wanted, and is that socket's own.  With one chain the counts of the  *)
(* leases agree and a pinned runtime is kept; with two, the finding of the *)
(* run chain_leases_two_chains is in the way.                              *)
(*                                                                         *)
(* VenueFeed, for any number of callers, chains, deaths of the worker and  *)
(* refusals of the venue: FeedInv is the inductive invariant.              *)
(***************************************************************************)
EXTENDS ChainLeases, VenueFeed, FiniteSetTheorems, TLAPS

Wanted == {"acquiring", "live"}
LeaseRecords ==
    [state : {"acquiring", "live", "cancelled"}, conn : Conns, key : Keys, runtime : Runtimes]
Lists == UNION {[K -> Runtimes] : K \in SUBSET Keys}

\* A release leaves counts that are naturals.
LEMMA ReleasedIsCount ==
    ASSUME TypeOK, NEW counts \in [Runtimes -> Nat], NEW k \in Keys
    PROVE  Released(counts, k) \in [Runtimes -> Nat]
<1>1. CASE entries[k] = Nil
  BY <1>1 DEF Released
<1>2. CASE entries[k] # Nil
  <2>1. entries[k] \in Runtimes
    BY <1>2 DEF TypeOK
  <2>2. (IF counts[entries[k]] > 0 THEN counts[entries[k]] - 1 ELSE 0) \in Nat
    BY <2>1
  <2> QED BY <1>2, <2>2 DEF Released
<1> QED BY <1>1, <1>2

\* The session a socket names holds a lease record.
LEMMA SessionRecord ==
    ASSUME TypeOK, NEW c \in Conns, session[c] # Nil
    PROVE  /\ session[c] \in Leases
           /\ leases[session[c]].state \in Wanted => leases[session[c]] \in LeaseRecords
<1>1. session[c] \in Leases
  BY DEF TypeOK
<1>2. leases[session[c]] \in LeaseRecords \cup {NoLease}
  BY <1>1 DEF TypeOK, LeaseRecords
<1>3. NoLease.state \notin Wanted
  BY DEF NoLease, Wanted
<1> QED BY <1>1, <1>2, <1>3

\* Disposing of a socket's session keeps leases and counts of their types.
LEMMA DisposedOK ==
    ASSUME TypeOK, NEW c \in Conns,
           session[c] # Nil => leases[session[c]].state \in Wanted
    PROVE  /\ Disposed(c) \in [Leases -> LeaseRecords \cup {NoLease}]
           /\ CountsWithout(c) \in [Runtimes -> Nat]
<1>1. leases \in [Leases -> LeaseRecords \cup {NoLease}] /\ refCount \in [Runtimes -> Nat]
  BY DEF TypeOK, LeaseRecords
<1>2. Disposed(c) \in [Leases -> LeaseRecords \cup {NoLease}]
  <2>1. CASE session[c] = Nil
    BY <1>1, <2>1 DEF Disposed
  <2>2. CASE session[c] # Nil
    <3>1. session[c] \in Leases /\ leases[session[c]] \in LeaseRecords
      BY <2>2, SessionRecord
    <3>2. [leases[session[c]] EXCEPT !.state = "cancelled"] \in LeaseRecords
      BY <3>1 DEF LeaseRecords
    <3> QED BY <1>1, <2>2, <3>1, <3>2 DEF Disposed
  <2> QED BY <2>1, <2>2
<1>3. CountsWithout(c) \in [Runtimes -> Nat]
  <2>1. CASE session[c] # Nil /\ leases[session[c]].state = "live"
    <3>1. leases[session[c]].key \in Keys
      BY <2>1, SessionRecord DEF LeaseRecords, Wanted
    <3> QED BY <1>1, <2>1, <3>1, ReleasedIsCount DEF CountsWithout
  <2>2. CASE ~(session[c] # Nil /\ leases[session[c]].state = "live")
    BY <1>1, <2>2 DEF CountsWithout
  <2> QED BY <2>1, <2>2
<1> QED BY <1>2, <1>3

\* A socket's session variable names a session that is wanted, and its own.
SessionIsOwn ==
    \A c \in Conns :
        session[c] # Nil => leases[session[c]].state \in Wanted /\ leases[session[c]].conn = c

IInv == TypeOK /\ SessionIsOwn /\ NoLeaseLeftBehind

\* Reclaiming what a list of idle runtimes names keeps the types.
LEMMA ReclaimType ==
    ASSUME TypeOK, NEW p \in Passes, NEW list \in Lists,
           NEW k \in DOMAIN list, Reclaim(p, k, list)
    PROVE  TypeOK'
<1>1. PICK K \in SUBSET Keys : list \in [K -> Runtimes]
  BY DEF Lists
<1>2. list[k] \in Runtimes /\ k \in Keys /\ DOMAIN list = K
  BY <1>1
<1>3. [j \in DOMAIN list \ {k} |-> list[j]] \in Lists
  <2>1. [j \in DOMAIN list \ {k} |-> list[j]] \in [K \ {k} -> Runtimes]
    BY <1>1
  <2>2. K \ {k} \in SUBSET Keys
    BY <1>1
  <2> QED BY <2>1, <2>2 DEF Lists
<1>4. passes' \in [Passes -> [current : Runtimes \cup {Nil}, rest : Lists]]
  BY <1>2, <1>3 DEF TypeOK, Reclaim, Lists
<1>5. entries' \in [Keys -> Runtimes \cup {Nil}] /\ disposed' \subseteq Runtimes
  BY <1>2 DEF TypeOK, Reclaim
<1> QED BY <1>4, <1>5 DEF TypeOK, Reclaim, Lists

\* A cleanup's list is one.
LEMMA CleanupType ==
    ASSUME TypeOK, NEW p \in Passes, CleanupBegins(p) \/ CleanupGoesOn(p)
    PROVE  TypeOK'
<1>1. CASE CleanupBegins(p)
  <2> DEFINE list == [j \in Stale |-> entries[j]]
  <2>1. PICK k \in Stale : Reclaim(p, k, list)
    BY <1>1 DEF CleanupBegins
  <2>2. Stale \in SUBSET Keys /\ \A j \in Stale : entries[j] \in Runtimes
    BY DEF Stale, TypeOK
  <2>3. list \in [Stale -> Runtimes]
    BY <2>2
  <2>4. list \in Lists
    BY <2>2, <2>3 DEF Lists
  <2>5. k \in DOMAIN list
    OBVIOUS
  <2> HIDE DEF list
  <2> QED BY <2>1, <2>4, <2>5, ReclaimType
<1>2. CASE CleanupGoesOn(p)
  <2>1. passes[p].rest \in Lists
    BY DEF TypeOK, Lists
  <2>2. CASE DOMAIN passes[p].rest = {}
    <3>1. NoPass \in [current : Runtimes \cup {Nil}, rest : Lists]
      <4>1. [k \in {} |-> Nil] \in [{} -> Runtimes]
        OBVIOUS
      <4>2. [k \in {} |-> Nil] \in Lists
        BY <4>1 DEF Lists
      <4> QED BY <4>2 DEF NoPass
    <3> QED BY <1>2, <2>2, <3>1 DEF TypeOK, CleanupGoesOn, Lists
  <2>3. CASE DOMAIN passes[p].rest # {}
    <3>1. PICK k \in DOMAIN passes[p].rest : Reclaim(p, k, passes[p].rest)
      BY <1>2, <2>3 DEF CleanupGoesOn
    <3> QED BY <2>1, <3>1, ReclaimType
  <2> QED BY <2>2, <2>3
<1> QED BY <1>1, <1>2

\* The runtime acquire() takes a lease on is one.
LEMMA RuntimeForType ==
    ASSUME TypeOK, NEW k \in Keys, entries[k] # Nil \/ \E r \in Runtimes : ~InUse(r)
    PROVE  RuntimeFor(k) \in Runtimes
<1>1. CASE entries[k] # Nil
  BY <1>1 DEF RuntimeFor, TypeOK
<1>2. CASE entries[k] = Nil
  <2>1. \E r \in Runtimes : ~InUse(r)
    BY <1>2
  <2>2. Fresh \in Runtimes
    BY <2>1 DEF Fresh
  <2> QED BY <1>2, <2>2 DEF RuntimeFor
<1> QED BY <1>1, <1>2

\* The invariant's part about the sessions reads nothing but these two.
LEMMA SessionsUnchanged ==
    ASSUME IInv, TypeOK', UNCHANGED <<leases, session>>
    PROVE  IInv'
BY DEF IInv, SessionIsOwn, NoLeaseLeftBehind

LEMMA LeaveStep ==
    ASSUME IInv, NEW c \in Conns, Leave(c)
    PROVE  IInv'
<1>1. TypeOK'
  <2>1. Disposed(c) \in [Leases -> LeaseRecords \cup {NoLease}] /\ CountsWithout(c) \in [Runtimes -> Nat]
    BY DisposedOK DEF IInv, SessionIsOwn
  <2>2. session' \in [Conns -> Leases \cup {Nil}]
    BY DEF IInv, TypeOK, Leave
  <2> QED BY <2>1, <2>2 DEF IInv, TypeOK, Leave, LeaseRecords
<1>2. session[c] \in Leases /\ leases[session[c]] \in LeaseRecords /\ leases[session[c]].conn = c
  BY SessionRecord DEF IInv, SessionIsOwn, Leave
<1>3. leases'[session[c]].state \notin Wanted
  <2>1. leases'[session[c]] =
           IF leases[session[c]].state = "acquiring"
           THEN [leases[session[c]] EXCEPT !.state = "cancelled"] ELSE NoLease
    BY <1>2 DEF Leave, Disposed, IInv, TypeOK
  <2> QED BY <1>2, <2>1 DEF NoLease, Wanted, LeaseRecords
<1>4. \A l \in Leases : l # session[c] => leases'[l] = leases[l]
  BY DEF Leave, Disposed, IInv, TypeOK
<1>5. SessionIsOwn'
  <2> SUFFICES ASSUME NEW d \in Conns, session'[d] # Nil
               PROVE  leases'[session'[d]].state \in Wanted /\ leases'[session'[d]].conn = d
    BY DEF SessionIsOwn
  <2>1. d # c /\ session'[d] = session[d]
    BY DEF Leave, IInv, TypeOK
  <2>2. session[d] \in Leases /\ leases[session[d]].state \in Wanted /\ leases[session[d]].conn = d
    BY <2>1 DEF IInv, SessionIsOwn, TypeOK
  <2> QED BY <1>2, <1>4, <2>1, <2>2
<1>6. NoLeaseLeftBehind'
  <2> SUFFICES ASSUME NEW l \in Leases, leases'[l].state \in Wanted
               PROVE  session'[leases'[l].conn] = l
    BY DEF NoLeaseLeftBehind, Wanted
  <2>1. l # session[c] /\ leases'[l] = leases[l]
    BY <1>3, <1>4
  <2>2. session[leases[l].conn] = l
    BY <2>1 DEF IInv, NoLeaseLeftBehind, Wanted
  <2> QED BY <2>1, <2>2 DEF Leave, IInv, TypeOK
<1> QED BY <1>1, <1>5, <1>6 DEF IInv

LEMMA SubscribeStep ==
    ASSUME IInv, NEW c \in Conns, NEW k \in Keys, Subscribe(c, k)
    PROVE  IInv'
<1>0. TypeOK /\ SessionIsOwn /\ NoLeaseLeftBehind
  BY DEF IInv
<1>1. PICK l \in Leases :
          /\ leases[l] = NoLease
          /\ session' = [session EXCEPT ![c] = l]
          /\ leases' = [Disposed(c) EXCEPT ![l] =
                           [state |-> "acquiring", conn |-> c, key |-> k, runtime |-> RuntimeFor(k)]]
  BY DEF Subscribe
<1>2. RuntimeFor(k) \in Runtimes
  BY <1>0, RuntimeForType DEF Subscribe
<1>3. Disposed(c) \in [Leases -> LeaseRecords \cup {NoLease}] /\ CountsWithout(c) \in [Runtimes -> Nat]
  BY <1>0, DisposedOK DEF SessionIsOwn
<1>4. TypeOK'
  <2>1. leases' \in [Leases -> LeaseRecords \cup {NoLease}]
    BY <1>1, <1>2, <1>3 DEF LeaseRecords
  <2>2. session' \in [Conns -> Leases \cup {Nil}]
    BY <1>0, <1>1 DEF TypeOK
  <2>3. refCount' \in [Runtimes -> Nat]
    BY <1>2, <1>3 DEF Subscribe
  <2>4. entries' \in [Keys -> Runtimes \cup {Nil}]
    BY <1>0, <1>2 DEF Subscribe, TypeOK
  <2>5. disposed' \subseteq Runtimes /\ idle' \subseteq Runtimes
    BY <1>0 DEF Subscribe, TypeOK
  <2> QED BY <1>0, <2>1, <2>2, <2>3, <2>4, <2>5 DEF Subscribe, TypeOK, LeaseRecords
<1>5. leases'[l].state = "acquiring" /\ leases'[l].conn = c /\ session'[c] = l
  BY <1>0, <1>1, <1>3 DEF TypeOK
<1>6. \A m \in Leases : m \notin {l, session[c]} => leases'[m] = leases[m]
  BY <1>0, <1>1 DEF Disposed, TypeOK
<1>7. session[c] # Nil => session[c] # l /\ leases'[session[c]].state \notin Wanted
  <2> SUFFICES ASSUME session[c] # Nil
               PROVE  session[c] # l /\ leases'[session[c]].state \notin Wanted
    OBVIOUS
  <2>1. session[c] \in Leases /\ leases[session[c]] \in LeaseRecords /\ leases[session[c]].state \in Wanted
    BY <1>0, SessionRecord DEF SessionIsOwn
  <2>2. session[c] # l
    BY <1>1, <2>1 DEF NoLease, Wanted
  <2>3. leases'[session[c]] =
           IF leases[session[c]].state = "acquiring"
           THEN [leases[session[c]] EXCEPT !.state = "cancelled"] ELSE NoLease
    BY <1>0, <1>1, <2>1, <2>2 DEF Disposed, TypeOK
  <2> QED BY <2>1, <2>2, <2>3 DEF NoLease, Wanted, LeaseRecords
<1>8. SessionIsOwn'
  <2> SUFFICES ASSUME NEW d \in Conns, session'[d] # Nil
               PROVE  leases'[session'[d]].state \in Wanted /\ leases'[session'[d]].conn = d
    BY DEF SessionIsOwn
  <2>1. CASE d = c
    BY <1>5, <2>1 DEF Wanted
  <2>2. CASE d # c
    <3>1. session'[d] = session[d]
      BY <1>0, <1>1, <2>2 DEF TypeOK
    <3>2. session[d] \in Leases /\ leases[session[d]].state \in Wanted /\ leases[session[d]].conn = d
      BY <1>0, <3>1 DEF SessionIsOwn, TypeOK
    <3>3. session[d] # l
      BY <1>1, <3>2 DEF NoLease, Wanted
    <3>4. session[d] # session[c]
      <4>1. session[c] = Nil \/ leases[session[c]].conn = c
        BY <1>0 DEF SessionIsOwn
      <4> QED BY <2>2, <3>1, <3>2, <4>1
    <3> QED BY <1>6, <3>1, <3>2, <3>3, <3>4
  <2> QED BY <2>1, <2>2
<1>9. NoLeaseLeftBehind'
  <2> SUFFICES ASSUME NEW m \in Leases, leases'[m].state \in Wanted
               PROVE  session'[leases'[m].conn] = m
    BY DEF NoLeaseLeftBehind, Wanted
  <2>1. CASE m = l
    BY <1>5, <2>1
  <2>2. CASE m # l
    <3>1. m # session[c]
      <4>1. m # Nil
        BY LeaseAssumption
      <4> QED BY <1>7, <4>1
    <3>2. leases'[m] = leases[m] /\ session[leases[m].conn] = m
      BY <1>0, <1>6, <2>2, <3>1 DEF NoLeaseLeftBehind, Wanted
    <3>3. session'[leases[m].conn] = m
      BY <1>0, <1>1, <3>1, <3>2 DEF TypeOK
    <3> QED BY <3>2, <3>3
  <2> QED BY <2>1, <2>2
<1> QED BY <1>4, <1>8, <1>9 DEF IInv

LEMMA AcquiredStep ==
    ASSUME IInv, NEW l \in Leases, Acquired(l)
    PROVE  IInv'
<1>0. TypeOK /\ SessionIsOwn /\ NoLeaseLeftBehind
  BY DEF IInv
<1>1. leases[l] \in LeaseRecords
  <2>1. leases[l] \in LeaseRecords \cup {NoLease} /\ leases[l] # NoLease
    BY <1>0 DEF Acquired, TypeOK, LeaseRecords, NoLease
  <2> QED BY <2>1
<1>2. session' = session /\ \A m \in Leases : m # l => leases'[m] = leases[m]
  BY <1>0 DEF Acquired, TypeOK
<1>3. CASE leases[l].state = "acquiring"
  <2>1. leases' = [leases EXCEPT ![l].state = "live"] /\ UNCHANGED <<entries, refCount, idle, disposed, passes>>
    BY <1>3 DEF Acquired
  <2>2. leases'[l] = [leases[l] EXCEPT !.state = "live"]
    BY <1>0, <2>1 DEF TypeOK
  <2>3. leases'[l].state = "live" /\ leases'[l].conn = leases[l].conn
    BY <1>1, <2>2 DEF LeaseRecords
  <2>4. TypeOK'
    <3>1. leases'[l] \in LeaseRecords
      BY <1>1, <2>2 DEF LeaseRecords
    <3>2. leases' \in [Leases -> LeaseRecords \cup {NoLease}]
      BY <1>0, <2>1, <2>2, <3>1 DEF TypeOK, LeaseRecords
    <3> QED BY <1>0, <1>2, <2>1, <3>2 DEF TypeOK, LeaseRecords
  <2>5. SessionIsOwn'
    BY <1>0, <1>2, <2>3, <1>3 DEF SessionIsOwn, Wanted, TypeOK
  <2>6. NoLeaseLeftBehind'
    BY <1>0, <1>2, <2>3, <1>3 DEF NoLeaseLeftBehind
  <2> QED BY <2>4, <2>5, <2>6 DEF IInv
<1>4. CASE leases[l].state = "cancelled"
  <2>1. /\ leases' = [leases EXCEPT ![l] = NoLease]
        /\ refCount' = Released(refCount, leases[l].key)
        /\ idle' \subseteq idle
        /\ UNCHANGED <<entries, disposed, passes>>
    BY <1>4 DEF Acquired
  <2>2. leases'[l].state = "over"
    BY <1>0, <2>1 DEF TypeOK, NoLease
  <2>3. TypeOK'
    <3>1. refCount' \in [Runtimes -> Nat]
      <4>1. leases[l].key \in Keys /\ refCount \in [Runtimes -> Nat]
        BY <1>0, <1>1 DEF TypeOK, LeaseRecords
      <4> QED BY <1>0, <2>1, <4>1, ReleasedIsCount
    <3> QED BY <1>0, <1>2, <2>1, <3>1 DEF TypeOK
  <2>4. SessionIsOwn'
    <3>1. \A c \in Conns : session[c] # l
      <4>1. l # Nil
        BY LeaseAssumption
      <4> QED BY <1>0, <1>4, <4>1 DEF SessionIsOwn, Wanted
    <3> QED BY <1>0, <1>2, <3>1 DEF SessionIsOwn, TypeOK
  <2>5. NoLeaseLeftBehind'
    BY <1>0, <1>2, <2>2 DEF NoLeaseLeftBehind
  <2> QED BY <2>3, <2>4, <2>5 DEF IInv
<1> QED BY <1>3, <1>4 DEF Acquired

LEMMA InitIInv == Init => IInv
<1> SUFFICES ASSUME Init PROVE IInv
  OBVIOUS
<1>1. NoPass \in [current : Runtimes \cup {Nil}, rest : Lists]
  <2>1. [k \in {} |-> Nil] \in [{} -> Runtimes]
    OBVIOUS
  <2>2. [k \in {} |-> Nil] \in Lists
    BY <2>1 DEF Lists
  <2> QED BY <2>2 DEF NoPass
<1>2. TypeOK
  BY <1>1 DEF Init, TypeOK, Lists
<1> QED BY <1>2 DEF IInv, Init, SessionIsOwn, NoLeaseLeftBehind, NoLease

LEMMA StepIInv == IInv /\ [Next]_vars => IInv'
<1> SUFFICES ASSUME IInv, [Next]_vars PROVE IInv'
  OBVIOUS
<1>1. ASSUME NEW k \in Keys, Ages(k) PROVE IInv'
  <2>1. TypeOK'
    BY <1>1 DEF Ages, IInv, TypeOK
  <2> QED BY <1>1, <2>1, SessionsUnchanged DEF Ages
<1>2. ASSUME NEW p \in Passes, CleanupBegins(p) \/ CleanupGoesOn(p) PROVE IInv'
  <2>1. TypeOK'
    BY <1>2, CleanupType DEF IInv
  <2>2. UNCHANGED <<leases, session>>
    BY <1>2 DEF CleanupBegins, CleanupGoesOn, Reclaim
  <2> QED BY <2>1, <2>2, SessionsUnchanged
<1>3. CASE UNCHANGED vars
  BY <1>3 DEF IInv, TypeOK, SessionIsOwn, NoLeaseLeftBehind, vars
<1> QED
  BY <1>1, <1>2, <1>3, LeaveStep, SubscribeStep, AcquiredStep DEF Next

THEOREM Invariance == Spec => []IInv
<1>1. IInv /\ [Next]_vars => IInv'
  BY StepIInv
<1> QED BY <1>1, InitIInv, PTL DEF Spec

\* Sockets, sessions, runtimes and the registry's counts keep their types,
\* whatever the order of subscribes, releases and runs of cleanup.
THEOREM TypeCorrect == Spec => []TypeOK
<1>1. IInv => TypeOK
  BY DEF IInv
<1> QED BY <1>1, Invariance, PTL

\* A session that is served, or will be, is the one its socket has now: no order
\* of subscribe, unsubscribe, close and the end of acquire()'s await leaves a
\* lease nobody will give back (ws-chain.ts:53-92, chain-stream-session.ts:113-165).
THEOREM LeasesAreOwned == Spec => []NoLeaseLeftBehind
<1>1. IInv => NoLeaseLeftBehind
  BY DEF IInv
<1> QED BY <1>1, Invariance, PTL

-----------------------------------------------------------------------------
(* A registry of one chain.  A run of cleanup then has nothing left on its *)
(* list after the first runtime, so that what it reclaims is what it found *)
(* unused.                                                                 *)

InUseBy == {l \in Leases : leases[l] # NoLease}

\* Every lease is on the runtime the registry has, and is counted there.
CountedOn(k) ==
    /\ \A l \in InUseBy : entries[k] # Nil /\ leases[l].runtime = entries[k]
    /\ entries[k] # Nil => entries[k] \notin disposed /\ refCount[entries[k]] = Cardinality(InUseBy)

NothingLeftToReclaim == \A p \in Passes : DOMAIN passes[p].rest = {}

OneChainInv(k) == IInv /\ CountedOn(k) /\ NothingLeftToReclaim

LEMMA LeasesFinite ==
    ASSUME NEW S \in SUBSET Leases
    PROVE  IsFiniteSet(S) /\ Cardinality(S) \in Nat
BY LeaseAssumption, FS_Subset, FS_CardinalityType

LEMMA HoldersAreInUse ==
    ASSUME TypeOK, NEW k \in Keys, CountedOn(k), entries[k] # Nil
    PROVE  Holders(entries[k]) = InUseBy
<1>1. entries[k] \in Runtimes /\ Nil \notin Runtimes
  BY LeaseAssumption DEF TypeOK
<1>2. \A l \in Leases \ InUseBy : leases[l].runtime = Nil
  BY DEF InUseBy, NoLease
<1>3. \A l \in InUseBy : leases[l].runtime = entries[k]
  BY DEF CountedOn
<1> QED BY <1>1, <1>2, <1>3 DEF Holders, InUseBy

\* What one less counted lease leaves.
LEMMA OneReleased ==
    ASSUME TypeOK, NEW k \in Keys, CountedOn(k), NEW l \in InUseBy
    PROVE  /\ entries[k] \in Runtimes
           /\ Released(refCount, k) \in [Runtimes -> Nat]
           /\ Released(refCount, k)[entries[k]] = Cardinality(InUseBy \ {l})
<1>1. entries[k] \in Runtimes /\ refCount[entries[k]] = Cardinality(InUseBy)
  BY DEF CountedOn, TypeOK
<1>2. IsFiniteSet(InUseBy)
  BY LeasesFinite DEF InUseBy
<1>3. Cardinality(InUseBy \ {l}) = Cardinality(InUseBy) - 1
  BY <1>2, FS_RemoveElement
<1>4. Cardinality(InUseBy \ {l}) \in Nat /\ Cardinality(InUseBy) \in Nat
  BY LeasesFinite DEF InUseBy
<1>5. Released(refCount, k) \in [Runtimes -> Nat]
  BY ReleasedIsCount DEF TypeOK
<1>6. entries[k] # Nil
  BY DEF CountedOn
<1>7. Released(refCount, k)[entries[k]] = refCount[entries[k]] - 1
  BY <1>1, <1>3, <1>4, <1>6 DEF Released, TypeOK
<1> QED BY <1>1, <1>3, <1>5, <1>7

\* A socket's session disposed of: one that is live leaves the count, one that
\* is acquiring stays in it.
LEMMA DisposedIsUncounted ==
    ASSUME IInv, NEW k \in Keys, Keys = {k}, CountedOn(k), NEW c \in Conns
    PROVE  LET left == {l \in Leases : Disposed(c)[l] # NoLease} IN
           /\ left \subseteq InUseBy
           /\ \A l \in left : Disposed(c)[l].runtime = leases[l].runtime
           /\ entries[k] # Nil => CountsWithout(c)[entries[k]] = Cardinality(left)
<1>0. TypeOK /\ SessionIsOwn
  BY DEF IInv
<1>1. CASE session[c] = Nil
  BY <1>1 DEF Disposed, CountsWithout, CountedOn, InUseBy
<1>2. CASE session[c] # Nil
  <2> DEFINE l == session[c]
             left == {m \in Leases : Disposed(c)[m] # NoLease}
  <2>1. l \in Leases /\ leases[l] \in LeaseRecords /\ leases[l].state \in Wanted
    BY <1>0, <1>2, SessionRecord DEF SessionIsOwn
  <2>2. leases[l] # NoLease /\ leases[l].key = k /\ l \in InUseBy
    BY <2>1 DEF NoLease, Wanted, LeaseRecords, InUseBy
  <2>3. /\ Disposed(c)[l] = IF leases[l].state = "acquiring"
                            THEN [leases[l] EXCEPT !.state = "cancelled"] ELSE NoLease
        /\ \A m \in Leases : m # l => Disposed(c)[m] = leases[m]
    BY <1>0, <1>2, <2>1 DEF Disposed, TypeOK
  <2> HIDE DEF l
  <2>4. CASE leases[l].state = "acquiring"
    <3>1. /\ Disposed(c)[l].state = "cancelled"
          /\ Disposed(c)[l].runtime = leases[l].runtime
      BY <2>1, <2>3, <2>4 DEF LeaseRecords
    <3>2. left = InUseBy
      BY <2>1, <2>2, <2>3, <3>1 DEF InUseBy, NoLease
    <3>3. CountsWithout(c) = refCount
      BY <1>2, <2>4 DEF CountsWithout, l
    <3> QED BY <2>3, <3>1, <3>2, <3>3 DEF CountedOn
  <2>5. CASE leases[l].state = "live"
    <3>1. left = InUseBy \ {l}
      BY <2>1, <2>2, <2>3, <2>5 DEF InUseBy
    <3>2. CountsWithout(c) = Released(refCount, k)
      BY <1>2, <2>2, <2>5 DEF CountsWithout, l
    <3> QED BY <1>0, <2>2, <2>3, <3>1, <3>2, OneReleased
  <2> QED BY <2>1, <2>4, <2>5 DEF Wanted
<1> QED BY <1>1, <1>2

LEMMA OneChainLeave ==
    ASSUME NEW k \in Keys, Keys = {k}, OneChainInv(k), NEW c \in Conns, Leave(c)
    PROVE  CountedOn(k)'
<1>1. leases' = Disposed(c) /\ refCount' = CountsWithout(c) /\ UNCHANGED <<entries, disposed>>
  BY DEF Leave
<1>2. IInv /\ CountedOn(k)
  BY DEF OneChainInv
<1> DEFINE left == {l \in Leases : Disposed(c)[l] # NoLease}
<1>3. /\ left \subseteq InUseBy
      /\ \A l \in left : Disposed(c)[l].runtime = leases[l].runtime
      /\ entries[k] # Nil => CountsWithout(c)[entries[k]] = Cardinality(left)
  BY <1>2, DisposedIsUncounted
<1>4. InUseBy' = left
  BY <1>1 DEF InUseBy
<1> HIDE DEF left
<1>5. \A l \in left : entries[k] # Nil /\ Disposed(c)[l].runtime = entries[k]
  BY <1>2, <1>3 DEF CountedOn
<1> QED BY <1>1, <1>2, <1>3, <1>4, <1>5 DEF CountedOn

LEMMA OneChainSubscribe ==
    ASSUME NEW k \in Keys, Keys = {k}, OneChainInv(k), NEW c \in Conns, Subscribe(c, k)
    PROVE  CountedOn(k)'
<1>0. IInv /\ TypeOK /\ CountedOn(k) /\ SessionIsOwn
  BY DEF OneChainInv, IInv
<1> DEFINE r == RuntimeFor(k)
           new == [state |-> "acquiring", conn |-> c, key |-> k, runtime |-> r]
           left == {m \in Leases : Disposed(c)[m] # NoLease}
<1>1. PICK l \in Leases :
          /\ leases[l] = NoLease
          /\ session' = [session EXCEPT ![c] = l]
          /\ leases' = [Disposed(c) EXCEPT ![l] = new]
  BY DEF Subscribe
<1>2. r \in Runtimes /\ entries' = [entries EXCEPT ![k] = r]
  BY <1>0, RuntimeForType DEF Subscribe
<1>3. entries'[k] = r /\ r # Nil
  BY <1>0, <1>2, LeaseAssumption DEF TypeOK
<1>4. Disposed(c) \in [Leases -> LeaseRecords \cup {NoLease}] /\ CountsWithout(c) \in [Runtimes -> Nat]
  BY <1>0, DisposedOK DEF SessionIsOwn
<1>5. /\ left \subseteq InUseBy
      /\ \A m \in left : Disposed(c)[m].runtime = leases[m].runtime
      /\ entries[k] # Nil => CountsWithout(c)[entries[k]] = Cardinality(left)
  BY <1>0, DisposedIsUncounted
<1>6. l \notin left
  BY <1>1, <1>5 DEF InUseBy
<1>7. leases'[l] = new /\ \A m \in Leases : m # l => leases'[m] = Disposed(c)[m]
  BY <1>1, <1>4
<1>8. new # NoLease /\ new.runtime = r
  BY DEF NoLease
<1> HIDE DEF r, new
<1>9. InUseBy' = left \cup {l}
  BY <1>6, <1>7, <1>8 DEF InUseBy
<1> HIDE DEF left
<1>10. IsFiniteSet(left) /\ Cardinality(left) \in Nat /\ Cardinality(left \cup {l}) = Cardinality(left) + 1
  BY <1>6, LeasesFinite, FS_AddElement DEF left
<1>11. CASE entries[k] # Nil
  <2>1. r = entries[k]
    BY <1>11 DEF r, RuntimeFor
  <2>2. refCount' = [CountsWithout(c) EXCEPT ![r] = @ + 1] /\ disposed' = disposed
    BY <1>11 DEF Subscribe, r
  <2>3. refCount'[r] = Cardinality(left) + 1
    BY <1>2, <1>4, <1>5, <1>11, <2>1, <2>2
  <2>4. \A m \in left : leases'[m].runtime = r
    BY <1>0, <1>5, <1>6, <1>7, <2>1 DEF CountedOn, left
  <2> QED BY <1>0, <1>3, <1>7, <1>8, <1>9, <1>10, <1>11, <2>1, <2>2, <2>3, <2>4 DEF CountedOn
<1>12. CASE entries[k] = Nil
  <2>1. left = {}
    BY <1>0, <1>5, <1>12 DEF CountedOn
  <2>2. refCount' = [CountsWithout(c) EXCEPT ![r] = 1] /\ disposed' = disposed \ {r}
    BY <1>12 DEF Subscribe, r
  <2>3. refCount'[r] = 1
    BY <1>2, <1>4, <2>2
  <2>4. Cardinality(left) = 0
    BY <2>1, FS_EmptySet
  <2> QED BY <1>3, <1>7, <1>8, <1>9, <1>10, <2>1, <2>2, <2>3, <2>4 DEF CountedOn
<1> QED BY <1>11, <1>12

LEMMA OneChainAcquired ==
    ASSUME NEW k \in Keys, Keys = {k}, OneChainInv(k), NEW l \in Leases, Acquired(l)
    PROVE  CountedOn(k)'
<1>0. TypeOK /\ CountedOn(k)
  BY DEF OneChainInv, IInv
<1>1. leases[l] \in LeaseRecords /\ UNCHANGED <<entries, disposed>>
  BY <1>0 DEF Acquired, TypeOK, LeaseRecords, NoLease
<1>2. leases[l] # NoLease /\ l \in InUseBy /\ leases[l].key = k
  BY <1>1 DEF LeaseRecords, NoLease, InUseBy
<1>3. CASE leases[l].state = "acquiring"
  <2>1. leases' = [leases EXCEPT ![l].state = "live"] /\ refCount' = refCount
    BY <1>3 DEF Acquired
  <2>2. leases'[l].state = "live" /\ leases'[l].runtime = leases[l].runtime
    BY <1>0, <1>1, <2>1 DEF TypeOK, LeaseRecords
  <2>3. \A m \in Leases : m # l => leases'[m] = leases[m]
    BY <1>0, <2>1 DEF TypeOK
  <2>4. InUseBy' = InUseBy
    BY <1>2, <2>2, <2>3 DEF InUseBy, NoLease
  <2> QED BY <1>0, <1>1, <2>1, <2>2, <2>3, <2>4 DEF CountedOn, InUseBy
<1>4. CASE leases[l].state = "cancelled"
  <2>1. leases' = [leases EXCEPT ![l] = NoLease] /\ refCount' = Released(refCount, k)
    BY <1>2, <1>4 DEF Acquired
  <2>2. leases'[l] = NoLease /\ \A m \in Leases : m # l => leases'[m] = leases[m]
    BY <1>0, <2>1 DEF TypeOK
  <2>3. InUseBy' = InUseBy \ {l}
    BY <2>2 DEF InUseBy
  <2> QED BY <1>0, <1>1, <1>2, <2>1, <2>2, <2>3, OneReleased DEF CountedOn, InUseBy
<1> QED BY <1>3, <1>4 DEF Acquired

\* The runtime a run of cleanup reclaims has no lease, and is the last it knows.
LEMMA OneChainCleanup ==
    ASSUME NEW k \in Keys, Keys = {k}, OneChainInv(k), NEW p \in Passes,
           CleanupBegins(p) \/ CleanupGoesOn(p)
    PROVE  CountedOn(k)' /\ NothingLeftToReclaim'
<1>0. TypeOK /\ CountedOn(k) /\ NothingLeftToReclaim
  BY DEF OneChainInv, IInv
<1>1. CASE CleanupBegins(p)
  <2>1. k \in Stale /\ Reclaim(p, k, [j \in Stale |-> entries[j]])
    BY <1>1 DEF CleanupBegins, Stale
  <2>2. InUseBy = {}
    <3>1. CASE entries[k] = Nil
      BY <1>0, <3>1 DEF CountedOn
    <3>2. CASE entries[k] # Nil
      <4>1. Cardinality(InUseBy) = 0
        BY <1>0, <2>1, <3>2 DEF CountedOn, Stale
      <4>2. IsFiniteSet(InUseBy)
        BY LeasesFinite DEF InUseBy
      <4> QED BY <4>1, <4>2, FS_EmptySet
    <3> QED BY <3>1, <3>2
  <2>3. entries'[k] = Nil /\ leases' = leases
    BY <1>0, <2>1 DEF Reclaim, TypeOK
  <2>4. DOMAIN passes'[p].rest = {} /\ \A q \in Passes : q # p => passes'[q] = passes[q]
    BY <1>0, <2>1 DEF Reclaim, TypeOK, Stale
  <2>5. NothingLeftToReclaim'
    BY <1>0, <2>4 DEF NothingLeftToReclaim
  <2> QED BY <2>2, <2>3, <2>5 DEF CountedOn, InUseBy
<1>2. CASE CleanupGoesOn(p)
  <2>1. passes' = [passes EXCEPT ![p] = NoPass] /\ UNCHANGED <<entries, refCount, disposed, leases>>
    BY <1>0, <1>2 DEF CleanupGoesOn, NothingLeftToReclaim
  <2>2. DOMAIN NoPass.rest = {}
    BY DEF NoPass
  <2>3. NothingLeftToReclaim'
    BY <1>0, <2>1, <2>2 DEF NothingLeftToReclaim, TypeOK
  <2> QED BY <1>0, <2>1, <2>3 DEF CountedOn, InUseBy
<1> QED BY <1>1, <1>2

LEMMA OneChainInit ==
    ASSUME NEW k \in Keys, Init
    PROVE  OneChainInv(k)
<1>1. IInv
  BY InitIInv
<1>2. CountedOn(k)
  BY DEF Init, CountedOn, InUseBy
<1>3. NothingLeftToReclaim
  BY DEF Init, NothingLeftToReclaim, NoPass
<1> QED BY <1>1, <1>2, <1>3 DEF OneChainInv

LEMMA OneChainStep ==
    ASSUME NEW k \in Keys, Keys = {k}, OneChainInv(k), [Next]_vars
    PROVE  OneChainInv(k)'
<1>0. IInv'
  BY StepIInv DEF OneChainInv
<1>1. ASSUME Ages(k) PROVE CountedOn(k)' /\ NothingLeftToReclaim'
  BY <1>1 DEF Ages, OneChainInv, CountedOn, InUseBy, NothingLeftToReclaim
<1>2. ASSUME NEW c \in Conns, Leave(c) \/ Subscribe(c, k)
      PROVE  CountedOn(k)' /\ NothingLeftToReclaim'
  <2>1. passes' = passes
    BY <1>2 DEF Leave, Subscribe
  <2> QED BY <1>2, <2>1, OneChainLeave, OneChainSubscribe DEF OneChainInv, NothingLeftToReclaim
<1>3. ASSUME NEW l \in Leases, Acquired(l) PROVE CountedOn(k)' /\ NothingLeftToReclaim'
  <2>1. passes' = passes
    BY <1>3 DEF Acquired
  <2> QED BY <1>3, <2>1, OneChainAcquired DEF OneChainInv, NothingLeftToReclaim
<1>4. ASSUME UNCHANGED vars PROVE CountedOn(k)' /\ NothingLeftToReclaim'
  <2>1. UNCHANGED <<entries, refCount, disposed, passes, leases>>
    BY <1>4 DEF vars
  <2> QED BY <2>1 DEF OneChainInv, CountedOn, InUseBy, NothingLeftToReclaim
<1>5. ASSUME NEW p \in Passes, CleanupBegins(p) \/ CleanupGoesOn(p)
      PROVE  CountedOn(k)' /\ NothingLeftToReclaim'
  BY <1>5, OneChainCleanup
<1>6. \/ Ages(k)
      \/ \E p \in Passes : CleanupBegins(p) \/ CleanupGoesOn(p)
      \/ \E c \in Conns : Leave(c) \/ Subscribe(c, k)
      \/ \E l \in Leases : Acquired(l)
      \/ UNCHANGED vars
  BY Zenon DEF Next
<1>7. CountedOn(k)' /\ NothingLeftToReclaim'
  BY <1>1, <1>2, <1>3, <1>4, <1>5, <1>6
<1> QED BY <1>0, <1>7 DEF OneChainInv

\* A registry of one chain counts exactly the leases on its runtime, whatever
\* sessions are disposed of while their acquire() waits.  The hypothesis is
\* needed: with two chains cleanup may forget a runtime that is leased, and the
\* leases on it are then released from another's count.
THEOREM CountsAgreeAlone ==
    ASSUME NEW CONSTANT k, Keys = {k}
    PROVE  Spec => []CountsAgree
<1>0. k \in Keys
  OBVIOUS
<1>1. Init => OneChainInv(k)
  BY <1>0, OneChainInit
<1>2. OneChainInv(k) /\ [Next]_vars => OneChainInv(k)'
  BY <1>0, OneChainStep
<1>3. OneChainInv(k) => CountsAgree
  BY <1>0, HoldersAreInUse DEF OneChainInv, IInv, CountedOn, CountsAgree
<1> QED BY <1>1, <1>2, <1>3, PTL DEF Spec

\* The registry of one chain never disposes of the runtime of a session that is
\* served or waits to be, with any number of runs of cleanup at once ("pinned
\* warm-tier runtimes (refCount > 0) are never reclaimed regardless").  With two
\* chains it does: the run chain_leases_two_chains shows how.
THEOREM PinnedIsKeptAlone ==
    ASSUME NEW CONSTANT k, Keys = {k}
    PROVE  Spec => []PinnedIsKept
<1>0. k \in Keys
  OBVIOUS
<1>1. Init => OneChainInv(k)
  BY <1>0, OneChainInit
<1>2. OneChainInv(k) /\ [Next]_vars => OneChainInv(k)'
  BY <1>0, OneChainStep
<1>3. OneChainInv(k) => PinnedIsKept
  BY DEF OneChainInv, CountedOn, InUseBy, PinnedIsKept, NoLease
<1> QED BY <1>1, <1>2, <1>3, PTL DEF Spec

-----------------------------------------------------------------------------
(* The venue's feed.                                                       *)

Listed(x, s) == \E i \in 1..Len(s) : s[i] = x
Once(s) == \A i, j \in 1..Len(s) : s[i] = s[j] => i = j

LostSub == [id |-> NoId, needsReplay |-> TRUE, is |-> TRUE]
LiveSub(i) == [id |-> i, needsReplay |-> FALSE, is |-> TRUE]
UserRecords == [at : {"asking", "holding", "leaving"}, request : Requests]
CallRecords == [t : {"loadMarkets", "subscribe", "unsubscribe"}, request : Requests \cup {NoRequest},
                id : Ids \cup {NoId}, working : BOOLEAN]

FeedTypes ==
    /\ users \in [Users -> UserRecords \cup {Out}]
    /\ ops \in Seq(Users)
    /\ requestRefs \in [Requests -> Nat]
    /\ running \in BOOLEAN
    /\ subs \in [Requests -> {NoSub, LostSub} \cup {LiveSub(i) : i \in Ids}]
    /\ restore \in [at : {"rest", "loading", "replaying", "undoing", "waiting"}, todo : SUBSET Replays,
                    current : Replays \cup {NoReplay}, failed : BOOLEAN]
    /\ calls \in [Lanes -> CallRecords \cup {NoCall}]
    /\ inbox \in Seq(Lanes)
    /\ markets \in BOOLEAN
    /\ held \in [Ids -> Requests \cup {Free, Nothing}]
    /\ chainRefs \in [Requests -> Nat]
    /\ venue \subseteq Requests
    /\ deaths \in 0 .. Deaths /\ refusals \in 0 .. Refusals

\* Each caller of the coordinator has at most one operation chained, and the one
\* the worker is asked for is that of the head.
OpCall == calls["operation"]
QueueInv ==
    /\ Once(ops)
    /\ \A u \in Users : Listed(u, ops) <=> users[u].at \in {"asking", "leaving"}
OpCallInv ==
    OpCall # NoCall =>
        /\ ops # <<>>
        /\ OpCall.t \in {"subscribe", "unsubscribe"}
        /\ OpCall.request = users[Head(ops)].request
        /\ OpCall.t = "subscribe" => /\ users[Head(ops)].at = "asking"
                                     /\ OpCall.id = NoId
                                     /\ requestRefs[OpCall.request] = 1
        /\ OpCall.t = "unsubscribe" => users[Head(ops)].at = "leaving" /\ OpCall.id \in Ids

\* Whom the count of a request counts.
Counted(r) ==
    {u \in Users :
        /\ users[u].request = r
        /\ \/ users[u].at = "holding"
           \/ users[u].at = "leaving" /\ ~(OpCall.t = "unsubscribe" /\ u = Head(ops))
           \/ OpCall.t = "subscribe" /\ u = Head(ops)}
CountsInv == \A r \in Requests : Cardinality(Counted(r)) <= requestRefs[r]

\* The proxy has a subscription for what is counted, but for one being asked for.
SubsInv ==
    \A r \in Requests :
        subs[r] # NoSub <=> requestRefs[r] > 0 /\ ~(OpCall.t = "subscribe" /\ OpCall.request = r)

\* What restore() is at.
RestoreCall == calls["restore"]
RestoreCallInv ==
    /\ restore.at \in {"rest", "waiting"} => RestoreCall = NoCall
    /\ restore.at = "loading" => RestoreCall.t = "loadMarkets"
    /\ restore.at = "replaying" => /\ RestoreCall.t = "subscribe"
                                   /\ RestoreCall.request = restore.current.request
                                   /\ RestoreCall.id = NoId
    /\ restore.at = "undoing" => RestoreCall.t = "unsubscribe" /\ RestoreCall.id \in Ids
ReplaysInv ==
    /\ restore.at \in {"rest", "loading", "waiting"} => restore.todo = {} /\ restore.failed = FALSE
    /\ restore.at \in {"replaying", "undoing"} => restore.current \in Replays
    /\ restore.at = "replaying" /\ restore.current.released = FALSE => subs[restore.current.request] = LostSub
    /\ \A o \in restore.todo : o.released = FALSE => subs[o.request] = LostSub
    /\ \A o, p \in restore.todo : o.request = p.request => o = p
    /\ \A o \in restore.todo : o.request # restore.current.request

\* A subscription without its worker is one that restore() will come to.
LostInv ==
    running => \A r \in Requests : subs[r] = LostSub =>
        \/ restore.at \in {"loading", "waiting"}
        \/ restore.failed = TRUE
        \/ \E o \in restore.todo : o.request = r /\ o.released = FALSE
        \/ restore.at = "replaying" /\ restore.current.request = r /\ restore.current.released = FALSE

DownInv ==
    ~running => /\ restore = AtRest /\ inbox = <<>> /\ \A l \in Lanes : calls[l] = NoCall
                /\ \A r \in Requests : subs[r].id = NoId

\* The messages the worker has not taken are the calls it is not at work on.
InboxInv ==
    /\ Once(inbox)
    /\ \A l \in Lanes : Listed(l, inbox) <=> calls[l] # NoCall /\ calls[l].working = FALSE
CallsInv == \A l \in Lanes : calls[l].t \in {"subscribe", "none"} => calls[l].id = NoId

\* An id is one subscription's, or one call's that gives it up.
IdsInv ==
    /\ \A r \in Requests : subs[r].id # NoId => held[subs[r].id] \in {r, Nothing}
    /\ \A r, q \in Requests : subs[r].id # NoId /\ subs[r].id = subs[q].id => r = q
    /\ \A r \in Requests, l \in Lanes : subs[r].id # NoId => calls[l].id # subs[r].id
    /\ OpCall.id # NoId => RestoreCall.id # OpCall.id
    /\ \A l \in Lanes : calls[l].t = "unsubscribe" /\ calls[l].working = TRUE => held[calls[l].id] = Free

\* What the adapter counts is streamed, or the subscribe that counted first is
\* still with the venue.
StreamedInv ==
    \A r \in Requests :
        \/ r \in venue
        \/ chainRefs[r] = 0
        \/ \E l \in Lanes : calls[l].t = "subscribe" /\ calls[l].request = r /\ calls[l].working = TRUE

DemandInv == QueueInv /\ OpCallInv /\ CountsInv /\ SubsInv
RestoreInv == RestoreCallInv /\ ReplaysInv /\ LostInv /\ DownInv
WorkerInv == InboxInv /\ CallsInv /\ IdsInv /\ NothingIsOrphaned /\ StreamedInv

FeedInv == FeedTypes /\ DemandInv /\ RestoreInv /\ WorkerInv

-----------------------------------------------------------------------------
\* Appending to a queue, and taking its head, as far as what it lists goes.
LEMMA AppendLists ==
    ASSUME NEW S, NEW s \in Seq(S), NEW x \in S
    PROVE  /\ Append(s, x) \in Seq(S) /\ Append(s, x) # <<>>
           /\ \A y : Listed(y, Append(s, x)) <=> Listed(y, s) \/ y = x
           /\ Once(s) /\ ~Listed(x, s) => Once(Append(s, x))
           /\ s # <<>> => Head(Append(s, x)) = Head(s)
           /\ s = <<>> => Head(Append(s, x)) = x
<1> DEFINE a == Append(s, x)
<1>1. /\ a \in Seq(S) /\ Len(a) = Len(s) + 1 /\ Len(s) \in Nat
      /\ \A i \in 1..Len(s) : a[i] = s[i]
      /\ a[Len(s) + 1] = x
  OBVIOUS
<1>2. \A y : Listed(y, a) <=> Listed(y, s) \/ y = x
  <2> SUFFICES ASSUME NEW y PROVE Listed(y, a) <=> Listed(y, s) \/ y = x
    OBVIOUS
  <2>1. ASSUME Listed(y, a) PROVE Listed(y, s) \/ y = x
    <3>1. PICK i \in 1..Len(a) : a[i] = y
      BY <2>1 DEF Listed
    <3>2. i = Len(s) + 1 \/ i \in 1..Len(s)
      BY <1>1
    <3> HIDE DEF a
    <3> QED BY <1>1, <3>1, <3>2 DEF Listed
  <2>2. ASSUME Listed(y, s) PROVE Listed(y, a)
    <3>1. PICK i \in 1..Len(s) : s[i] = y
      BY <2>2 DEF Listed
    <3>2. i \in 1..Len(a) /\ a[i] = y
      BY <1>1, <3>1
    <3> HIDE DEF a
    <3> QED BY <3>2 DEF Listed
  <2>3. ASSUME y = x PROVE Listed(y, a)
    <3>1. Len(s) + 1 \in 1..Len(a)
      BY <1>1
    <3> HIDE DEF a
    <3> QED BY <1>1, <2>3, <3>1 DEF Listed
  <2> HIDE DEF a
  <2> QED BY <2>1, <2>2, <2>3
<1>3. ASSUME Once(s), ~Listed(x, s) PROVE Once(a)
  <2> SUFFICES ASSUME NEW i \in 1..Len(a), NEW j \in 1..Len(a), a[i] = a[j] PROVE i = j
    BY DEF Once
  <2>1. (i = Len(s) + 1 \/ i \in 1..Len(s)) /\ (j = Len(s) + 1 \/ j \in 1..Len(s))
    BY <1>1
  <2>2. i \in 1..Len(s) => a[i] # x
    <3> HIDE DEF a
    <3> QED BY <1>1, <1>3 DEF Listed
  <2>3. j \in 1..Len(s) => a[j] # x
    <3> HIDE DEF a
    <3> QED BY <1>1, <1>3 DEF Listed
  <2> HIDE DEF a
  <2> QED BY <1>1, <1>3, <2>1, <2>2, <2>3 DEF Once
<1>4. /\ s # <<>> => Head(a) = Head(s)
      /\ s = <<>> => Head(a) = x
      /\ a # <<>>
  OBVIOUS
<1> HIDE DEF a
<1>5. /\ a \in Seq(S) /\ a # <<>>
      /\ \A y : Listed(y, a) <=> Listed(y, s) \/ y = x
      /\ Once(s) /\ ~Listed(x, s) => Once(a)
      /\ s # <<>> => Head(a) = Head(s)
      /\ s = <<>> => Head(a) = x
  BY <1>1, <1>2, <1>3, <1>4
<1> QED BY <1>5 DEF a

LEMMA TailLists ==
    ASSUME NEW S, NEW s \in Seq(S), s # <<>>
    PROVE  /\ Head(s) \in S /\ Listed(Head(s), s)
           /\ Tail(s) \in Seq(S)
           /\ Once(s) => Once(Tail(s))
           /\ Once(s) => \A y : Listed(y, Tail(s)) <=> Listed(y, s) /\ y # Head(s)
<1> DEFINE t == Tail(s)
<1>1. /\ t \in Seq(S) /\ Len(s) \in Nat /\ Len(s) >= 1 /\ Len(t) = Len(s) - 1
      /\ \A i \in 1..Len(t) : t[i] = s[i + 1]
      /\ Head(s) = s[1] /\ s[1] \in S
  OBVIOUS
<1> HIDE DEF t
<1>2. Listed(Head(s), s)
  BY <1>1 DEF Listed
<1>3. ASSUME Once(s) PROVE Once(t)
  <2> SUFFICES ASSUME NEW i \in 1..Len(t), NEW j \in 1..Len(t), t[i] = t[j] PROVE i = j
    BY DEF Once
  <2>1. i + 1 \in 1..Len(s) /\ j + 1 \in 1..Len(s) /\ s[i + 1] = s[j + 1]
    BY <1>1
  <2> QED BY <1>3, <2>1 DEF Once
<1>4. ASSUME Once(s), NEW y PROVE Listed(y, t) <=> Listed(y, s) /\ y # Head(s)
  <2>1. ASSUME Listed(y, t) PROVE Listed(y, s) /\ y # Head(s)
    <3>1. PICK i \in 1..Len(t) : t[i] = y
      BY <2>1 DEF Listed
    <3>2. i + 1 \in 1..Len(s) /\ 1 \in 1..Len(s) /\ i + 1 # 1 /\ s[i + 1] = y
      BY <1>1, <3>1
    <3> QED BY <1>1, <1>4, <3>2 DEF Listed, Once
  <2>2. ASSUME Listed(y, s), y # Head(s) PROVE Listed(y, t)
    <3>1. PICK i \in 1..Len(s) : s[i] = y
      BY <2>2 DEF Listed
    <3>2. i # 1
      BY <1>1, <2>2, <3>1
    <3>3. i - 1 \in 1..Len(t) /\ t[i - 1] = y
      BY <1>1, <3>1, <3>2
    <3> QED BY <3>3 DEF Listed
  <2> QED BY <2>1, <2>2
<1>5. /\ Head(s) \in S /\ Listed(Head(s), s)
      /\ t \in Seq(S)
      /\ Once(s) => Once(t)
      /\ Once(s) => \A y : Listed(y, t) <=> Listed(y, s) /\ y # Head(s)
  BY <1>1, <1>2, <1>3, <1>4
<1> QED BY <1>5 DEF t

LEMMA NothingListed == Once(<<>>) /\ \A y : ~Listed(y, <<>>)
BY DEF Once, Listed

\* A queue that lists nobody twice is no longer than there are members.
LEMMA QueueIsShort ==
    ASSUME NEW S, IsFiniteSet(S), NEW s \in Seq(S), Once(s)
    PROVE  Len(s) <= Cardinality(S)
<1>1. Len(s) \in Nat /\ s \in [1..Len(s) -> S]
  OBVIOUS
<1>2. s \in Injection(1..Len(s), S)
  BY <1>1 DEF Once, Injection, IsInjective
<1>3. Cardinality(1..Len(s)) <= Cardinality(S)
  BY <1>2, FS_Injection
<1>4. Cardinality(1..Len(s)) = Len(s)
  BY <1>1, FS_Interval
<1> QED BY <1>3, <1>4

LEMMA PairCount ==
    ASSUME NEW x, NEW y, x # y
    PROVE  IsFiniteSet({x, y}) /\ Cardinality({x, y}) = 2
<1>1. IsFiniteSet({x}) /\ Cardinality({x}) = 1
  BY FS_Singleton
<1>2. {x, y} = {x} \cup {y} /\ y \notin {x}
  OBVIOUS
<1>3. IsFiniteSet({x, y})
  BY <1>1, <1>2, FS_AddElement
<1>4. Cardinality({x, y}) = Cardinality({x}) + 1
  BY <1>1, <1>2, FS_AddElement
<1> QED BY <1>1, <1>3, <1>4

\* How a count follows its members.
LEMMA CountSteps ==
    ASSUME IsFiniteSet(Users), NEW S \in SUBSET Users, NEW T \in SUBSET Users, NEW n \in Nat, Cardinality(S) <= n
    PROVE  /\ T \subseteq S => Cardinality(T) <= n
           /\ \A u : T \subseteq S \cup {u} => Cardinality(T) <= n + 1
           /\ \A u \in S : T \subseteq S \ {u} => Cardinality(T) <= n - 1
<1>1. IsFiniteSet(S) /\ IsFiniteSet(T) /\ Cardinality(S) \in Nat /\ Cardinality(T) \in Nat
  BY FS_Subset, FS_CardinalityType
<1>2. T \subseteq S => Cardinality(T) <= n
  BY <1>1, FS_Subset
<1>3. ASSUME NEW u, T \subseteq S \cup {u} PROVE Cardinality(T) <= n + 1
  <2>1. /\ IsFiniteSet(S \cup {u}) /\ Cardinality(S \cup {u}) \in Nat
        /\ Cardinality(S \cup {u}) <= Cardinality(S) + 1
    <3>1. CASE u \in S
      <4>1. S \cup {u} = S
        BY <3>1
      <4> QED BY <1>1, <4>1
    <3>2. CASE u \notin S
      <4>1. IsFiniteSet(S \cup {u})
        BY <1>1, FS_AddElement
      <4>2. Cardinality(S \cup {u}) = Cardinality(S) + 1
        BY <1>1, <3>2, FS_AddElement
      <4> QED BY <1>1, <4>1, <4>2
    <3> QED BY <3>1, <3>2
  <2>2. Cardinality(T) <= Cardinality(S \cup {u})
    BY <1>3, <2>1, FS_Subset
  <2> QED BY <1>1, <2>1, <2>2
<1>4. ASSUME NEW u \in S, T \subseteq S \ {u} PROVE Cardinality(T) <= n - 1
  <2>1. /\ IsFiniteSet(S \ {u}) /\ Cardinality(S \ {u}) \in Nat
        /\ Cardinality(S \ {u}) = Cardinality(S) - 1
    BY <1>1, FS_RemoveElement, FS_CardinalityType
  <2>2. Cardinality(T) <= Cardinality(S \ {u})
    BY <1>4, <2>1, FS_Subset
  <2> QED BY <1>1, <2>1, <2>2
<1> QED BY <1>2, <1>3, <1>4

\* A new subscription's id is not in use: at most one id per request belongs to
\* a subscription, and at most one more to the call of the other lane.
LEMMA NewIdIsNew ==
    ASSUME FeedTypes, CallsInv, NothingIsOrphaned, Requests # {},
           NEW lane \in Lanes, calls[lane].t = "subscribe"
    PROVE  NewId \in Ids /\ held[NewId] = Free /\ \A l \in Lanes : calls[l].id # NewId
<1>1. PICK other \in Lanes : \A l \in Lanes : l = lane \/ l = other
  BY DEF Lanes
<1>2. calls[lane].id = NoId
  BY DEF CallsInv
<1> DEFINE Mine == {subs[r].id : r \in Requests}
           Used == Mine \cup {calls[other].id}
<1>3. IsFiniteSet(Requests) /\ Cardinality(Requests) \in Nat
  BY VenueFeedAssumption, FS_CardinalityType
<1>4. Cardinality(Requests) >= 1
  <2>1. Cardinality(Requests) # 0
    BY <1>3, FS_EmptySet
  <2> QED BY <1>3, <2>1
<1>5. IsFiniteSet(Mine) /\ Cardinality(Mine) <= Cardinality(Requests) /\ Cardinality(Mine) \in Nat
  <2>1. IsFiniteSet(Mine) /\ Cardinality(Mine) <= Cardinality(Requests)
    <3> DEFINE f == [r \in Requests |-> subs[r].id]
    <3>1. f \in Surjection(Requests, Mine)
      BY DEF Surjection
    <3> HIDE DEF f, Mine
    <3> QED BY <1>3, <3>1, FS_Surjection
  <2> HIDE DEF Mine
  <2> QED BY <2>1, FS_CardinalityType
<1>6. IsFiniteSet(Used) /\ Cardinality(Used) \in Nat /\ Cardinality(Used) <= Cardinality(Mine) + 1
  <2>1. CASE calls[other].id \in Mine
    <3>1. Used = Mine
      BY <2>1
    <3> HIDE DEF Mine, Used
    <3> QED BY <1>5, <3>1
  <2>2. CASE calls[other].id \notin Mine
    <3> HIDE DEF Mine
    <3>1. IsFiniteSet(Used)
      BY <1>5, FS_AddElement
    <3>2. Cardinality(Used) = Cardinality(Mine) + 1
      BY <1>5, <2>2, FS_AddElement
    <3> QED BY <1>5, <3>1, <3>2
  <2> QED BY <2>1, <2>2
<1>7. IsFiniteSet(Ids) /\ Cardinality(Ids) = 2 * Cardinality(Requests) + 1
  <2>1. 2 * Cardinality(Requests) + 1 \in Nat
    BY <1>3
  <2> HIDE DEF Used, Mine
  <2> QED BY <2>1, FS_Interval DEF Ids
<1>8. \E i \in Ids : i \notin Used
  <2> SUFFICES ASSUME Ids \subseteq Used PROVE FALSE
    OBVIOUS
  <2> HIDE DEF Used, Mine
  <2>1. Cardinality(Ids) <= Cardinality(Used)
    BY <1>6, FS_Subset
  <2> QED BY <1>3, <1>4, <1>5, <1>6, <1>7, <2>1
<1>9. PICK i \in Ids : i \notin Used
  BY <1>8
<1>10. held[i] = Free
  <2>1. \A r \in Requests : subs[r].id # i
    BY <1>9
  <2>2. \A l \in Lanes : calls[l].id # i
    <3>1. i # NoId
      BY <1>3 DEF Ids, NoId
    <3> QED BY <1>1, <1>2, <1>9, <3>1
  <2> QED BY <2>1, <2>2 DEF NothingIsOrphaned
<1>11. \A l \in Lanes : calls[l].id # i
  <2>1. i # NoId
    BY <1>3 DEF Ids, NoId
  <2> QED BY <1>1, <1>2, <1>9, <2>1
<1> HIDE DEF Mine, Used
<1> QED BY <1>10, <1>11, <1>9 DEF NewId

LEMMA FeedInitOK == VFInit => FeedInv
<1> SUFFICES ASSUME VFInit PROVE FeedInv
  OBVIOUS
<1> USE DEF VFInit
<1>1. FeedTypes
  <2>1. /\ <<>> \in Seq(Users) /\ <<>> \in Seq(Lanes)
        /\ 0 \in 0..Deaths /\ 0 \in 0..Refusals
    BY VenueFeedAssumption
  <2>2. AtRest \in [at : {"rest", "loading", "replaying", "undoing", "waiting"}, todo : SUBSET Replays,
                    current : Replays \cup {NoReplay}, failed : BOOLEAN]
    BY DEF AtRest
  <2>3. /\ users \in [Users -> UserRecords \cup {Out}]
        /\ subs \in [Requests -> {NoSub, LostSub} \cup {LiveSub(i) : i \in Ids}]
        /\ calls \in [Lanes -> CallRecords \cup {NoCall}]
        /\ held \in [Ids -> Requests \cup {Free, Nothing}]
        /\ requestRefs \in [Requests -> Nat] /\ chainRefs \in [Requests -> Nat]
    OBVIOUS
  <2> QED BY <2>1, <2>2, <2>3 DEF FeedTypes
<1>2. \A l \in Lanes : calls[l] = NoCall
  OBVIOUS
<1>3. NoCall.t = "none" /\ NoCall.id = NoId /\ NoCall.working = FALSE
  BY DEF NoCall
<1>4. \A r \in Requests : subs[r] = NoSub /\ requestRefs[r] = 0 /\ chainRefs[r] = 0
  OBVIOUS
<1>5. NoSub # LostSub /\ NoSub.id = NoId
  BY DEF NoSub, LostSub
<1>6. OpCall = NoCall /\ RestoreCall = NoCall
  BY <1>2 DEF OpCall, RestoreCall, Lanes
<1>7. DemandInv
  <2>1. QueueInv
    BY NothingListed DEF QueueInv, Out
  <2>2. OpCallInv
    BY <1>6 DEF OpCallInv
  <2>3. CountsInv
    <3> SUFFICES ASSUME NEW r \in Requests PROVE Cardinality(Counted(r)) <= requestRefs[r]
      BY DEF CountsInv
    <3>1. Counted(r) = {}
      BY <1>3, <1>6 DEF Counted, Out
    <3>2. Cardinality({}) = 0
      BY FS_EmptySet
    <3>3. requestRefs[r] = 0
      BY <1>4
    <3> QED BY <3>1, <3>2, <3>3
  <2>4. SubsInv
    BY <1>4 DEF SubsInv
  <2> QED BY <2>1, <2>2, <2>3, <2>4 DEF DemandInv
<1>8. RestoreInv
  BY <1>4, <1>5, <1>6 DEF RestoreInv, RestoreCallInv, ReplaysInv, LostInv, DownInv, AtRest
<1>9. WorkerInv
  <2>1. InboxInv
    BY <1>2, NothingListed DEF InboxInv
  <2>2. CallsInv
    BY <1>2, <1>3 DEF CallsInv
  <2>3. IdsInv
    BY <1>2, <1>3, <1>4, <1>5, <1>6 DEF IdsInv
  <2>4. NothingIsOrphaned /\ StreamedInv
    BY <1>4 DEF NothingIsOrphaned, StreamedInv
  <2> QED BY <2>1, <2>2, <2>3, <2>4 DEF WorkerInv
<1> QED BY <1>1, <1>7, <1>8, <1>9 DEF FeedInv

\* box is the inbox without the call of lane.
BoxOK(lane, box) ==
    /\ box \in Seq(Lanes)
    /\ Once(box)
    /\ \A l \in Lanes : Listed(l, box) <=> l # lane /\ calls[l] # NoCall /\ calls[l].working = FALSE

CallOf(task, r, i) == [t |-> task, request |-> r, id |-> i, working |-> FALSE]

\* What Send and Hush leave of the calls and of the inbox.
LEMMA SendOK ==
    ASSUME FeedTypes, NEW lane \in Lanes, NEW box, BoxOK(lane, box),
           NEW task \in {"loadMarkets", "subscribe", "unsubscribe"},
           NEW r \in Requests \cup {NoRequest}, NEW i \in Ids \cup {NoId},
           Send(lane, task, r, i, box)
    PROVE  /\ calls' \in [Lanes -> CallRecords \cup {NoCall}] /\ inbox' \in Seq(Lanes)
           /\ InboxInv'
           /\ calls'[lane] = CallOf(task, r, i)
           /\ \A l \in Lanes : l # lane => calls'[l] = calls[l]
<1>1. CallOf(task, r, i) \in CallRecords /\ CallOf(task, r, i) # NoCall /\ CallOf(task, r, i).working = FALSE
  BY DEF CallOf, CallRecords, NoCall
<1>2. calls' = [calls EXCEPT ![lane] = CallOf(task, r, i)] /\ inbox' = Append(box, lane)
  BY DEF Send, CallOf
<1> HIDE DEF CallOf
<1>3. calls \in [Lanes -> CallRecords \cup {NoCall}]
  BY DEF FeedTypes
<1>4. /\ calls' \in [Lanes -> CallRecords \cup {NoCall}]
      /\ calls'[lane] = CallOf(task, r, i)
      /\ \A l \in Lanes : l # lane => calls'[l] = calls[l]
  BY <1>1, <1>2, <1>3
<1>5. /\ inbox' \in Seq(Lanes)
      /\ \A l \in Lanes : Listed(l, inbox') <=> Listed(l, box) \/ l = lane
      /\ Once(inbox')
  <2>1. ~Listed(lane, box)
    BY DEF BoxOK
  <2> QED BY <1>2, <2>1, AppendLists DEF BoxOK
<1>6. InboxInv'
  <2>1. \A l \in Lanes : Listed(l, inbox') <=> calls'[l] # NoCall /\ calls'[l].working = FALSE
    BY <1>1, <1>4, <1>5 DEF BoxOK
  <2> QED BY <1>5, <2>1 DEF InboxInv
<1> QED BY <1>4, <1>5, <1>6

LEMMA HushOK ==
    ASSUME FeedTypes, NEW lane \in Lanes, NEW box, BoxOK(lane, box), Hush(lane, box)
    PROVE  /\ calls' \in [Lanes -> CallRecords \cup {NoCall}] /\ inbox' \in Seq(Lanes)
           /\ InboxInv'
           /\ calls'[lane] = NoCall
           /\ \A l \in Lanes : l # lane => calls'[l] = calls[l]
<1>1. calls' = [calls EXCEPT ![lane] = NoCall] /\ inbox' = box
  BY DEF Hush
<1>2. calls \in [Lanes -> CallRecords \cup {NoCall}]
  BY DEF FeedTypes
<1>3. /\ calls' \in [Lanes -> CallRecords \cup {NoCall}]
      /\ calls'[lane] = NoCall
      /\ \A l \in Lanes : l # lane => calls'[l] = calls[l]
  BY <1>1, <1>2
<1>4. InboxInv'
  <2>1. \A l \in Lanes : Listed(l, inbox') <=> calls'[l] # NoCall /\ calls'[l].working = FALSE
    BY <1>1, <1>3 DEF BoxOK
  <2> QED BY <1>1, <2>1 DEF InboxInv, BoxOK
<1> QED BY <1>1, <1>3, <1>4 DEF BoxOK

\* A lane without a call has none in the inbox.
LEMMA IdleBox ==
    ASSUME FeedTypes, InboxInv, NEW lane \in Lanes, calls[lane] = NoCall
    PROVE  BoxOK(lane, inbox)
BY DEF FeedTypes, InboxInv, BoxOK

\* What the operation at the head of the queue is.
LEMMA QueueHead ==
    ASSUME FeedTypes, DemandInv
    PROVE  /\ OpCall = NoCall <=> OpCall.t = "none"
           /\ OpCall # NoCall => /\ ops # <<>> /\ OpCall.t \in {"subscribe", "unsubscribe"}
                                 /\ OpCall.request \in Requests
           /\ ops # <<>> => /\ Head(ops) \in Users /\ users[Head(ops)] \in UserRecords
                            /\ users[Head(ops)].at \in {"asking", "leaving"}
                            /\ Tail(ops) \in Seq(Users) /\ Once(Tail(ops))
                            /\ \A u : Listed(u, Tail(ops)) <=> Listed(u, ops) /\ u # Head(ops)
<1>1. OpCall \in CallRecords \cup {NoCall}
  BY DEF FeedTypes, OpCall, Lanes
<1>2. OpCall = NoCall <=> OpCall.t = "none"
  BY <1>1 DEF NoCall, CallRecords
<1>3. ASSUME ops # <<>>
      PROVE  /\ Head(ops) \in Users /\ users[Head(ops)] \in UserRecords
             /\ users[Head(ops)].at \in {"asking", "leaving"}
             /\ Tail(ops) \in Seq(Users) /\ Once(Tail(ops))
             /\ \A u : Listed(u, Tail(ops)) <=> Listed(u, ops) /\ u # Head(ops)
  <2>1. /\ Head(ops) \in Users /\ Listed(Head(ops), ops)
        /\ Tail(ops) \in Seq(Users) /\ Once(Tail(ops))
        /\ \A u : Listed(u, Tail(ops)) <=> Listed(u, ops) /\ u # Head(ops)
    BY <1>3, TailLists DEF FeedTypes, DemandInv, QueueInv
  <2>2. users[Head(ops)].at \in {"asking", "leaving"}
    BY <2>1 DEF DemandInv, QueueInv
  <2>3. users[Head(ops)] \in UserRecords
    BY <2>1, <2>2 DEF FeedTypes, Out
  <2> QED BY <2>1, <2>2, <2>3
<1>4. OpCall # NoCall => ops # <<>> /\ OpCall.t \in {"subscribe", "unsubscribe"} /\ OpCall.request \in Requests
  BY <1>3 DEF DemandInv, OpCallInv, UserRecords
<1> QED BY <1>2, <1>3, <1>4

LEMMA RestoreFrame ==
    RestoreInv /\ UNCHANGED <<running, subs, restore, calls, inbox>> => RestoreInv'
BY DEF RestoreInv, RestoreCallInv, ReplaysInv, LostInv, DownInv, RestoreCall

LEMMA WorkerFrame ==
    WorkerInv /\ UNCHANGED <<subs, calls, inbox, held, chainRefs, venue>> => WorkerInv'
BY DEF WorkerInv, InboxInv, CallsInv, IdsInv, NothingIsOrphaned, StreamedInv, OpCall, RestoreCall

LEMMA DemandFrame ==
    ASSUME FeedTypes, DemandInv, UNCHANGED <<users, ops, requestRefs, OpCall>>,
           \A r \in Requests : subs'[r] = NoSub <=> subs[r] = NoSub
    PROVE  DemandInv'
<1>1. QueueInv' /\ OpCallInv'
  BY DEF DemandInv, QueueInv, OpCallInv
<1>2. CountsInv'
  <2>1. \A r \in Requests : Counted(r)' = Counted(r)
    BY DEF Counted
  <2> QED BY <2>1 DEF DemandInv, CountsInv
<1>3. SubsInv'
  BY DEF DemandInv, SubsInv
<1> QED BY <1>1, <1>2, <1>3 DEF DemandInv

\* A caller gets in line.
LEMMA AcquireOK ==
    ASSUME FeedInv, NEW u \in Users, NEW r \in Requests, Acquire(u, r)
    PROVE  FeedInv'
<1> USE DEF FeedInv
<1>0. /\ users' = [users EXCEPT ![u] = [at |-> "asking", request |-> r]]
      /\ ops' = Append(ops, u)
      /\ UNCHANGED <<requestRefs, running, subs, restore, calls, inbox, markets, held, chainRefs, venue, deaths, refusals>>
      /\ users[u] = Out
  BY DEF Acquire, proxyVars, workerVars
<1>1. [at |-> "asking", request |-> r] \in UserRecords
  BY DEF UserRecords
<1>2. ~Listed(u, ops)
  BY <1>0 DEF Out, DemandInv, QueueInv
<1>3. /\ ops' \in Seq(Users) /\ Once(ops') /\ ops' # <<>>
      /\ \A v : Listed(v, ops') <=> Listed(v, ops) \/ v = u
      /\ ops # <<>> => Head(ops') = Head(ops)
  BY <1>0, <1>2, AppendLists DEF FeedTypes, DemandInv, QueueInv
<1>4. users' \in [Users -> UserRecords \cup {Out}]
  BY <1>0, <1>1 DEF FeedTypes
<1>5. FeedTypes'
  BY <1>0, <1>3, <1>4 DEF FeedTypes
<1>6. /\ users'[u].at = "asking"
      /\ \A v \in Users : v # u => users'[v] = users[v]
  BY <1>0 DEF FeedTypes
<1>7. OpCall' = OpCall
  BY <1>0 DEF OpCall
<1>8. OpCall # NoCall => ops # <<>> /\ Head(ops) \in Users /\ Head(ops) # u /\ Head(ops') = Head(ops)
  BY <1>0, <1>3, QueueHead DEF Out
<1>9. QueueInv'
  <2>1. \A v \in Users : Listed(v, ops') <=> users'[v].at \in {"asking", "leaving"}
    BY <1>0, <1>3, <1>6 DEF DemandInv, QueueInv
  <2> QED BY <1>3, <2>1 DEF QueueInv
<1>10. OpCallInv'
  BY <1>0, <1>3, <1>6, <1>7, <1>8 DEF DemandInv, OpCallInv
<1>11. CountsInv'
  <2>1. \A q \in Requests : Counted(q)' = Counted(q)
    <3>1. OpCall = NoCall => OpCall.t # "subscribe" /\ OpCall.t # "unsubscribe"
      BY DEF NoCall
    <3>2. \A q \in Requests, v \in Users : v \in Counted(q)' <=> v \in Counted(q)
      <4> SUFFICES ASSUME NEW q \in Requests, NEW v \in Users PROVE v \in Counted(q)' <=> v \in Counted(q)
        OBVIOUS
      <4>1. CASE v = u
        <5>1. v \notin Counted(q)
          BY <1>0, <1>8, <3>1, <4>1 DEF Counted, Out
        <5>2. v \notin Counted(q)'
          BY <1>6, <1>7, <1>8, <3>1, <4>1 DEF Counted
        <5> QED BY <5>1, <5>2
      <4>2. CASE v # u
        BY <1>6, <1>7, <1>8, <3>1, <4>2 DEF Counted
      <4> QED BY <4>1, <4>2
    <3> QED BY <3>2 DEF Counted
  <2> QED BY <1>0, <2>1 DEF DemandInv, CountsInv
<1>12. SubsInv'
  BY <1>0, <1>7 DEF DemandInv, SubsInv
<1>13. RestoreInv' /\ WorkerInv'
  BY <1>0, RestoreFrame, WorkerFrame
<1> QED BY <1>5, <1>9, <1>10, <1>11, <1>12, <1>13 DEF DemandInv

LEMMA ReleaseHandleOK ==
    ASSUME FeedInv, NEW u \in Users, ReleaseHandle(u)
    PROVE  FeedInv'
<1> USE DEF FeedInv
<1>0. /\ users' = [users EXCEPT ![u].at = "leaving"]
      /\ ops' = Append(ops, u)
      /\ UNCHANGED <<requestRefs, running, subs, restore, calls, inbox, markets, held, chainRefs, venue, deaths, refusals>>
      /\ users[u].at = "holding"
      /\ ops # <<>> => OpCall # NoCall
  BY DEF ReleaseHandle, proxyVars, workerVars, NothingDue, OpIsDue, OpCall
<1>1. users[u] \in UserRecords
  BY <1>0 DEF FeedTypes, Out
<1>2. ~Listed(u, ops)
  BY <1>0 DEF DemandInv, QueueInv
<1>3. /\ ops' \in Seq(Users) /\ Once(ops') /\ ops' # <<>>
      /\ \A v : Listed(v, ops') <=> Listed(v, ops) \/ v = u
      /\ ops # <<>> => Head(ops') = Head(ops)
  BY <1>0, <1>2, AppendLists DEF FeedTypes, DemandInv, QueueInv
<1>4. [users[u] EXCEPT !.at = "leaving"] \in UserRecords
  BY <1>1 DEF UserRecords
<1>5. FeedTypes'
  <2>1. users' \in [Users -> UserRecords \cup {Out}]
    BY <1>0, <1>4 DEF FeedTypes
  <2> QED BY <1>0, <1>3, <2>1 DEF FeedTypes
<1>6. /\ users'[u].at = "leaving" /\ users'[u].request = users[u].request
      /\ \A v \in Users : v # u => users'[v] = users[v]
  <2>1. users'[u] = [users[u] EXCEPT !.at = "leaving"]
    BY <1>0 DEF FeedTypes
  <2> QED BY <1>0, <1>1, <2>1 DEF FeedTypes, UserRecords
<1>7. OpCall' = OpCall
  BY <1>0 DEF OpCall
<1>8. OpCall # NoCall => ops # <<>> /\ Head(ops) \in Users /\ Head(ops) # u /\ Head(ops') = Head(ops)
  BY <1>0, <1>3, QueueHead
<1>9. QueueInv'
  <2>1. \A v \in Users : Listed(v, ops') <=> users'[v].at \in {"asking", "leaving"}
    BY <1>0, <1>3, <1>6 DEF DemandInv, QueueInv
  <2> QED BY <1>3, <2>1 DEF QueueInv
<1>10. OpCallInv'
  BY <1>0, <1>3, <1>6, <1>7, <1>8 DEF DemandInv, OpCallInv
<1>11. CountsInv'
  <2>1. \A q \in Requests : Counted(q)' = Counted(q)
    <3>1. OpCall = NoCall => OpCall.t # "subscribe" /\ OpCall.t # "unsubscribe"
      BY DEF NoCall
    <3>2. \A q \in Requests, v \in Users : v \in Counted(q)' <=> v \in Counted(q)
      <4> SUFFICES ASSUME NEW q \in Requests, NEW v \in Users PROVE v \in Counted(q)' <=> v \in Counted(q)
        OBVIOUS
      <4>1. CASE v = u
        BY <1>0, <1>6, <1>7, <1>8, <3>1, <4>1 DEF Counted
      <4>2. CASE v # u
        BY <1>6, <1>7, <1>8, <3>1, <4>2 DEF Counted
      <4> QED BY <4>1, <4>2
    <3> QED BY <3>2 DEF Counted
  <2> QED BY <1>0, <2>1 DEF DemandInv, CountsInv
<1>12. SubsInv'
  BY <1>0, <1>7 DEF DemandInv, SubsInv
<1>13. RestoreInv' /\ WorkerInv'
  BY <1>0, RestoreFrame, WorkerFrame
<1> QED BY <1>5, <1>9, <1>10, <1>11, <1>12, <1>13 DEF DemandInv

\* Everybody in line is out when the operation at its head rejects.
LEMMA FailedOK ==
    ASSUME FeedTypes, OpFails
    PROVE  /\ users' \in [Users -> UserRecords \cup {Out}] /\ ops' = <<>> /\ ops' \in Seq(Users)
           /\ \A u \in Users : users'[u] = IF Listed(u, ops) THEN Out ELSE users[u]
BY DEF FeedTypes, OpFails, Listed

\* The caller at the head is done.
LEMMA DoneOK ==
    ASSUME FeedTypes, DemandInv, ops # <<>>, NEW at \in {"out", "holding"}, OpDone(at)
    PROVE  /\ users' \in [Users -> UserRecords \cup {Out}] /\ ops' = Tail(ops) /\ ops' \in Seq(Users)
           /\ \A u \in Users : u # Head(ops) => users'[u] = users[u]
           /\ at = "out" => users'[Head(ops)] = Out
           /\ at = "holding" => /\ users'[Head(ops)].at = "holding"
                                /\ users'[Head(ops)].request = users[Head(ops)].request
<1>1. /\ Head(ops) \in Users /\ users[Head(ops)] \in UserRecords /\ Tail(ops) \in Seq(Users)
      /\ users \in [Users -> UserRecords \cup {Out}]
  BY QueueHead DEF FeedTypes
<1>2. [users[Head(ops)] EXCEPT !.at = "holding"] \in UserRecords
  BY <1>1 DEF UserRecords
<1>3. CASE at = "out"
  BY <1>1, <1>3 DEF OpDone
<1>4. CASE at = "holding"
  <2>1. users' = [users EXCEPT ![Head(ops)] = [users[Head(ops)] EXCEPT !.at = "holding"]] /\ ops' = Tail(ops)
    BY <1>4 DEF OpDone
  <2>2. users'[Head(ops)] = [users[Head(ops)] EXCEPT !.at = "holding"]
    BY <1>1, <2>1
  <2>3. users'[Head(ops)].at = "holding" /\ users'[Head(ops)].request = users[Head(ops)].request
    BY <1>1, <2>2 DEF UserRecords
  <2> QED BY <1>1, <1>2, <1>4, <2>1, <2>3
<1> QED BY <1>3, <1>4

\* The worker's side when the operation lane, idle before, sends a call, and a
\* subscription may have given its id to it.
LEMMA OperationSent ==
    ASSUME FeedInv, OpCall = NoCall, InboxInv',
           \A l \in Lanes : l # "operation" => calls'[l] = calls[l],
           OpCall'.working = FALSE,
           UNCHANGED <<held, chainRefs, venue>>,
           \/ OpCall'.t = "subscribe" /\ OpCall'.id = NoId /\ subs' = subs
           \/ \E r \in Requests : /\ subs[r].id # NoId
                                  /\ OpCall'.t = "unsubscribe" /\ OpCall'.id = subs[r].id
                                  /\ subs' = [subs EXCEPT ![r] = NoSub]
    PROVE  WorkerInv'
<1> USE DEF FeedInv, WorkerInv
<1>0. NoCall.t = "none" /\ NoCall.id = NoId /\ NoCall.working = FALSE /\ NoSub.id = NoId
  BY DEF NoCall, NoSub
<1>1. "operation" \in Lanes /\ "restore" \in Lanes /\ \A l \in Lanes : l = "operation" \/ l = "restore"
  BY DEF Lanes
<1>2. calls'["restore"] = calls["restore"]
  BY <1>1
<1>3. subs \in [Requests -> {NoSub, LostSub} \cup {LiveSub(i) : i \in Ids}]
  BY DEF FeedTypes
<1>4. CallsInv'
  <2>1. OpCall'.t \in {"subscribe", "none"} => OpCall'.id = NoId
    OBVIOUS
  <2> QED BY <1>1, <1>2, <2>1 DEF CallsInv, OpCall
<1>5. StreamedInv'
  <2>1. OpCall.t # "subscribe"
    BY <1>0
  <2> QED BY <1>1, <1>2, <2>1 DEF StreamedInv, OpCall
<1>6. CASE OpCall'.t = "subscribe" /\ OpCall'.id = NoId /\ subs' = subs
  <2>1. IdsInv'
    BY <1>0, <1>1, <1>2, <1>6 DEF IdsInv, OpCall, RestoreCall
  <2>2. NothingIsOrphaned'
    BY <1>0, <1>1, <1>2, <1>6 DEF NothingIsOrphaned, OpCall
  <2> QED BY <1>4, <1>5, <2>1, <2>2
<1>7. ASSUME NEW r \in Requests, subs[r].id # NoId,
             OpCall'.t = "unsubscribe", OpCall'.id = subs[r].id,
             subs' = [subs EXCEPT ![r] = NoSub]
      PROVE  WorkerInv'
  <2>1. subs'[r] = NoSub /\ \A q \in Requests : q # r => subs'[q] = subs[q]
    BY <1>3, <1>7
  <2>2. IdsInv'
    <3>1. \A q \in Requests : subs'[q].id # NoId => q # r /\ subs'[q] = subs[q]
      BY <1>0, <2>1
    <3>2. \A q \in Requests : subs'[q].id # NoId => held'[subs'[q].id] \in {q, Nothing}
      BY <3>1 DEF IdsInv
    <3>3. \A q, p \in Requests : subs'[q].id # NoId /\ subs'[q].id = subs'[p].id => q = p
      BY <3>1 DEF IdsInv
    <3>4. \A q \in Requests, l \in Lanes : subs'[q].id # NoId => calls'[l].id # subs'[q].id
      <4>1. \A q \in Requests : subs'[q].id # NoId => OpCall'.id # subs'[q].id
        BY <1>7, <3>1 DEF IdsInv
      <4>2. \A q \in Requests : subs'[q].id # NoId => calls'["restore"].id # subs'[q].id
        BY <1>1, <1>2, <3>1 DEF IdsInv
      <4> QED BY <1>1, <4>1, <4>2 DEF OpCall
    <3>5. OpCall'.id # NoId => RestoreCall'.id # OpCall'.id
      BY <1>1, <1>2, <1>7 DEF IdsInv, RestoreCall
    <3>6. \A l \in Lanes : calls'[l].t = "unsubscribe" /\ calls'[l].working = TRUE => held'[calls'[l].id] = Free
      BY <1>1, <1>2 DEF IdsInv, OpCall
    <3> QED BY <3>2, <3>3, <3>4, <3>5, <3>6 DEF IdsInv
  <2>3. NothingIsOrphaned'
    <3> SUFFICES ASSUME NEW i \in Ids, held[i] # Free
                 PROVE  \/ \E q \in Requests : subs'[q].id = i
                        \/ \E l \in Lanes : calls'[l].t = "unsubscribe" /\ calls'[l].id = i
      BY DEF NothingIsOrphaned
    <3>1. CASE i = subs[r].id
      BY <1>1, <1>7, <3>1 DEF OpCall
    <3>2. CASE i # subs[r].id
      <4>1. \/ \E q \in Requests : q # r /\ subs[q].id = i
            \/ calls["restore"].t = "unsubscribe" /\ calls["restore"].id = i
        BY <1>0, <1>1, <3>2 DEF NothingIsOrphaned, OpCall
      <4> QED BY <1>1, <1>2, <2>1, <4>1
    <3> QED BY <3>1, <3>2
  <2> QED BY <1>4, <1>5, <2>2, <2>3
<1> QED BY <1>6, <1>7

RunsOp(u, r) ==
    /\ OpIsDue /\ u = Head(ops) /\ r = users[u].request
    /\ UNCHANGED <<running, workerVars, deaths, refusals>>

LEMMA RunsOpFacts ==
    ASSUME FeedInv, NEW u, NEW r, RunsOp(u, r)
    PROVE  /\ OpCall = NoCall /\ ops # <<>> /\ u = Head(ops) /\ u \in Users
           /\ users[u] \in UserRecords /\ r = users[u].request /\ r \in Requests
           /\ OpCall.t = "none"
           /\ UNCHANGED <<running, markets, held, chainRefs, venue, deaths, refusals>>
<1>1. OpCall = NoCall /\ ops # <<>> /\ u = Head(ops) /\ r = users[u].request
      /\ UNCHANGED <<running, markets, held, chainRefs, venue, deaths, refusals>>
  BY DEF RunsOp, OpIsDue, OpCall, workerVars
<1>2. u \in Users /\ users[u] \in UserRecords /\ OpCall.t = "none"
  BY <1>1, QueueHead DEF FeedInv
<1> QED BY <1>1, <1>2 DEF UserRecords

\* acquire() of a request that is already counted.
LEMMA JoinOK ==
    ASSUME FeedInv, NEW u, NEW r, RunsOp(u, r), users[u].at = "asking",
           requestRefs[r] > 0, requestRefs' = [requestRefs EXCEPT ![r] = @ + 1],
           OpDone("holding"), UNCHANGED <<calls, inbox, subs, restore>>
    PROVE  FeedInv'
<1> USE DEF FeedInv
<1>0. /\ OpCall = NoCall /\ ops # <<>> /\ u = Head(ops) /\ u \in Users
      /\ users[u] \in UserRecords /\ r = users[u].request /\ r \in Requests
      /\ OpCall.t = "none"
      /\ UNCHANGED <<running, markets, held, chainRefs, venue, deaths, refusals>>
  BY RunsOpFacts
<1>1. OpCall' = OpCall
  BY DEF OpCall
<1>2. /\ users' \in [Users -> UserRecords \cup {Out}] /\ ops' = Tail(ops) /\ ops' \in Seq(Users)
      /\ \A v \in Users : v # u => users'[v] = users[v]
      /\ users'[u].at = "holding" /\ users'[u].request = r
  BY <1>0, DoneOK
<1>3. /\ Once(ops')
      /\ \A v : Listed(v, ops') <=> Listed(v, ops) /\ v # u
  BY <1>0, <1>2, QueueHead
<1>4. requestRefs' \in [Requests -> Nat] /\ requestRefs'[r] = requestRefs[r] + 1
      /\ \A q \in Requests : q # r => requestRefs'[q] = requestRefs[q]
  BY <1>0 DEF FeedTypes
<1>5. FeedTypes'
  BY <1>0, <1>2, <1>4 DEF FeedTypes
<1>6. QueueInv'
  BY <1>2, <1>3 DEF DemandInv, QueueInv
<1>7. OpCallInv'
  BY <1>0, <1>1 DEF OpCallInv
<1>8. CountsInv'
  <2> SUFFICES ASSUME NEW q \in Requests PROVE Cardinality(Counted(q)') <= requestRefs'[q]
    BY DEF CountsInv
  <2>0. IsFiniteSet(Users) /\ Counted(q) \in SUBSET Users /\ Counted(q)' \in SUBSET Users
        /\ requestRefs[q] \in Nat /\ Cardinality(Counted(q)) <= requestRefs[q]
    BY VenueFeedAssumption DEF Counted, FeedTypes, DemandInv, CountsInv
  <2>1. CASE q = r
    <3>1. Counted(q)' \subseteq Counted(q) \cup {u}
      BY <1>0, <1>1, <1>2 DEF Counted
    <3>2. Cardinality(Counted(q)') <= requestRefs[q] + 1
      BY <2>0, <3>1, CountSteps
    <3> QED BY <1>4, <2>1, <3>2
  <2>2. CASE q # r
    <3>1. Counted(q)' \subseteq Counted(q)
      BY <1>0, <1>1, <1>2, <2>2 DEF Counted
    <3>2. Cardinality(Counted(q)') <= requestRefs[q]
      BY <2>0, <3>1, CountSteps
    <3> QED BY <1>4, <2>2, <3>2
  <2> QED BY <2>1, <2>2
<1>9. SubsInv'
  <2> SUFFICES ASSUME NEW q \in Requests
               PROVE  subs'[q] # NoSub
                      <=> requestRefs'[q] > 0 /\ ~(OpCall'.t = "subscribe" /\ OpCall'.request = q)
    BY DEF SubsInv
  <2>1. subs[q] # NoSub <=> requestRefs[q] > 0
    BY <1>0 DEF DemandInv, SubsInv
  <2>2. requestRefs'[q] > 0 <=> requestRefs[q] > 0
    BY <1>4 DEF FeedTypes
  <2> QED BY <1>0, <1>1, <2>1, <2>2
<1>10. RestoreInv' /\ WorkerInv'
  BY <1>0, RestoreFrame, WorkerFrame
<1> QED BY <1>5, <1>6, <1>7, <1>8, <1>9, <1>10 DEF DemandInv

\* acquire() of the first caller of a request asks the worker.
LEMMA FirstOK ==
    ASSUME FeedInv, NEW u, NEW r, RunsOp(u, r), users[u].at = "asking",
           requestRefs[r] = 0, running, requestRefs' = [requestRefs EXCEPT ![r] = 1],
           Send("operation", "subscribe", r, NoId, inbox), UNCHANGED <<users, ops, subs, restore>>
    PROVE  FeedInv'
<1> USE DEF FeedInv
<1>0. /\ OpCall = NoCall /\ ops # <<>> /\ u = Head(ops) /\ u \in Users
      /\ users[u] \in UserRecords /\ r = users[u].request /\ r \in Requests
      /\ OpCall.t = "none"
      /\ UNCHANGED <<running, markets, held, chainRefs, venue, deaths, refusals>>
  BY RunsOpFacts
<1>1. /\ calls' \in [Lanes -> CallRecords \cup {NoCall}] /\ inbox' \in Seq(Lanes)
      /\ InboxInv'
      /\ OpCall' = CallOf("subscribe", r, NoId)
      /\ \A l \in Lanes : l # "operation" => calls'[l] = calls[l]
  <2>1. "operation" \in Lanes
    BY DEF Lanes
  <2>2. BoxOK("operation", inbox)
    BY <1>0, <2>1, IdleBox DEF WorkerInv, OpCall
  <2> QED BY <1>0, <2>1, <2>2, SendOK DEF OpCall
<1>2. OpCall'.t = "subscribe" /\ OpCall'.request = r /\ OpCall'.id = NoId /\ OpCall'.working = FALSE
  BY <1>1 DEF CallOf
<1>3. requestRefs' \in [Requests -> Nat] /\ requestRefs'[r] = 1
      /\ \A q \in Requests : q # r => requestRefs'[q] = requestRefs[q]
  BY <1>0 DEF FeedTypes
<1>4. FeedTypes'
  BY <1>0, <1>1, <1>3 DEF FeedTypes
<1>5. QueueInv' /\ OpCallInv'
  BY <1>0, <1>2, <1>3 DEF DemandInv, QueueInv, OpCallInv
<1>6. CountsInv'
  <2> SUFFICES ASSUME NEW q \in Requests PROVE Cardinality(Counted(q)') <= requestRefs'[q]
    BY DEF CountsInv
  <2>0. IsFiniteSet(Users) /\ Counted(q) \in SUBSET Users /\ Counted(q)' \in SUBSET Users
        /\ requestRefs[q] \in Nat /\ Cardinality(Counted(q)) <= requestRefs[q]
    BY VenueFeedAssumption DEF Counted, FeedTypes, DemandInv, CountsInv
  <2>1. CASE q = r
    <3>1. Counted(q)' \subseteq Counted(q) \cup {u}
      BY <1>0, <1>2 DEF Counted
    <3>2. Cardinality(Counted(q)') <= requestRefs[q] + 1
      BY <2>0, <3>1, CountSteps
    <3> QED BY <1>3, <2>1, <3>2
  <2>2. CASE q # r
    <3>1. Counted(q)' \subseteq Counted(q)
      BY <1>0, <1>2, <2>2 DEF Counted
    <3>2. Cardinality(Counted(q)') <= requestRefs[q]
      BY <2>0, <3>1, CountSteps
    <3> QED BY <1>3, <2>2, <3>2
  <2> QED BY <2>1, <2>2
<1>7. SubsInv'
  <2> SUFFICES ASSUME NEW q \in Requests
               PROVE  subs'[q] # NoSub
                      <=> requestRefs'[q] > 0 /\ ~(OpCall'.t = "subscribe" /\ OpCall'.request = q)
    BY DEF SubsInv
  <2>1. subs[q] # NoSub <=> requestRefs[q] > 0
    BY <1>0 DEF DemandInv, SubsInv
  <2> QED BY <1>2, <1>3, <2>1
<1>8. RestoreInv'
  <2>1. RestoreCall' = RestoreCall
    BY <1>1 DEF RestoreCall, Lanes
  <2> QED BY <1>0, <2>1 DEF RestoreInv, RestoreCallInv, ReplaysInv, LostInv, DownInv
<1>9. WorkerInv'
  BY <1>0, <1>1, <1>2, OperationSent
<1> QED BY <1>4, <1>5, <1>6, <1>7, <1>8, <1>9 DEF DemandInv

\* acquire() while the worker is down rejects.
LEMMA RejectedOK ==
    ASSUME FeedInv, NEW u, NEW r, RunsOp(u, r),
           OpFails, UNCHANGED <<requestRefs, calls, inbox, subs, restore>>
    PROVE  FeedInv'
<1> USE DEF FeedInv
<1>0. /\ OpCall = NoCall /\ OpCall.t = "none"
      /\ UNCHANGED <<running, markets, held, chainRefs, venue, deaths, refusals>>
  BY RunsOpFacts
<1>1. OpCall' = OpCall
  BY DEF OpCall
<1>2. /\ users' \in [Users -> UserRecords \cup {Out}] /\ ops' = <<>> /\ ops' \in Seq(Users)
      /\ \A v \in Users : users'[v] = IF Listed(v, ops) THEN Out ELSE users[v]
  BY FailedOK
<1>3. FeedTypes'
  BY <1>0, <1>2 DEF FeedTypes
<1>4. QueueInv'
  <2>1. \A v \in Users : users'[v].at \notin {"asking", "leaving"}
    BY <1>2 DEF DemandInv, QueueInv, Out
  <2> QED BY <1>2, <2>1, NothingListed DEF QueueInv
<1>5. OpCallInv'
  BY <1>0, <1>1 DEF OpCallInv
<1>6. CountsInv'
  <2> SUFFICES ASSUME NEW q \in Requests PROVE Cardinality(Counted(q)') <= requestRefs'[q]
    BY DEF CountsInv
  <2>0. IsFiniteSet(Users) /\ Counted(q) \in SUBSET Users /\ Counted(q)' \in SUBSET Users
        /\ requestRefs[q] \in Nat /\ Cardinality(Counted(q)) <= requestRefs[q]
    BY VenueFeedAssumption DEF Counted, FeedTypes, DemandInv, CountsInv
  <2>1. Counted(q)' \subseteq Counted(q)
    BY <1>0, <1>1, <1>2 DEF Counted, Out
  <2> QED BY <2>0, <2>1, CountSteps
<1>7. SubsInv'
  BY <1>1 DEF DemandInv, SubsInv
<1>8. RestoreInv' /\ WorkerInv'
  BY <1>0, RestoreFrame, WorkerFrame
<1> QED BY <1>3, <1>4, <1>5, <1>6, <1>7, <1>8 DEF DemandInv

LEMMA RunAcquireOK ==
    ASSUME FeedInv, NEW u, NEW r, RunsOp(u, r), RunAcquire(u, r)
    PROVE  FeedInv'
<1>1. r \in Requests /\ requestRefs[r] \in Nat /\ users[u].at = "asking" /\ UNCHANGED <<subs, restore>>
  BY RunsOpFacts DEF FeedInv, FeedTypes, RunAcquire
<1>2. CASE /\ requestRefs[r] > 0
           /\ requestRefs' = [requestRefs EXCEPT ![r] = @ + 1]
           /\ OpDone("holding")
           /\ UNCHANGED <<calls, inbox>>
  BY <1>1, <1>2, JoinOK
<1>3. CASE /\ requestRefs[r] = 0
           /\ running
           /\ requestRefs' = [requestRefs EXCEPT ![r] = 1]
           /\ Send("operation", "subscribe", r, NoId, inbox)
           /\ UNCHANGED <<users, ops>>
  BY <1>1, <1>3, FirstOK
<1>4. CASE OpFails /\ UNCHANGED <<requestRefs, calls, inbox>>
  BY <1>1, <1>4, RejectedOK
<1> QED BY <1>2, <1>3, <1>4 DEF RunAcquire

\* A replay that is retired is of the same request, and released.
LEMMA RetiredReplay ==
    ASSUME NEW r \in Requests, NEW o \in Replays \cup {NoReplay}
    PROVE  /\ o \in Replays => Retired(o, r) \in Replays
           /\ o = NoReplay => Retired(o, r) = NoReplay
           /\ Retired(o, r).request = o.request
           /\ Retired(o, r).released = FALSE => o.request # r /\ Retired(o, r) = o
           /\ o.request # r => Retired(o, r) = o
<1>1. CASE o \in Replays
  <2>0. o # NoReplay
    BY <1>1, VenueFeedAssumption DEF Replays, NoReplay
  <2>1. CASE o.request = r
    <3>1. Retired(o, r) = [o EXCEPT !.released = TRUE]
      BY <2>1 DEF Retired
    <3>2. [o EXCEPT !.released = TRUE] \in Replays
      BY <1>1 DEF Replays
    <3>3. [o EXCEPT !.released = TRUE].request = o.request
      BY <1>1 DEF Replays
    <3>4. [o EXCEPT !.released = TRUE].released = TRUE
      BY <1>1 DEF Replays
    <3> QED BY <2>0, <2>1, <3>1, <3>2, <3>3, <3>4
  <2>2. CASE o.request # r
    BY <1>1, <2>2, VenueFeedAssumption DEF Retired, Replays, NoReplay
  <2> QED BY <2>1, <2>2
<1>2. CASE o = NoReplay
  BY <1>2, VenueFeedAssumption DEF Retired, NoReplay, Replays
<1> QED BY <1>1, <1>2

\* A release retires what restore() would replay for it.
LEMMA WithoutOK ==
    ASSUME FeedTypes, RestoreInv, NEW r \in Requests,
           subs' = [subs EXCEPT ![r] = NoSub], restore' = RestoreWithout(r),
           UNCHANGED <<running, RestoreCall>>,
           ~running => UNCHANGED <<inbox, calls>>
    PROVE  /\ restore' \in [at : {"rest", "loading", "replaying", "undoing", "waiting"}, todo : SUBSET Replays,
                            current : Replays \cup {NoReplay}, failed : BOOLEAN]
           /\ RestoreInv'
<1> DEFINE todo == {Retired(o, r) : o \in restore.todo}
           current == Retired(restore.current, r)
<1>0. /\ restore \in [at : {"rest", "loading", "replaying", "undoing", "waiting"}, todo : SUBSET Replays,
                      current : Replays \cup {NoReplay}, failed : BOOLEAN]
      /\ subs \in [Requests -> {NoSub, LostSub} \cup {LiveSub(i) : i \in Ids}]
  BY DEF FeedTypes
<1>1. /\ restore' = [restore EXCEPT !.todo = todo, !.current = current]
  BY DEF RestoreWithout
<1>2. /\ todo \in SUBSET Replays
      /\ \A o \in restore.todo : Retired(o, r) \in todo
      /\ \A p \in todo : \E o \in restore.todo : p = Retired(o, r)
      /\ \A o \in restore.todo : o \in Replays
  <2>1. restore.todo \in SUBSET Replays
    BY <1>0
  <2>2. \A o \in restore.todo : Retired(o, r) \in Replays
    BY <2>1, RetiredReplay
  <2> QED BY <2>1, <2>2
<1>3. /\ current \in Replays \cup {NoReplay}
      /\ restore.current \in Replays => current \in Replays
      /\ restore.current = NoReplay => current = NoReplay
      /\ current.request = restore.current.request
      /\ current.released = FALSE => restore.current.request # r /\ current = restore.current
      /\ restore.current.request # r => current = restore.current
  BY <1>0, RetiredReplay
<1> HIDE DEF todo, current
<1>4. /\ restore'.at = restore.at /\ restore'.todo = todo /\ restore'.current = current
      /\ restore'.failed = restore.failed
      /\ restore' \in [at : {"rest", "loading", "replaying", "undoing", "waiting"}, todo : SUBSET Replays,
                       current : Replays \cup {NoReplay}, failed : BOOLEAN]
  BY <1>0, <1>1, <1>2, <1>3
<1>5. subs'[r] = NoSub /\ \A q \in Requests : q # r => subs'[q] = subs[q]
  BY <1>0
<1>6. NoSub # LostSub /\ NoSub.id = NoId
  BY DEF NoSub, LostSub
<1>7. RestoreCallInv'
  BY <1>3, <1>4 DEF RestoreInv, RestoreCallInv
<1>8. ReplaysInv'
  <2>1. restore'.at \in {"rest", "loading", "waiting"} => restore'.todo = {} /\ restore'.failed = FALSE
    BY <1>2, <1>4 DEF RestoreInv, ReplaysInv
  <2>2. restore'.at \in {"replaying", "undoing"} => restore'.current \in Replays
    BY <1>3, <1>4 DEF RestoreInv, ReplaysInv
  <2>3. restore'.at = "replaying" /\ restore'.current.released = FALSE => subs'[restore'.current.request] = LostSub
    <3> SUFFICES ASSUME restore.at = "replaying", current.released = FALSE PROVE subs'[current.request] = LostSub
      BY <1>4
    <3>1. restore.current \in Replays /\ restore.current.request # r /\ current = restore.current
      BY <1>3 DEF RestoreInv, ReplaysInv
    <3>2. subs[current.request] = LostSub /\ current.request \in Requests
      BY <3>1 DEF RestoreInv, ReplaysInv, Replays
    <3> QED BY <1>5, <3>1, <3>2
  <2>4. \A p \in restore'.todo : p.released = FALSE => subs'[p.request] = LostSub
    <3> SUFFICES ASSUME NEW p \in todo, p.released = FALSE PROVE subs'[p.request] = LostSub
      BY <1>4
    <3>1. PICK o \in restore.todo : p = Retired(o, r)
      BY <1>2
    <3>2. o.request # r /\ p = o /\ o.request \in Requests
      <4>1. o \in Replays
        BY <1>2, <3>1
      <4>2. o.request # r /\ p = o
        BY <3>1, <4>1, RetiredReplay
      <4> QED BY <4>1, <4>2 DEF Replays
    <3> QED BY <1>5, <3>2 DEF RestoreInv, ReplaysInv
  <2>5. \A o, p \in restore'.todo : o.request = p.request => o = p
    <3> SUFFICES ASSUME NEW o \in todo, NEW p \in todo, o.request = p.request PROVE o = p
      BY <1>4
    <3>1. PICK o1 \in restore.todo : o = Retired(o1, r)
      BY <1>2
    <3>2. PICK p1 \in restore.todo : p = Retired(p1, r)
      BY <1>2
    <3>3. o1.request = p1.request
      <4>1. o1 \in Replays /\ p1 \in Replays
        BY <1>2, <3>1, <3>2
      <4>2. o.request = o1.request
        BY <3>1, <4>1, RetiredReplay
      <4>3. p.request = p1.request
        BY <3>2, <4>1, RetiredReplay
      <4> QED BY <4>2, <4>3
    <3> QED BY <3>1, <3>2, <3>3 DEF RestoreInv, ReplaysInv
  <2>6. \A p \in restore'.todo : p.request # restore'.current.request
    <3> SUFFICES ASSUME NEW p \in todo PROVE p.request # current.request
      BY <1>4
    <3>1. PICK o \in restore.todo : p = Retired(o, r)
      BY <1>2
    <3>2. p.request = o.request
      BY <1>2, <3>1, RetiredReplay
    <3> QED BY <1>3, <3>2 DEF RestoreInv, ReplaysInv
  <2> QED BY <2>1, <2>2, <2>3, <2>4, <2>5, <2>6 DEF ReplaysInv
<1>9. LostInv'
  <2> SUFFICES ASSUME running', NEW q \in Requests, subs'[q] = LostSub
               PROVE  \/ restore'.at \in {"loading", "waiting"}
                      \/ restore'.failed = TRUE
                      \/ \E o \in restore'.todo : o.request = q /\ o.released = FALSE
                      \/ restore'.at = "replaying" /\ restore'.current.request = q /\ restore'.current.released = FALSE
    BY DEF LostInv
  <2>1. q # r /\ subs[q] = LostSub /\ running
    BY <1>5, <1>6
  <2>2. \/ restore.at \in {"loading", "waiting"}
        \/ restore.failed = TRUE
        \/ \E o \in restore.todo : o.request = q /\ o.released = FALSE
        \/ restore.at = "replaying" /\ restore.current.request = q /\ restore.current.released = FALSE
    BY <2>1 DEF RestoreInv, LostInv
  <2>3. ASSUME NEW o \in restore.todo, o.request = q, o.released = FALSE
        PROVE  \E p \in restore'.todo : p.request = q /\ p.released = FALSE
    <3>1. Retired(o, r) = o
      BY <1>2, <2>1, <2>3, RetiredReplay
    <3> QED BY <1>2, <1>4, <2>3, <3>1
  <2> QED BY <1>3, <1>4, <2>1, <2>2, <2>3
<1>10. DownInv'
  <2> SUFFICES ASSUME ~running
               PROVE  /\ restore' = AtRest /\ inbox' = <<>> /\ \A l \in Lanes : calls'[l] = NoCall
                      /\ \A q \in Requests : subs'[q].id = NoId
    BY DEF DownInv
  <2>1. /\ restore = AtRest /\ inbox = <<>> /\ \A l \in Lanes : calls[l] = NoCall
        /\ \A q \in Requests : subs[q].id = NoId
    BY DEF RestoreInv, DownInv
  <2>2. restore.todo = {} /\ restore.current = NoReplay
    BY <2>1 DEF AtRest
  <2>3. todo = {} /\ current = NoReplay
    BY <1>2, <1>3, <2>2
  <2>4. restore' = restore
    <3>1. restore' = [restore EXCEPT !.todo = {}, !.current = NoReplay]
      BY <1>1, <2>3
    <3> QED BY <2>1, <3>1 DEF AtRest
  <2> QED BY <1>5, <1>6, <2>1, <2>4
<1> QED BY <1>4, <1>7, <1>8, <1>9, <1>10 DEF RestoreInv

\* release() of a request that others hold.
LEMMA LeaveOK ==
    ASSUME FeedInv, NEW u, NEW r, RunsOp(u, r), users[u].at = "leaving",
           requestRefs[r] > 1, requestRefs' = [requestRefs EXCEPT ![r] = @ - 1],
           OpDone("out"), UNCHANGED <<calls, inbox, subs, restore>>
    PROVE  FeedInv'
<1> USE DEF FeedInv
<1>0. /\ OpCall = NoCall /\ ops # <<>> /\ u = Head(ops) /\ u \in Users
      /\ users[u] \in UserRecords /\ r = users[u].request /\ r \in Requests
      /\ OpCall.t = "none"
      /\ UNCHANGED <<running, markets, held, chainRefs, venue, deaths, refusals>>
  BY RunsOpFacts
<1>1. OpCall' = OpCall
  BY DEF OpCall
<1>2. /\ users' \in [Users -> UserRecords \cup {Out}] /\ ops' = Tail(ops) /\ ops' \in Seq(Users)
      /\ \A v \in Users : v # u => users'[v] = users[v]
      /\ users'[u] = Out
  BY <1>0, DoneOK
<1>3. /\ Once(ops')
      /\ \A v : Listed(v, ops') <=> Listed(v, ops) /\ v # u
  BY <1>0, <1>2, QueueHead
<1>4. requestRefs' \in [Requests -> Nat] /\ requestRefs'[r] = requestRefs[r] - 1
      /\ \A q \in Requests : q # r => requestRefs'[q] = requestRefs[q]
  BY <1>0 DEF FeedTypes
<1>5. FeedTypes'
  BY <1>0, <1>2, <1>4 DEF FeedTypes
<1>6. QueueInv'
  BY SMTT(30), <1>2, <1>3 DEF DemandInv, QueueInv, Out
<1>7. OpCallInv'
  BY <1>0, <1>1 DEF OpCallInv
<1>8. CountsInv'
  <2> SUFFICES ASSUME NEW q \in Requests PROVE Cardinality(Counted(q)') <= requestRefs'[q]
    BY DEF CountsInv
  <2>0. IsFiniteSet(Users) /\ Counted(q) \in SUBSET Users /\ Counted(q)' \in SUBSET Users
        /\ requestRefs[q] \in Nat /\ Cardinality(Counted(q)) <= requestRefs[q]
    BY VenueFeedAssumption DEF Counted, FeedTypes, DemandInv, CountsInv
  <2>1. CASE q = r
    <3>1. u \in Counted(q) /\ Counted(q)' \subseteq Counted(q) \ {u}
      BY <1>0, <1>1, <1>2, <2>1 DEF Counted, Out
    <3>2. Cardinality(Counted(q)') <= requestRefs[q] - 1
      BY <2>0, <3>1, CountSteps
    <3> QED BY <1>4, <2>1, <3>2
  <2>2. CASE q # r
    <3>1. Counted(q)' \subseteq Counted(q)
      BY <1>0, <1>1, <1>2, <2>2 DEF Counted, Out
    <3>2. Cardinality(Counted(q)') <= requestRefs[q]
      BY <2>0, <3>1, CountSteps
    <3> QED BY <1>4, <2>2, <3>2
  <2> QED BY <2>1, <2>2
<1>9. SubsInv'
  <2> SUFFICES ASSUME NEW q \in Requests
               PROVE  subs'[q] # NoSub
                      <=> requestRefs'[q] > 0 /\ ~(OpCall'.t = "subscribe" /\ OpCall'.request = q)
    BY DEF SubsInv
  <2>1. subs[q] # NoSub <=> requestRefs[q] > 0
    BY <1>0 DEF DemandInv, SubsInv
  <2>2. requestRefs'[q] > 0 <=> requestRefs[q] > 0
    BY <1>4 DEF FeedTypes
  <2> QED BY <1>0, <1>1, <2>1, <2>2
<1>10. RestoreInv' /\ WorkerInv'
  BY <1>0, RestoreFrame, WorkerFrame
<1> QED BY <1>5, <1>6, <1>7, <1>8, <1>9, <1>10 DEF DemandInv

\* The last one out of a request the worker does not know.
LEMMA LastOK ==
    ASSUME FeedInv, NEW u, NEW r, RunsOp(u, r), users[u].at = "leaving",
           requestRefs[r] = 1, requestRefs' = [requestRefs EXCEPT ![r] = @ - 1],
           subs' = [subs EXCEPT ![r] = NoSub], restore' = RestoreWithout(r), subs[r].id = NoId,
           OpDone("out"), UNCHANGED <<calls, inbox>>
    PROVE  FeedInv'
<1> USE DEF FeedInv
<1>0. /\ OpCall = NoCall /\ ops # <<>> /\ u = Head(ops) /\ u \in Users
      /\ users[u] \in UserRecords /\ r = users[u].request /\ r \in Requests
      /\ OpCall.t = "none"
      /\ UNCHANGED <<running, markets, held, chainRefs, venue, deaths, refusals>>
  BY RunsOpFacts
<1>1. OpCall' = OpCall /\ RestoreCall' = RestoreCall
  BY DEF OpCall, RestoreCall
<1>2. /\ users' \in [Users -> UserRecords \cup {Out}] /\ ops' = Tail(ops) /\ ops' \in Seq(Users)
      /\ \A v \in Users : v # u => users'[v] = users[v]
      /\ users'[u] = Out
  BY <1>0, DoneOK
<1>3. /\ Once(ops')
      /\ \A v : Listed(v, ops') <=> Listed(v, ops) /\ v # u
  BY <1>0, <1>2, QueueHead
<1>4. requestRefs' \in [Requests -> Nat] /\ requestRefs'[r] = 0
      /\ \A q \in Requests : q # r => requestRefs'[q] = requestRefs[q]
  BY <1>0 DEF FeedTypes
<1>5. /\ subs' \in [Requests -> {NoSub, LostSub} \cup {LiveSub(i) : i \in Ids}]
      /\ subs'[r] = NoSub /\ \A q \in Requests : q # r => subs'[q] = subs[q]
  BY <1>0 DEF FeedTypes
<1>6. /\ restore' \in [at : {"rest", "loading", "replaying", "undoing", "waiting"}, todo : SUBSET Replays,
                       current : Replays \cup {NoReplay}, failed : BOOLEAN]
      /\ RestoreInv'
  BY <1>0, <1>1, WithoutOK
<1>7. FeedTypes'
  BY <1>0, <1>2, <1>4, <1>5, <1>6 DEF FeedTypes
<1>8. QueueInv'
  BY SMTT(30), <1>2, <1>3 DEF DemandInv, QueueInv, Out
<1>9. OpCallInv'
  BY <1>0, <1>1 DEF OpCallInv
<1>10. CountsInv'
  <2> SUFFICES ASSUME NEW q \in Requests PROVE Cardinality(Counted(q)') <= requestRefs'[q]
    BY DEF CountsInv
  <2>0. IsFiniteSet(Users) /\ Counted(q) \in SUBSET Users /\ Counted(q)' \in SUBSET Users
        /\ requestRefs[q] \in Nat /\ Cardinality(Counted(q)) <= requestRefs[q]
    BY VenueFeedAssumption DEF Counted, FeedTypes, DemandInv, CountsInv
  <2>1. CASE q = r
    <3>1. u \in Counted(q) /\ Counted(q)' \subseteq Counted(q) \ {u}
      BY <1>0, <1>1, <1>2, <2>1 DEF Counted, Out
    <3>2. Cardinality(Counted(q)') <= requestRefs[q] - 1
      BY <2>0, <3>1, CountSteps
    <3> QED BY <1>4, <2>1, <3>2
  <2>2. CASE q # r
    <3>1. Counted(q)' \subseteq Counted(q)
      BY <1>0, <1>1, <1>2, <2>2 DEF Counted, Out
    <3>2. Cardinality(Counted(q)') <= requestRefs[q]
      BY <2>0, <3>1, CountSteps
    <3> QED BY <1>4, <2>2, <3>2
  <2> QED BY <2>1, <2>2
<1>11. SubsInv'
  <2> SUFFICES ASSUME NEW q \in Requests
               PROVE  subs'[q] # NoSub
                      <=> requestRefs'[q] > 0 /\ ~(OpCall'.t = "subscribe" /\ OpCall'.request = q)
    BY DEF SubsInv
  <2>1. subs[q] # NoSub <=> requestRefs[q] > 0
    BY <1>0 DEF DemandInv, SubsInv
  <2> QED BY <1>0, <1>1, <1>4, <1>5, <2>1
<1>12. WorkerInv'
  <2>1. NoSub.id = NoId /\ \A i \in Ids : i # NoId
    <3>1. Cardinality(Requests) \in Nat
      BY VenueFeedAssumption, FS_CardinalityType
    <3> QED BY <3>1 DEF NoSub, Ids, NoId
  <2>2. \A q \in Requests : subs'[q].id = subs[q].id
    BY <1>5, <2>1
  <2>3. IdsInv' /\ NothingIsOrphaned'
    BY <1>0, <1>1, <2>2 DEF WorkerInv, IdsInv, NothingIsOrphaned
  <2>4. InboxInv' /\ CallsInv' /\ StreamedInv'
    BY <1>0 DEF WorkerInv, InboxInv, CallsInv, StreamedInv
  <2> QED BY <2>3, <2>4 DEF WorkerInv
<1> QED BY <1>6, <1>7, <1>8, <1>9, <1>10, <1>11, <1>12 DEF DemandInv

\* The last one out of a request the worker has a subscription for.
LEMMA GiveUpOK ==
    ASSUME FeedInv, NEW u, NEW r, RunsOp(u, r), users[u].at = "leaving",
           requestRefs[r] = 1, requestRefs' = [requestRefs EXCEPT ![r] = @ - 1],
           subs' = [subs EXCEPT ![r] = NoSub], restore' = RestoreWithout(r), subs[r].id # NoId,
           Send("operation", "unsubscribe", r, subs[r].id, inbox), UNCHANGED <<users, ops>>
    PROVE  FeedInv'
<1> USE DEF FeedInv
<1>0. /\ OpCall = NoCall /\ ops # <<>> /\ u = Head(ops) /\ u \in Users
      /\ users[u] \in UserRecords /\ r = users[u].request /\ r \in Requests
      /\ OpCall.t = "none"
      /\ UNCHANGED <<running, markets, held, chainRefs, venue, deaths, refusals>>
  BY RunsOpFacts
<1>1. subs[r].id \in Ids /\ running
  <2>1. subs[r] \in {NoSub, LostSub} \cup {LiveSub(i) : i \in Ids}
    BY <1>0 DEF FeedTypes
  <2>2. subs[r].id \in Ids
    BY <2>1 DEF NoSub, LostSub, LiveSub
  <2> QED BY <1>0, <2>2 DEF RestoreInv, DownInv
<1>2. /\ calls' \in [Lanes -> CallRecords \cup {NoCall}] /\ inbox' \in Seq(Lanes)
      /\ InboxInv'
      /\ OpCall' = CallOf("unsubscribe", r, subs[r].id)
      /\ \A l \in Lanes : l # "operation" => calls'[l] = calls[l]
  <2>1. "operation" \in Lanes
    BY DEF Lanes
  <2>2. BoxOK("operation", inbox)
    BY <1>0, <2>1, IdleBox DEF WorkerInv, OpCall
  <2> QED BY <1>0, <1>1, <2>1, <2>2, SendOK DEF OpCall
<1>3. OpCall'.t = "unsubscribe" /\ OpCall'.request = r /\ OpCall'.id = subs[r].id /\ OpCall'.working = FALSE
  BY <1>2 DEF CallOf
<1>4. requestRefs' \in [Requests -> Nat] /\ requestRefs'[r] = 0
      /\ \A q \in Requests : q # r => requestRefs'[q] = requestRefs[q]
  BY <1>0 DEF FeedTypes
<1>5. /\ subs' \in [Requests -> {NoSub, LostSub} \cup {LiveSub(i) : i \in Ids}]
      /\ subs'[r] = NoSub /\ \A q \in Requests : q # r => subs'[q] = subs[q]
  BY <1>0 DEF FeedTypes
<1>6. /\ restore' \in [at : {"rest", "loading", "replaying", "undoing", "waiting"}, todo : SUBSET Replays,
                       current : Replays \cup {NoReplay}, failed : BOOLEAN]
      /\ RestoreInv'
  <2>1. RestoreCall' = RestoreCall
    BY <1>2 DEF RestoreCall, Lanes
  <2> QED BY <1>0, <1>1, <2>1, WithoutOK
<1>7. FeedTypes'
  BY <1>0, <1>2, <1>4, <1>5, <1>6 DEF FeedTypes
<1>8. QueueInv' /\ OpCallInv'
  BY <1>0, <1>1, <1>3 DEF DemandInv, QueueInv, OpCallInv
<1>9. CountsInv'
  <2> SUFFICES ASSUME NEW q \in Requests PROVE Cardinality(Counted(q)') <= requestRefs'[q]
    BY DEF CountsInv
  <2>0. IsFiniteSet(Users) /\ Counted(q) \in SUBSET Users /\ Counted(q)' \in SUBSET Users
        /\ requestRefs[q] \in Nat /\ Cardinality(Counted(q)) <= requestRefs[q]
    BY VenueFeedAssumption DEF Counted, FeedTypes, DemandInv, CountsInv
  <2>1. CASE q = r
    <3>1. u \in Counted(q) /\ Counted(q)' \subseteq Counted(q) \ {u}
      BY <1>0, <1>3, <2>1 DEF Counted
    <3>2. Cardinality(Counted(q)') <= requestRefs[q] - 1
      BY <2>0, <3>1, CountSteps
    <3> QED BY <1>4, <2>1, <3>2
  <2>2. CASE q # r
    <3>1. Counted(q)' \subseteq Counted(q)
      BY <1>0, <1>3, <2>2 DEF Counted
    <3>2. Cardinality(Counted(q)') <= requestRefs[q]
      BY <2>0, <3>1, CountSteps
    <3> QED BY <1>4, <2>2, <3>2
  <2> QED BY <2>1, <2>2
<1>10. SubsInv'
  <2> SUFFICES ASSUME NEW q \in Requests
               PROVE  subs'[q] # NoSub
                      <=> requestRefs'[q] > 0 /\ ~(OpCall'.t = "subscribe" /\ OpCall'.request = q)
    BY DEF SubsInv
  <2>1. subs[q] # NoSub <=> requestRefs[q] > 0
    BY <1>0 DEF DemandInv, SubsInv
  <2> QED BY <1>3, <1>4, <1>5, <2>1
<1>11. WorkerInv'
  BY <1>0, <1>2, <1>3, OperationSent
<1> QED BY <1>6, <1>7, <1>8, <1>9, <1>10, <1>11 DEF DemandInv

LEMMA RunReleaseOK ==
    ASSUME FeedInv, NEW u, NEW r, RunsOp(u, r), RunRelease(u, r)
    PROVE  FeedInv'
<1>1. users[u].at = "leaving" /\ requestRefs' = [requestRefs EXCEPT ![r] = @ - 1]
  BY DEF RunRelease
<1>2. CASE requestRefs[r] > 1 /\ OpDone("out") /\ UNCHANGED <<subs, restore, calls, inbox>>
  BY <1>1, <1>2, LeaveOK
<1>3. CASE /\ requestRefs[r] = 1
           /\ subs' = [subs EXCEPT ![r] = NoSub] /\ restore' = RestoreWithout(r)
           /\ subs[r].id # NoId
           /\ Send("operation", "unsubscribe", r, subs[r].id, inbox) /\ UNCHANGED <<users, ops>>
  BY <1>1, <1>3, GiveUpOK
<1>4. CASE /\ requestRefs[r] = 1
           /\ subs' = [subs EXCEPT ![r] = NoSub] /\ restore' = RestoreWithout(r)
           /\ subs[r].id = NoId
           /\ OpDone("out") /\ UNCHANGED <<calls, inbox>>
  BY <1>1, <1>4, LastOK
<1> QED BY <1>2, <1>3, <1>4 DEF RunRelease

LEMMA RunOpOK == ASSUME FeedInv, RunOp PROVE FeedInv'
<1> DEFINE u == Head(ops)
           r == users[u].request
<1>1. RunsOp(u, r) /\ (RunAcquire(u, r) \/ RunRelease(u, r))
  BY DEF RunOp, RunsOp
<1> HIDE DEF u, r
<1> QED BY <1>1, RunAcquireOK, RunReleaseOK

-----------------------------------------------------------------------------
(* Hearing the worker's answers.                                           *)

RestoreRecords ==
    [at : {"rest", "loading", "replaying", "undoing", "waiting"}, todo : SUBSET Replays,
     current : Replays \cup {NoReplay}, failed : BOOLEAN]
ProxyTypes ==
    /\ users \in [Users -> UserRecords \cup {Out}]
    /\ ops \in Seq(Users)
    /\ requestRefs \in [Requests -> Nat]
    /\ running \in BOOLEAN
    /\ subs \in [Requests -> {NoSub, LostSub} \cup {LiveSub(i) : i \in Ids}]
    /\ restore \in RestoreRecords
    /\ calls \in [Lanes -> CallRecords \cup {NoCall}]
    /\ inbox \in Seq(Lanes)
WorkerTypes ==
    /\ markets \in BOOLEAN
    /\ held \in [Ids -> Requests \cup {Free, Nothing}]
    /\ chainRefs \in [Requests -> Nat]
    /\ venue \subseteq Requests
    /\ deaths \in 0 .. Deaths /\ refusals \in 0 .. Refusals

LEMMA TypesSplit == FeedTypes <=> ProxyTypes /\ WorkerTypes
BY DEF FeedTypes, ProxyTypes, WorkerTypes, RestoreRecords

\* What hearing an answer on a lane, of a new subscription i or of none, does to
\* calls and ids: a subscription takes i, or a call gives it up at once.
Heard(lane, i) ==
    /\ \A l \in Lanes : l # lane => calls'[l] = calls[l]
    /\ calls'[lane].working = FALSE
    /\ \/ i = NoId /\ subs' = subs /\ calls'[lane].t # "unsubscribe" /\ calls'[lane].id = NoId
       \/ i # NoId /\ subs' = subs /\ calls'[lane].t = "unsubscribe" /\ calls'[lane].id = i
       \/ /\ i # NoId /\ calls'[lane].t # "unsubscribe" /\ calls'[lane].id = NoId
          /\ subs[calls[lane].request].id = NoId
          /\ subs' = [subs EXCEPT ![calls[lane].request] = LiveSub(i)]

HearingOK(lane, i) == ProxyTypes' /\ DemandInv' /\ RestoreInv' /\ InboxInv' /\ Heard(lane, i)

\* restore() does not notice a subscription that is new, or the end of a call of the coordinator.
LEMMA RestoreUnaware ==
    ASSUME RestoreInv, running, UNCHANGED <<running, restore, RestoreCall>>,
           \A r \in Requests : subs'[r] = LostSub <=> subs[r] = LostSub,
           FeedTypes
    PROVE  RestoreInv'
<1>1. RestoreCallInv'
  BY DEF RestoreInv, RestoreCallInv
<1>2. ReplaysInv'
  <2>1. restore.at \in {"replaying", "undoing"} => restore.current.request \in Requests
    BY DEF RestoreInv, ReplaysInv, Replays
  <2>2. \A o \in restore.todo : o.request \in Requests
    BY DEF FeedTypes, Replays
  <2> QED BY <2>1, <2>2 DEF RestoreInv, ReplaysInv
<1>3. LostInv'
  BY DEF RestoreInv, LostInv
<1>4. DownInv'
  BY DEF DownInv
<1> QED BY <1>1, <1>2, <1>3, <1>4 DEF RestoreInv

LEMMA SubsDiffer ==
    /\ NoSub # LostSub /\ NoSub.id = NoId /\ LostSub.id = NoId
    /\ \A i \in Ids : i # NoId /\ LiveSub(i) # NoSub /\ LiveSub(i) # LostSub /\ LiveSub(i).id = i
<1>1. Cardinality(Requests) \in Nat
  BY VenueFeedAssumption, FS_CardinalityType
<1>2. \A i \in Ids : i # NoId
  BY <1>1 DEF Ids, NoId
<1> QED BY <1>2 DEF NoSub, LostSub, LiveSub, NoId

\* The worker has subscribed: the caller holds its request.
LEMMA SubscribedOK ==
    ASSUME FeedInv, running, UNCHANGED running, OpCall.t = "subscribe",
           NEW i \in Ids, NEW box, BoxOK("operation", box), HearOp(TRUE, i, box)
    PROVE  HearingOK("operation", i)
<1> USE DEF FeedInv
<1> DEFINE u == Head(ops)
           r == OpCall.request
<1>0. /\ OpCall # NoCall /\ ops # <<>> /\ u \in Users /\ r \in Requests
      /\ r = users[u].request /\ users[u].at = "asking" /\ OpCall.id = NoId /\ requestRefs[r] = 1
  BY QueueHead DEF DemandInv, OpCallInv, NoCall
<1>1. /\ Hush("operation", box) /\ OpDone("holding") /\ UNCHANGED <<requestRefs, restore>>
      /\ subs' = [subs EXCEPT ![r] = LiveSub(i)]
  BY DEF HearOp, OpCall, LiveSub
<1> HIDE DEF r
<1>2. /\ calls' \in [Lanes -> CallRecords \cup {NoCall}] /\ inbox' \in Seq(Lanes)
      /\ InboxInv'
      /\ OpCall' = NoCall /\ RestoreCall' = RestoreCall
      /\ \A l \in Lanes : l # "operation" => calls'[l] = calls[l]
  BY <1>1, HushOK DEF OpCall, RestoreCall, Lanes
<1>3. NoCall.t = "none" /\ NoCall.id = NoId /\ NoCall.working = FALSE
  BY DEF NoCall
<1>4. /\ users' \in [Users -> UserRecords \cup {Out}] /\ ops' = Tail(ops) /\ ops' \in Seq(Users)
      /\ \A v \in Users : v # u => users'[v] = users[v]
      /\ users'[u].at = "holding" /\ users'[u].request = r
  BY <1>0, <1>1, DoneOK
<1>5. /\ Once(ops')
      /\ \A v : Listed(v, ops') <=> Listed(v, ops) /\ v # u
  BY <1>0, <1>4, QueueHead
<1>6. /\ subs' \in [Requests -> {NoSub, LostSub} \cup {LiveSub(j) : j \in Ids}]
      /\ subs'[r] = LiveSub(i) /\ \A q \in Requests : q # r => subs'[q] = subs[q]
  BY <1>0, <1>1 DEF FeedTypes
<1>7. subs[r] = NoSub
  BY <1>0 DEF DemandInv, SubsInv, r
<1>8. ProxyTypes'
  BY <1>1, <1>2, <1>4, <1>6 DEF FeedTypes, ProxyTypes, RestoreRecords
<1>9. DemandInv'
  <2>1. QueueInv'
    BY <1>4, <1>5 DEF DemandInv, QueueInv
  <2>2. OpCallInv'
    BY <1>2 DEF OpCallInv
  <2>3. CountsInv'
    <3>1. \A q \in Requests : Counted(q)' \subseteq Counted(q)
      BY <1>0, <1>2, <1>3, <1>4 DEF Counted
    <3>2. \A q \in Requests : /\ Counted(q) \in SUBSET Users /\ Counted(q)' \in SUBSET Users
                              /\ requestRefs[q] \in Nat /\ Cardinality(Counted(q)) <= requestRefs[q]
      BY DEF Counted, FeedTypes, DemandInv, CountsInv
    <3>3. \A q \in Requests : Cardinality(Counted(q)') <= requestRefs[q]
      BY <3>1, <3>2, CountSteps, VenueFeedAssumption
    <3> QED BY <1>1, <3>3 DEF CountsInv
  <2>4. SubsInv'
    <3> SUFFICES ASSUME NEW q \in Requests
                 PROVE  subs'[q] # NoSub
                        <=> requestRefs'[q] > 0 /\ ~(OpCall'.t = "subscribe" /\ OpCall'.request = q)
      BY DEF SubsInv
    <3>1. CASE q = r
      BY <1>0, <1>1, <1>2, <1>3, <1>6, <3>1, SubsDiffer
    <3>2. CASE q # r
      <4>1. subs[q] # NoSub <=> requestRefs[q] > 0
        BY <3>2 DEF DemandInv, SubsInv, r
      <4> QED BY <1>1, <1>2, <1>3, <1>6, <3>2, <4>1
    <3> QED BY <3>1, <3>2
  <2> QED BY <2>1, <2>2, <2>3, <2>4 DEF DemandInv
<1>10. RestoreInv'
  <2>1. \A q \in Requests : subs'[q] = LostSub <=> subs[q] = LostSub
    BY <1>6, <1>7, SubsDiffer
  <2> QED BY <1>1, <1>2, <2>1, RestoreUnaware
<1>11. Heard("operation", i)
  <2>1. calls'["operation"] = NoCall
    BY <1>2 DEF OpCall
  <2>2. i # NoId /\ subs[r].id = NoId
    BY <1>7, SubsDiffer
  <2> QED BY <1>1, <1>2, <1>3, <2>1, <2>2 DEF Heard, OpCall, r
<1> QED BY <1>2, <1>8, <1>9, <1>10, <1>11 DEF HearingOK

\* The worker has given up a subscription: the caller is out.
LEMMA GivenUpOK ==
    ASSUME FeedInv, running, UNCHANGED running, OpCall.t = "unsubscribe",
           NEW box, BoxOK("operation", box), HearOp(TRUE, NoId, box)
    PROVE  HearingOK("operation", NoId)
<1> USE DEF FeedInv
<1> DEFINE u == Head(ops)
<1>0. /\ OpCall # NoCall /\ ops # <<>> /\ u \in Users /\ users[u].at = "leaving"
  BY QueueHead DEF DemandInv, OpCallInv, NoCall
<1>1. /\ Hush("operation", box) /\ OpDone("out") /\ UNCHANGED <<requestRefs, subs, restore>>
  BY DEF HearOp, OpCall
<1>2. /\ calls' \in [Lanes -> CallRecords \cup {NoCall}] /\ inbox' \in Seq(Lanes)
      /\ InboxInv'
      /\ OpCall' = NoCall /\ RestoreCall' = RestoreCall
      /\ \A l \in Lanes : l # "operation" => calls'[l] = calls[l]
  BY <1>1, HushOK DEF OpCall, RestoreCall, Lanes
<1>3. NoCall.t = "none" /\ NoCall.id = NoId /\ NoCall.working = FALSE
  BY DEF NoCall
<1>4. /\ users' \in [Users -> UserRecords \cup {Out}] /\ ops' = Tail(ops) /\ ops' \in Seq(Users)
      /\ \A v \in Users : v # u => users'[v] = users[v]
      /\ users'[u] = Out
  BY <1>0, <1>1, DoneOK
<1>5. /\ Once(ops')
      /\ \A v : Listed(v, ops') <=> Listed(v, ops) /\ v # u
  BY <1>0, <1>4, QueueHead
<1>6. ProxyTypes'
  BY <1>1, <1>2, <1>4 DEF FeedTypes, ProxyTypes, RestoreRecords
<1>7. DemandInv'
  <2>1. QueueInv'
    BY <1>4, <1>5 DEF DemandInv, QueueInv, Out
  <2>2. OpCallInv'
    BY <1>2 DEF OpCallInv
  <2>3. CountsInv'
    <3>1. \A q \in Requests : Counted(q)' \subseteq Counted(q)
      BY <1>0, <1>2, <1>3, <1>4 DEF Counted, Out
    <3>2. \A q \in Requests : /\ Counted(q) \in SUBSET Users /\ Counted(q)' \in SUBSET Users
                              /\ requestRefs[q] \in Nat /\ Cardinality(Counted(q)) <= requestRefs[q]
      BY DEF Counted, FeedTypes, DemandInv, CountsInv
    <3>3. \A q \in Requests : Cardinality(Counted(q)') <= requestRefs[q]
      BY <3>1, <3>2, CountSteps, VenueFeedAssumption
    <3> QED BY <1>1, <3>3 DEF CountsInv
  <2>4. SubsInv'
    BY <1>1, <1>2, <1>3 DEF DemandInv, SubsInv
  <2> QED BY <2>1, <2>2, <2>3, <2>4 DEF DemandInv
<1>8. RestoreInv'
  BY <1>1, <1>2, RestoreUnaware
<1>9. Heard("operation", NoId)
  BY <1>1, <1>2, <1>3 DEF Heard, OpCall
<1> QED BY <1>2, <1>6, <1>7, <1>8, <1>9 DEF HearingOK

\* The coordinator once the operation under way failed: on a refusal and on a
\* worker's death.
LEMMA OperationFailed ==
    ASSUME FeedInv, OpCall # NoCall, OpCall' = NoCall, OpFails,
           requestRefs' = IF OpCall.t = "subscribe" THEN [requestRefs EXCEPT ![OpCall.request] = 0] ELSE requestRefs,
           \A r \in Requests : subs'[r] = NoSub <=> subs[r] = NoSub
    PROVE  /\ users' \in [Users -> UserRecords \cup {Out}] /\ ops' \in Seq(Users)
           /\ requestRefs' \in [Requests -> Nat]
           /\ DemandInv'
<1> USE DEF FeedInv
<1> DEFINE r == OpCall.request
<1>0. /\ ops # <<>> /\ Head(ops) \in Users /\ r \in Requests /\ Listed(Head(ops), ops)
      /\ OpCall.t = "subscribe" => requestRefs[r] = 1 /\ Head(ops) \in Counted(r)
  <2>1. ops # <<>> /\ Head(ops) \in Users /\ r \in Requests
    BY QueueHead
  <2>2. Listed(Head(ops), ops)
    BY <2>1, QueueHead DEF DemandInv, QueueInv
  <2>3. OpCall.t = "subscribe" => requestRefs[r] = 1 /\ Head(ops) \in Counted(r)
    BY <2>1 DEF DemandInv, OpCallInv, Counted
  <2> QED BY <2>1, <2>2, <2>3
<1>1. NoCall.t = "none"
  BY DEF NoCall
<1>2. /\ users' \in [Users -> UserRecords \cup {Out}] /\ ops' = <<>> /\ ops' \in Seq(Users)
      /\ \A v \in Users : users'[v] = IF Listed(v, ops) THEN Out ELSE users[v]
  BY FailedOK
<1>3. /\ requestRefs' \in [Requests -> Nat]
      /\ OpCall.t = "subscribe" => requestRefs'[r] = 0
      /\ \A q \in Requests : OpCall.t # "subscribe" \/ q # r => requestRefs'[q] = requestRefs[q]
  BY <1>0 DEF FeedTypes
<1>4. QueueInv'
  <2>1. \A v \in Users : users'[v].at \notin {"asking", "leaving"}
    BY <1>2 DEF DemandInv, QueueInv, Out
  <2> QED BY <1>2, <2>1, NothingListed DEF QueueInv
<1>5. OpCallInv'
  BY DEF OpCallInv
<1>6. CountsInv'
  <2> SUFFICES ASSUME NEW q \in Requests PROVE Cardinality(Counted(q)') <= requestRefs'[q]
    BY DEF CountsInv
  <2>0. IsFiniteSet(Users) /\ Counted(q) \in SUBSET Users /\ Counted(q)' \in SUBSET Users
        /\ requestRefs[q] \in Nat /\ Cardinality(Counted(q)) <= requestRefs[q]
    BY VenueFeedAssumption DEF Counted, FeedTypes, DemandInv, CountsInv
  <2>1. Counted(q)' \subseteq Counted(q) \ {Head(ops)}
    <3> SUFFICES ASSUME NEW v \in Counted(q)' PROVE v \in Counted(q) /\ v # Head(ops)
      OBVIOUS
    <3>1. /\ v \in Users /\ users'[v].request = q
          /\ users'[v].at \in {"holding", "leaving"}
      BY <1>1 DEF Counted
    <3>2. ~Listed(v, ops) /\ users'[v] = users[v]
      BY <1>2, <3>1 DEF Out
    <3>3. v # Head(ops)
      BY <1>0, <3>2
    <3> QED BY <3>1, <3>2, <3>3 DEF Counted
  <2>2. CASE OpCall.t = "subscribe" /\ q = r
    <3>1. Cardinality(Counted(q)') <= requestRefs[q] - 1
      BY <1>0, <2>0, <2>1, <2>2, CountSteps
    <3> QED BY <1>0, <1>3, <2>2, <3>1
  <2>3. CASE ~(OpCall.t = "subscribe" /\ q = r)
    <3>1. Cardinality(Counted(q)') <= requestRefs[q]
      BY <2>0, <2>1, CountSteps
    <3> QED BY <1>3, <2>3, <3>1
  <2> QED BY <2>2, <2>3
<1>7. SubsInv'
  <2> SUFFICES ASSUME NEW q \in Requests
               PROVE  subs'[q] # NoSub
                      <=> requestRefs'[q] > 0 /\ ~(OpCall'.t = "subscribe" /\ OpCall'.request = q)
    BY DEF SubsInv
  <2>1. subs[q] # NoSub <=> requestRefs[q] > 0 /\ ~(OpCall.t = "subscribe" /\ r = q)
    BY DEF DemandInv, SubsInv
  <2> QED BY <1>1, <1>3, <2>1
<1> QED BY <1>2, <1>3, <1>4, <1>5, <1>6, <1>7 DEF DemandInv

LEMMA OpRefusedOK ==
    ASSUME FeedInv, running, UNCHANGED running, OpCall # NoCall,
           NEW box, BoxOK("operation", box), HearOp(FALSE, NoId, box)
    PROVE  HearingOK("operation", NoId)
<1> USE DEF FeedInv
<1>1. /\ Hush("operation", box) /\ OpFails /\ UNCHANGED <<subs, restore>>
      /\ requestRefs' = IF OpCall.t = "subscribe" THEN [requestRefs EXCEPT ![OpCall.request] = 0] ELSE requestRefs
  BY DEF HearOp, OpCall
<1>2. /\ calls' \in [Lanes -> CallRecords \cup {NoCall}] /\ inbox' \in Seq(Lanes)
      /\ InboxInv'
      /\ OpCall' = NoCall /\ RestoreCall' = RestoreCall
      /\ \A l \in Lanes : l # "operation" => calls'[l] = calls[l]
  BY <1>1, HushOK DEF OpCall, RestoreCall, Lanes
<1>3. NoCall.t = "none" /\ NoCall.id = NoId /\ NoCall.working = FALSE
  BY DEF NoCall
<1>4. /\ users' \in [Users -> UserRecords \cup {Out}] /\ ops' \in Seq(Users)
      /\ requestRefs' \in [Requests -> Nat]
      /\ DemandInv'
  BY <1>1, <1>2, OperationFailed
<1>5. ProxyTypes'
  BY <1>1, <1>2, <1>4 DEF FeedTypes, ProxyTypes, RestoreRecords
<1>6. RestoreInv'
  BY <1>1, <1>2, RestoreUnaware
<1>7. Heard("operation", NoId)
  BY <1>1, <1>2, <1>3 DEF Heard, OpCall
<1> QED BY <1>2, <1>4, <1>5, <1>6, <1>7 DEF HearingOK

\* The next replay is sent, or restore() ends or waits.
LEMMA ReplayOK ==
    ASSUME FeedInv, running, UNCHANGED <<running, users, ops, requestRefs>>,
           NEW box, BoxOK("restore", box), NEW todo \in SUBSET Replays, NEW failed \in BOOLEAN,
           Replay(todo, failed, box),
           subs' \in [Requests -> {NoSub, LostSub} \cup {LiveSub(i) : i \in Ids}],
           \A r \in Requests : subs'[r] = NoSub <=> subs[r] = NoSub,
           \A o \in todo : o.released = FALSE => subs'[o.request] = LostSub,
           \A o, p \in todo : o.request = p.request => o = p,
           \A r \in Requests : subs'[r] = LostSub =>
               failed = TRUE \/ \E o \in todo : o.request = r /\ o.released = FALSE
    PROVE  /\ ProxyTypes' /\ DemandInv' /\ RestoreInv' /\ InboxInv'
           /\ calls'["restore"].t # "unsubscribe" /\ calls'["restore"].id = NoId
           /\ calls'["restore"].working = FALSE
           /\ \A l \in Lanes : l # "restore" => calls'[l] = calls[l]
<1> USE DEF FeedInv
<1>1. NoCall.t = "none" /\ NoCall.id = NoId /\ NoCall.working = FALSE
  BY DEF NoCall
<1>2. CASE todo = {} /\ restore' = (IF failed THEN [AtRest EXCEPT !.at = "waiting"] ELSE AtRest) /\ Hush("restore", box)
  <2>1. /\ calls' \in [Lanes -> CallRecords \cup {NoCall}] /\ inbox' \in Seq(Lanes)
        /\ InboxInv'
        /\ RestoreCall' = NoCall /\ OpCall' = OpCall
        /\ \A l \in Lanes : l # "restore" => calls'[l] = calls[l]
    BY <1>2, HushOK DEF OpCall, RestoreCall, Lanes
  <2>2. /\ restore' \in RestoreRecords
        /\ restore'.at \in {"rest", "waiting"}
        /\ restore'.todo = {} /\ restore'.failed = FALSE
        /\ failed = TRUE => restore'.at = "waiting"
    <3>1. CASE failed = TRUE
      BY <1>2, <3>1 DEF AtRest, RestoreRecords
    <3>2. CASE failed = FALSE
      BY <1>2, <3>2 DEF AtRest, RestoreRecords
    <3> QED BY <3>1, <3>2
  <2>3. ProxyTypes'
    BY <2>1, <2>2 DEF FeedTypes, ProxyTypes
  <2>4. DemandInv'
    BY <2>1, DemandFrame
  <2>5. RestoreInv'
    BY <1>2, <2>1, <2>2 DEF RestoreInv, RestoreCallInv, ReplaysInv, LostInv, DownInv
  <2> QED BY <1>1, <2>1, <2>3, <2>4, <2>5 DEF RestoreCall
<1>3. ASSUME NEW o \in todo,
             restore' = [at |-> "replaying", todo |-> todo \ {o}, current |-> o, failed |-> failed],
             Send("restore", "subscribe", o.request, NoId, box)
      PROVE  /\ ProxyTypes' /\ DemandInv' /\ RestoreInv' /\ InboxInv'
             /\ calls'["restore"].t # "unsubscribe" /\ calls'["restore"].id = NoId
             /\ calls'["restore"].working = FALSE
             /\ \A l \in Lanes : l # "restore" => calls'[l] = calls[l]
  <2>0. o \in Replays /\ o.request \in Requests
    BY DEF Replays
  <2>1. /\ calls' \in [Lanes -> CallRecords \cup {NoCall}] /\ inbox' \in Seq(Lanes)
        /\ InboxInv'
        /\ RestoreCall' = CallOf("subscribe", o.request, NoId) /\ OpCall' = OpCall
        /\ \A l \in Lanes : l # "restore" => calls'[l] = calls[l]
    <3>1. "restore" \in Lanes /\ "operation" \in Lanes /\ NoId \in Ids \cup {NoId}
      BY DEF Lanes
    <3>2. o.request \in Requests \cup {NoRequest}
      BY <2>0
    <3> DEFINE q == o.request
    <3>3. q \in Requests \cup {NoRequest} /\ Send("restore", "subscribe", q, NoId, box)
      BY <1>3, <3>2
    <3> HIDE DEF q
    <3>4. /\ calls' \in [Lanes -> CallRecords \cup {NoCall}] /\ inbox' \in Seq(Lanes)
          /\ InboxInv'
          /\ calls'["restore"] = CallOf("subscribe", q, NoId)
          /\ \A l \in Lanes : l # "restore" => calls'[l] = calls[l]
      BY <3>1, <3>3, SendOK
    <3> QED BY <3>1, <3>4 DEF OpCall, RestoreCall, q
  <2>2. /\ restore'.at = "replaying" /\ restore'.todo = todo \ {o}
        /\ restore'.current = o /\ restore'.failed = failed
    BY <1>3
  <2>3. restore' \in RestoreRecords
    BY <1>3, <2>0 DEF RestoreRecords
  <2>4. /\ RestoreCall'.t = "subscribe" /\ RestoreCall'.request = o.request
        /\ RestoreCall'.id = NoId /\ RestoreCall'.working = FALSE
    BY <2>1 DEF CallOf
  <2>5. ProxyTypes'
    BY <2>1, <2>3 DEF FeedTypes, ProxyTypes
  <2>6. DemandInv'
    BY <2>1, DemandFrame
  <2>7. RestoreInv'
    <3>1. RestoreCallInv'
      BY <2>2, <2>4 DEF RestoreCallInv
    <3>2. ReplaysInv'
      BY <2>0, <2>2 DEF ReplaysInv
    <3>3. LostInv'
      <4> SUFFICES ASSUME NEW r \in Requests, subs'[r] = LostSub
                   PROVE  \/ restore'.failed = TRUE
                          \/ \E p \in restore'.todo : p.request = r /\ p.released = FALSE
                          \/ /\ restore'.at = "replaying" /\ restore'.current.request = r
                             /\ restore'.current.released = FALSE
        BY DEF LostInv
      <4> QED BY <2>2
    <3>4. DownInv'
      BY DEF DownInv
    <3> QED BY <3>1, <3>2, <3>3, <3>4 DEF RestoreInv
  <2> QED BY <2>1, <2>4, <2>5, <2>6, <2>7 DEF RestoreCall
<1> QED BY <1>2, <1>3 DEF Replay

HearsRestore(ok, i, box) ==
    /\ running /\ UNCHANGED running
    /\ RestoreCall # NoCall
    /\ BoxOK("restore", box)
    /\ HearRestore(ok, i, box)

LEMMA HearsRestoreFacts ==
    ASSUME FeedInv, NEW ok, NEW i, NEW box, HearsRestore(ok, i, box)
    PROVE  /\ restore.at \in {"loading", "replaying", "undoing"}
           /\ restore \in RestoreRecords
           /\ UNCHANGED <<running, users, ops, requestRefs>>
           /\ subs \in [Requests -> {NoSub, LostSub} \cup {LiveSub(j) : j \in Ids}]
           /\ "restore" \in Lanes
BY DEF HearsRestore, HearRestore, FeedInv, FeedTypes, RestoreInv, RestoreCallInv, RestoreRecords, userVars, Lanes

\* The worker has its instruments: all that was lost is to be replayed.
LEMMA LoadedOK ==
    ASSUME FeedInv, NEW box, HearsRestore(TRUE, NoId, box), restore.at = "loading"
    PROVE  HearingOK("restore", NoId)
<1> USE DEF FeedInv
<1>0. /\ restore \in RestoreRecords
      /\ UNCHANGED <<running, users, ops, requestRefs>>
      /\ subs \in [Requests -> {NoSub, LostSub} \cup {LiveSub(j) : j \in Ids}]
      /\ running /\ BoxOK("restore", box)
  BY HearsRestoreFacts DEF HearsRestore
<1>1. subs' = subs /\ Replay(Lost, FALSE, box)
  BY DEF HearsRestore, HearRestore
<1>2. /\ \A r \in Requests : subs[r].needsReplay <=> subs[r] = LostSub
  BY <1>0 DEF NoSub, LostSub, LiveSub
<1>3. Lost = {[request |-> r, released |-> FALSE] : r \in {q \in Requests : subs[q] = LostSub}}
  BY <1>2 DEF Lost
<1>4. /\ Lost \in SUBSET Replays
      /\ \A o \in Lost : o.request \in Requests /\ subs[o.request] = LostSub
                         /\ o = [request |-> o.request, released |-> FALSE]
      /\ \A r \in Requests : subs[r] = LostSub => [request |-> r, released |-> FALSE] \in Lost
  <2>1. ASSUME NEW o \in Lost
        PROVE  /\ o \in Replays /\ o.request \in Requests /\ subs[o.request] = LostSub
               /\ o = [request |-> o.request, released |-> FALSE]
    <3>1. PICK r \in {q \in Requests : subs[q] = LostSub} : o = [request |-> r, released |-> FALSE]
      BY <1>3
    <3>2. o \in Replays
      BY <3>1 DEF Replays
    <3>3. o.request = r
      BY <3>1
    <3> QED BY <3>1, <3>2, <3>3
  <2>2. \A r \in Requests : subs[r] = LostSub => [request |-> r, released |-> FALSE] \in Lost
    BY <1>3
  <2> HIDE DEF Lost
  <2> QED BY <2>1, <2>2
<1>5. \A r \in Requests : subs[r] = LostSub => \E o \in Lost : o.request = r /\ o.released = FALSE
  <2> SUFFICES ASSUME NEW r \in Requests, subs[r] = LostSub
               PROVE  \E o \in Lost : o.request = r /\ o.released = FALSE
    OBVIOUS
  <2>1. [request |-> r, released |-> FALSE] \in Lost
    BY <1>4
  <2>2. [request |-> r, released |-> FALSE].request = r /\ [request |-> r, released |-> FALSE].released = FALSE
    OBVIOUS
  <2> QED BY <2>1, <2>2
<1>6. \A o, p \in Lost : o.request = p.request => o = p
  BY <1>4
<1>7. /\ ProxyTypes' /\ DemandInv' /\ RestoreInv' /\ InboxInv'
      /\ calls'["restore"].t # "unsubscribe" /\ calls'["restore"].id = NoId
      /\ calls'["restore"].working = FALSE
      /\ \A l \in Lanes : l # "restore" => calls'[l] = calls[l]
  BY <1>0, <1>1, <1>4, <1>5, <1>6, ReplayOK
<1> QED BY <1>1, <1>7 DEF HearingOK, Heard

\* The instruments could not be had: restore() waits for its timer.
LEMMA NotLoadedOK ==
    ASSUME FeedInv, NEW box, HearsRestore(FALSE, NoId, box), restore.at = "loading"
    PROVE  HearingOK("restore", NoId)
<1> USE DEF FeedInv
<1>0. /\ UNCHANGED <<running, users, ops, requestRefs>>
      /\ running /\ BoxOK("restore", box)
  BY HearsRestoreFacts DEF HearsRestore
<1>1. subs' = subs /\ restore' = [AtRest EXCEPT !.at = "waiting"] /\ Hush("restore", box)
  BY DEF HearsRestore, HearRestore
<1>2. NoCall.t = "none" /\ NoCall.id = NoId /\ NoCall.working = FALSE
  BY DEF NoCall
<1>3. /\ calls' \in [Lanes -> CallRecords \cup {NoCall}] /\ inbox' \in Seq(Lanes)
      /\ InboxInv'
      /\ RestoreCall' = NoCall /\ OpCall' = OpCall
      /\ \A l \in Lanes : l # "restore" => calls'[l] = calls[l]
  BY <1>0, <1>1, HushOK DEF OpCall, RestoreCall, Lanes
<1>4. restore' \in RestoreRecords /\ restore'.at = "waiting" /\ restore'.todo = {} /\ restore'.failed = FALSE
  BY <1>1 DEF AtRest, RestoreRecords
<1>5. ProxyTypes'
  BY <1>0, <1>1, <1>3, <1>4 DEF FeedTypes, ProxyTypes
<1>6. DemandInv'
  BY <1>0, <1>1, <1>3, DemandFrame
<1>7. RestoreInv'
  BY <1>0, <1>3, <1>4 DEF RestoreInv, RestoreCallInv, ReplaysInv, LostInv, DownInv
<1> QED BY <1>1, <1>2, <1>3, <1>5, <1>6, <1>7 DEF HearingOK, Heard, RestoreCall

\* A replay that the venue refused.
LEMMA NotReplayedOK ==
    ASSUME FeedInv, NEW box, HearsRestore(FALSE, NoId, box), restore.at = "replaying"
    PROVE  HearingOK("restore", NoId)
<1> USE DEF FeedInv
<1>0. /\ restore \in RestoreRecords
      /\ UNCHANGED <<running, users, ops, requestRefs>>
      /\ subs \in [Requests -> {NoSub, LostSub} \cup {LiveSub(j) : j \in Ids}]
      /\ running /\ BoxOK("restore", box)
  BY HearsRestoreFacts DEF HearsRestore
<1>1. subs' = subs /\ Replay(restore.todo, TRUE, box)
  BY DEF HearsRestore, HearRestore
<1>2. restore.todo \in SUBSET Replays
  BY <1>0 DEF RestoreRecords
<1>3. /\ ProxyTypes' /\ DemandInv' /\ RestoreInv' /\ InboxInv'
      /\ calls'["restore"].t # "unsubscribe" /\ calls'["restore"].id = NoId
      /\ calls'["restore"].working = FALSE
      /\ \A l \in Lanes : l # "restore" => calls'[l] = calls[l]
  <2>1. /\ \A o \in restore.todo : o.released = FALSE => subs'[o.request] = LostSub
        /\ \A o, p \in restore.todo : o.request = p.request => o = p
    BY <1>1 DEF RestoreInv, ReplaysInv
  <2> QED BY <1>0, <1>1, <1>2, <2>1, ReplayOK
<1> QED BY <1>1, <1>3 DEF HearingOK, Heard

\* A replayed subscription that was released meanwhile is given up.
LEMMA UndoOK ==
    ASSUME FeedInv, NEW i \in Ids, NEW box, HearsRestore(TRUE, i, box), restore.at = "replaying",
           restore.current.released
    PROVE  HearingOK("restore", i)
<1> USE DEF FeedInv
<1>0. /\ restore \in RestoreRecords
      /\ UNCHANGED <<running, users, ops, requestRefs>>
      /\ running /\ BoxOK("restore", box) /\ "restore" \in Lanes
  BY HearsRestoreFacts DEF HearsRestore
<1>1. /\ subs' = subs /\ restore' = [restore EXCEPT !.at = "undoing"]
      /\ Send("restore", "unsubscribe", restore.current.request, i, box)
  BY DEF HearsRestore, HearRestore, Undo
<1>2. restore.current \in Replays /\ restore.current.request \in Requests
  BY DEF RestoreInv, ReplaysInv, Replays
<1>3. /\ calls' \in [Lanes -> CallRecords \cup {NoCall}] /\ inbox' \in Seq(Lanes)
      /\ InboxInv'
      /\ RestoreCall' = CallOf("unsubscribe", restore.current.request, i) /\ OpCall' = OpCall
      /\ \A l \in Lanes : l # "restore" => calls'[l] = calls[l]
  <2>1. "operation" \in Lanes /\ restore.current.request \in Requests \cup {NoRequest} /\ i \in Ids \cup {NoId}
    BY <1>2 DEF Lanes
  <2> QED BY <1>0, <1>1, <2>1, SendOK DEF OpCall, RestoreCall
<1>4. RestoreCall'.t = "unsubscribe" /\ RestoreCall'.id = i /\ RestoreCall'.working = FALSE
  BY <1>3 DEF CallOf
<1>5. /\ restore' \in RestoreRecords /\ restore'.at = "undoing" /\ restore'.todo = restore.todo
      /\ restore'.current = restore.current /\ restore'.failed = restore.failed
  BY <1>0, <1>1 DEF RestoreRecords
<1>6. ProxyTypes'
  BY <1>0, <1>1, <1>3, <1>5 DEF FeedTypes, ProxyTypes
<1>7. DemandInv'
  BY <1>0, <1>1, <1>3, DemandFrame
<1>8. RestoreInv'
  <2>1. RestoreCallInv'
    BY <1>4, <1>5 DEF RestoreCallInv
  <2>2. ReplaysInv'
    BY <1>1, <1>2, <1>5 DEF RestoreInv, ReplaysInv
  <2>3. LostInv'
    <3>1. restore.current.released # FALSE
      OBVIOUS
    <3> QED BY <1>0, <1>1, <1>5, <3>1 DEF RestoreInv, LostInv
  <2>4. DownInv'
    BY <1>0 DEF DownInv
  <2> QED BY <2>1, <2>2, <2>3, <2>4 DEF RestoreInv
<1>9. i # NoId
  BY SubsDiffer
<1> QED BY <1>1, <1>3, <1>4, <1>6, <1>7, <1>8, <1>9 DEF HearingOK, Heard, RestoreCall

\* A subscription is replayed.
LEMMA ReplayedOK ==
    ASSUME FeedInv, NEW i \in Ids, NEW box, HearsRestore(TRUE, i, box), restore.at = "replaying",
           ~restore.current.released
    PROVE  HearingOK("restore", i)
<1> USE DEF FeedInv
<1>0. /\ restore \in RestoreRecords
      /\ UNCHANGED <<running, users, ops, requestRefs>>
      /\ subs \in [Requests -> {NoSub, LostSub} \cup {LiveSub(j) : j \in Ids}]
      /\ running /\ BoxOK("restore", box) /\ "restore" \in Lanes
  BY HearsRestoreFacts DEF HearsRestore
<1>1. /\ subs' = [subs EXCEPT ![restore.current.request] = LiveSub(i)]
      /\ Replay(restore.todo, restore.failed, box)
  BY DEF HearsRestore, HearRestore, Undo, LiveSub
<1>2. /\ restore.current \in Replays /\ restore.current.request \in Requests
      /\ RestoreCall.request = restore.current.request
  BY DEF RestoreInv, RestoreCallInv, ReplaysInv, Replays
<1>3. restore.current.released = FALSE
  BY <1>2 DEF Replays
<1>4. subs[restore.current.request] = LostSub
  BY <1>3 DEF RestoreInv, ReplaysInv
<1> DEFINE r == restore.current.request
<1>5. /\ subs' \in [Requests -> {NoSub, LostSub} \cup {LiveSub(j) : j \in Ids}]
      /\ subs'[r] = LiveSub(i) /\ \A q \in Requests : q # r => subs'[q] = subs[q]
  BY <1>0, <1>1, <1>2
<1>6. /\ ProxyTypes' /\ DemandInv' /\ RestoreInv' /\ InboxInv'
      /\ calls'["restore"].t # "unsubscribe" /\ calls'["restore"].id = NoId
      /\ calls'["restore"].working = FALSE
      /\ \A l \in Lanes : l # "restore" => calls'[l] = calls[l]
  <2>1. restore.todo \in SUBSET Replays /\ restore.failed \in BOOLEAN
    BY <1>0 DEF RestoreRecords
  <2>2. \A q \in Requests : subs'[q] = NoSub <=> subs[q] = NoSub
    BY <1>2, <1>4, <1>5, SubsDiffer
  <2>3. \A o \in restore.todo : o.request # r /\ o.request \in Requests
    BY <2>1 DEF RestoreInv, ReplaysInv, Replays
  <2>4. /\ \A o \in restore.todo : o.released = FALSE => subs'[o.request] = LostSub
        /\ \A o, p \in restore.todo : o.request = p.request => o = p
    BY <1>5, <2>3 DEF RestoreInv, ReplaysInv
  <2>5. \A q \in Requests : subs'[q] = LostSub =>
            restore.failed = TRUE \/ \E o \in restore.todo : o.request = q /\ o.released = FALSE
    <3> SUFFICES ASSUME NEW q \in Requests, subs'[q] = LostSub
                 PROVE  restore.failed = TRUE \/ \E o \in restore.todo : o.request = q /\ o.released = FALSE
      OBVIOUS
    <3>1. q # r /\ subs[q] = LostSub
      BY <1>5, SubsDiffer
    <3> QED BY <1>0, <3>1 DEF RestoreInv, LostInv
  <2> HIDE DEF r
  <2>6. CASE restore.failed = TRUE
    <3>1. Replay(restore.todo, TRUE, box)
      BY <1>1, <2>6
    <3> QED BY <1>0, <3>1, <1>5, <2>1, <2>2, <2>4, ReplayOK
  <2>7. CASE restore.failed = FALSE
    <3>1. Replay(restore.todo, FALSE, box)
      BY <1>1, <2>7
    <3>2. \A q \in Requests : subs'[q] = LostSub =>
              FALSE = TRUE \/ \E o \in restore.todo : o.request = q /\ o.released = FALSE
      BY <2>5, <2>7
    <3> QED BY <1>0, <3>1, <3>2, <1>5, <2>1, <2>2, <2>4, ReplayOK
  <2> QED BY <2>1, <2>6, <2>7
<1>7. i # NoId /\ subs[r].id = NoId
  BY <1>4, SubsDiffer
<1> QED BY <1>1, <1>2, <1>6, <1>7 DEF HearingOK, Heard, RestoreCall

\* What was undone is over.
LEMMA UndoneOK ==
    ASSUME FeedInv, NEW ok, NEW box, HearsRestore(ok, NoId, box), restore.at = "undoing"
    PROVE  HearingOK("restore", NoId)
<1> USE DEF FeedInv
<1>0. /\ restore \in RestoreRecords
      /\ UNCHANGED <<running, users, ops, requestRefs>>
      /\ subs \in [Requests -> {NoSub, LostSub} \cup {LiveSub(j) : j \in Ids}]
      /\ running /\ BoxOK("restore", box)
  BY HearsRestoreFacts DEF HearsRestore
<1>1. subs' = subs /\ Replay(restore.todo, restore.failed, box)
  BY DEF HearsRestore, HearRestore
<1>2. /\ ProxyTypes' /\ DemandInv' /\ RestoreInv' /\ InboxInv'
      /\ calls'["restore"].t # "unsubscribe" /\ calls'["restore"].id = NoId
      /\ calls'["restore"].working = FALSE
      /\ \A l \in Lanes : l # "restore" => calls'[l] = calls[l]
  <2>1. restore.todo \in SUBSET Replays /\ restore.failed \in BOOLEAN
    BY <1>0 DEF RestoreRecords
  <2>2. /\ \A o \in restore.todo : o.released = FALSE => subs'[o.request] = LostSub
        /\ \A o, p \in restore.todo : o.request = p.request => o = p
    BY <1>1 DEF RestoreInv, ReplaysInv
  <2>3. \A q \in Requests : subs'[q] = LostSub =>
            restore.failed = TRUE \/ \E o \in restore.todo : o.request = q /\ o.released = FALSE
    BY <1>0, <1>1 DEF RestoreInv, LostInv
  <2>4. CASE restore.failed = TRUE
    <3>1. Replay(restore.todo, TRUE, box)
      BY <1>1, <2>4
    <3> QED BY <1>0, <1>1, <3>1, <2>1, <2>2, ReplayOK
  <2>5. CASE restore.failed = FALSE
    <3>1. Replay(restore.todo, FALSE, box)
      BY <1>1, <2>5
    <3>2. \A q \in Requests : subs'[q] = LostSub =>
              FALSE = TRUE \/ \E o \in restore.todo : o.request = q /\ o.released = FALSE
      BY <2>3, <2>5
    <3> QED BY <1>0, <1>1, <3>1, <3>2, <2>1, <2>2, ReplayOK
  <2> QED BY <2>1, <2>4, <2>5
<1> QED BY <1>1, <1>2 DEF HearingOK, Heard

\* Whatever is heard on a lane that waits for it.
LEMMA HearOK ==
    ASSUME FeedInv, running, UNCHANGED running, NEW lane \in Lanes, calls[lane] # NoCall,
           NEW ok \in BOOLEAN, NEW i \in Ids \cup {NoId},
           i # NoId <=> ok /\ calls[lane].t = "subscribe",
           NEW box, BoxOK(lane, box), Hear(lane, ok, i, box)
    PROVE  HearingOK(lane, i)
<1>1. CASE lane = "operation"
  <2>0. OpCall # NoCall /\ HearOp(ok, i, box) /\ OpCall.t \in {"subscribe", "unsubscribe"}
    <3>1. OpCall # NoCall
      BY <1>1 DEF OpCall
    <3> QED BY <1>1, <3>1, QueueHead DEF Hear, FeedInv
  <2>1. CASE ok = FALSE
    BY <1>1, <2>0, <2>1, OpRefusedOK
  <2>2. CASE ok = TRUE /\ OpCall.t = "subscribe"
    <3>1. i \in Ids
      BY <1>1, <2>2 DEF OpCall
    <3> QED BY <1>1, <2>0, <2>2, <3>1, SubscribedOK
  <2>3. CASE ok = TRUE /\ OpCall.t = "unsubscribe"
    <3>1. i = NoId
      BY <1>1, <2>3 DEF OpCall
    <3> QED BY <1>1, <2>0, <2>3, <3>1, GivenUpOK
  <2> QED BY <2>0, <2>1, <2>2, <2>3
<1>2. CASE lane = "restore"
  <2>0. HearsRestore(ok, i, box)
    BY <1>2 DEF HearsRestore, Hear, RestoreCall
  <2>1. /\ restore.at \in {"loading", "replaying", "undoing"}
        /\ restore.at = "loading" => RestoreCall.t = "loadMarkets"
        /\ restore.at = "replaying" => RestoreCall.t = "subscribe" /\ restore.current \in Replays
        /\ restore.at = "undoing" => RestoreCall.t = "unsubscribe"
    BY <2>0, HearsRestoreFacts DEF FeedInv, RestoreInv, RestoreCallInv, ReplaysInv
  <2>2. CASE restore.at = "loading"
    <3>1. i = NoId
      BY <1>2, <2>1, <2>2 DEF RestoreCall
    <3>2. CASE ok = TRUE
      BY <1>2, <2>0, <2>2, <3>1, <3>2, LoadedOK
    <3>3. CASE ok = FALSE
      BY <1>2, <2>0, <2>2, <3>1, <3>3, NotLoadedOK
    <3> QED BY <3>2, <3>3
  <2>3. CASE restore.at = "replaying"
    <3>1. CASE ok = FALSE
      <4>1. i = NoId
        BY <3>1
      <4> QED BY <1>2, <2>0, <2>3, <3>1, <4>1, NotReplayedOK
    <3>2. CASE ok = TRUE
      <4>1. i \in Ids
        BY <1>2, <2>1, <2>3, <3>2 DEF RestoreCall
      <4> QED BY <1>2, <2>0, <2>3, <3>2, <4>1, UndoOK, ReplayedOK
    <3> QED BY <3>1, <3>2
  <2>4. CASE restore.at = "undoing"
    <3>1. i = NoId
      BY <1>2, <2>1, <2>4 DEF RestoreCall
    <3> QED BY <1>2, <2>0, <2>4, <3>1, UndoneOK
  <2> QED BY <2>1, <2>2, <2>3, <2>4
<1> QED BY <1>1, <1>2 DEF Lanes

-----------------------------------------------------------------------------
(* The worker.                                                             *)

\* What each kind of call carries.
LEMMA CallFacts ==
    ASSUME FeedInv, NEW lane \in Lanes, calls[lane] # NoCall
    PROVE  /\ calls[lane] \in CallRecords
           /\ calls[lane].t = "subscribe" => calls[lane].request \in Requests
           /\ calls[lane].t = "unsubscribe" => calls[lane].id \in Ids
           /\ running
<1> USE DEF FeedInv
<1>1. calls[lane] \in CallRecords /\ running
  BY DEF FeedTypes, RestoreInv, DownInv
<1>2. CASE lane = "operation"
  BY <1>1, <1>2, QueueHead DEF OpCall, DemandInv, OpCallInv
<1>3. CASE lane = "restore"
  <2>1. restore.at \in {"rest", "loading", "replaying", "undoing", "waiting"}
    BY DEF FeedTypes
  <2>2. restore.at \notin {"rest", "waiting"}
    BY <1>3 DEF RestoreInv, RestoreCallInv, RestoreCall
  <2>3. CASE restore.at = "loading"
    BY <1>1, <1>3, <2>3 DEF RestoreInv, RestoreCallInv, RestoreCall
  <2>4. CASE restore.at = "replaying"
    BY <1>1, <1>3, <2>4 DEF RestoreInv, RestoreCallInv, ReplaysInv, RestoreCall, Replays
  <2>5. CASE restore.at = "undoing"
    BY <1>1, <1>3, <2>5 DEF RestoreInv, RestoreCallInv, RestoreCall
  <2> QED BY <2>1, <2>2, <2>3, <2>4, <2>5
<1> QED BY <1>2, <1>3 DEF Lanes

\* What the worker does to its ids in the step that answers: a subscription i is
\* new, or the call of the lane was for giving one up.
HeldOK(lane, i) ==
    \/ /\ i = NoId
       /\ \A j \in Ids : \/ held'[j] = held[j]
                         \/ held'[j] = Free /\ calls[lane].t = "unsubscribe" /\ j = calls[lane].id
       /\ calls[lane].t = "unsubscribe" => held'[calls[lane].id] = Free
    \/ /\ i \in Ids /\ held[i] = Free /\ \A l \in Lanes : calls[l].id # i
       /\ calls[lane].t = "subscribe"
       /\ held'[i] \in {calls[lane].request, Nothing}
       /\ \A j \in Ids : j # i => held'[j] = held[j]

LEMMA HeldHeard ==
    ASSUME FeedInv, NEW lane \in Lanes, calls[lane] # NoCall,
           NEW i, Heard(lane, i), HeldOK(lane, i)
    PROVE  CallsInv' /\ IdsInv' /\ NothingIsOrphaned'
<1> USE DEF FeedInv, WorkerInv
<1>0. /\ subs \in [Requests -> {NoSub, LostSub} \cup {LiveSub(j) : j \in Ids}]
      /\ \A r \in Requests : subs[r].id = NoId \/ subs[r].id \in Ids
      /\ calls[lane].t = "subscribe" => calls[lane].request \in Requests /\ calls[lane].id = NoId
      /\ calls[lane].t = "unsubscribe" => calls[lane].id \in Ids
      /\ \A l \in Lanes : calls[l].t = "unsubscribe" => calls[l].id \in Ids /\ calls[l].id # NoId
      /\ NoId \notin Ids
  <2>1. subs \in [Requests -> {NoSub, LostSub} \cup {LiveSub(j) : j \in Ids}]
    BY DEF FeedTypes
  <2>2. \A r \in Requests : subs[r].id = NoId \/ subs[r].id \in Ids
    BY <2>1, SubsDiffer
  <2>3. \A l \in Lanes : calls[l].t = "unsubscribe" => calls[l].id \in Ids /\ calls[l].id # NoId
    BY CallFacts, SubsDiffer DEF NoCall
  <2> QED BY <2>1, <2>2, <2>3, CallFacts, SubsDiffer DEF CallsInv
<1>1. PICK other \in Lanes : other # lane /\ \A l \in Lanes : l = lane \/ l = other
  BY DEF Lanes
<1>2. calls'[other] = calls[other] /\ calls'[lane].working = FALSE
  BY <1>1 DEF Heard
<1>3. calls'[lane].t # "unsubscribe" => calls'[lane].id = NoId
  BY DEF Heard
<1>4. CallsInv'
  <2>1. \A l \in Lanes : calls'[l].t \in {"subscribe", "none"} => calls'[l].id = NoId
    BY <1>1, <1>2, <1>3 DEF CallsInv
  <2> QED BY <2>1 DEF CallsInv
<1>5. \A l, k \in Lanes : l # k /\ calls[l].id # NoId => calls[k].id # calls[l].id
  BY DEF IdsInv, OpCall, RestoreCall, Lanes
<1>6. CASE i = NoId
  <2>1. subs' = subs /\ calls'[lane].t # "unsubscribe" /\ calls'[lane].id = NoId
    BY <1>6 DEF Heard
  <2>2. /\ \A j \in Ids : \/ held'[j] = held[j]
                          \/ held'[j] = Free /\ calls[lane].t = "unsubscribe" /\ j = calls[lane].id
        /\ calls[lane].t = "unsubscribe" => held'[calls[lane].id] = Free
    BY <1>0, <1>6 DEF HeldOK
  <2>3. IdsInv'
    <3>1. \A r \in Requests : subs'[r].id # NoId => held'[subs'[r].id] \in {r, Nothing}
      BY <1>0, <2>1, <2>2 DEF IdsInv
    <3>2. \A r, q \in Requests : subs'[r].id # NoId /\ subs'[r].id = subs'[q].id => r = q
      BY <2>1 DEF IdsInv
    <3>3. \A r \in Requests, l \in Lanes : subs'[r].id # NoId => calls'[l].id # subs'[r].id
      BY <1>1, <1>2, <2>1 DEF IdsInv
    <3>4. OpCall'.id # NoId => RestoreCall'.id # OpCall'.id
      BY <1>1, <1>2, <2>1 DEF IdsInv, OpCall, RestoreCall, Lanes
    <3>5. \A l \in Lanes : calls'[l].t = "unsubscribe" /\ calls'[l].working = TRUE => held'[calls'[l].id] = Free
      BY <1>0, <1>1, <1>2, <2>2 DEF IdsInv
    <3> QED BY <3>1, <3>2, <3>3, <3>4, <3>5 DEF IdsInv
  <2>4. NothingIsOrphaned'
    <3> SUFFICES ASSUME NEW j \in Ids, held'[j] # Free
                 PROVE  \/ \E r \in Requests : subs'[r].id = j
                        \/ \E l \in Lanes : calls'[l].t = "unsubscribe" /\ calls'[l].id = j
      BY DEF NothingIsOrphaned
    <3>1. held[j] # Free /\ ~(calls[lane].t = "unsubscribe" /\ calls[lane].id = j)
      BY <2>2
    <3>2. \/ \E r \in Requests : subs[r].id = j
          \/ calls[other].t = "unsubscribe" /\ calls[other].id = j
      BY <1>1, <3>1 DEF NothingIsOrphaned
    <3> QED BY <1>1, <1>2, <2>1, <3>2
  <2> QED BY <1>4, <2>3, <2>4
<1>7. CASE i # NoId
  <2>1. /\ i \in Ids /\ held[i] = Free /\ \A l \in Lanes : calls[l].id # i
        /\ calls[lane].t = "subscribe"
        /\ held'[i] \in {calls[lane].request, Nothing}
        /\ \A j \in Ids : j # i => held'[j] = held[j]
    BY <1>7 DEF HeldOK
  <2>2. \A r \in Requests : subs[r].id # i
    <3>1. Nothing # Free
      BY DEF Free, Nothing
    <3> QED BY <1>0, <2>1, <3>1, VenueFeedAssumption DEF IdsInv
  <2> DEFINE r == calls[lane].request
  <2>3. r \in Requests
    BY <1>0, <2>1
  <2>4. CASE subs' = subs /\ calls'[lane].t = "unsubscribe" /\ calls'[lane].id = i
    <3>1. IdsInv'
      <4>1. \A q \in Requests : subs'[q].id # NoId => held'[subs'[q].id] \in {q, Nothing}
        BY <1>0, <2>1, <2>2, <2>4 DEF IdsInv
      <4>2. \A p, q \in Requests : subs'[p].id # NoId /\ subs'[p].id = subs'[q].id => p = q
        BY <2>4 DEF IdsInv
      <4>3. \A q \in Requests, l \in Lanes : subs'[q].id # NoId => calls'[l].id # subs'[q].id
        BY <1>1, <1>2, <2>2, <2>4 DEF IdsInv
      <4>4. OpCall'.id # NoId => RestoreCall'.id # OpCall'.id
        BY <1>1, <1>2, <2>1, <2>4 DEF OpCall, RestoreCall, Lanes
      <4>5. \A l \in Lanes : calls'[l].t = "unsubscribe" /\ calls'[l].working = TRUE => held'[calls'[l].id] = Free
        BY <1>0, <1>1, <1>2, <2>1 DEF IdsInv
      <4> QED BY <4>1, <4>2, <4>3, <4>4, <4>5 DEF IdsInv
    <3>2. NothingIsOrphaned'
      <4> SUFFICES ASSUME NEW j \in Ids, held'[j] # Free
                   PROVE  \/ \E q \in Requests : subs'[q].id = j
                          \/ \E l \in Lanes : calls'[l].t = "unsubscribe" /\ calls'[l].id = j
        BY DEF NothingIsOrphaned
      <4>1. CASE j = i
        BY <2>4, <4>1
      <4>2. CASE j # i
        <5>1. held[j] # Free
          BY <2>1, <4>2
        <5>2. \/ \E q \in Requests : subs[q].id = j
              \/ calls[other].t = "unsubscribe" /\ calls[other].id = j
          BY <1>1, <2>1, <5>1 DEF NothingIsOrphaned
        <5> QED BY <1>1, <1>2, <2>4, <5>2
      <4> QED BY <4>1, <4>2
    <3> QED BY <1>4, <3>1, <3>2
  <2>5. CASE /\ calls'[lane].t # "unsubscribe" /\ calls'[lane].id = NoId
             /\ subs[r].id = NoId /\ subs' = [subs EXCEPT ![r] = LiveSub(i)]
    <3>0. subs'[r].id = i /\ \A q \in Requests : q # r => subs'[q] = subs[q]
      BY <1>0, <2>1, <2>3, <2>5, SubsDiffer
    <3>1. IdsInv'
      <4>1. \A q \in Requests : subs'[q].id # NoId => held'[subs'[q].id] \in {q, Nothing}
        BY <1>0, <2>1, <2>2, <3>0 DEF IdsInv
      <4>2. \A p, q \in Requests : subs'[p].id # NoId /\ subs'[p].id = subs'[q].id => p = q
        BY <2>2, <3>0 DEF IdsInv
      <4>3. \A q \in Requests, l \in Lanes : subs'[q].id # NoId => calls'[l].id # subs'[q].id
        BY <1>1, <1>2, <2>1, <2>5, <3>0 DEF IdsInv
      <4>4. OpCall'.id # NoId => RestoreCall'.id # OpCall'.id
        BY <1>1, <1>2, <2>5 DEF OpCall, RestoreCall, Lanes
      <4>5. \A l \in Lanes : calls'[l].t = "unsubscribe" /\ calls'[l].working = TRUE => held'[calls'[l].id] = Free
        BY <1>0, <1>1, <1>2, <2>1 DEF IdsInv
      <4> QED BY <4>1, <4>2, <4>3, <4>4, <4>5 DEF IdsInv
    <3>2. NothingIsOrphaned'
      <4> SUFFICES ASSUME NEW j \in Ids, held'[j] # Free
                   PROVE  \/ \E q \in Requests : subs'[q].id = j
                          \/ \E l \in Lanes : calls'[l].t = "unsubscribe" /\ calls'[l].id = j
        BY DEF NothingIsOrphaned
      <4>1. CASE j = i
        BY <2>3, <3>0, <4>1
      <4>2. CASE j # i
        <5>1. held[j] # Free
          BY <2>1, <4>2
        <5>2. \/ \E q \in Requests : subs[q].id = j /\ q # r
              \/ calls[other].t = "unsubscribe" /\ calls[other].id = j
          BY <1>0, <1>1, <2>1, <2>5, <5>1 DEF NothingIsOrphaned
        <5> QED BY <1>1, <1>2, <3>0, <5>2
      <4> QED BY <4>1, <4>2
    <3> QED BY <1>4, <3>1, <3>2
  <2> QED BY <1>7, <2>4, <2>5 DEF Heard
<1> QED BY <1>6, <1>7

\* What is streamed once the call of lane is not what it was.
StreamOK(lane) ==
    \A r \in Requests :
        \/ r \in venue'
        \/ chainRefs'[r] = 0
        \/ /\ r \in venue => r \in venue'
           /\ chainRefs[r] = 0 => chainRefs'[r] = 0
           /\ ~(calls[lane].t = "subscribe" /\ calls[lane].request = r /\ calls[lane].working = TRUE)

\* A step that answers the call of a lane.
LEMMA HeardOK ==
    ASSUME FeedInv, NEW lane \in Lanes, calls[lane] # NoCall,
           NEW i, HearingOK(lane, i), HeldOK(lane, i), StreamOK(lane), WorkerTypes'
    PROVE  FeedInv'
<1>1. FeedTypes'
  BY TypesSplit, PTL DEF HearingOK
<1>2. CallsInv' /\ IdsInv' /\ NothingIsOrphaned'
  BY HeldHeard DEF HearingOK
<1>3. StreamedInv'
  <2> SUFFICES ASSUME NEW r \in Requests
               PROVE  \/ r \in venue' \/ chainRefs'[r] = 0
                      \/ \E l \in Lanes : calls'[l].t = "subscribe" /\ calls'[l].request = r /\ calls'[l].working = TRUE
    BY DEF StreamedInv
  <2>1. \/ r \in venue \/ chainRefs[r] = 0
        \/ \E l \in Lanes : calls[l].t = "subscribe" /\ calls[l].request = r /\ calls[l].working = TRUE
    BY DEF FeedInv, WorkerInv, StreamedInv
  <2>2. \A l \in Lanes : l # lane => calls'[l] = calls[l]
    BY DEF HearingOK, Heard
  <2> QED BY <2>1, <2>2 DEF StreamOK
<1> QED BY <1>1, <1>2, <1>3 DEF FeedInv, HearingOK, WorkerInv

\* The next message: a call nobody is at work on, in the inbox once.
LEMMA NextMessage ==
    ASSUME FeedInv, inbox # <<>>, NEW lane, lane = Head(inbox)
    PROVE  lane \in Lanes /\ calls[lane] # NoCall /\ calls[lane].working = FALSE /\ BoxOK(lane, Tail(inbox))
<1>1. /\ lane \in Lanes /\ Listed(lane, inbox)
      /\ Tail(inbox) \in Seq(Lanes) /\ Once(Tail(inbox))
      /\ \A l : Listed(l, Tail(inbox)) <=> Listed(l, inbox) /\ l # lane
  BY TailLists DEF FeedInv, FeedTypes, WorkerInv, InboxInv
<1>2. \A l \in Lanes : Listed(l, inbox) <=> calls[l] # NoCall /\ calls[l].working = FALSE
  BY DEF FeedInv, WorkerInv, InboxInv
<1> QED BY <1>1, <1>2 DEF BoxOK

\* A lane the worker is at work on is not in the inbox.
LEMMA WorkingBox ==
    ASSUME FeedInv, NEW lane \in Lanes, calls[lane].working = TRUE
    PROVE  calls[lane] # NoCall /\ BoxOK(lane, inbox)
<1>1. calls[lane] # NoCall
  BY DEF NoCall
<1>2. BoxOK(lane, inbox)
  BY DEF FeedInv, FeedTypes, WorkerInv, InboxInv, BoxOK
<1> QED BY <1>1, <1>2

\* The worker goes to work on a call it took.
LEMMA WorksOK ==
    ASSUME FeedInv, inbox # <<>>, NEW lane, lane = Head(inbox), Works(lane), UNCHANGED running,
           WorkerTypes',
           \A j \in Ids : held'[j] = held[j] \/ (held'[j] = Free /\ j = calls[lane].id),
           calls[lane].t = "unsubscribe" => held'[calls[lane].id] = Free,
           \A r \in Requests :
              \/ r \in venue' \/ chainRefs'[r] = 0
              \/ calls[lane].t = "subscribe" /\ calls[lane].request = r
              \/ (r \in venue => r \in venue') /\ (chainRefs[r] = 0 => chainRefs'[r] = 0)
    PROVE  FeedInv'
<1> USE DEF FeedInv
<1>0. /\ lane \in Lanes /\ calls[lane] # NoCall /\ calls[lane].working = FALSE /\ BoxOK(lane, Tail(inbox))
      /\ calls[lane] \in CallRecords /\ running
      /\ calls[lane].t = "unsubscribe" => calls[lane].id \in Ids
  BY NextMessage, CallFacts
<1>1. /\ calls' = [calls EXCEPT ![lane] = [calls[lane] EXCEPT !.working = TRUE]]
      /\ inbox' = Tail(inbox)
      /\ UNCHANGED <<users, ops, requestRefs, subs, restore>>
  BY DEF Works, userVars
<1>2. /\ [calls[lane] EXCEPT !.working = TRUE] \in CallRecords
      /\ [calls[lane] EXCEPT !.working = TRUE].t = calls[lane].t
      /\ [calls[lane] EXCEPT !.working = TRUE].request = calls[lane].request
      /\ [calls[lane] EXCEPT !.working = TRUE].id = calls[lane].id
      /\ [calls[lane] EXCEPT !.working = TRUE].working = TRUE
  BY <1>0 DEF CallRecords
<1>3. calls \in [Lanes -> CallRecords \cup {NoCall}]
  BY DEF FeedTypes
<1>4. /\ calls' \in [Lanes -> CallRecords \cup {NoCall}]
      /\ calls'[lane].t = calls[lane].t /\ calls'[lane].request = calls[lane].request
      /\ calls'[lane].id = calls[lane].id /\ calls'[lane].working = TRUE
      /\ \A l \in Lanes : l # lane => calls'[l] = calls[l]
  <2>1. calls'[lane] = [calls[lane] EXCEPT !.working = TRUE] /\ \A l \in Lanes : l # lane => calls'[l] = calls[l]
    BY <1>0, <1>1, <1>3
  <2>2. calls' \in [Lanes -> CallRecords \cup {NoCall}]
    BY <1>1, <1>2, <1>3
  <2> QED BY <1>2, <2>1, <2>2
<1>5. \A l \in Lanes : /\ calls'[l].t = calls[l].t /\ calls'[l].request = calls[l].request
                       /\ calls'[l].id = calls[l].id
                       /\ calls'[l] = NoCall <=> calls[l] = NoCall
  <2>1. calls'[lane] # NoCall
    BY <1>4 DEF NoCall
  <2> QED BY <1>0, <1>4, <2>1
<1>6. /\ OpCall'.t = OpCall.t /\ OpCall'.request = OpCall.request /\ OpCall'.id = OpCall.id
      /\ OpCall' = NoCall <=> OpCall = NoCall
      /\ RestoreCall'.t = RestoreCall.t /\ RestoreCall'.request = RestoreCall.request
      /\ RestoreCall'.id = RestoreCall.id
      /\ RestoreCall' = NoCall <=> RestoreCall = NoCall
  BY <1>5 DEF OpCall, RestoreCall, Lanes
<1>7. FeedTypes'
  <2>1. ProxyTypes'
    BY <1>0, <1>1, <1>4 DEF FeedTypes, ProxyTypes, RestoreRecords, BoxOK
  <2> QED BY <2>1, TypesSplit, PTL
<1>8. DemandInv'
  <2>1. QueueInv' /\ OpCallInv'
    BY <1>1, <1>6 DEF DemandInv, QueueInv, OpCallInv
  <2>2. CountsInv'
    <3>1. \A r \in Requests : Counted(r)' = Counted(r)
      BY <1>1, <1>6 DEF Counted
    <3> QED BY <1>1, <3>1 DEF DemandInv, CountsInv
  <2>3. SubsInv'
    BY <1>1, <1>6 DEF DemandInv, SubsInv
  <2> QED BY <2>1, <2>2, <2>3 DEF DemandInv
<1>9. RestoreInv'
  <2>1. RestoreCallInv'
    BY <1>1, <1>6 DEF RestoreInv, RestoreCallInv
  <2>2. ReplaysInv' /\ LostInv' /\ DownInv'
    BY <1>0, <1>1 DEF RestoreInv, ReplaysInv, LostInv, DownInv
  <2> QED BY <2>1, <2>2 DEF RestoreInv
<1>10. InboxInv'
  <2>1. \A l \in Lanes : Listed(l, inbox') <=> calls'[l] # NoCall /\ calls'[l].working = FALSE
    BY <1>0, <1>1, <1>4 DEF BoxOK
  <2> QED BY <1>0, <1>1, <2>1 DEF InboxInv, BoxOK
<1>11. CallsInv'
  BY <1>5 DEF WorkerInv, CallsInv
<1>12. IdsInv'
  <2>0. \A r \in Requests : subs[r].id = NoId \/ subs[r].id \in Ids
    <3>1. subs \in [Requests -> {NoSub, LostSub} \cup {LiveSub(j) : j \in Ids}]
      BY DEF FeedTypes
    <3> QED BY <3>1, SubsDiffer
  <2>1. \A r \in Requests : subs'[r].id # NoId => held'[subs'[r].id] \in {r, Nothing}
    BY <1>0, <1>1, <2>0 DEF WorkerInv, IdsInv
  <2>2. /\ \A r, q \in Requests : subs'[r].id # NoId /\ subs'[r].id = subs'[q].id => r = q
        /\ \A r \in Requests, l \in Lanes : subs'[r].id # NoId => calls'[l].id # subs'[r].id
        /\ OpCall'.id # NoId => RestoreCall'.id # OpCall'.id
    BY <1>1, <1>5, <1>6 DEF WorkerInv, IdsInv
  <2>3. \A l \in Lanes : calls'[l].t = "unsubscribe" /\ calls'[l].working = TRUE => held'[calls'[l].id] = Free
    <3> SUFFICES ASSUME NEW l \in Lanes, calls'[l].t = "unsubscribe", calls'[l].working = TRUE
                 PROVE  held'[calls'[l].id] = Free
      OBVIOUS
    <3>1. CASE l = lane
      BY <1>4, <3>1
    <3>2. CASE l # lane
      <4>1. calls[l].t = "unsubscribe" /\ calls[l].working = TRUE /\ calls[l] # NoCall
        BY <1>4, <3>2 DEF NoCall
      <4>2. held[calls[l].id] = Free /\ calls[l].id \in Ids
        BY <4>1, CallFacts DEF WorkerInv, IdsInv
      <4> QED BY <1>4, <3>2, <4>2
    <3> QED BY <3>1, <3>2
  <2> QED BY <2>1, <2>2, <2>3 DEF IdsInv
<1>13. NothingIsOrphaned'
  <2> SUFFICES ASSUME NEW j \in Ids, held'[j] # Free
               PROVE  \/ \E q \in Requests : subs'[q].id = j
                      \/ \E l \in Lanes : calls'[l].t = "unsubscribe" /\ calls'[l].id = j
    BY DEF NothingIsOrphaned
  <2>1. held[j] # Free
    OBVIOUS
  <2> QED BY <1>1, <1>5, <2>1 DEF WorkerInv, NothingIsOrphaned
<1>14. StreamedInv'
  <2> SUFFICES ASSUME NEW r \in Requests
               PROVE  \/ r \in venue' \/ chainRefs'[r] = 0
                      \/ \E l \in Lanes : calls'[l].t = "subscribe" /\ calls'[l].request = r /\ calls'[l].working = TRUE
    BY DEF StreamedInv
  <2>1. \/ r \in venue \/ chainRefs[r] = 0
        \/ \E l \in Lanes : calls[l].t = "subscribe" /\ calls[l].request = r /\ calls[l].working = TRUE
    BY DEF WorkerInv, StreamedInv
  <2> QED BY <1>0, <1>4, <2>1
<1> QED BY <1>7, <1>8, <1>9, <1>10, <1>11, <1>12, <1>13, <1>14 DEF WorkerInv

\* A subscription that the worker holds is of a new id.
LEMMA HoldingOK ==
    ASSUME FeedInv, NEW lane \in Lanes, calls[lane] # NoCall, calls[lane].t = "subscribe",
           NEW what \in {calls[lane].request, Nothing}, Holding(what)
    PROVE  HeldOK(lane, NewId) /\ held' \in [Ids -> Requests \cup {Free, Nothing}] /\ NewId \in Ids /\ NewId # NoId
<1>1. calls[lane].request \in Requests
  BY CallFacts
<1>2. NewId \in Ids /\ held[NewId] = Free /\ \A l \in Lanes : calls[l].id # NewId
  BY <1>1, NewIdIsNew DEF FeedInv, WorkerInv
<1>3. held \in [Ids -> Requests \cup {Free, Nothing}]
  BY DEF FeedInv, FeedTypes
<1> DEFINE new == NewId
<1>4. held' = [held EXCEPT ![new] = what]
  BY DEF Holding
<1>5. new \in Ids /\ held[new] = Free /\ \A l \in Lanes : calls[l].id # new
  BY <1>2
<1> HIDE DEF new
<1>6. held' \in [Ids -> Requests \cup {Free, Nothing}] /\ held'[new] = what /\ \A j \in Ids : j # new => held'[j] = held[j]
  BY <1>1, <1>3, <1>4, <1>5
<1>7. HeldOK(lane, new)
  BY <1>5, <1>6 DEF HeldOK
<1>8. new # NoId
  BY <1>5, SubsDiffer
<1> QED BY <1>5, <1>6, <1>7, <1>8 DEF new

\* The worker takes a loadMarkets.
LEMMA TakeLoadOK ==
    ASSUME FeedInv, running, inbox # <<>>, NEW lane, lane = Head(inbox), TakeLoad(lane),
           UNCHANGED <<running, deaths, refusals>>
    PROVE  FeedInv'
<1>0. /\ lane \in Lanes /\ calls[lane] # NoCall /\ calls[lane].working = FALSE /\ BoxOK(lane, Tail(inbox))
  BY NextMessage
<1>1. /\ calls[lane].t = "loadMarkets" /\ UNCHANGED <<markets, held, chainRefs, venue>>
  BY DEF TakeLoad, workerVars
<1>2. WorkerTypes'
  BY <1>1 DEF FeedInv, FeedTypes, WorkerTypes
<1>3. CASE Hear(lane, TRUE, NoId, Tail(inbox))
  <2>1. HearingOK(lane, NoId)
    BY <1>0, <1>1, <1>3, HearOK
  <2>2. HeldOK(lane, NoId) /\ StreamOK(lane)
    BY <1>1 DEF HeldOK, StreamOK
  <2> QED BY <1>0, <1>2, <2>1, <2>2, HeardOK
<1>4. CASE Works(lane)
  BY <1>1, <1>2, <1>4, WorksOK
<1> QED BY <1>3, <1>4 DEF TakeLoad

\* The worker takes a subscribe.
LEMMA TakeSubscribeOK ==
    ASSUME FeedInv, running, inbox # <<>>, NEW lane, lane = Head(inbox), TakeSubscribe(lane, calls[lane].request),
           UNCHANGED <<running, deaths, refusals>>
    PROVE  FeedInv'
<1> DEFINE r == calls[lane].request
<1>0. /\ lane \in Lanes /\ calls[lane] # NoCall /\ calls[lane].working = FALSE /\ BoxOK(lane, Tail(inbox))
  BY NextMessage
<1>1. /\ calls[lane].t = "subscribe" /\ UNCHANGED <<markets, venue>>
  BY DEF TakeSubscribe
<1>2. r \in Requests
  BY <1>0, <1>1, CallFacts
<1>3. ASSUME NEW what \in {r, Nothing}, Holding(what), Hear(lane, TRUE, NewId, Tail(inbox)),
             chainRefs' \in [Requests -> Nat],
             \A q \in Requests : chainRefs[q] = 0 => chainRefs'[q] = 0
      PROVE  FeedInv'
  <2>1. HeldOK(lane, NewId) /\ held' \in [Ids -> Requests \cup {Free, Nothing}] /\ NewId \in Ids /\ NewId # NoId
    BY <1>0, <1>1, <1>3, HoldingOK
  <2> DEFINE new == NewId
  <2>2. new \in Ids \cup {NoId} /\ new # NoId /\ HeldOK(lane, new) /\ Hear(lane, TRUE, new, Tail(inbox))
    BY <1>3, <2>1
  <2> HIDE DEF new
  <2>3. HearingOK(lane, new)
    BY <1>0, <1>1, <2>2, HearOK
  <2>4. StreamOK(lane)
    BY <1>0, <1>1, <1>3 DEF StreamOK
  <2>5. WorkerTypes'
    BY <1>1, <1>3, <2>1 DEF FeedInv, FeedTypes, WorkerTypes
  <2> QED BY <1>0, <2>2, <2>3, <2>4, <2>5, HeardOK
<1>4. CASE ~markets /\ Holding(Nothing) /\ Hear(lane, TRUE, NewId, Tail(inbox)) /\ UNCHANGED chainRefs
  BY <1>3, <1>4 DEF FeedInv, FeedTypes
<1>5. CASE /\ chainRefs' = [chainRefs EXCEPT ![r] = @ + 1]
           /\ chainRefs[r] = 0 /\ Works(lane) /\ UNCHANGED held
  <2>1. chainRefs' \in [Requests -> Nat] /\ \A q \in Requests : q # r => chainRefs'[q] = chainRefs[q]
    BY <1>2, <1>5 DEF FeedInv, FeedTypes
  <2>2. WorkerTypes'
    BY <1>1, <1>5, <2>1 DEF FeedInv, FeedTypes, WorkerTypes
  <2> QED BY <1>1, <1>5, <2>1, <2>2, WorksOK
<1>6. CASE /\ chainRefs' = [chainRefs EXCEPT ![r] = @ + 1]
           /\ chainRefs[r] # 0 /\ Holding(r) /\ Hear(lane, TRUE, NewId, Tail(inbox))
  <2>1. chainRefs' \in [Requests -> Nat] /\ \A q \in Requests : chainRefs[q] = 0 => chainRefs'[q] = 0
    BY <1>2, <1>6 DEF FeedInv, FeedTypes
  <2> QED BY <1>3, <1>6, <2>1
<1> QED BY <1>4, <1>5, <1>6 DEF TakeSubscribe

\* The worker takes an unsubscribe.
LEMMA TakeUnsubscribeOK ==
    ASSUME FeedInv, running, inbox # <<>>, NEW lane, lane = Head(inbox), TakeUnsubscribe(lane, calls[lane].id),
           UNCHANGED <<running, deaths, refusals>>
    PROVE  FeedInv'
<1> DEFINE i == calls[lane].id
           r == held[i]
<1>0. /\ lane \in Lanes /\ calls[lane] # NoCall /\ calls[lane].working = FALSE /\ BoxOK(lane, Tail(inbox))
  BY NextMessage
<1>1. /\ calls[lane].t = "unsubscribe" /\ UNCHANGED markets
      /\ held' = [held EXCEPT ![i] = Free]
  BY DEF TakeUnsubscribe
<1>2. i \in Ids
  BY <1>0, <1>1, CallFacts
<1>3. held' \in [Ids -> Requests \cup {Free, Nothing}] /\ held'[i] = Free /\ \A j \in Ids : j # i => held'[j] = held[j]
  BY <1>1, <1>2 DEF FeedInv, FeedTypes
<1>4. HeldOK(lane, NoId)
  BY <1>1, <1>3 DEF HeldOK
<1>5. r \in Requests \cup {Free, Nothing}
  BY <1>2 DEF FeedInv, FeedTypes
<1>6. CASE r \in {Free, Nothing} /\ Hear(lane, TRUE, NoId, Tail(inbox)) /\ UNCHANGED <<chainRefs, venue>>
  <2>1. HearingOK(lane, NoId)
    BY <1>0, <1>1, <1>6, HearOK
  <2>2. StreamOK(lane)
    BY <1>1, <1>6 DEF StreamOK
  <2>3. WorkerTypes'
    BY <1>1, <1>3, <1>6 DEF FeedInv, FeedTypes, WorkerTypes
  <2> QED BY <1>0, <1>4, <2>1, <2>2, <2>3, HeardOK
<1>7. CASE /\ r \in Requests
           /\ chainRefs' = [chainRefs EXCEPT ![r] = IF @ > 0 THEN @ - 1 ELSE 0]
           /\ \/ /\ chainRefs[r] > 1
                 /\ Hear(lane, TRUE, NoId, Tail(inbox)) /\ UNCHANGED venue
              \/ /\ ~(chainRefs[r] > 1)
                 /\ Works(lane) /\ venue' = venue \ {r}
  <2>0. chainRefs \in [Requests -> Nat] /\ chainRefs[r] \in Nat
    BY <1>7 DEF FeedInv, FeedTypes
  <2>1. /\ chainRefs' \in [Requests -> Nat] /\ \A q \in Requests : q # r => chainRefs'[q] = chainRefs[q]
        /\ chainRefs'[r] = IF chainRefs[r] > 0 THEN chainRefs[r] - 1 ELSE 0
    <3>1. r \in Requests /\ chainRefs' = [chainRefs EXCEPT ![r] = IF @ > 0 THEN @ - 1 ELSE 0]
      BY <1>7
    <3> HIDE DEF r
    <3> QED BY <2>0, <3>1
  <2>2. venue' \subseteq Requests
    BY <1>7 DEF FeedInv, FeedTypes
  <2>3. WorkerTypes'
    BY <1>1, <1>3, <2>1, <2>2 DEF FeedInv, FeedTypes, WorkerTypes
  <2>4. CASE chainRefs[r] > 1 /\ Hear(lane, TRUE, NoId, Tail(inbox)) /\ UNCHANGED venue
    <3>1. HearingOK(lane, NoId)
      BY <1>0, <1>1, <2>4, HearOK
    <3>2. StreamOK(lane)
      BY <1>1, <2>0, <2>1, <2>4 DEF StreamOK
    <3> QED BY <1>0, <1>4, <2>3, <3>1, <3>2, HeardOK
  <2>5. CASE ~(chainRefs[r] > 1) /\ Works(lane) /\ venue' = venue \ {r}
    <3>1. chainRefs'[r] = 0
      BY <2>0, <2>1, <2>5
    <3>2. \A q \in Requests :
             \/ chainRefs'[q] = 0
             \/ (q \in venue => q \in venue') /\ (chainRefs[q] = 0 => chainRefs'[q] = 0)
      BY <2>1, <2>5, <3>1
    <3>3. /\ \A j \in Ids : held'[j] = held[j] \/ (held'[j] = Free /\ j = calls[lane].id)
          /\ held'[calls[lane].id] = Free
      BY <1>3
    <3> QED BY <2>3, <2>5, <3>2, <3>3, WorksOK
  <2> QED BY <1>7, <2>4, <2>5
<1> QED BY <1>5, <1>6, <1>7 DEF TakeUnsubscribe

LEMMA TakeMessageOK == ASSUME FeedInv, TakeMessage PROVE FeedInv'
<1> DEFINE lane == Head(inbox)
<1>1. /\ running /\ inbox # <<>> /\ UNCHANGED <<running, deaths, refusals>>
      /\ TakeLoad(lane) \/ TakeSubscribe(lane, calls[lane].request) \/ TakeUnsubscribe(lane, calls[lane].id)
  BY DEF TakeMessage
<1> QED BY <1>1, TakeLoadOK, TakeSubscribeOK, TakeUnsubscribeOK

\* The worker has its instruments.
LEMMA InstrumentsFetchedOK == ASSUME FeedInv, InstrumentsFetched PROVE FeedInv'
<1> USE DEF FeedInv
<1>1. /\ UNCHANGED <<users, ops, requestRefs, running, subs, restore, calls, inbox, held, chainRefs, venue,
                     deaths, refusals>>
      /\ markets' = TRUE
  BY DEF InstrumentsFetched, userVars, proxyVars
<1>2. FeedTypes'
  BY <1>1 DEF FeedTypes
<1>3. DemandInv'
  <2>1. OpCall' = OpCall
    BY <1>1 DEF OpCall
  <2> QED BY <1>1, <2>1, DemandFrame
<1>4. RestoreInv' /\ WorkerInv'
  BY <1>1, RestoreFrame, WorkerFrame
<1> QED BY <1>2, <1>3, <1>4

\* The venue did what a call of the worker waits for.
LEMMA VenueAnswersOK == ASSUME FeedInv, NEW lane \in Lanes, VenueAnswers(lane) PROVE FeedInv'
<1> DEFINE r == calls[lane].request
<1>0. calls[lane].working = TRUE
  <2>1. calls[lane] \in CallRecords \cup {NoCall}
    BY DEF FeedInv, FeedTypes
  <2>2. CASE calls[lane] = NoCall
    BY <2>2 DEF NoCall, VenueAnswers
  <2>3. CASE calls[lane] \in CallRecords
    BY <2>3 DEF CallRecords, VenueAnswers
  <2> QED BY <2>1, <2>2, <2>3
<1>1. /\ running /\ UNCHANGED <<running, deaths, refusals>>
      /\ calls[lane] # NoCall /\ BoxOK(lane, inbox)
  BY <1>0, WorkingBox DEF VenueAnswers
<1>2. CASE calls[lane].t = "loadMarkets" /\ Hear(lane, TRUE, NoId, inbox) /\ UNCHANGED workerVars
  <2>1. HearingOK(lane, NoId)
    BY <1>1, <1>2, HearOK
  <2>2. HeldOK(lane, NoId) /\ StreamOK(lane)
    BY <1>2 DEF HeldOK, StreamOK, workerVars
  <2>3. WorkerTypes'
    BY <1>1, <1>2 DEF FeedInv, FeedTypes, WorkerTypes, workerVars
  <2> QED BY <1>1, <2>1, <2>2, <2>3, HeardOK
<1>3. CASE calls[lane].t = "unsubscribe" /\ Hear(lane, TRUE, NoId, inbox) /\ UNCHANGED workerVars
  <2>1. HearingOK(lane, NoId)
    BY <1>1, <1>3, HearOK
  <2>2. held[calls[lane].id] = Free
    BY <1>0, <1>3 DEF FeedInv, WorkerInv, IdsInv
  <2>3. HeldOK(lane, NoId) /\ StreamOK(lane)
    BY <1>3, <2>2 DEF HeldOK, StreamOK, workerVars
  <2>4. WorkerTypes'
    BY <1>1, <1>3 DEF FeedInv, FeedTypes, WorkerTypes, workerVars
  <2> QED BY <1>1, <2>1, <2>3, <2>4, HeardOK
<1>4. CASE /\ calls[lane].t = "subscribe" /\ venue' = venue \cup {r} /\ Holding(r)
           /\ Hear(lane, TRUE, NewId, inbox) /\ UNCHANGED <<markets, chainRefs>>
  <2>0. r \in Requests
    BY <1>1, <1>4, CallFacts
  <2>1. HeldOK(lane, NewId) /\ held' \in [Ids -> Requests \cup {Free, Nothing}] /\ NewId \in Ids /\ NewId # NoId
    BY <1>1, <1>4, HoldingOK
  <2> DEFINE new == NewId
  <2>2. new \in Ids \cup {NoId} /\ new # NoId /\ HeldOK(lane, new) /\ Hear(lane, TRUE, new, inbox)
    BY <1>4, <2>1
  <2> HIDE DEF new
  <2>3. HearingOK(lane, new)
    BY <1>1, <1>4, <2>2, HearOK
  <2>4. StreamOK(lane)
    BY <1>4 DEF StreamOK
  <2>5. WorkerTypes'
    BY <1>1, <1>4, <2>0, <2>1 DEF FeedInv, FeedTypes, WorkerTypes
  <2> QED BY <1>1, <2>2, <2>3, <2>4, <2>5, HeardOK
<1> QED BY <1>2, <1>3, <1>4 DEF VenueAnswers

\* The venue refuses it.
LEMMA VenueRefusesOK == ASSUME FeedInv, NEW lane \in Lanes, VenueRefuses(lane) PROVE FeedInv'
<1> DEFINE r == calls[lane].request
<1>0. calls[lane].working = TRUE
  <2>1. calls[lane] \in CallRecords \cup {NoCall}
    BY DEF FeedInv, FeedTypes
  <2>2. CASE calls[lane] = NoCall
    BY <2>2 DEF NoCall, VenueRefuses
  <2>3. CASE calls[lane] \in CallRecords
    BY <2>3 DEF CallRecords, VenueRefuses
  <2> QED BY <2>1, <2>2, <2>3
<1>1. /\ running /\ refusals < Refusals /\ refusals' = refusals + 1
      /\ UNCHANGED <<running, markets, held, venue, deaths>>
      /\ Hear(lane, FALSE, NoId, inbox) /\ chainRefs' = Forgotten(calls[lane])
      /\ calls[lane] # NoCall /\ BoxOK(lane, inbox)
  BY <1>0, WorkingBox DEF VenueRefuses
<1>2. /\ chainRefs' \in [Requests -> Nat]
      /\ \A q \in Requests : chainRefs'[q] = 0 \/ (chainRefs'[q] = chainRefs[q] /\ ~(calls[lane].t = "subscribe" /\ r = q))
  <2>1. chainRefs \in [Requests -> Nat]
    BY DEF FeedInv, FeedTypes
  <2> QED BY <1>1, <2>1 DEF Forgotten
<1>3. HearingOK(lane, NoId)
  BY <1>1, HearOK
<1>4. HeldOK(lane, NoId)
  <2>1. calls[lane].t = "unsubscribe" => held[calls[lane].id] = Free /\ calls[lane].id \in Ids
    BY <1>0, <1>1, CallFacts DEF FeedInv, WorkerInv, IdsInv
  <2> QED BY <1>1, <2>1 DEF HeldOK
<1>5. StreamOK(lane)
  BY <1>1, <1>2 DEF StreamOK
<1>6. WorkerTypes'
  <2>1. refusals' \in 0 .. Refusals
    BY <1>1, VenueFeedAssumption DEF FeedInv, FeedTypes
  <2> QED BY <1>1, <1>2, <2>1 DEF FeedInv, FeedTypes, WorkerTypes
<1> QED BY <1>1, <1>3, <1>4, <1>5, <1>6, HeardOK

-----------------------------------------------------------------------------
(* The worker's death and its successor.                                   *)

LEMMA WorkerDiesOK == ASSUME FeedInv, WorkerDies PROVE FeedInv'
<1> USE DEF FeedInv
<1>1. /\ deaths < Deaths /\ deaths' = deaths + 1 /\ refusals' = refusals
      /\ running' = FALSE /\ subs' = LostSubs /\ restore' = AtRest
      /\ calls' = [l \in Lanes |-> NoCall] /\ inbox' = <<>>
      /\ markets' = FALSE /\ held' = [j \in Ids |-> Free]
      /\ chainRefs' = [r \in Requests |-> 0] /\ venue' = {}
  BY DEF WorkerDies
<1>2. /\ OpCall' = NoCall /\ RestoreCall' = NoCall
      /\ \A l \in Lanes : calls'[l] = NoCall
  BY <1>1 DEF OpCall, RestoreCall, Lanes
<1>3. NoCall.t = "none" /\ NoCall.id = NoId /\ NoCall.working = FALSE
  BY DEF NoCall
<1>4. /\ \A r \in Requests : subs'[r] = NoSub \/ subs'[r] = LostSub
      /\ \A r \in Requests : subs'[r] = NoSub <=> subs[r] = NoSub
      /\ subs' \in [Requests -> {NoSub, LostSub} \cup {LiveSub(j) : j \in Ids}]
      /\ \A r \in Requests : subs'[r].id = NoId
  <2>1. \A r \in Requests : subs[r].is = TRUE \/ subs[r] = NoSub
    <3>1. subs \in [Requests -> {NoSub, LostSub} \cup {LiveSub(j) : j \in Ids}]
      BY DEF FeedTypes
    <3> QED BY <3>1 DEF LostSub, LiveSub
  <2>2. NoSub.is = FALSE
    BY DEF NoSub
  <2>3. \A r \in Requests : subs'[r] = IF subs[r] = NoSub THEN NoSub ELSE LostSub
    BY <1>1, <2>1, <2>2 DEF LostSubs, LostSub
  <2>4. subs' = [r \in Requests |-> subs'[r]]
    BY <1>1 DEF LostSubs
  <2>5. subs' \in [Requests -> {NoSub, LostSub} \cup {LiveSub(j) : j \in Ids}]
    BY <2>3, <2>4
  <2> QED BY <2>3, <2>5, SubsDiffer
<1>5. /\ users' \in [Users -> UserRecords \cup {Out}] /\ ops' \in Seq(Users)
      /\ requestRefs' \in [Requests -> Nat]
      /\ DemandInv'
  <2>1. CASE OpCall = NoCall
    <3>1. UNCHANGED <<users, ops, requestRefs, OpCall>>
      BY <1>2, <2>1 DEF WorkerDies, OpCall, userVars
    <3> QED BY <1>4, <3>1, DemandFrame DEF FeedTypes
  <2>2. CASE OpCall # NoCall
    <3>1. /\ OpFails
          /\ requestRefs' = IF OpCall.t = "subscribe" THEN [requestRefs EXCEPT ![OpCall.request] = 0] ELSE requestRefs
      BY <2>2 DEF WorkerDies, OpCall
    <3> QED BY <1>2, <1>4, <2>2, <3>1, OperationFailed
  <2> QED BY <2>1, <2>2
<1>6. FeedTypes'
  <2>1. deaths' \in 0 .. Deaths
    BY <1>1, VenueFeedAssumption DEF FeedTypes
  <2>2. /\ restore' \in [at : {"rest", "loading", "replaying", "undoing", "waiting"}, todo : SUBSET Replays,
                         current : Replays \cup {NoReplay}, failed : BOOLEAN]
        /\ calls' \in [Lanes -> CallRecords \cup {NoCall}] /\ inbox' \in Seq(Lanes)
    BY <1>1 DEF AtRest
  <2>3. /\ held' \in [Ids -> Requests \cup {Free, Nothing}]
        /\ chainRefs' \in [Requests -> Nat] /\ venue' \subseteq Requests /\ refusals' \in 0 .. Refusals
    BY <1>1 DEF FeedTypes
  <2> QED BY <1>1, <1>4, <1>5, <2>1, <2>2, <2>3 DEF FeedTypes
<1>7. RestoreInv'
  <2>1. RestoreCallInv'
    BY <1>1, <1>2 DEF RestoreCallInv, AtRest
  <2>2. ReplaysInv' /\ LostInv'
    BY <1>1 DEF ReplaysInv, LostInv, AtRest
  <2>3. DownInv'
    BY <1>1, <1>2, <1>4 DEF DownInv
  <2> QED BY <2>1, <2>2, <2>3 DEF RestoreInv
<1>8. WorkerInv'
  <2>1. InboxInv'
    BY <1>1, <1>2, NothingListed DEF InboxInv
  <2>2. CallsInv'
    BY <1>2, <1>3 DEF CallsInv
  <2>3. IdsInv'
    BY <1>2, <1>3, <1>4 DEF IdsInv
  <2>4. NothingIsOrphaned' /\ StreamedInv'
    BY <1>1 DEF NothingIsOrphaned, StreamedInv
  <2> QED BY <2>1, <2>2, <2>3, <2>4 DEF WorkerInv
<1> QED BY <1>5, <1>6, <1>7, <1>8

\* restore() begins, in a new worker or when its timer fires.
LEMMA BeginsOK ==
    ASSUME FeedInv, RestoreCall = NoCall, restore.at # "replaying", restore.todo = {},
           running', RestoreBegins("loading", inbox), UNCHANGED <<userVars, subs, workerVars, deaths, refusals>>,
           running' \in BOOLEAN
    PROVE  FeedInv'
<1> USE DEF FeedInv
<1>1. /\ restore' = [AtRest EXCEPT !.at = "loading"]
      /\ Send("restore", "loadMarkets", NoRequest, NoId, inbox)
      /\ UNCHANGED <<users, ops, requestRefs, subs, markets, held, chainRefs, venue, deaths, refusals>>
  BY DEF RestoreBegins, userVars, workerVars
<1>2. BoxOK("restore", inbox)
  BY IdleBox DEF WorkerInv, RestoreCall, Lanes
<1>3. /\ calls' \in [Lanes -> CallRecords \cup {NoCall}] /\ inbox' \in Seq(Lanes)
      /\ InboxInv'
      /\ RestoreCall' = CallOf("loadMarkets", NoRequest, NoId)
      /\ OpCall' = OpCall
      /\ \A l \in Lanes : l # "restore" => calls'[l] = calls[l]
  BY <1>1, <1>2, SendOK DEF OpCall, RestoreCall, Lanes
<1>4. /\ RestoreCall'.t = "loadMarkets" /\ RestoreCall'.id = NoId /\ RestoreCall'.working = FALSE
  BY <1>3 DEF CallOf
<1>5. /\ restore'.at = "loading" /\ restore'.todo = {} /\ restore'.failed = FALSE
      /\ restore' \in [at : {"rest", "loading", "replaying", "undoing", "waiting"}, todo : SUBSET Replays,
                       current : Replays \cup {NoReplay}, failed : BOOLEAN]
  BY <1>1 DEF AtRest
<1>6. FeedTypes'
  BY <1>1, <1>3, <1>5 DEF FeedTypes
<1>7. DemandInv'
  BY <1>1, <1>3, DemandFrame
<1>8. RestoreInv'
  BY <1>4, <1>5 DEF RestoreInv, RestoreCallInv, ReplaysInv, LostInv, DownInv
<1>9. CallsInv'
  BY <1>3, <1>4 DEF WorkerInv, CallsInv, RestoreCall
<1>10. IdsInv'
  <2>1. /\ \A r \in Requests : subs'[r].id # NoId => held'[subs'[r].id] \in {r, Nothing}
        /\ \A r, q \in Requests : subs'[r].id # NoId /\ subs'[r].id = subs'[q].id => r = q
    BY <1>1 DEF WorkerInv, IdsInv
  <2>2. \A r \in Requests, l \in Lanes : subs'[r].id # NoId => calls'[l].id # subs'[r].id
    BY <1>1, <1>3, <1>4 DEF WorkerInv, IdsInv, RestoreCall
  <2>3. OpCall'.id # NoId => RestoreCall'.id # OpCall'.id
    BY <1>4
  <2>4. \A l \in Lanes : calls'[l].t = "unsubscribe" /\ calls'[l].working = TRUE => held'[calls'[l].id] = Free
    BY <1>1, <1>3, <1>4 DEF WorkerInv, IdsInv, RestoreCall
  <2> QED BY <2>1, <2>2, <2>3, <2>4 DEF IdsInv
<1>11. NothingIsOrphaned'
  <2>1. \A l \in Lanes : calls[l].t = "unsubscribe" => calls'[l] = calls[l]
    BY <1>3 DEF RestoreCall, NoCall
  <2> QED BY <1>1, <2>1 DEF WorkerInv, NothingIsOrphaned
<1>12. StreamedInv'
  <2>1. \A l \in Lanes : calls[l].t = "subscribe" => calls'[l] = calls[l]
    BY <1>3 DEF RestoreCall, NoCall
  <2> QED BY <1>1, <2>1 DEF WorkerInv, StreamedInv
<1> QED BY <1>3, <1>6, <1>7, <1>8, <1>9, <1>10, <1>11, <1>12 DEF WorkerInv

LEMMA RespawnOK == ASSUME FeedInv, Respawn PROVE FeedInv'
<1>1. RestoreCall = NoCall /\ restore = AtRest
  BY DEF Respawn, FeedInv, RestoreInv, DownInv, RestoreCall, Lanes
<1>2. restore.at # "replaying" /\ restore.todo = {}
  BY <1>1 DEF AtRest
<1> QED BY <1>1, <1>2, BeginsOK DEF Respawn

LEMMA RetryFiresOK == ASSUME FeedInv, RetryFires PROVE FeedInv'
<1>1. RestoreCall = NoCall /\ restore.at # "replaying" /\ restore.todo = {}
  BY DEF RetryFires, FeedInv, RestoreInv, RestoreCallInv, ReplaysInv
<1>2. running' = running /\ running \in BOOLEAN
  BY DEF RetryFires, FeedInv, FeedTypes
<1> QED BY <1>1, <1>2, BeginsOK DEF RetryFires

-----------------------------------------------------------------------------
\* Every step keeps the invariant, and so does a step of something else.
LEMMA FeedStep == FeedInv /\ [VFNext]_feedVars => FeedInv'
<1> SUFFICES ASSUME FeedInv, [VFNext]_feedVars PROVE FeedInv'
  OBVIOUS
<1>1. ASSUME UNCHANGED feedVars PROVE FeedInv'
  <2>1. UNCHANGED <<users, ops, requestRefs, running, subs, restore, calls, inbox, markets, held, chainRefs, venue,
                    deaths, refusals>>
    BY <1>1 DEF feedVars, userVars, proxyVars, workerVars
  <2>2. FeedTypes'
    BY <2>1 DEF FeedInv, FeedTypes
  <2>3. OpCall' = OpCall
    BY <2>1 DEF OpCall
  <2>4. DemandInv'
    BY <2>1, <2>3, DemandFrame DEF FeedInv
  <2>5. RestoreInv' /\ WorkerInv'
    BY <2>1, RestoreFrame, WorkerFrame DEF FeedInv
  <2> QED BY <2>2, <2>4, <2>5 DEF FeedInv
<1>2. ASSUME NEW u \in Users, ReleaseHandle(u) PROVE FeedInv'
  BY <1>2, ReleaseHandleOK
<1>3. ASSUME NEW u \in Users, NEW r \in Requests, Acquire(u, r) PROVE FeedInv'
  BY <1>3, AcquireOK
<1>4. ASSUME NEW l \in Lanes, VenueAnswers(l) \/ VenueRefuses(l) PROVE FeedInv'
  BY <1>4, VenueAnswersOK, VenueRefusesOK
<1> QED
  BY <1>1, <1>2, <1>3, <1>4, RunOpOK, TakeMessageOK, InstrumentsFetchedOK, WorkerDiesOK, RespawnOK, RetryFiresOK
  DEF VFNext

\* FeedInv is inductive.
THEOREM FeedInvariant == VFSpec => []FeedInv
BY FeedInitOK, FeedStep, PTL DEF VFSpec

\* VFTypeOK: every variable of the feed keeps its type, and neither the chain of
\* operations nor the worker's inbox grows beyond those who can be in it.
THEOREM VFTypeCorrect == VFSpec => []VFTypeOK
<1>1. FeedInv => VFTypeOK
  <2> SUFFICES ASSUME FeedInv PROVE VFTypeOK
    OBVIOUS
  <2>1. Len(ops) <= Cardinality(Users)
    BY QueueIsShort, VenueFeedAssumption DEF FeedInv, FeedTypes, DemandInv, QueueInv
  <2>2. Len(inbox) <= 2
    <3>1. IsFiniteSet(Lanes) /\ Cardinality(Lanes) = 2
      BY PairCount DEF Lanes
    <3> QED BY <3>1, QueueIsShort DEF FeedInv, FeedTypes, WorkerInv, InboxInv
  <2>3. subs \in [Requests -> [id : Ids \cup {NoId}, needsReplay : BOOLEAN, is : {TRUE}] \cup {NoSub}]
    <3>1. LostSub \in [id : Ids \cup {NoId}, needsReplay : BOOLEAN, is : {TRUE}]
      BY DEF LostSub
    <3>2. \A j \in Ids : LiveSub(j) \in [id : Ids \cup {NoId}, needsReplay : BOOLEAN, is : {TRUE}]
      BY DEF LiveSub
    <3>3. subs \in [Requests -> {NoSub, LostSub} \cup {LiveSub(j) : j \in Ids}]
      BY DEF FeedInv, FeedTypes
    <3> DEFINE T == [id : Ids \cup {NoId}, needsReplay : BOOLEAN, is : {TRUE}] \cup {NoSub}
    <3>4. \A r \in Requests : subs[r] \in T
      <4> SUFFICES ASSUME NEW r \in Requests PROVE subs[r] \in T
        OBVIOUS
      <4>1. CASE subs[r] = NoSub
        BY <4>1
      <4>2. CASE subs[r] = LostSub
        BY <3>1, <4>2
      <4>3. CASE \E j \in Ids : subs[r] = LiveSub(j)
        BY <3>2, <4>3
      <4> QED BY <3>3, <4>1, <4>2, <4>3
    <3> HIDE DEF T
    <3>5. subs \in [Requests -> T]
      BY <3>3, <3>4
    <3> QED BY <3>5 DEF T
  <2> QED BY <2>1, <2>2, <2>3 DEF FeedInv, FeedTypes, VFTypeOK, UserRecords, CallRecords
<1> QED BY <1>1, FeedInvariant, PTL

\* HeldIsServed: whoever holds a request is counted, and once nothing is under way
\* a subscription of the present worker serves it, for any number of callers,
\* chains, deaths of the worker and refusals of the venue.
THEOREM HeldServed == VFSpec => []HeldIsServed
<1>1. FeedInv => HeldIsServed
  <2> SUFFICES ASSUME FeedInv, NEW u \in Users, users[u].at = "holding"
               PROVE  LET r == users[u].request IN
                      /\ requestRefs[r] >= Cardinality({v \in Users : users[v] = users[u]})
                      /\ subs[r].is
                      /\ Quiet => /\ subs[r].id # NoId
                                  /\ \/ held[subs[r].id] = r /\ (r \in venue \/ chainRefs[r] = 0)
                                     \/ held[subs[r].id] = Nothing
    BY DEF HeldIsServed
  <2> DEFINE r == users[u].request
             S == {v \in Users : users[v] = users[u]}
  <2>1. r \in Requests
    BY DEF FeedInv, FeedTypes, UserRecords, Out
  <2>2. S \subseteq Counted(r) /\ S \in SUBSET Users /\ Counted(r) \in SUBSET Users /\ u \in S
    BY DEF Counted
  <2>3. requestRefs[r] \in Nat /\ Cardinality(Counted(r)) <= requestRefs[r]
    BY <2>1 DEF FeedInv, FeedTypes, DemandInv, CountsInv
  <2>4. Cardinality(S) <= requestRefs[r] /\ Cardinality(S) \in Nat
    <3> HIDE DEF r, S
    <3>1. Cardinality(S) <= requestRefs[r]
      BY <2>2, <2>3, VenueFeedAssumption, CountSteps
    <3>2. Cardinality(S) \in Nat
      BY <2>2, VenueFeedAssumption, FS_Subset, FS_CardinalityType
    <3> QED BY <3>1, <3>2
  <2>5. requestRefs[r] > 0
    <3> HIDE DEF r, S
    <3>1. IsFiniteSet(S)
      BY <2>2, VenueFeedAssumption, FS_Subset
    <3>2. Cardinality(S) # 0
      BY <2>2, <3>1, FS_EmptySet
    <3> QED BY <2>3, <2>4, <3>2
  <2>6. subs[r] # NoSub
    <3>1. CASE OpCall.t = "subscribe" /\ OpCall.request = r
      <4>1. PICK h \in Users : h = Head(ops) /\ users[h].at = "asking" /\ users[h].request = r /\ requestRefs[r] = 1
        <5>1. OpCall # NoCall
          BY <3>1 DEF NoCall
        <5>2. Head(ops) \in Users
          BY <5>1, QueueHead DEF FeedInv
        <5> QED BY <3>1, <5>1, <5>2 DEF FeedInv, DemandInv, OpCallInv
      <4>2. h \in Counted(r) /\ h # u /\ u \in Counted(r)
        BY <2>2, <3>1, <4>1 DEF Counted
      <4>3. IsFiniteSet(Counted(r)) /\ Cardinality(Counted(r)) \in Nat
        BY <2>2, VenueFeedAssumption, FS_Subset, FS_CardinalityType
      <4>4. IsFiniteSet({u, h}) /\ Cardinality({u, h}) = 2
        BY <4>2, PairCount
      <4>5. Cardinality({u, h}) <= Cardinality(Counted(r))
        BY <4>2, <4>3, FS_Subset
      <4> QED BY <2>3, <4>1, <4>3, <4>4, <4>5
    <3>2. CASE ~(OpCall.t = "subscribe" /\ OpCall.request = r)
      BY <2>1, <2>5, <3>2 DEF FeedInv, DemandInv, SubsInv
    <3> QED BY <3>1, <3>2
  <2>7. \/ subs[r] = LostSub
        \/ \E j \in Ids : subs[r] = LiveSub(j)
    BY <2>1, <2>6 DEF FeedInv, FeedTypes
  <2>8. subs[r].is = TRUE
    <3>1. LostSub.is = TRUE /\ \A j \in Ids : LiveSub(j).is = TRUE
      BY DEF LostSub, LiveSub
    <3> HIDE DEF LostSub, LiveSub
    <3> QED BY <2>7, <3>1
  <2>9. ASSUME Quiet
        PROVE  /\ subs[r].id # NoId
               /\ \/ held[subs[r].id] = r /\ (r \in venue \/ chainRefs[r] = 0)
                  \/ held[subs[r].id] = Nothing
    <3>1. running /\ restore.at = "rest" /\ OpCall = NoCall /\ RestoreCall = NoCall
      BY <2>9 DEF Quiet, OpCall, FeedInv, RestoreInv, RestoreCallInv
    <3>2. subs[r] # LostSub
      BY <2>1, <3>1 DEF FeedInv, RestoreInv, LostInv, ReplaysInv
    <3>3. subs[r].id # NoId
      BY <2>7, <3>2, SubsDiffer
    <3>4. held[subs[r].id] \in {r, Nothing}
      BY <2>1, <3>3 DEF FeedInv, WorkerInv, IdsInv
    <3>5. r \in venue \/ chainRefs[r] = 0
      <4>1. \A l \in Lanes : calls[l].t = "none"
        BY <3>1 DEF OpCall, RestoreCall, Lanes, NoCall
      <4> QED BY <2>1, <4>1 DEF FeedInv, WorkerInv, StreamedInv
    <3> QED BY <3>3, <3>4, <3>5
  <2> HIDE DEF Counted
  <2> QED BY <2>3, <2>4, <2>8, <2>9
<1> QED BY <1>1, FeedInvariant, PTL

\* NothingIsOrphaned: each subscription of the worker belongs to a subscription of
\* the proxy or to the call that is giving it up.
THEOREM NothingOrphaned == VFSpec => []NothingIsOrphaned
<1>1. FeedInv => NothingIsOrphaned
  BY DEF FeedInv, WorkerInv
<1> QED BY <1>1, FeedInvariant, PTL
=============================================================================

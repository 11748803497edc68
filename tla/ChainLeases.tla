----------------------------- MODULE ChainLeases -----------------------------
(***************************************************************************)
(* Who keeps a chain runtime alive: the ChainRuntimeRegistry               *)
(* (packages/core/src/runtime/chain/chain-runtime-registry.ts), which      *)
(* counts the leases on each runtime and reclaims the idle ones, and the   *)
(* connections of the /ws/chain route (packages/server/src/routes/         *)
(* ws-chain.ts) with their ChainStreamSession, which take and give back    *)
(* those leases around an await.                                           *)
(*                                                                         *)
(* A lease outlives its connection while acquire() still waits for the     *)
(* runtime.  The idle time is left out: an unused runtime may have been    *)
(* idle for long at any time.                                              *)
(***************************************************************************)
EXTENDS Integers, FiniteSets

CONSTANTS
    Conns,      \* sockets of /ws/chain
    Keys,       \* chains: runtimeKey(request)
    Runtimes,   \* bound: runtimes alive, held or being disposed of at once
    Leases,     \* bound: sessions not yet over at once
    Passes,     \* bound: runs of cleanup() under way at once
    Nil         \* none of these

ASSUME LeaseAssumption ==
    /\ IsFiniteSet(Leases)
    /\ Nil \notin Conns \cup Runtimes \cup Leases \cup Keys

VARIABLES
    entries,    \* the registry's map: the runtime of each key
    refCount,   \* of each runtime
    idle,       \* runtimes not used for longer than the idle TTL
    disposed,   \* runtimes disposed of
    passes,     \* per run of cleanup(): the runtime it waits for, and what is left
    leases,     \* the sessions and what each holds
    session     \* per socket, the route's session variable

vars == <<entries, refCount, idle, disposed, passes, leases, session>>

NoLease == [state |-> "over", conn |-> Nil, key |-> Nil, runtime |-> Nil]
NoPass == [current |-> Nil, rest |-> [k \in {} |-> Nil]]

TypeOK ==
    /\ entries \in [Keys -> Runtimes \cup {Nil}]
    /\ refCount \in [Runtimes -> Nat]
    /\ idle \subseteq Runtimes
    /\ disposed \subseteq Runtimes
    /\ passes \in [Passes -> [current : Runtimes \cup {Nil},
                              rest : UNION {[K -> Runtimes] : K \in SUBSET Keys}]]
    /\ leases \in [Leases -> [state : {"acquiring", "live", "cancelled"}, conn : Conns, key : Keys,
                              runtime : Runtimes] \cup {NoLease}]
    /\ session \in [Conns -> Leases \cup {Nil}]

Init ==
    /\ entries = [k \in Keys |-> Nil]
    /\ refCount = [r \in Runtimes |-> 0]
    /\ idle = {}
    /\ disposed = {}
    /\ passes = [p \in Passes |-> NoPass]
    /\ leases = [l \in Leases |-> NoLease]
    /\ session = [c \in Conns |-> Nil]

-----------------------------------------------------------------------------
(* The registry.                                                           *)

Holders(r) == {l \in Leases : leases[l].runtime = r}

InUse(r) ==
    \/ Holders(r) # {}
    \/ \E k \in Keys : entries[k] = r
    \/ \E p \in Passes : passes[p].current = r \/ \E k \in DOMAIN passes[p].rest : passes[p].rest[k] = r

\* Mutant of RuntimeFor: acquire() makes no runtime when it finds none.
RuntimeFound(k) == entries[k]

\* The runtime acquire() finds or makes for a key.
Fresh == CHOOSE r \in Runtimes : ~InUse(r)
RuntimeFor(k) == IF entries[k] # Nil THEN entries[k] ELSE Fresh

\* Mutant of Released: the runtime's count is left as it is.
ReleasedNothing(counts, k) == counts

\* The counts after a lease on a key is given back: the closure of acquire()
\* looks the entry up by its key.
Released(counts, k) ==
    IF entries[k] = Nil THEN counts
    ELSE [counts EXCEPT ![entries[k]] = IF @ > 0 THEN @ - 1 ELSE 0]

\* Mutant of Stale: whatever was not touched for long is stale.
StaleThoughHeld == {k \in Keys : entries[k] \in idle}

\* What one run of cleanup() sets out to reclaim.
Stale == {k \in Keys : entries[k] \in idle /\ refCount[entries[k]] = 0}

\* The body of cleanup()'s loop, for the entry found under k at the outset: the
\* key is deleted, whatever it holds by now, and that runtime's dispose() begun.
Reclaim(p, k, list) ==
    /\ entries' = [entries EXCEPT ![k] = Nil]
    /\ disposed' = disposed \cup {list[k]}
    /\ passes' = [passes EXCEPT ![p] = [current |-> list[k], rest |-> [j \in DOMAIN list \ {k} |-> list[j]]]]
    /\ UNCHANGED <<refCount, idle, leases, session>>

\* The idle TTL of an entry runs out.
Ages(k) ==
    /\ entries[k] \notin idle \cup {Nil}
    /\ idle' = idle \cup {entries[k]}
    /\ UNCHANGED <<entries, refCount, disposed, passes, leases, session>>

CleanupBegins(p) ==
    /\ passes[p] = NoPass
    /\ \E k \in Stale : Reclaim(p, k, [j \in Stale |-> entries[j]])

\* A runtime's dispose() has released its venues: cleanup() goes on.
CleanupGoesOn(p) ==
    /\ passes[p].current # Nil
    /\ IF DOMAIN passes[p].rest = {}
       THEN /\ passes' = [passes EXCEPT ![p] = NoPass]
            /\ UNCHANGED <<entries, refCount, idle, disposed, leases, session>>
       ELSE \E k \in DOMAIN passes[p].rest : Reclaim(p, k, passes[p].rest)

-----------------------------------------------------------------------------
(* The route and its sessions.                                             *)

\* Mutant of Disposed: an acquire() under way goes on as if wanted.
DisposedButAcquiring(c) ==
    IF session[c] # Nil /\ leases[session[c]].state = "live"
    THEN [leases EXCEPT ![session[c]] = NoLease]
    ELSE leases

\* The leases once a socket's session is disposed of: one that is still
\* acquiring finds out when its acquire() returns.
Disposed(c) ==
    IF session[c] = Nil THEN leases
    ELSE [leases EXCEPT ![session[c]] =
              IF @.state = "acquiring" THEN [@ EXCEPT !.state = "cancelled"] ELSE NoLease]

\* The counts after the same.
CountsWithout(c) ==
    IF session[c] # Nil /\ leases[session[c]].state = "live"
    THEN Released(refCount, leases[session[c]].key)
    ELSE refCount

\* dispose() also marks the entry as just used.
TouchedBy(c) ==
    IF session[c] # Nil /\ leases[session[c]].state = "live" THEN {entries[leases[session[c]].key]} ELSE {}

\* handleSubscribe up to the await in acquire().  The same request again only
\* renews the subscription, once the session is live.
Subscribe(c, k) ==
    /\ session[c] # Nil => ~(leases[session[c]].state = "live" /\ leases[session[c]].key = k)
    /\ entries[k] # Nil \/ \E r \in Runtimes : ~InUse(r)
    /\ \E l \in Leases :
          /\ leases[l] = NoLease
          /\ session' = [session EXCEPT ![c] = l]
          /\ leases' = [Disposed(c) EXCEPT ![l] =
                           [state |-> "acquiring", conn |-> c, key |-> k, runtime |-> RuntimeFor(k)]]
    /\ entries' = [entries EXCEPT ![k] = RuntimeFor(k)]
    /\ refCount' = IF entries[k] = Nil
                   THEN [CountsWithout(c) EXCEPT ![RuntimeFor(k)] = 1]
                   ELSE [CountsWithout(c) EXCEPT ![RuntimeFor(k)] = @ + 1]
    /\ disposed' = IF entries[k] = Nil THEN disposed \ {RuntimeFor(k)} ELSE disposed
    /\ idle' = idle \ ({RuntimeFor(k)} \cup TouchedBy(c))
    /\ UNCHANGED passes

\* The runtime is ready: acquire() returns into the session, or to be released
\* at once when the session was disposed of meanwhile.
Acquired(l) ==
    \/ /\ leases[l].state = "acquiring"
       /\ leases' = [leases EXCEPT ![l].state = "live"]
       /\ UNCHANGED <<entries, refCount, idle, disposed, passes, session>>
    \/ /\ leases[l].state = "cancelled"
       /\ leases' = [leases EXCEPT ![l] = NoLease]
       /\ refCount' = Released(refCount, leases[l].key)
       /\ idle' = idle \ {entries[leases[l].key]}
       /\ UNCHANGED <<entries, disposed, passes, session>>

\* An unsubscribe, the socket's close, or a client too slow.
Leave(c) ==
    /\ session[c] # Nil
    /\ session' = [session EXCEPT ![c] = Nil]
    /\ leases' = Disposed(c)
    /\ refCount' = CountsWithout(c)
    /\ idle' = idle \ TouchedBy(c)
    /\ UNCHANGED <<entries, disposed, passes>>

Next ==
    \/ \E k \in Keys : Ages(k)
    \/ \E p \in Passes : CleanupBegins(p) \/ CleanupGoesOn(p)
    \/ \E c \in Conns : Leave(c) \/ \E k \in Keys : Subscribe(c, k)
    \/ \E l \in Leases : Acquired(l)

Spec == Init /\ [][Next]_vars

\* Timers fire, a runtime becomes ready, and its venues let it go: every
\* request to a venue is answered or times out.
LeaseFairness ==
    /\ \A k \in Keys : WF_vars(Ages(k))
    /\ \A p \in Passes : WF_vars(CleanupBegins(p)) /\ WF_vars(CleanupGoesOn(p))
    /\ \A l \in Leases : WF_vars(Acquired(l))

FairSpec == Spec /\ LeaseFairness
-----------------------------------------------------------------------------
(* Properties.                                                             *)

\* "pinned warm-tier runtimes (refCount > 0) are never reclaimed regardless"
\* (chain-runtime-registry.ts:10): a session that is served, or waits to be, is
\* served by a runtime that was not disposed of.
PinnedIsKept ==
    \A l \in Leases : leases[l].state \in {"acquiring", "live"} => leases[l].runtime \notin disposed

\* A runtime in the registry counts exactly the leases on it, cancelled ones
\* until their acquire() returns (acquire, its release closure,
\* ChainStreamSession.subscribe and dispose).
CountsAgree ==
    \A k \in Keys : entries[k] # Nil => refCount[entries[k]] = Cardinality(Holders(entries[k]))

\* No lease is left behind: a session that is served, or will be, is the one its
\* socket has now, whatever order subscribes, an unsubscribe, a close and the
\* runtimes' readiness came in (ws-chain.ts:53-92, chain-stream-session.ts:113-165).
NoLeaseLeftBehind ==
    \A l \in Leases :
        leases[l].state \in {"acquiring", "live"} => session[leases[l].conn] = l

\* A chain nobody asks for any more gives up its runtime, and with it the venue
\* channels it holds ("abandoned tenors release their channels within minutes",
\* chain-runtime-registry.ts:9).
AbandonedIsReclaimed ==
    \A k \in Keys :
        <>[](\A c \in Conns : session[c] # Nil => leases[session[c]].key # k) => []<>(entries[k] = Nil)
=============================================================================

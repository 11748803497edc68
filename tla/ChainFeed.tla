------------------------------ MODULE ChainFeed ------------------------------
(***************************************************************************)
(* What a chain runtime tells its listeners about one option chain         *)
(* (ChainRuntimeEvent in packages/core/src/runtime/chain/chain-runtime.ts):*)
(* a numbered series of full snapshots and of patches, where a patch       *)
(* replaces quotes of contracts the chain already holds and turns the chain*)
(* of the previous number into the chain of its own.  ChainRuntime         *)
(* implements this specification; ChainStream builds on it.                *)
(***************************************************************************)
EXTENDS Integers

CONSTANTS
    Symbols,    \* the option contracts of the chain
    MaxQuote    \* bound: quotes a venue publishes for one contract

ASSUME FeedAssumption == MaxQuote \in Nat \ {0}

VARIABLES
    chain,      \* currentSnapshot.data: the quote of each contract, or None
    seq,        \* the number of the last event
    event       \* the last snapshot or patch broadcast

feedVars == <<chain, seq, event>>

None == 0
Quotes == 1..MaxQuote
Chains == [Symbols -> {None} \cup Quotes]
Patches == UNION {[S -> Quotes] : S \in SUBSET Symbols}

Applied(patch, data) == [s \in Symbols |-> IF s \in DOMAIN patch THEN patch[s] ELSE data[s]]

Snapshot == [kind |-> "snapshot", patch |-> [s \in {} |-> None]]
Delta(patch) == [kind |-> "delta", patch |-> patch]

FeedInit ==
    /\ chain = [s \in Symbols |-> None]
    /\ seq = 0
    /\ event = Snapshot

FeedSnapshot(data) ==
    /\ chain' = data
    /\ seq' = seq + 1
    /\ event' = Snapshot

FeedPatch(patch) ==
    /\ DOMAIN patch # {}
    /\ \A s \in DOMAIN patch : chain[s] # None
    /\ chain' = Applied(patch, chain)
    /\ seq' = seq + 1
    /\ event' = Delta(patch)

FeedNext ==
    \/ \E data \in Chains : FeedSnapshot(data)
    \/ \E patch \in Patches : FeedPatch(patch)

FeedSpec == FeedInit /\ [][FeedNext]_feedVars
=============================================================================

-------------------------- MODULE ChainStream_proofs --------------------------
(***************************************************************************)
(* Proofs about ChainStream: the browser never shows diffs applied to a    *)
(* base they were not made for, and a session that owes no snapshot has    *)
(* sent everything.                                                        *)
(*                                                                         *)
(* The first part is about Merged, the loop that applies the batched       *)
(* patches, and about what the frames of a queue make of what the client   *)
(* shows; the second about what a session sends for an event; the third    *)
(* has the invariant and a lemma for each step.                            *)
(***************************************************************************)
EXTENDS ChainStream, WellFoundedInduction, TLAPS

\* A set of numbers that has 0 and each successor has them all: what is left out
\* would have a least element.  Stated of a set, it can be cited by name.
LEMMA Climbing ==
    ASSUME NEW S \in SUBSET Nat, 0 \in S, \A n \in S : n + 1 \in S
    PROVE  S = Nat
<1> SUFFICES ASSUME S # Nat
             PROVE  FALSE
    OBVIOUS
<1> DEFINE Missing == Nat \ S
<1>1. Missing \subseteq Nat /\ Missing # {}
    OBVIOUS
<1>2. PICK x \in Missing : \A y \in Missing : ~(<<y, x>> \in OpToRel(<, Nat))
    BY <1>1, NatLessThanWellFounded, WFMin
<1>3. \A y \in Missing : ~(y < x)
    BY <1>2 DEF OpToRel
<1>4. x - 1 \in Nat /\ x - 1 < x
    OBVIOUS
<1>5. x - 1 \in S
    BY <1>3, <1>4
<1>6. QED
    BY <1>5

\* after has the chain after each of the first n patches.
Steps(patches, data, n, after) ==
    after = [i \in 0..n |-> IF i = 0 THEN data ELSE Applied(patches[i], after[i - 1])]

LEMMA StepsExist ==
    ASSUME NEW patches, NEW data
    PROVE  \A n \in Nat : \E after : Steps(patches, data, n, after)
<1> DEFINE S == {n \in Nat : \E after : Steps(patches, data, n, after)}
<1>1. 0 \in S
    <2> DEFINE f == [i \in 0..0 |-> data]
    <2>1. Steps(patches, data, 0, f)
        BY DEF Steps
    <2>2. QED
        BY <2>1
<1>2. ASSUME NEW n \in S
      PROVE  n + 1 \in S
    <2>1. PICK f : Steps(patches, data, n, f)
        OBVIOUS
    <2> DEFINE g == [i \in 0..n + 1 |-> IF i <= n THEN f[i] ELSE Applied(patches[n + 1], f[n])]
    <2>2. Steps(patches, data, n + 1, g)
        BY <2>1 DEF Steps
    <2>3. QED
        BY <2>2
<1>3. S = Nat
    <2> HIDE DEF S
    <2>1. S \in SUBSET Nat
        BY DEF S
    <2>2. QED
        BY <1>1, <1>2, <2>1, Climbing
<1>4. QED
    BY <1>3

LEMMA StepsAgree ==
    ASSUME NEW patches, NEW data, NEW n \in Nat, NEW m \in Nat, n <= m, NEW f, NEW g,
           Steps(patches, data, n, f), Steps(patches, data, m, g)
    PROVE  \A i \in 0..n : f[i] = g[i]
<1> DEFINE S == {i \in Nat : i <= n => f[i] = g[i]}
<1>1. 0 \in S
    BY DEF Steps
<1>2. ASSUME NEW i \in S
      PROVE  i + 1 \in S
    BY DEF Steps
<1>3. S = Nat
    <2> HIDE DEF S
    <2>1. S \in SUBSET Nat
        BY DEF S
    <2>2. QED
        BY <1>1, <1>2, <2>1, Climbing
<1>4. QED
    BY <1>3

LEMMA MergedIs ==
    ASSUME NEW patches, NEW data, Len(patches) \in Nat, NEW f, Steps(patches, data, Len(patches), f)
    PROVE  Merged(patches, data) = f[Len(patches)]
<1> DEFINE g == CHOOSE after : Steps(patches, data, Len(patches), after)
<1>1. Steps(patches, data, Len(patches), g)
    OBVIOUS
<1>2. Merged(patches, data) = g[Len(patches)]
    BY DEF Merged, Steps
<1>3. QED
    BY <1>1, <1>2, StepsAgree

LEMMA NothingMerged ==
    ASSUME NEW data
    PROVE  Merged(<<>>, data) = data
<1>1. PICK f : Steps(<<>>, data, 0, f)
    BY StepsExist
<1>2. Merged(<<>>, data) = f[0]
    BY <1>1, MergedIs
<1>3. f[0] = data
    BY <1>1 DEF Steps
<1>4. QED
    BY <1>2, <1>3

LEMMA OneMoreMerged ==
    ASSUME NEW patches \in Seq(Patches), NEW patch \in Patches, NEW data
    PROVE  Merged(Append(patches, patch), data) = Applied(patch, Merged(patches, data))
<1> DEFINE more == Append(patches, patch)
           n == Len(patches)
<1>1. n \in Nat /\ n + 1 \in Nat /\ Len(more) = n + 1 /\ more[n + 1] = patch /\ \A i \in 1..n : more[i] = patches[i]
    OBVIOUS
<1> HIDE DEF more, n
<1>2. PICK f : Steps(patches, data, n, f)
    BY <1>1, StepsExist
<1>3. PICK g : Steps(more, data, n + 1, g)
    BY <1>1, StepsExist
<1>4. Steps(patches, data, n, [i \in 0..n |-> g[i]])
    BY <1>1, <1>3 DEF Steps
<1>5. f[n] = g[n]
    <2>1. \A i \in 0..n : f[i] = [j \in 0..n |-> g[j]][i]
        BY <1>1, <1>2, <1>4, StepsAgree
    <2>2. QED
        BY <1>1, <2>1
<1>6. g[n + 1] = Applied(patch, g[n])
    BY <1>1, <1>3 DEF Steps
<1>7. Merged(patches, data) = f[n]
    BY <1>1, <1>2, MergedIs DEF n
<1>8. Merged(more, data) = g[n + 1]
    BY <1>1, <1>3, MergedIs
<1>9. QED
    BY <1>5, <1>6, <1>7, <1>8 DEF more

LEMMA AppliedIsChain ==
    ASSUME NEW patch \in Patches, NEW data \in Chains
    PROVE  Applied(patch, data) \in Chains
BY DEF Applied, Patches, Chains

LEMMA MergedIsChain ==
    ASSUME NEW patches \in Seq(Patches), NEW data \in Chains
    PROVE  Merged(patches, data) \in Chains
<1> DEFINE n == Len(patches)
<1>1. n \in Nat /\ \A i \in 1..n : patches[i] \in Patches
    OBVIOUS
<1>2. PICK f : Steps(patches, data, n, f)
    BY <1>1, StepsExist
<1> DEFINE S == {i \in Nat : i <= n => f[i] \in Chains}
<1> HIDE DEF n
<1>3. 0 \in S
    BY <1>2 DEF Steps
<1>4. ASSUME NEW i \in S
      PROVE  i + 1 \in S
    <2> SUFFICES ASSUME i + 1 <= n
                 PROVE  f[i + 1] \in Chains
        OBVIOUS
    <2>1. i + 1 \in 1..n /\ f[i] \in Chains
        BY <1>1
    <2>2. f[i + 1] = Applied(patches[i + 1], f[i])
        BY <1>1, <1>2, <2>1 DEF Steps
    <2>3. QED
        BY <1>1, <2>1, <2>2, AppliedIsChain
<1>5. S = Nat
    <2> HIDE DEF S
    <2>1. S \in SUBSET Nat
        BY DEF S
    <2>2. QED
        BY <1>3, <1>4, <2>1, Climbing
<1>6. f[n] \in Chains
    BY <1>1, <1>5
<1>7. QED
    BY <1>1, <1>2, <1>6, MergedIs DEF n

-----------------------------------------------------------------------------

(* What the frames of a queue make of the chain a client shows.             *)

Carries(m, sub) == m.kind \in {"snapshot", "diff"} /\ m.sub = sub

\* A client of sub that shows from will show data after the first n frames.
Ends(queue, sub, n, from, data) ==
    \/ \E i \in 1..n :
          /\ Carries(queue[i], sub)
          /\ queue[i].data = data
          /\ \A j \in i + 1..n : ~Carries(queue[j], sub)
    \/ /\ \A i \in 1..n : ~Carries(queue[i], sub)
       /\ from = data

\* Each diff turns what the client shows when it comes into the chain it carries.
Linked(queue, sub, from) ==
    \A i \in 1..Len(queue) :
        queue[i].kind = "diff" /\ queue[i].sub = sub
        => \E data \in Chains :
              /\ Ends(queue, sub, i - 1, from, data)
              /\ queue[i].data = Applied(queue[i].patch, data)

Stranger(queue, sub) == \A i \in 1..Len(queue) : ~Carries(queue[i], sub)

LEMMA AppendedFrames ==
    ASSUME NEW queue \in Seq(Frames), NEW m \in Frames
    PROVE  /\ Append(queue, m) \in Seq(Frames)
           /\ Len(queue) \in Nat
           /\ Len(Append(queue, m)) = Len(queue) + 1
           /\ Append(queue, m)[Len(queue) + 1] = m
           /\ \A i \in 1..Len(queue) : Append(queue, m)[i] = queue[i]
OBVIOUS

LEMMA AppendedEnds ==
    ASSUME NEW queue \in Seq(Frames), NEW m \in Frames, NEW sub, NEW from
    PROVE  /\ Carries(m, sub) => Ends(Append(queue, m), sub, Len(queue) + 1, from, m.data)
           /\ ~Carries(m, sub) =>
                 \A data : Ends(queue, sub, Len(queue), from, data)
                           => Ends(Append(queue, m), sub, Len(queue) + 1, from, data)
           /\ \A n \in 0..Len(queue) : \A data :
                 Ends(queue, sub, n, from, data) => Ends(Append(queue, m), sub, n, from, data)
<1> DEFINE more == Append(queue, m)
           l == Len(queue)
<1>1. l \in Nat /\ more[l + 1] = m /\ \A i \in 1..l : more[i] = queue[i]
    BY AppendedFrames
<1> HIDE DEF more, l
<1>2. Carries(m, sub) => Ends(more, sub, l + 1, from, m.data)
    <2>1. l + 1 \in 1..l + 1 /\ l + 1 + 1..l + 1 = {}
        BY <1>1
    <2>2. QED
        BY <1>1, <2>1 DEF Ends
<1>3. ASSUME ~Carries(m, sub), NEW data, Ends(queue, sub, l, from, data)
      PROVE  Ends(more, sub, l + 1, from, data)
    <2>1. CASE \E i \in 1..l :
                  /\ Carries(queue[i], sub)
                  /\ queue[i].data = data
                  /\ \A j \in i + 1..l : ~Carries(queue[j], sub)
        <3>1. PICK i \in 1..l :
                  /\ Carries(queue[i], sub)
                  /\ queue[i].data = data
                  /\ \A j \in i + 1..l : ~Carries(queue[j], sub)
            BY <2>1
        <3>2. i \in 1..l + 1 /\ \A j \in i + 1..l + 1 : j \in i + 1..l \/ j = l + 1
            BY <1>1
        <3>3. \A j \in i + 1..l + 1 : ~Carries(more[j], sub)
            BY <1>1, <1>3, <3>1, <3>2
        <3>4. QED
            BY <1>1, <3>1, <3>2, <3>3 DEF Ends
    <2>2. CASE (\A i \in 1..l : ~Carries(queue[i], sub)) /\ from = data
        <3>1. \A i \in 1..l + 1 : i \in 1..l \/ i = l + 1
            BY <1>1
        <3>2. \A i \in 1..l + 1 : ~Carries(more[i], sub)
            BY <1>1, <1>3, <2>2, <3>1
        <3>3. QED
            BY <2>2, <3>2 DEF Ends
    <2>3. QED
        BY <1>3, <2>1, <2>2 DEF Ends
<1>4. ASSUME NEW n \in 0..l, NEW data, Ends(queue, sub, n, from, data)
      PROVE  Ends(more, sub, n, from, data)
    <2>1. \A i \in 1..n : more[i] = queue[i] /\ \A j \in i + 1..n : more[j] = queue[j]
        BY <1>1
    <2>2. QED
        BY <1>4, <2>1 DEF Ends
<1>5. QED
    BY <1>2, <1>3, <1>4 DEF more, l

LEMMA AppendedLinked ==
    ASSUME NEW queue \in Seq(Frames), NEW m \in Frames, NEW sub, NEW from,
           Linked(queue, sub, from),
           m.kind = "diff" /\ m.sub = sub
           => \E data \in Chains :
                 /\ Ends(queue, sub, Len(queue), from, data)
                 /\ m.data = Applied(m.patch, data)
    PROVE  Linked(Append(queue, m), sub, from)
<1> DEFINE more == Append(queue, m)
           l == Len(queue)
<1>1. /\ l \in Nat /\ Len(more) = l + 1
      /\ more[l + 1] = m /\ \A i \in 1..l : more[i] = queue[i]
    BY AppendedFrames
<1>2. \A n \in 0..l : \A data : Ends(queue, sub, n, from, data) => Ends(more, sub, n, from, data)
    BY AppendedEnds
<1> HIDE DEF more
<1> SUFFICES ASSUME NEW i \in 1..Len(more), more[i].kind = "diff", more[i].sub = sub
             PROVE  \E data \in Chains :
                       /\ Ends(more, sub, i - 1, from, data)
                       /\ more[i].data = Applied(more[i].patch, data)
    BY DEF Linked, more
<1>3. CASE i \in 1..l
    <2>1. PICK data \in Chains : /\ Ends(queue, sub, i - 1, from, data)
                                 /\ queue[i].data = Applied(queue[i].patch, data)
        BY <1>1, <1>3 DEF Linked
    <2>2. i - 1 \in 0..l
        BY <1>1, <1>3
    <2>3. Ends(more, sub, i - 1, from, data)
        BY <1>2, <2>1, <2>2
    <2>4. QED
        BY <1>1, <1>3, <2>1, <2>3
<1>4. CASE i = l + 1
    <2>1. PICK data \in Chains : Ends(queue, sub, l, from, data) /\ m.data = Applied(m.patch, data)
        BY <1>1, <1>4
    <2>2. i - 1 = l /\ l \in 0..l
        BY <1>1, <1>4
    <2>3. Ends(more, sub, i - 1, from, data)
        BY <1>2, <2>1, <2>2
    <2>4. QED
        BY <1>1, <1>4, <2>1, <2>3
<1>5. QED
    BY <1>1, <1>3, <1>4

LEMMA TailFrames ==
    ASSUME NEW queue \in Seq(Frames), queue # <<>>
    PROVE  /\ Tail(queue) \in Seq(Frames)
           /\ Len(queue) \in Nat \ {0}
           /\ Len(Tail(queue)) = Len(queue) - 1
           /\ Head(queue) = queue[1]
           /\ Head(queue) \in Frames
           /\ \A i \in 1..Len(queue) - 1 : Tail(queue)[i] = queue[i + 1]
OBVIOUS

LEMMA TailEnds ==
    ASSUME NEW queue \in Seq(Frames), queue # <<>>, NEW sub, NEW from, NEW data,
           NEW n \in 1..Len(queue), Ends(queue, sub, n, from, data)
    PROVE  Ends(Tail(queue), sub, n - 1, IF Carries(Head(queue), sub) THEN Head(queue).data ELSE from, data)
<1> DEFINE less == Tail(queue)
           then == IF Carries(Head(queue), sub) THEN Head(queue).data ELSE from
<1>1. /\ n \in Nat /\ n - 1 \in Nat
      /\ Head(queue) = queue[1]
      /\ \A i \in 1..n - 1 : less[i] = queue[i + 1] /\ i + 1 \in 1..n
    BY TailFrames
<1> HIDE DEF less
<1>2. CASE \E i \in 1..n :
              /\ Carries(queue[i], sub)
              /\ queue[i].data = data
              /\ \A j \in i + 1..n : ~Carries(queue[j], sub)
    <2>1. PICK i \in 1..n :
              /\ Carries(queue[i], sub)
              /\ queue[i].data = data
              /\ \A j \in i + 1..n : ~Carries(queue[j], sub)
        BY <1>2
    <2>2. CASE i = 1
        <3>1. \A k \in 1..n - 1 : k + 1 \in i + 1..n
            BY <1>1, <2>2
        <3>2. \A k \in 1..n - 1 : ~Carries(less[k], sub)
            BY <1>1, <2>1, <3>1
        <3>3. then = data
            BY <1>1, <2>1, <2>2
        <3>4. QED
            BY <3>2, <3>3 DEF Ends, less
    <2>3. CASE i # 1
        <3>1. i - 1 \in 1..n - 1 /\ i - 1 + 1 = i /\ \A k \in i - 1 + 1..n - 1 : k \in 1..n - 1 /\ k + 1 \in i + 1..n
            BY <1>1, <2>3
        <3>2. Carries(less[i - 1], sub) /\ less[i - 1].data = data
            BY <1>1, <2>1, <3>1
        <3>3. \A k \in i - 1 + 1..n - 1 : ~Carries(less[k], sub)
            BY <1>1, <2>1, <3>1
        <3>4. QED
            BY <3>1, <3>2, <3>3 DEF Ends, less
    <2>4. QED
        BY <2>2, <2>3
<1>3. CASE (\A i \in 1..n : ~Carries(queue[i], sub)) /\ from = data
    <2>1. then = data
        BY <1>1, <1>3
    <2>2. \A k \in 1..n - 1 : ~Carries(less[k], sub)
        BY <1>1, <1>3
    <2>3. QED
        BY <2>1, <2>2 DEF Ends, less
<1>4. QED
    BY <1>2, <1>3 DEF Ends

LEMMA TailLinked ==
    ASSUME NEW queue \in Seq(Frames), queue # <<>>, NEW sub, NEW from, Linked(queue, sub, from)
    PROVE  Linked(Tail(queue), sub, IF Carries(Head(queue), sub) THEN Head(queue).data ELSE from)
<1> DEFINE less == Tail(queue)
           then == IF Carries(Head(queue), sub) THEN Head(queue).data ELSE from
<1> SUFFICES ASSUME NEW i \in 1..Len(less), less[i].kind = "diff", less[i].sub = sub
             PROVE  \E data \in Chains :
                       /\ Ends(less, sub, i - 1, then, data)
                       /\ less[i].data = Applied(less[i].patch, data)
    BY DEF Linked
<1>1. less[i] = queue[i + 1] /\ i + 1 \in 1..Len(queue) /\ i \in 1..Len(queue) /\ i + 1 - 1 = i
    BY TailFrames
<1>2. PICK data \in Chains : /\ Ends(queue, sub, i, from, data)
                             /\ queue[i + 1].data = Applied(queue[i + 1].patch, data)
    BY <1>1 DEF Linked
<1>3. Ends(less, sub, i - 1, then, data)
    BY <1>1, <1>2, TailEnds
<1>4. QED
    BY <1>1, <1>2, <1>3

-----------------------------------------------------------------------------

(* What a session sends for an event of the runtime.                        *)

Sessions == [state : {"none", "live", "closed"}, sub : Subscriptions \cup {Unknown},
             lastSentSeq : Nat, needsResync : BOOLEAN, slow : BOOLEAN]

Closing == [kind |-> "close"]

\* The cases of SendEngineEvent, but for an event that is not sent at all.
Sends(s, queue, kind, frame, flushes, held) ==
    LET filled == IF flushes THEN Append(queue, SnapshotFrame(s.sub)) ELSE queue IN
    /\ flushes => s.needsResync /\ seq' > 0
    /\ held => kind = "delta"
    /\ kind = "delta" /\ seq' > 0 => held \/ flushes \/ ~s.needsResync
    /\ socket' = IF held THEN filled ELSE Append(filled, frame)
    /\ session' \in Sessions
    /\ session'.state = s.state
    /\ session'.sub = s.sub
    /\ session'.lastSentSeq \in {s.lastSentSeq, seq'}
    /\ session'.needsResync = (held \/ (s.needsResync /\ ~flushes))

Drops(s, queue) ==
    /\ session' = [NoSession EXCEPT !.state = "closed"]
    /\ \/ socket' = Append(queue, Closing)
       \/ seq' > 0 /\ socket' = Append(Append(queue, SnapshotFrame(s.sub)), Closing)

\* What the session is once its frames are out.
Sent(s, flushes, held, kind, n, slow) ==
    LET flushed == IF flushes THEN [s EXCEPT !.needsResync = FALSE, !.lastSentSeq = n] ELSE s
    IN [flushed EXCEPT
           !.needsResync = Deferred(flushed, held),
           !.lastSentSeq = IF kind = "status" \/ held THEN @ ELSE n,
           !.slow = slow]

LEMMA SentSession ==
    ASSUME NEW s \in Sessions, NEW flushes \in BOOLEAN, NEW held \in BOOLEAN, NEW kind,
           NEW n \in Nat, NEW slow \in BOOLEAN
    PROVE  /\ Sent(s, flushes, held, kind, n, slow) \in Sessions
           /\ Sent(s, flushes, held, kind, n, slow).state = s.state
           /\ Sent(s, flushes, held, kind, n, slow).sub = s.sub
           /\ Sent(s, flushes, held, kind, n, slow).lastSentSeq \in {s.lastSentSeq, n}
           /\ Sent(s, flushes, held, kind, n, slow).needsResync = (held \/ (s.needsResync /\ ~flushes))
<1>1. CASE flushes /\ held
    BY <1>1 DEF Sent, Sessions, Deferred
<1>2. CASE flushes /\ ~held
    BY <1>2 DEF Sent, Sessions, Deferred
<1>3. CASE ~flushes /\ held
    BY <1>3 DEF Sent, Sessions, Deferred
<1>4. CASE ~flushes /\ ~held
    BY <1>4 DEF Sent, Sessions, Deferred
<1>5. QED
    BY <1>1, <1>2, <1>3, <1>4

LEMMA SendCases ==
    ASSUME NEW s \in Sessions, NEW queue, NEW kind \in {"snapshot", "delta", "status"}, NEW frame,
           seq' \in Nat, kind # "status" => s.lastSentSeq < seq',
           SendEngineEvent(s, queue, kind, frame)
    PROVE  \/ Drops(s, queue)
           \/ \E flushes \in BOOLEAN, held \in BOOLEAN : Sends(s, queue, kind, frame, flushes, held)
<1> DEFINE flushes == s.needsResync /\ ~Backpressured(queue) /\ seq' > 0
           filled == IF flushes THEN Append(queue, SnapshotFrame(s.sub)) ELSE queue
           held == kind = "delta" /\ Backpressured(filled)
           sent == IF held THEN filled ELSE Append(filled, frame)
           slow == Full(sent)
<1>1. ~(kind # "status" /\ seq' <= s.lastSentSeq)
    BY DEF Sessions
<1>2. \/ /\ session' = [NoSession EXCEPT !.state = "closed"]
         /\ socket' = Append(filled, Closing)
      \/ /\ socket' = sent
         /\ session' = Sent(s, flushes, held, kind, seq', slow)
    BY <1>1 DEF SendEngineEvent, Sent, Closing
<1>3. flushes \in BOOLEAN /\ held \in BOOLEAN /\ slow \in BOOLEAN
    BY DEF Backpressured, Full
<1>4. flushes => s.needsResync /\ seq' > 0
    OBVIOUS
<1>5. kind = "delta" /\ seq' > 0 => held \/ flushes \/ ~s.needsResync
    OBVIOUS
<1> HIDE DEF flushes, held, slow
<1>6. CASE socket' = Append(filled, Closing) /\ session' = [NoSession EXCEPT !.state = "closed"]
    BY <1>3, <1>4, <1>6 DEF Drops
<1>7. CASE socket' = sent /\ session' = Sent(s, flushes, held, kind, seq', slow)
    <2>1. /\ session' \in Sessions
          /\ session'.state = s.state
          /\ session'.sub = s.sub
          /\ session'.lastSentSeq \in {s.lastSentSeq, seq'}
          /\ session'.needsResync = (held \/ (s.needsResync /\ ~flushes))
        BY <1>3, <1>7, SentSession
    <2>2. held => kind = "delta"
        BY DEF held
    <2>3. Sends(s, queue, kind, frame, flushes, held)
        BY <1>4, <1>5, <1>7, <2>1, <2>2 DEF Sends
    <2>4. QED
        BY <1>3, <2>3
<1>8. QED
    BY <1>2, <1>6, <1>7

-----------------------------------------------------------------------------
(* What a frame more does to the queue.                                     *)

Ordered(queue, top) ==
    \A i \in 1..Len(queue) : queue[i].kind \in {"snapshot", "diff"} => queue[i].seq <= top

LEMMA AppendedOrdered ==
    ASSUME NEW queue \in Seq(Frames), NEW m \in Frames, NEW top, Ordered(queue, top),
           m.kind \in {"snapshot", "diff"} => m.seq <= top
    PROVE  Ordered(Append(queue, m), top)
BY AppendedFrames DEF Ordered

LEMMA AppendedStranger ==
    ASSUME NEW queue \in Seq(Frames), NEW m \in Frames, NEW sub, Stranger(queue, sub), ~Carries(m, sub)
    PROVE  Stranger(Append(queue, m), sub)
BY AppendedFrames DEF Stranger

LEMMA ClosingFrame == Closing \in Frames /\ \A sub : ~Carries(Closing, sub)
BY DEF Closing, Frames, Carries

LEMMA SnapshotFrameIs ==
    ASSUME NEW sub \in Subscriptions, chain' \in Chains, seq' \in 1..MaxSeq
    PROVE  /\ SnapshotFrame(sub) \in Frames
           /\ SnapshotFrame(sub).kind = "snapshot"
           /\ SnapshotFrame(sub).sub = sub
           /\ SnapshotFrame(sub).seq = seq'
           /\ SnapshotFrame(sub).data = chain'
BY DEF SnapshotFrame, Frames

\* The frame that goes with an event of the runtime.
FrameFor(kind, frame, sub) ==
    /\ frame \in Frames
    /\ frame.kind # "close"
    /\ frame.sub = sub
    /\ kind = "status" => frame.kind = "status"
    /\ kind # "status" =>
          /\ seq' > 0
          /\ frame.seq = seq'
          /\ frame.data = chain'
    /\ kind = "snapshot" => frame.kind = "snapshot"
    /\ kind = "delta" =>
          /\ frame.kind = "diff"
          /\ chain \in Chains
          /\ Applied(frame.patch, chain) = chain'
          /\ Applied(frame.patch, chain') = chain'

LEMMA SendTyped ==
    ASSUME NEW s \in Sessions, s.sub \in Subscriptions, NEW queue \in Seq(Frames),
           NEW kind \in {"snapshot", "delta", "status"}, NEW frame, FrameFor(kind, frame, s.sub),
           chain' \in Chains, MaxSeq \in Nat, seq' \in 0..MaxSeq, Ordered(queue, seq'),
           \/ Drops(s, queue)
           \/ \E flushes \in BOOLEAN, held \in BOOLEAN : Sends(s, queue, kind, frame, flushes, held)
    PROVE  socket' \in Seq(Frames) /\ Ordered(socket', seq')
<1> DEFINE snapshot == SnapshotFrame(s.sub)
<1>1. ASSUME seq' > 0
      PROVE  Append(queue, snapshot) \in Seq(Frames) /\ Ordered(Append(queue, snapshot), seq')
    <2>1. snapshot \in Frames /\ snapshot.kind = "snapshot" /\ snapshot.seq <= seq'
        BY <1>1, SnapshotFrameIs
    <2> HIDE DEF snapshot
    <2>2. QED
        BY <2>1, AppendedFrames, AppendedOrdered
<1>2. ASSUME NEW q \in Seq(Frames), Ordered(q, seq')
      PROVE  Append(q, Closing) \in Seq(Frames) /\ Ordered(Append(q, Closing), seq')
    <2>1. Closing \in Frames /\ Closing.kind \notin {"snapshot", "diff"}
        BY ClosingFrame DEF Closing
    <2>2. QED
        BY <1>2, <2>1, AppendedFrames, AppendedOrdered
<1>3. ASSUME NEW q \in Seq(Frames), Ordered(q, seq')
      PROVE  Append(q, frame) \in Seq(Frames) /\ Ordered(Append(q, frame), seq')
    <2>1. frame \in Frames /\ (frame.kind \in {"snapshot", "diff"} => frame.seq <= seq')
        BY DEF FrameFor
    <2>2. QED
        BY <1>3, <2>1, AppendedFrames, AppendedOrdered
<1> HIDE DEF snapshot
<1>4. CASE Drops(s, queue)
    BY <1>1, <1>2, <1>4 DEF Drops, snapshot
<1>5. CASE \E flushes \in BOOLEAN, held \in BOOLEAN : Sends(s, queue, kind, frame, flushes, held)
    <2>1. PICK flushes \in BOOLEAN, held \in BOOLEAN : Sends(s, queue, kind, frame, flushes, held)
        BY <1>5
    <2> DEFINE filled == IF flushes THEN Append(queue, snapshot) ELSE queue
    <2>2. filled \in Seq(Frames) /\ Ordered(filled, seq')
        BY <1>1, <2>1 DEF Sends
    <2>3. socket' = IF held THEN filled ELSE Append(filled, frame)
        BY <2>1 DEF Sends, snapshot
    <2> HIDE DEF filled
    <2>4. QED
        BY <1>3, <2>2, <2>3
<1>6. QED
    BY <1>4, <1>5

LEMMA SendToOthers ==
    ASSUME NEW s \in Sessions, s.sub \in Subscriptions, NEW queue \in Seq(Frames),
           NEW kind \in {"snapshot", "delta", "status"}, NEW frame, FrameFor(kind, frame, s.sub),
           chain' \in Chains, MaxSeq \in Nat, seq' \in 0..MaxSeq,
           \/ Drops(s, queue)
           \/ \E flushes \in BOOLEAN, held \in BOOLEAN : Sends(s, queue, kind, frame, flushes, held),
           NEW sub, sub # s.sub, NEW from
    PROVE  /\ Stranger(queue, sub) => Stranger(socket', sub)
           /\ Linked(queue, sub, from) => Linked(socket', sub, from)
<1> DEFINE snapshot == SnapshotFrame(s.sub)
           Kept(q) == /\ q \in Seq(Frames)
                      /\ Stranger(queue, sub) => Stranger(q, sub)
                      /\ Linked(queue, sub, from) => Linked(q, sub, from)
<1>1. ASSUME NEW q, Kept(q), NEW m \in Frames, ~Carries(m, sub)
      PROVE  Kept(Append(q, m))
    <2>1. Append(q, m) \in Seq(Frames)
        BY <1>1, AppendedFrames
    <2>2. Stranger(q, sub) => Stranger(Append(q, m), sub)
        BY <1>1, AppendedStranger
    <2>3. Linked(q, sub, from) => Linked(Append(q, m), sub, from)
        BY <1>1, AppendedLinked DEF Carries
    <2>4. QED
        BY <1>1, <2>1, <2>2, <2>3
<1>2. Kept(queue)
    OBVIOUS
<1>3. seq' > 0 => snapshot \in Frames /\ ~Carries(snapshot, sub)
    BY SnapshotFrameIs DEF Carries
<1>4. frame \in Frames /\ ~Carries(frame, sub)
    BY DEF FrameFor, Carries
<1> SUFFICES Kept(socket')
    OBVIOUS
<1> HIDE DEF snapshot, Kept
<1>5. CASE Drops(s, queue)
    BY <1>1, <1>2, <1>3, <1>5, ClosingFrame DEF Drops, snapshot
<1>6. CASE \E flushes \in BOOLEAN, held \in BOOLEAN : Sends(s, queue, kind, frame, flushes, held)
    <2>1. PICK flushes \in BOOLEAN, held \in BOOLEAN : Sends(s, queue, kind, frame, flushes, held)
        BY <1>6
    <2> DEFINE filled == IF flushes THEN Append(queue, snapshot) ELSE queue
    <2>2. Kept(filled)
        BY <1>1, <1>2, <1>3, <2>1 DEF Sends
    <2>3. socket' = IF held THEN filled ELSE Append(filled, frame)
        BY <2>1 DEF Sends, snapshot
    <2> HIDE DEF filled
    <2>4. QED
        BY <1>1, <1>4, <2>2, <2>3
<1>7. QED
    BY <1>5, <1>6

LEMMA SendToOwn ==
    ASSUME NEW s \in Sessions, s.sub \in Subscriptions, NEW queue \in Seq(Frames),
           NEW kind \in {"snapshot", "delta", "status"}, NEW frame, FrameFor(kind, frame, s.sub),
           chain' \in Chains, MaxSeq \in Nat, seq' \in 0..MaxSeq,
           \/ Drops(s, queue)
           \/ \E flushes \in BOOLEAN, held \in BOOLEAN : Sends(s, queue, kind, frame, flushes, held),
           NEW from, Linked(queue, s.sub, from),
           kind # "snapshot" /\ ~s.needsResync /\ seq' > 0
           => Ends(queue, s.sub, Len(queue), from, chain),
           kind = "status" => chain' = chain
    PROVE  /\ Linked(socket', s.sub, from)
           /\ session'.state = "live" /\ ~session'.needsResync /\ seq' > 0
              => Ends(socket', s.sub, Len(socket'), from, chain')
<1> DEFINE snapshot == SnapshotFrame(s.sub)
           flushed == Append(queue, snapshot)
<1>1. ASSUME seq' > 0
      PROVE  /\ flushed \in Seq(Frames)
             /\ Linked(flushed, s.sub, from)
             /\ Ends(flushed, s.sub, Len(flushed), from, chain')
    <2>1. snapshot \in Frames /\ snapshot.kind = "snapshot" /\ snapshot.sub = s.sub /\ snapshot.data = chain'
        BY <1>1, SnapshotFrameIs
    <2>2. Carries(snapshot, s.sub)
        BY <2>1 DEF Carries
    <2> HIDE DEF snapshot
    <2>3. flushed \in Seq(Frames) /\ Len(flushed) = Len(queue) + 1
        BY <2>1, AppendedFrames
    <2>4. Linked(flushed, s.sub, from)
        BY <2>1, AppendedLinked
    <2>5. Ends(flushed, s.sub, Len(queue) + 1, from, chain')
        BY <2>1, <2>2, AppendedEnds
    <2>6. QED
        BY <2>3, <2>4, <2>5
<1>2. ASSUME NEW q \in Seq(Frames), Linked(q, s.sub, from)
      PROVE  Linked(Append(q, Closing), s.sub, from)
    <2>1. Closing \in Frames /\ Closing.kind # "diff"
        BY ClosingFrame DEF Closing
    <2>2. QED
        BY <1>2, <2>1, AppendedLinked
<1> HIDE DEF snapshot, flushed
<1>3. CASE Drops(s, queue)
    <2>1. session'.state # "live"
        BY <1>3 DEF Drops, NoSession
    <2>2. Linked(socket', s.sub, from)
        BY <1>1, <1>2, <1>3 DEF Drops, snapshot, flushed
    <2>3. QED
        BY <2>1, <2>2
<1>4. CASE \E flushes \in BOOLEAN, held \in BOOLEAN : Sends(s, queue, kind, frame, flushes, held)
    <2>1. PICK flushes \in BOOLEAN, held \in BOOLEAN : Sends(s, queue, kind, frame, flushes, held)
        BY <1>4
    <2> DEFINE filled == IF flushes THEN flushed ELSE queue
    <2>2. /\ filled \in Seq(Frames)
          /\ Linked(filled, s.sub, from)
          /\ flushes => Ends(filled, s.sub, Len(filled), from, chain')
          /\ ~flushes /\ kind # "snapshot" /\ ~s.needsResync /\ seq' > 0
             => Ends(filled, s.sub, Len(filled), from, chain)
        BY <1>1, <2>1 DEF Sends
    <2>3. socket' = IF held THEN filled ELSE Append(filled, frame)
        BY <2>1 DEF Sends, snapshot, flushed
    <2>4. session'.needsResync = (held \/ (s.needsResync /\ ~flushes))
        BY <2>1 DEF Sends
    <2>5. kind = "delta" /\ seq' > 0 => held \/ flushes \/ ~s.needsResync
        BY <2>1 DEF Sends
    <2> HIDE DEF filled
    <2>6. CASE held
        BY <2>2, <2>3, <2>4, <2>6
    <2>7. CASE ~held
        <3>1. frame \in Frames /\ frame.sub = s.sub
            BY DEF FrameFor
        <3>2. socket' = Append(filled, frame) /\ Len(socket') = Len(filled) + 1
            BY <2>2, <2>3, <2>7, <3>1, AppendedFrames
        <3>3. CASE kind = "snapshot"
            <4>1. frame.kind = "snapshot" /\ frame.data = chain' /\ Carries(frame, s.sub)
                BY <3>3 DEF FrameFor, Carries
            <4>2. QED
                BY <2>2, <3>1, <3>2, <4>1, AppendedEnds, AppendedLinked
        <3>4. CASE kind = "delta"
            <4>1. /\ frame.kind = "diff" /\ frame.data = chain' /\ seq' > 0
                  /\ chain \in Chains
                  /\ Applied(frame.patch, chain) = chain'
                  /\ Applied(frame.patch, chain') = chain'
                BY <3>4 DEF FrameFor
            <4>2. Carries(frame, s.sub)
                BY <3>1, <4>1 DEF Carries
            <4>3. \E data \in Chains : /\ Ends(filled, s.sub, Len(filled), from, data)
                                       /\ frame.data = Applied(frame.patch, data)
                BY <2>2, <2>5, <2>7, <3>4, <4>1
            <4>4. Linked(socket', s.sub, from)
                BY <2>2, <3>1, <3>2, <4>3, AppendedLinked
            <4>5. Ends(socket', s.sub, Len(socket'), from, chain')
                BY <2>2, <3>1, <3>2, <4>1, <4>2, AppendedEnds
            <4>6. QED
                BY <4>4, <4>5
        <3>5. CASE kind = "status"
            <4>1. frame.kind = "status" /\ ~Carries(frame, s.sub)
                BY <3>5 DEF FrameFor, Carries
            <4>2. Linked(socket', s.sub, from)
                BY <2>2, <3>1, <3>2, <4>1, AppendedLinked
            <4>3. session'.state = "live" /\ ~session'.needsResync /\ seq' > 0
                  => Ends(filled, s.sub, Len(filled), from, chain')
                BY <2>2, <2>4, <2>7, <3>5
            <4>4. QED
                BY <2>2, <3>1, <3>2, <4>1, <4>2, <4>3, AppendedEnds
        <3>6. QED
            BY <3>3, <3>4, <3>5
    <2>8. QED
        BY <2>6, <2>7
<1>5. QED
    BY <1>3, <1>4

-----------------------------------------------------------------------------
(* The inductive invariant.                                                 *)

NoChain == [s \in Symbols |-> None]

\* The session is at most as far as the runtime; what was never built is empty.
Numbers ==
    /\ seq = 0 => chain = NoChain
    /\ Ordered(socket, seq)

\* A client without a socket has no session and nothing on its way.
Disconnected == ~client.open => session = NoSession /\ socket = <<>> /\ requests = <<>>

\* At most one subscribe message is on its way.  It is the client's last, and its
\* id is still new to the session and the socket.
Asked ==
    requests # <<>> =>
        /\ requests = <<client.sub>>
        /\ client.sub # session.sub
        /\ Stranger(socket, client.sub)

\* What the session sent leads the client to the runtime's chain, unless it owes
\* a snapshot.
Leads ==
    /\ Linked(socket, client.sub, truth)
    /\ session.state = "live" /\ session.sub = client.sub /\ ~session.needsResync /\ seq > 0
       => Ends(socket, client.sub, Len(socket), truth, chain)

StreamInv ==
    /\ TypeOK
    /\ session.state = "live" => session.sub \in Subscriptions
    /\ Numbers
    /\ Disconnected
    /\ Asked
    /\ Leads
    /\ ShowsARealChain

-----------------------------------------------------------------------------
(* Its parts.                                                               *)

Clients(top) ==
    [open : BOOLEAN, sub : Subscriptions \cup {Unknown}, shown : Chains \cup {Unknown},
     lastSeq : 0..top, batched : Seq(Patches), probing : BOOLEAN]

LEMMA Bounds == MaxSeq \in Nat /\ MaxStatuses \in Nat /\ MaxTroubles \in Nat
                /\ Unknown \notin Subscriptions /\ Unknown \notin Chains
BY StreamAssumption

LEMMA TypeParts ==
    TypeOK <=> /\ chain \in Chains
               /\ seq \in 0..MaxSeq
               /\ session \in Sessions
               /\ session.lastSentSeq \in 0..seq
               /\ socket \in Seq(Frames)
               /\ requests \in Seq(Subscriptions)
               /\ client \in Clients(seq)
               /\ truth \in Chains \cup {Unknown}
               /\ statuses \in 0..MaxStatuses
               /\ troubles \in 0..MaxTroubles
<1>1. seq \in 0..MaxSeq =>
         (session \in [state : {"none", "live", "closed"}, sub : Subscriptions \cup {Unknown},
                    lastSentSeq : 0..seq, needsResync : BOOLEAN, slow : BOOLEAN]
          <=> session \in Sessions /\ session.lastSentSeq \in 0..seq)
    BY Bounds DEF Sessions
<1>2. QED
    BY <1>1 DEF TypeOK, Clients

LEMMA TypeKept ==
    ASSUME chain' \in Chains, seq' \in 0..MaxSeq, session' \in Sessions,
           session'.lastSentSeq \in 0..seq', socket' \in Seq(Frames),
           requests' \in Seq(Subscriptions), client' \in Clients(seq'),
           truth' \in Chains \cup {Unknown}, statuses' \in 0..MaxStatuses,
           troubles' \in 0..MaxTroubles
    PROVE  TypeOK'
<1>1. session' \in [state : {"none", "live", "closed"}, sub : Subscriptions \cup {Unknown},
                    lastSentSeq : 0..seq', needsResync : BOOLEAN, slow : BOOLEAN]
    BY Bounds DEF Sessions
<1>2. QED
    BY <1>1 DEF TypeOK, Clients

LEMMA ClientsGrow ==
    ASSUME NEW m \in Nat, NEW n \in Nat, m <= n, NEW c \in Clients(m)
    PROVE  c \in Clients(n)
BY DEF Clients

LEMMA NoSessionTyped ==
    /\ NoSession \in Sessions
    /\ NoSession.state = "none"
    /\ NoSession.sub = Unknown
    /\ NoSession.lastSentSeq = 0
    /\ [NoSession EXCEPT !.state = "closed"] \in Sessions
    /\ [NoSession EXCEPT !.state = "closed"].state = "closed"
    /\ [NoSession EXCEPT !.state = "closed"].sub = Unknown
    /\ [NoSession EXCEPT !.state = "closed"].lastSentSeq = 0
BY DEF NoSession, Sessions

LEMMA StrangerLinked ==
    ASSUME NEW queue, NEW sub, Stranger(queue, sub), NEW from
    PROVE  Linked(queue, sub, from)
BY DEF Stranger, Linked, Carries

LEMMA OrderedGrows ==
    ASSUME NEW queue \in Seq(Frames), NEW m \in Nat, NEW n \in Nat, m <= n, Ordered(queue, m)
    PROVE  Ordered(queue, n)
<1>1. ASSUME NEW i \in 1..Len(queue), queue[i].kind \in {"snapshot", "diff"}
      PROVE  queue[i].seq <= n
    <2>1. queue[i] \in Frames
        OBVIOUS
    <2>2. queue[i].seq \in Nat
        BY <1>1, <2>1, Bounds DEF Frames
    <2>3. QED
        BY <1>1, <2>2 DEF Ordered
<1>2. QED
    BY <1>1 DEF Ordered

\* What a session that sends is afterwards.
LEMMA SendSession ==
    ASSUME NEW s \in Sessions, s.state = "live", NEW queue, NEW kind, NEW frame,
           seq' \in Nat, s.lastSentSeq <= seq',
           \/ Drops(s, queue)
           \/ \E flushes \in BOOLEAN, held \in BOOLEAN : Sends(s, queue, kind, frame, flushes, held)
    PROVE  /\ session' \in Sessions
           /\ session'.lastSentSeq \in 0..seq'
           /\ \/ session'.state = "live" /\ session'.sub = s.sub
              \/ session'.state = "closed" /\ session'.sub = Unknown
<1>1. CASE Drops(s, queue)
    BY <1>1, NoSessionTyped DEF Drops
<1>2. CASE \E flushes \in BOOLEAN, held \in BOOLEAN : Sends(s, queue, kind, frame, flushes, held)
    <2>1. PICK flushes \in BOOLEAN, held \in BOOLEAN : Sends(s, queue, kind, frame, flushes, held)
        BY <1>2
    <2>2. s.lastSentSeq \in Nat
        BY DEF Sessions
    <2>3. QED
        BY <2>1, <2>2 DEF Sends
<1>3. QED
    BY <1>1, <1>2

LEMMA BroadcastKeeps ==
    ASSUME StreamInv, NEW kind \in {"snapshot", "delta", "status"}, NEW frame, Broadcast(kind, frame),
           session.state = "live" => FrameFor(kind, frame, session.sub),
           chain' \in Chains, seq' \in 0..MaxSeq,
           kind = "status" => chain' = chain /\ seq' = seq,
           kind # "status" => seq' = seq + 1,
           kind = "delta" => seq > 0,
           statuses' \in 0..MaxStatuses,
           UNCHANGED <<requests, client, truth, troubles>>
    PROVE  StreamInv'
<1>1. TypeOK /\ Numbers /\ Disconnected /\ Asked /\ Leads /\ ShowsARealChain
      /\ (session.state = "live" => session.sub \in Subscriptions)
    BY DEF StreamInv
<1>2. /\ chain \in Chains
      /\ seq \in 0..MaxSeq
      /\ session \in Sessions
      /\ session.lastSentSeq \in 0..seq
      /\ socket \in Seq(Frames)
      /\ requests \in Seq(Subscriptions)
      /\ client \in Clients(seq)
      /\ truth \in Chains \cup {Unknown}
      /\ troubles \in 0..MaxTroubles
    BY <1>1, TypeParts
<1>3. seq \in Nat /\ seq' \in Nat /\ seq <= seq' /\ (kind # "status" => seq < seq')
    BY <1>2, Bounds
<1>4. Ordered(socket, seq')
    BY <1>1, <1>2, <1>3, OrderedGrows DEF Numbers
<1>5. client' \in Clients(seq')
    BY <1>2, <1>3, ClientsGrow
<1>6. ShowsARealChain'
    BY <1>1 DEF ShowsARealChain, AfterBatch
<1>7. seq' = 0 => chain' = NoChain
    BY <1>1, <1>2 DEF Numbers
<1>8. CASE session.state # "live"
    <2>1. session' = session /\ socket' = socket
        BY <1>8 DEF Broadcast
    <2>2. TypeOK'
        <3>1. session'.lastSentSeq \in 0..seq'
            BY <1>2, <1>3, <2>1
        <3>2. QED
            BY <1>2, <1>5, <2>1, <3>1, TypeKept
    <2>3. Numbers'
        BY <1>4, <1>7, <2>1 DEF Numbers
    <2>4. Disconnected' /\ Asked'
        BY <1>1, <2>1 DEF Disconnected, Asked
    <2>5. Leads'
        BY <1>1, <1>8, <2>1 DEF Leads
    <2>6. QED
        BY <1>6, <1>8, <2>1, <2>2, <2>3, <2>4, <2>5 DEF StreamInv
<1>9. CASE session.state = "live"
    <2>1. SendEngineEvent(session, socket, kind, frame) /\ FrameFor(kind, frame, session.sub)
        BY <1>9 DEF Broadcast
    <2>2. session.sub \in Subscriptions
        BY <1>1, <1>9
    <2>3. kind # "status" => session.lastSentSeq < seq'
        BY <1>2, <1>3
    <2>4. \/ Drops(session, socket)
          \/ \E flushes \in BOOLEAN, held \in BOOLEAN : Sends(session, socket, kind, frame, flushes, held)
        BY <1>2, <1>3, <2>1, <2>3, SendCases
    <2>5. socket' \in Seq(Frames) /\ Ordered(socket', seq')
        BY <1>2, <1>4, <2>1, <2>2, <2>4, Bounds, SendTyped
    <2>6. /\ session' \in Sessions
          /\ session'.lastSentSeq \in 0..seq'
          /\ \/ session'.state = "live" /\ session'.sub = session.sub
             \/ session'.state = "closed" /\ session'.sub = Unknown
        <3>1. session.lastSentSeq <= seq'
            BY <1>2, <1>3
        <3>2. QED
            BY <1>2, <1>3, <1>9, <2>4, <3>1, SendSession
    <2>7. TypeOK'
        BY <1>2, <1>5, <2>5, <2>6, TypeKept
    <2>8. Numbers'
        BY <1>7, <2>5 DEF Numbers
    <2>9. Disconnected'
        BY <1>1, <1>9, NoSessionTyped DEF Disconnected
    <2>10. Asked'
        <3>1. CASE requests = <<>>
            BY <3>1 DEF Asked
        <3>2. CASE requests # <<>>
            <4>1. requests = <<client.sub>> /\ client.sub # session.sub /\ Stranger(socket, client.sub)
                BY <1>1, <3>2 DEF Asked
            <4>2. client.sub \in Subscriptions
                <5>1. requests[1] = client.sub /\ 1 \in 1..Len(requests)
                    BY <4>1
                <5>2. QED
                    BY <1>2, <5>1
            <4>3. client.sub # session'.sub
                BY <2>6, <4>1, <4>2, Bounds
            <4>4. Stranger(socket', client.sub)
                BY <1>2, <2>1, <2>2, <2>4, <4>1, Bounds, SendToOthers
            <4>5. QED
                BY <4>1, <4>3, <4>4 DEF Asked
        <3>3. QED
            BY <3>1, <3>2
    <2>11. Leads'
        <3>1. CASE client.sub = session.sub
            <4>1. Linked(socket, session.sub, truth)
                BY <1>1, <3>1 DEF Leads
            <4>2. kind # "snapshot" /\ ~session.needsResync /\ seq' > 0
                  => Ends(socket, session.sub, Len(socket), truth, chain)
                BY <1>1, <1>9, <3>1 DEF Leads
            <4>3. /\ Linked(socket', session.sub, truth)
                  /\ session'.state = "live" /\ ~session'.needsResync /\ seq' > 0
                     => Ends(socket', session.sub, Len(socket'), truth, chain')
                BY <1>2, <2>1, <2>2, <2>4, <4>1, <4>2, Bounds, SendToOwn
            <4>4. QED
                BY <3>1, <4>3 DEF Leads
        <3>2. CASE client.sub # session.sub
            <4>1. Linked(socket', client.sub, truth)
                BY <1>1, <1>2, <2>1, <2>2, <2>4, <3>2, Bounds, SendToOthers DEF Leads
            <4>2. session'.state = "live" => session'.sub # client.sub
                BY <2>6, <3>2
            <4>3. QED
                BY <4>1, <4>2 DEF Leads
        <3>3. QED
            BY <3>1, <3>2
    <2>12. session'.state = "live" => session'.sub \in Subscriptions
        BY <2>2, <2>6
    <2>13. QED
        BY <1>6, <2>7, <2>8, <2>9, <2>10, <2>11, <2>12 DEF StreamInv
<1>10. QED
    BY <1>8, <1>9

-----------------------------------------------------------------------------
(* The runtime's steps.                                                     *)

LEMMA StreamBegins == Init => StreamInv
<1> SUFFICES ASSUME Init
             PROVE  StreamInv
    OBVIOUS
<1> USE DEF Init, FeedInit
<1>1. TypeOK
    <2>1. chain \in Chains
        BY DEF Chains
    <2>2. socket \in Seq(Frames) /\ requests \in Seq(Subscriptions) /\ <<>> \in Seq(Patches)
        OBVIOUS
    <2>3. client \in Clients(seq)
        BY <2>2, Bounds DEF Clients
    <2>4. QED
        BY <2>1, <2>2, <2>3, Bounds, NoSessionTyped, TypeParts
<1>2. Numbers
    BY DEF Numbers, NoChain, Ordered
<1>3. Disconnected /\ Asked
    BY DEF Disconnected, Asked
<1>4. Leads
    BY NoSessionTyped DEF Leads, Linked
<1>5. ShowsARealChain
    BY DEF ShowsARealChain, AfterBatch
<1>6. QED
    BY <1>1, <1>2, <1>3, <1>4, <1>5, NoSessionTyped DEF StreamInv

LEMMA RuntimeSnapshotKeeps ==
    ASSUME StreamInv, RuntimeSnapshot
    PROVE  StreamInv'
<1>1. chain \in Chains /\ seq \in 0..MaxSeq /\ statuses \in 0..MaxStatuses
      /\ (session.state = "live" => session.sub \in Subscriptions)
    BY TypeParts DEF StreamInv
<1>2. chain' \in Chains /\ seq' = seq + 1 /\ seq < MaxSeq
    BY StreamAssumption DEF RuntimeSnapshot, FeedSnapshot
<1>3. seq' \in 1..MaxSeq /\ seq' > 0
    BY <1>1, <1>2, Bounds
<1>4. session.state = "live" => FrameFor("snapshot", SnapshotFrame(session.sub), session.sub)
    BY <1>1, <1>2, <1>3, SnapshotFrameIs DEF FrameFor
<1>5. Broadcast("snapshot", SnapshotFrame(session.sub))
    BY DEF RuntimeSnapshot
<1>6. statuses' \in 0..MaxStatuses /\ UNCHANGED <<requests, client, truth, troubles>>
    BY <1>1 DEF RuntimeSnapshot
<1>7. seq' \in 0..MaxSeq
    BY <1>3
<1>8. QED
    BY <1>2, <1>4, <1>5, <1>6, <1>7, BroadcastKeeps

LEMMA DiffFrameIs ==
    ASSUME NEW sub \in Subscriptions, NEW patch \in Patches, chain \in Chains,
           chain' = Applied(patch, chain), seq' \in 1..MaxSeq
    PROVE  /\ DiffFrame(sub, patch) \in Frames
           /\ DiffFrame(sub, patch).kind = "diff"
           /\ DiffFrame(sub, patch).sub = sub
           /\ DiffFrame(sub, patch).seq = seq'
           /\ DiffFrame(sub, patch).data = chain'
           /\ Applied(DiffFrame(sub, patch).patch, chain) = chain'
           /\ Applied(DiffFrame(sub, patch).patch, chain') = chain'
<1> DEFINE changed == {s \in DOMAIN patch : patch[s] # chain[s]}
           diff == [s \in changed |-> patch[s]]
<1>1. patch \in [DOMAIN patch -> Quotes] /\ DOMAIN patch \subseteq Symbols
    BY DEF Patches
<1>2. diff \in Patches
    <2>1. changed \subseteq Symbols /\ diff \in [changed -> Quotes]
        BY <1>1
    <2>2. QED
        BY <2>1 DEF Patches
<1>3. Applied(diff, chain) = chain' /\ Applied(diff, chain') = chain'
    BY <1>1 DEF Applied, Chains
<1>4. chain' \in Chains
    BY AppliedIsChain
<1>5. DiffFrame(sub, patch) = [kind |-> "diff", sub |-> sub, seq |-> seq', data |-> chain', patch |-> diff]
    BY DEF DiffFrame
<1> HIDE DEF diff
<1>6. DiffFrame(sub, patch) \in [kind : {"diff"}, sub : Subscriptions, seq : 1..MaxSeq, patch : Patches, data : Chains]
    BY <1>2, <1>4, <1>5
<1>7. QED
    BY <1>3, <1>5, <1>6 DEF Frames

LEMMA RuntimeDeltaKeeps ==
    ASSUME StreamInv, RuntimeDelta
    PROVE  StreamInv'
<1>1. chain \in Chains /\ seq \in 0..MaxSeq /\ statuses \in 0..MaxStatuses
      /\ (session.state = "live" => session.sub \in Subscriptions)
      /\ (seq = 0 => chain = NoChain)
    BY TypeParts DEF StreamInv, Numbers
<1>2. PICK patch \in Patches : FeedPatch(patch) /\ Broadcast("delta", DiffFrame(session.sub, patch))
    BY DEF RuntimeDelta
<1>3. chain' = Applied(patch, chain) /\ seq' = seq + 1 /\ seq < MaxSeq
    BY <1>2 DEF RuntimeDelta, FeedPatch
<1>4. chain' \in Chains
    BY <1>1, <1>3, AppliedIsChain
<1>5. seq' \in 1..MaxSeq /\ seq' > 0
    BY <1>1, <1>3, Bounds
<1>6. seq > 0
    <2>1. PICK s \in DOMAIN patch : chain[s] # None
        BY <1>2 DEF FeedPatch
    <2>2. DOMAIN patch \subseteq Symbols
        BY DEF Patches
    <2>3. chain # NoChain
        BY <2>1, <2>2 DEF NoChain
    <2>4. QED
        BY <1>1, <2>3, Bounds
<1>7. session.state = "live" => FrameFor("delta", DiffFrame(session.sub, patch), session.sub)
    BY <1>1, <1>3, <1>5, DiffFrameIs DEF FrameFor
<1>8. statuses' \in 0..MaxStatuses /\ UNCHANGED <<requests, client, truth, troubles>>
    BY <1>1 DEF RuntimeDelta
<1>9. seq' \in 0..MaxSeq
    BY <1>5
<1>10. QED
    BY <1>2, <1>3, <1>4, <1>6, <1>7, <1>8, <1>9, BroadcastKeeps

LEMMA VenueStatusKeeps ==
    ASSUME StreamInv, VenueStatus
    PROVE  StreamInv'
<1> DEFINE frame == [kind |-> "status", sub |-> session.sub]
<1>1. chain \in Chains /\ seq \in 0..MaxSeq /\ statuses \in 0..MaxStatuses
      /\ (session.state = "live" => session.sub \in Subscriptions)
    BY TypeParts DEF StreamInv
<1>2. chain' = chain /\ seq' = seq /\ UNCHANGED <<requests, client, truth, troubles>>
    BY DEF VenueStatus, feedVars
<1>3. statuses' \in 0..MaxStatuses
    BY <1>1, Bounds DEF VenueStatus
<1>4. session.state = "live" => FrameFor("status", frame, session.sub)
    BY <1>1 DEF FrameFor, Frames
<1>5. Broadcast("status", frame)
    BY DEF VenueStatus
<1> HIDE DEF frame
<1>6. QED
    BY <1>1, <1>2, <1>3, <1>4, <1>5, BroadcastKeeps

-----------------------------------------------------------------------------
(* A subscribe message.                                                     *)

LEMMA RenewedIs ==
    ASSUME NEW s \in Sessions, NEW sub \in Subscriptions
    PROVE  /\ Renewed([s EXCEPT !.state = "live"], sub) \in Sessions
           /\ Renewed([s EXCEPT !.state = "live"], sub).state = "live"
           /\ Renewed([s EXCEPT !.state = "live"], sub).sub = sub
           /\ Renewed([s EXCEPT !.state = "live"], sub).lastSentSeq = 0
<1> DEFINE l == [s EXCEPT !.state = "live"]
<1>1. l \in Sessions /\ l.state = "live"
    BY DEF Sessions
<1> HIDE DEF l
<1>2. Renewed(l, sub) \in Sessions /\ Renewed(l, sub).state = "live"
      /\ Renewed(l, sub).sub = sub /\ Renewed(l, sub).lastSentSeq = 0
    BY <1>1 DEF Renewed, Sessions
<1>3. QED
    BY <1>2 DEF l

LEMMA HandleSubscribeKeeps ==
    ASSUME StreamInv, HandleSubscribe
    PROVE  StreamInv'
<1>1. TypeOK /\ Numbers /\ Disconnected /\ Asked /\ Leads /\ ShowsARealChain
      /\ (session.state = "live" => session.sub \in Subscriptions)
    BY DEF StreamInv
<1>2. /\ chain \in Chains
      /\ seq \in 0..MaxSeq
      /\ session \in Sessions
      /\ session.lastSentSeq \in 0..seq
      /\ socket \in Seq(Frames)
      /\ requests \in Seq(Subscriptions)
      /\ client \in Clients(seq)
      /\ truth \in Chains \cup {Unknown}
      /\ statuses \in 0..MaxStatuses
      /\ troubles \in 0..MaxTroubles
    BY <1>1, TypeParts
<1>3. requests # <<>> /\ requests' = Tail(requests)
      /\ UNCHANGED <<chain, seq, client, truth, statuses, troubles>>
    BY DEF HandleSubscribe, feedVars
<1> DEFINE sub == client.sub
<1>4. requests = <<sub>> /\ sub # session.sub /\ Stranger(socket, sub)
    BY <1>1, <1>3 DEF Asked
<1>5. Head(requests) = sub /\ requests' = <<>> /\ sub \in Subscriptions
    <2>1. Head(requests) = sub /\ Tail(requests) = <<>>
        BY <1>4
    <2>2. Head(requests) \in Subscriptions
        BY <1>2, <1>3
    <2>3. QED
        BY <1>3, <2>1, <2>2
<1>6. client.open
    BY <1>1, <1>3 DEF Disconnected
<1>7. Disconnected' /\ Asked'
    BY <1>3, <1>5, <1>6 DEF Disconnected, Asked
<1>8. ShowsARealChain'
    BY <1>1, <1>3 DEF ShowsARealChain, AfterBatch
<1>9. requests' \in Seq(Subscriptions)
    BY <1>5
<1>10. CASE session.state = "closed"
    <2>1. session' = session /\ socket' = socket
        BY <1>10 DEF HandleSubscribe
    <2>2. TypeOK'
        BY <1>2, <1>3, <1>9, <2>1, TypeKept
    <2>3. Numbers'
        BY <1>1, <1>3, <2>1 DEF Numbers, NoChain
    <2>4. Leads'
        BY <1>1, <1>3, <1>10, <2>1 DEF Leads
    <2>5. QED
        BY <1>1, <1>7, <1>8, <2>1, <2>2, <2>3, <2>4 DEF StreamInv
<1>11. CASE session.state # "closed"
    <2> DEFINE renewed == Renewed([session EXCEPT !.state = "live"], sub)
               said == [kind |-> "subscribed", sub |-> sub]
               queue == Append(socket, said)
    <2>1. /\ renewed \in Sessions /\ renewed.state = "live" /\ renewed.sub = sub
          /\ renewed.lastSentSeq = 0
        BY <1>2, <1>5, RenewedIs
    <2>2. said \in Frames /\ said.kind = "subscribed" /\ ~Carries(said, sub)
        BY <1>5 DEF Frames, Carries
    <2>3. IF seq > 0
          THEN SendEngineEvent(renewed, queue, "snapshot", SnapshotFrame(sub))
          ELSE session' = renewed /\ socket' = queue
        BY <1>5, <1>11 DEF HandleSubscribe
    <2> HIDE DEF renewed, said
    <2>4. queue \in Seq(Frames) /\ Ordered(queue, seq) /\ Stranger(queue, sub)
        <3>1. queue \in Seq(Frames)
            BY <1>2, <2>2, AppendedFrames
        <3>2. Ordered(socket, seq)
            BY <1>1 DEF Numbers
        <3>3. Ordered(queue, seq)
            BY <1>2, <2>2, <3>2, AppendedOrdered
        <3>4. Stranger(queue, sub)
            BY <1>2, <1>4, <2>2, AppendedStranger
        <3>5. QED
            BY <3>1, <3>3, <3>4
    <2> HIDE DEF queue
    <2>5. Linked(queue, sub, truth)
        BY <2>4, StrangerLinked
    <2>6. CASE seq > 0
        <3>1. seq' \in 1..MaxSeq /\ seq' \in 0..MaxSeq /\ seq' \in Nat /\ seq' > 0 /\ chain' \in Chains
            BY <1>2, <1>3, <2>6, Bounds
        <3>2. FrameFor("snapshot", SnapshotFrame(sub), renewed.sub)
            BY <1>5, <2>1, <3>1, SnapshotFrameIs DEF FrameFor
        <3>3. renewed.lastSentSeq < seq' /\ renewed.lastSentSeq <= seq'
            BY <2>1, <3>1
        <3>4. SendEngineEvent(renewed, queue, "snapshot", SnapshotFrame(sub))
            BY <2>3, <2>6
        <3>5. \/ Drops(renewed, queue)
              \/ \E flushes \in BOOLEAN, held \in BOOLEAN :
                    Sends(renewed, queue, "snapshot", SnapshotFrame(sub), flushes, held)
            BY <2>1, <3>1, <3>3, <3>4, SendCases
        <3>6. Ordered(queue, seq')
            BY <1>3, <2>4
        <3>7. socket' \in Seq(Frames) /\ Ordered(socket', seq')
            BY <1>5, <2>1, <2>4, <3>1, <3>2, <3>5, <3>6, Bounds, SendTyped
        <3>8. /\ session' \in Sessions
              /\ session'.lastSentSeq \in 0..seq'
              /\ \/ session'.state = "live" /\ session'.sub = sub
                 \/ session'.state = "closed" /\ session'.sub = Unknown
            BY <2>1, <3>1, <3>3, <3>5, SendSession
        <3>9. /\ Linked(socket', sub, truth)
              /\ session'.state = "live" /\ ~session'.needsResync /\ seq' > 0
                 => Ends(socket', sub, Len(socket'), truth, chain')
            BY <1>3, <1>5, <2>1, <2>4, <2>5, <3>1, <3>2, <3>5, Bounds, SendToOwn
        <3>10. TypeOK'
            BY <1>2, <1>3, <1>9, <3>7, <3>8, TypeKept
        <3>11. Numbers'
            BY <3>1, <3>7 DEF Numbers
        <3>12. Leads'
            BY <1>3, <3>9 DEF Leads
        <3>13. QED
            BY <1>5, <1>7, <1>8, <3>8, <3>10, <3>11, <3>12 DEF StreamInv
    <2>7. CASE ~(seq > 0)
        <3>1. session' = renewed /\ socket' = queue
            BY <2>3, <2>7
        <3>2. session'.lastSentSeq \in 0..seq'
            BY <1>2, <1>3, <2>1, <3>1, Bounds
        <3>3. TypeOK'
            BY <1>2, <1>3, <1>9, <2>1, <2>4, <3>1, <3>2, TypeKept
        <3>4. Numbers'
            BY <1>1, <1>3, <2>4, <3>1 DEF Numbers, NoChain
        <3>5. Leads'
            BY <1>3, <2>5, <2>7, <3>1 DEF Leads
        <3>6. QED
            BY <1>5, <1>7, <1>8, <2>1, <3>1, <3>3, <3>4, <3>5 DEF StreamInv
    <2>8. QED
        BY <2>6, <2>7
<1>12. QED
    BY <1>10, <1>11

-----------------------------------------------------------------------------
(* The client's steps.                                                      *)

LEMMA ClientIs ==
    ASSUME NEW n, NEW c \in Clients(n)
    PROVE  /\ \A b \in BOOLEAN : [c EXCEPT !.probing = b] \in Clients(n)
           /\ \A b \in BOOLEAN : [c EXCEPT !.open = b] \in Clients(n)
           /\ \A data \in Chains, k \in 0..n :
                 [c EXCEPT !.probing = FALSE, !.shown = data, !.lastSeq = k, !.batched = <<>>] \in Clients(n)
           /\ \A k \in 0..n, q \in Seq(Patches) :
                 [c EXCEPT !.probing = FALSE, !.lastSeq = k, !.batched = q] \in Clients(n)
           /\ \A data \in Chains \cup {Unknown} :
                 [c EXCEPT !.shown = data, !.batched = <<>>] \in Clients(n)
           /\ \A sub \in Subscriptions, b \in BOOLEAN :
                 [c EXCEPT !.open = TRUE, !.sub = sub, !.probing = b] \in Clients(n)
<1> <<>> \in Seq(Patches)
    OBVIOUS
<1>1. \A b \in BOOLEAN : [c EXCEPT !.probing = b] \in Clients(n) /\ [c EXCEPT !.open = b] \in Clients(n)
    BY DEF Clients
<1>2. ASSUME NEW data \in Chains, NEW k \in 0..n
      PROVE  [c EXCEPT !.probing = FALSE, !.shown = data, !.lastSeq = k, !.batched = <<>>] \in Clients(n)
    BY DEF Clients
<1>3. ASSUME NEW k \in 0..n, NEW q \in Seq(Patches)
      PROVE  [c EXCEPT !.probing = FALSE, !.lastSeq = k, !.batched = q] \in Clients(n)
    BY DEF Clients
<1>4. ASSUME NEW data \in Chains \cup {Unknown}
      PROVE  [c EXCEPT !.shown = data, !.batched = <<>>] \in Clients(n)
    BY DEF Clients
<1>5. ASSUME NEW sub \in Subscriptions, NEW b \in BOOLEAN
      PROVE  [c EXCEPT !.open = TRUE, !.sub = sub, !.probing = b] \in Clients(n)
    BY DEF Clients
<1>6. QED
    BY <1>1, <1>2, <1>3, <1>4, <1>5

LEMMA BatchTaken ==
    ASSUME client \in Clients(seq), NEW patch \in Patches, AfterBatch \in Chains,
           client'.shown = client.shown, client'.batched = Append(client.batched, patch)
    PROVE  AfterBatch' = Applied(patch, AfterBatch)
<1>1. client.batched \in Seq(Patches)
    BY DEF Clients
<1>2. client.shown # Unknown
    BY Bounds DEF AfterBatch
<1>3. AfterBatch' = Merged(Append(client.batched, patch), client.shown)
    BY <1>2 DEF AfterBatch
<1>4. QED
    BY <1>1, <1>2, <1>3, OneMoreMerged DEF AfterBatch

LEMMA ChainTaken ==
    ASSUME NEW data \in Chains \cup {Unknown}, client'.shown = data, client'.batched = <<>>
    PROVE  AfterBatch' = data
BY NothingMerged DEF AfterBatch

\* A socket that goes takes everything with it but what the client shows.
LEMMA Closed ==
    ASSUME StreamInv, client' = [client EXCEPT !.open = FALSE], session' = NoSession,
           socket' = <<>>, requests' = <<>>, UNCHANGED <<chain, seq, truth, statuses>>,
           troubles' \in 0..MaxTroubles
    PROVE  StreamInv'
<1>1. TypeOK /\ Numbers /\ ShowsARealChain
    BY DEF StreamInv
<1>2. client \in Clients(seq)
    BY <1>1, TypeParts
<1>3. client' \in Clients(seq')
    BY <1>2, ClientIs
<1>4. client'.shown = client.shown /\ client'.batched = client.batched
    BY <1>2 DEF Clients
<1>5. TypeOK'
    <2>1. session'.lastSentSeq \in 0..seq'
        BY <1>1, NoSessionTyped, Bounds DEF TypeOK
    <2>2. socket' \in Seq(Frames) /\ requests' \in Seq(Subscriptions) /\ session' \in Sessions
        BY NoSessionTyped
    <2>3. QED
        BY <1>1, <1>3, <2>1, <2>2, TypeParts, TypeKept
<1>6. Numbers'
    BY <1>1 DEF Numbers, NoChain, Ordered
<1>7. Disconnected' /\ Asked'
    BY DEF Disconnected, Asked
<1>8. Leads'
    BY NoSessionTyped DEF Leads, Linked
<1>9. ShowsARealChain'
    BY <1>1, <1>4 DEF ShowsARealChain, AfterBatch
<1>10. QED
    BY <1>5, <1>6, <1>7, <1>8, <1>9, NoSessionTyped DEF StreamInv

LEMMA HandleMessageKeeps ==
    ASSUME StreamInv, HandleMessage
    PROVE  StreamInv'
<1>1. TypeOK /\ Numbers /\ Disconnected /\ Asked /\ Leads /\ ShowsARealChain
      /\ (session.state = "live" => session.sub \in Subscriptions)
    BY DEF StreamInv
<1>2. /\ chain \in Chains
      /\ seq \in 0..MaxSeq
      /\ session \in Sessions
      /\ session.lastSentSeq \in 0..seq
      /\ socket \in Seq(Frames)
      /\ requests \in Seq(Subscriptions)
      /\ client \in Clients(seq)
      /\ truth \in Chains \cup {Unknown}
      /\ statuses \in 0..MaxStatuses
      /\ troubles \in 0..MaxTroubles
    BY <1>1, TypeParts
<1>3. client.open /\ socket # <<>> /\ UNCHANGED <<chain, seq, statuses, troubles>>
    BY DEF HandleMessage, feedVars
<1> DEFINE m == Head(socket)
           sub == client.sub
<1>4. CASE m.kind = "close"
    <2>1. /\ client' = [client EXCEPT !.open = FALSE]
          /\ socket' = <<>> /\ requests' = <<>> /\ session' = NoSession /\ truth' = truth
        BY <1>4 DEF HandleMessage
    <2>2. QED
        BY <1>2, <1>3, <2>1, Closed
<1>5. CASE m.kind # "close"
    <2>1. socket' = Tail(socket) /\ requests' = requests /\ session' = session
        BY <1>5 DEF HandleMessage
    <2>2. m \in Frames /\ m = socket[1] /\ Len(socket) \in Nat \ {0} /\ Len(Tail(socket)) = Len(socket) - 1
          /\ Tail(socket) \in Seq(Frames)
          /\ \A i \in 1..Len(socket) - 1 : Tail(socket)[i] = socket[i + 1]
        BY <1>2, <1>3, TailFrames
    <2> DEFINE then == IF Carries(m, sub) THEN m.data ELSE truth
    <2>3. Linked(Tail(socket), sub, then)
        BY <1>1, <1>2, <1>3, TailLinked DEF Leads
    <2>4. \A data : Ends(socket, sub, Len(socket), truth, data)
                    => Ends(Tail(socket), sub, Len(Tail(socket)), then, data)
        <3>1. Len(socket) \in 1..Len(socket)
            BY <2>2
        <3>2. QED
            BY <1>2, <1>3, <2>2, <3>1, TailEnds
    <2> HIDE DEF m
    <2>5. /\ client' \in Clients(seq)
          /\ client'.open = client.open
          /\ client'.sub = sub
          /\ truth' = then
          /\ truth' \in Chains \cup {Unknown}
          /\ AfterBatch' = truth'
        <3>1. CASE m.kind = "snapshot" /\ m.sub = sub
            <4>1. truth' = m.data /\ OnSnapshot(m)
                BY <1>5, <3>1 DEF HandleMessage, IsShown, m
            <4>2. m.data \in Chains /\ m.seq \in Nat
                BY <2>2, <3>1, Bounds DEF Frames
            <4>3. m.seq \in 0..seq
                <5>1. m.seq <= seq
                    BY <1>1, <2>2, <3>1 DEF Numbers, Ordered
                <5>2. QED
                    BY <1>2, <4>2, <5>1, Bounds
            <4>4. client' = [client EXCEPT !.probing = FALSE, !.shown = m.data, !.lastSeq = m.seq, !.batched = <<>>]
                BY <4>1 DEF OnSnapshot
            <4>5. client' \in Clients(seq)
                BY <1>2, <4>2, <4>3, <4>4, ClientIs
            <4>6. client'.open = client.open /\ client'.sub = sub /\ client'.shown = m.data /\ client'.batched = <<>>
                BY <1>2, <4>4 DEF Clients
            <4>7. AfterBatch' = m.data
                BY <4>2, <4>6, ChainTaken
            <4>8. Carries(m, sub)
                BY <3>1 DEF Carries
            <4>9. QED
                BY <4>1, <4>2, <4>5, <4>6, <4>7, <4>8
        <3>2. CASE m.kind = "diff" /\ m.sub = sub
            <4>1. truth' = m.data /\ OnDiff(m)
                BY <1>5, <3>2 DEF HandleMessage, IsShown, m
            <4>2. m.data \in Chains /\ m.seq \in Nat /\ m.patch \in Patches
                BY <2>2, <3>2, Bounds DEF Frames
            <4>3. m.seq \in 0..seq
                <5>1. m.seq <= seq
                    BY <1>1, <2>2, <3>2 DEF Numbers, Ordered
                <5>2. QED
                    BY <1>2, <4>2, <5>1, Bounds
            <4>4. client.batched \in Seq(Patches)
                BY <1>2 DEF Clients
            <4>5. Append(client.batched, m.patch) \in Seq(Patches)
                BY <4>2, <4>4
            <4>6. client' = [client EXCEPT !.probing = FALSE, !.lastSeq = m.seq, !.batched = Append(client.batched, m.patch)]
                BY <1>2, <4>1 DEF OnDiff
            <4>7. client' \in Clients(seq)
                BY <1>2, <4>3, <4>5, <4>6, ClientIs
            <4>8. client'.open = client.open /\ client'.sub = sub /\ client'.shown = client.shown
                  /\ client'.batched = Append(client.batched, m.patch)
                BY <1>2, <4>6 DEF Clients
            <4>9. truth \in Chains /\ m.data = Applied(m.patch, truth)
                <5>1. 1 \in 1..Len(socket) /\ 1 - 1 = 0 /\ 1..0 = {}
                    BY <2>2
                <5>2. PICK data \in Chains : Ends(socket, sub, 0, truth, data) /\ m.data = Applied(m.patch, data)
                    BY <1>1, <2>2, <3>2, <5>1 DEF Leads, Linked
                <5>3. truth = data
                    BY <5>1, <5>2 DEF Ends
                <5>4. QED
                    BY <5>2, <5>3
            <4>10. AfterBatch' = m.data
                BY <1>1, <1>2, <4>2, <4>8, <4>9, BatchTaken DEF ShowsARealChain
            <4>11. Carries(m, sub)
                BY <3>2 DEF Carries
            <4>12. QED
                BY <4>1, <4>2, <4>7, <4>8, <4>10, <4>11
        <3>3. CASE ~Carries(m, sub)
            <4>1. client' = [client EXCEPT !.probing = FALSE] /\ truth' = truth
                BY <1>5, <3>3 DEF HandleMessage, IsShown, Carries, m
            <4>2. client' \in Clients(seq)
                BY <1>2, <4>1, ClientIs
            <4>3. client'.open = client.open /\ client'.sub = sub /\ client'.shown = client.shown
                  /\ client'.batched = client.batched
                BY <1>2, <4>1 DEF Clients
            <4>4. AfterBatch' = truth'
                BY <1>1, <4>1, <4>3 DEF ShowsARealChain, AfterBatch
            <4>5. QED
                BY <1>2, <3>3, <4>1, <4>2, <4>3, <4>4
        <3>4. QED
            BY <3>1, <3>2, <3>3 DEF Carries
    <2>6. TypeOK'
        <3>1. client' \in Clients(seq') /\ socket' \in Seq(Frames)
            BY <1>3, <2>1, <2>2, <2>5
        <3>2. QED
            BY <1>2, <1>3, <2>1, <2>5, <3>1, TypeKept
    <2>7. Numbers'
        <3>1. Ordered(Tail(socket), seq)
            <4>1. \A i \in 1..Len(Tail(socket)) : i + 1 \in 1..Len(socket) /\ i \in 1..Len(socket) - 1
                BY <2>2
            <4>2. QED
                BY <1>1, <2>2, <4>1 DEF Numbers, Ordered
        <3>2. QED
            BY <1>1, <1>3, <2>1, <3>1 DEF Numbers, NoChain
    <2>8. Disconnected'
        BY <1>3, <2>5 DEF Disconnected
    <2>9. Asked'
        <3>1. Stranger(socket, sub) => Stranger(Tail(socket), sub)
            <4>1. \A i \in 1..Len(Tail(socket)) : i + 1 \in 1..Len(socket) /\ i \in 1..Len(socket) - 1
                BY <2>2
            <4>2. QED
                BY <2>2, <4>1 DEF Stranger
        <3>2. QED
            BY <1>1, <2>1, <2>5, <3>1 DEF Asked
    <2>10. Leads'
        BY <1>1, <1>3, <2>1, <2>3, <2>4, <2>5 DEF Leads
    <2>11. ShowsARealChain'
        BY <2>5 DEF ShowsARealChain
    <2>12. QED
        BY <1>1, <2>1, <2>6, <2>7, <2>8, <2>9, <2>10, <2>11 DEF StreamInv
<1>6. QED
    BY <1>4, <1>5

LEMMA FlushDeltasKeeps ==
    ASSUME StreamInv, FlushDeltas
    PROVE  StreamInv'
<1>1. TypeOK /\ Numbers /\ Disconnected /\ Asked /\ Leads /\ ShowsARealChain
      /\ (session.state = "live" => session.sub \in Subscriptions)
    BY DEF StreamInv
<1>2. client \in Clients(seq) /\ truth \in Chains \cup {Unknown}
    BY <1>1, TypeParts
<1>3. UNCHANGED <<chain, seq, session, socket, requests, truth, statuses, troubles>>
    BY DEF FlushDeltas, feedVars
<1>4. client' = [client EXCEPT !.shown = truth, !.batched = <<>>]
    BY <1>1 DEF FlushDeltas, ShowsARealChain
<1>5. client' \in Clients(seq')
    BY <1>2, <1>3, <1>4, ClientIs
<1>6. client'.open = client.open /\ client'.sub = client.sub /\ client'.shown = truth /\ client'.batched = <<>>
    BY <1>2, <1>4 DEF Clients
<1>7. AfterBatch' = truth
    BY <1>2, <1>6, ChainTaken
<1>8. TypeOK'
    BY <1>1, <1>3, <1>5, TypeParts, TypeKept
<1>9. Numbers' /\ Disconnected' /\ Asked' /\ Leads'
    BY <1>1, <1>3, <1>6 DEF Numbers, NoChain, Disconnected, Asked, Leads
<1>10. QED
    BY <1>1, <1>3, <1>7, <1>8, <1>9 DEF StreamInv, ShowsARealChain

\* A fresh id is one that neither the session nor a frame on its way has.
LEMMA SendSubscribeKeeps ==
    ASSUME StreamInv, SendSubscribe, requests = <<>>,
           UNCHANGED <<chain, seq, session, socket, truth, statuses>>, troubles' \in 0..MaxTroubles
    PROVE  StreamInv'
<1> DEFINE fresh == FirstFree
<1>1. TypeOK /\ Numbers /\ ShowsARealChain
      /\ (session.state = "live" => session.sub \in Subscriptions)
    BY DEF StreamInv
<1>2. client \in Clients(seq) /\ socket \in Seq(Frames)
    BY <1>1, TypeParts
<1>3. fresh \in Free
    BY DEF SendSubscribe, FirstFree
<1>4. fresh \in Subscriptions /\ ~InUse(fresh)
    BY <1>3 DEF Free
<1>5. requests' = <<fresh>> /\ client' = [client EXCEPT !.open = TRUE, !.sub = fresh, !.probing = client.open]
    BY DEF SendSubscribe
<1> HIDE DEF fresh
<1>6. client.open \in BOOLEAN
    BY <1>2 DEF Clients
<1>7. client' \in Clients(seq')
    BY <1>2, <1>4, <1>5, <1>6, ClientIs
<1>8. /\ client'.open
      /\ client'.sub = fresh
      /\ client'.shown = client.shown
      /\ client'.batched = client.batched
    BY <1>2, <1>5 DEF Clients
<1>9. fresh # session.sub /\ Stranger(socket, fresh)
    BY <1>4 DEF InUse, Stranger, Carries
<1>10. requests' \in Seq(Subscriptions)
    BY <1>4, <1>5
<1>11. TypeOK'
    BY <1>1, <1>7, <1>10, TypeParts, TypeKept
<1>12. Numbers'
    BY <1>1 DEF Numbers, NoChain
<1>13. Disconnected' /\ Asked'
    BY <1>5, <1>8, <1>9 DEF Disconnected, Asked
<1>14. Leads'
    <2>1. Linked(socket, fresh, truth)
        BY <1>9, StrangerLinked
    <2>2. QED
        BY <1>8, <1>9, <2>1 DEF Leads
<1>15. ShowsARealChain'
    BY <1>1, <1>8 DEF ShowsARealChain, AfterBatch
<1>16. QED
    BY <1>1, <1>11, <1>12, <1>13, <1>14, <1>15 DEF StreamInv

LEMMA ConnectKeeps ==
    ASSUME StreamInv, Connect
    PROVE  StreamInv'
<1>1. requests = <<>> /\ troubles \in 0..MaxTroubles
    BY TypeParts DEF StreamInv, Disconnected, Connect
<1>2. QED
    BY <1>1, SendSubscribeKeeps DEF Connect, feedVars

LEMMA ProbeKeeps ==
    ASSUME StreamInv, Probe
    PROVE  StreamInv'
<1>1. troubles \in 0..MaxTroubles
    BY TypeParts DEF StreamInv
<1>2. troubles' \in 0..MaxTroubles
    BY <1>1, Bounds DEF Probe
<1>3. QED
    BY <1>2, SendSubscribeKeeps DEF Probe, feedVars

LEMMA SocketLostKeeps ==
    ASSUME StreamInv, SocketLost
    PROVE  StreamInv'
<1>1. troubles \in 0..MaxTroubles
    BY TypeParts DEF StreamInv
<1>2. troubles' \in 0..MaxTroubles
    BY <1>1, Bounds DEF SocketLost
<1>3. QED
    BY <1>2, Closed DEF SocketLost, feedVars

LEMMA StreamKeeps ==
    ASSUME StreamInv, [Next]_vars
    PROVE  StreamInv'
<1>1. CASE UNCHANGED vars
    BY <1>1 DEF vars, feedVars, streamVars, StreamInv, TypeOK, Numbers, NoChain, Disconnected, Asked, Leads,
                ShowsARealChain, AfterBatch
<1>2. CASE Next
    BY <1>2, RuntimeSnapshotKeeps, RuntimeDeltaKeeps, VenueStatusKeeps, HandleSubscribeKeeps,
       HandleMessageKeeps, FlushDeltasKeeps, ConnectKeeps, ProbeKeeps, SocketLostKeeps DEF Next
<1>3. QED
    BY <1>1, <1>2

\* The frames on their way end in the runtime's chain.
LEMMA NothingLost == StreamInv => NothingIsLost
<1> SUFFICES ASSUME StreamInv, session.state = "live", session.sub = client.sub,
                    ~session.needsResync, seq > 0
             PROVE  OnItsWay = chain
    BY DEF NothingIsLost
<1> DEFINE l == Len(socket)
           Last(i) == Carries(socket[i], client.sub) /\ \A j \in i + 1..l : ~Carries(socket[j], client.sub)
<1>1. socket \in Seq(Frames)
    BY TypeParts DEF StreamInv
<1>2. l \in Nat /\ DOMAIN socket = 1..l
    BY <1>1
<1>3. Ends(socket, client.sub, l, truth, chain)
    BY DEF StreamInv, Leads
<1>4. \A m : IsShown(m) <=> Carries(m, client.sub)
    BY DEF IsShown, Carries
<1>5. CASE \E i \in 1..l : Last(i) /\ socket[i].data = chain
    <2>1. PICK i \in 1..l : Last(i) /\ socket[i].data = chain
        BY <1>5
    <2>2. LastShown = CHOOSE k \in 1..l : IsShown(socket[k]) /\ \A j \in k + 1..l : ~IsShown(socket[j])
        BY <1>2 DEF LastShown
    <2>3. LastShown \in 1..l /\ Last(LastShown)
        BY <1>4, <2>1, <2>2
    <2>4. LastShown = i
        <3>1. ~(LastShown < i) /\ ~(i < LastShown)
            BY <1>2, <2>1, <2>3
        <3>2. QED
            BY <1>2, <2>1, <2>3, <3>1
    <2>5. \E k \in DOMAIN socket : IsShown(socket[k])
        BY <1>2, <1>4, <2>1
    <2>6. QED
        BY <2>1, <2>4, <2>5 DEF OnItsWay
<1>6. CASE (\A i \in 1..l : ~Carries(socket[i], client.sub)) /\ truth = chain
    BY <1>2, <1>4, <1>6 DEF OnItsWay
<1>7. QED
    BY <1>3, <1>5, <1>6 DEF Ends

-----------------------------------------------------------------------------
(* The theorems.                                                            *)

\* The inductive invariant: what is on its way to the client leads from the chain
\* it shows to the chain the runtime has, or the session knows that it owes one.
THEOREM StreamInvariant == Spec => []StreamInv
<1>1. Init => StreamInv
    BY StreamBegins
<1>2. StreamInv /\ [Next]_vars => StreamInv'
    BY StreamKeeps
<1>3. QED
    BY <1>1, <1>2, PTL DEF Spec

\* The type invariant of the stream, for any chain, any limits of the socket and
\* any number of events, statuses and troubles.
THEOREM StreamTypeCorrect == Spec => []TypeOK
<1>1. StreamInv => TypeOK
    BY DEF StreamInv
<1>2. QED
    BY <1>1, StreamInvariant, PTL

\* The browser never shows diffs applied to a base they were not made for
\* (chain-stream-session.ts:205-344, useChainWs.ts:339-534).
THEOREM RealChain == Spec => []ShowsARealChain
<1>1. StreamInv => ShowsARealChain
    BY DEF StreamInv
<1>2. QED
    BY <1>1, StreamInvariant, PTL

\* A session that owes no snapshot has sent everything
\* (chain-stream-session.ts:205-344).
THEOREM AllSent == Spec => []NothingIsLost
<1>1. QED
    BY NothingLost, StreamInvariant, PTL
===============================================================================

-------------------------- MODULE SideBySide_proofs --------------------------
(***************************************************************************)
(* What is proved of the four components MCSideBySide puts side by side:   *)
(* here of the step-up codes and of the paper desk, in JsonRpcSession_proofs *)
(* and OiOutbox_proofs of the other two, and of all of them together that  *)
(* they keep their types.                                                  *)
(***************************************************************************)
EXTENDS MCSideBySide, JsonRpcSession_proofs, OiOutbox_proofs, FiniteSetTheorems, TLAPS

(***************************************************************************)
(* The step-up codes, for every limit, window and drift and a clock that   *)
(* runs as long as it likes.                                               *)
(***************************************************************************)

\* What makes NoCodeTwice inductive: lastStep, one number, bounds every code
\* accepted so far, and each was above the ones before it.
StepsRise ==
    /\ lastStep \in Int
    /\ accepted \in Seq(Int)
    /\ \A i \in 1..Len(accepted) : accepted[i] <= lastStep
    /\ \A i, j \in 1..Len(accepted) : i < j => accepted[i] < accepted[j]

LEMMA InitRises == Init => StepsRise
BY DEF Init, StepsRise, NoStep

\* An accepted code is above lastStep (step-up.ts:125), and becomes it.
LEMMA AcceptanceRises ==
    ASSUME StepsRise, VerifyAccepted
    PROVE  StepsRise'
<1>1. PICK step \in Matches \ {NoStep} :
         /\ ~Reused(step)
         /\ lastStep' = step
         /\ accepted' = Append(accepted, step)
    BY DEF VerifyAccepted
<1>2. step \in Int /\ step > lastStep
    <2>1. step \in 0..(MaxNow + Drift)
        BY <1>1 DEF Matches
    <2>2. MaxNow + Drift \in Int
        BY StepUpAssumption
    <2> QED
        BY <1>1, <2>1, <2>2 DEF Reused, StepsRise
<1>3. /\ accepted' \in Seq(Int)
      /\ Len(accepted') = Len(accepted) + 1
      /\ \A i \in 1..Len(accepted) : accepted'[i] = accepted[i]
      /\ accepted'[Len(accepted) + 1] = step
    BY <1>1, <1>2 DEF StepsRise
<1>4. ASSUME NEW i \in 1..Len(accepted') PROVE accepted'[i] <= lastStep'
    <2>1. CASE i = Len(accepted) + 1
        BY <1>1, <1>2, <1>3, <2>1
    <2>2. CASE i # Len(accepted) + 1
        <3>1. i \in 1..Len(accepted)
            BY <1>3, <2>2 DEF StepsRise
        <3>2. accepted[i] \in Int /\ accepted[i] <= lastStep
            BY <3>1 DEF StepsRise
        <3> QED
            BY <1>1, <1>2, <1>3, <3>1, <3>2 DEF StepsRise
    <2> QED
        BY <2>1, <2>2
<1>5. ASSUME NEW i \in 1..Len(accepted'), NEW j \in 1..Len(accepted'), i < j
      PROVE  accepted'[i] < accepted'[j]
    <2>1. i \in 1..Len(accepted) /\ accepted'[i] = accepted[i]
        BY <1>3, <1>5 DEF StepsRise
    <2>2. accepted[i] \in Int /\ accepted[i] <= lastStep
        BY <2>1 DEF StepsRise
    <2>3. CASE j = Len(accepted) + 1
        BY <1>2, <1>3, <2>1, <2>2, <2>3 DEF StepsRise
    <2>4. CASE j # Len(accepted) + 1
        <3>1. j \in 1..Len(accepted) /\ accepted'[j] = accepted[j]
            BY <1>3, <2>4 DEF StepsRise
        <3> QED
            BY <1>5, <2>1, <3>1 DEF StepsRise
    <2> QED
        BY <2>3, <2>4
<1> QED
    BY <1>1, <1>2, <1>3, <1>4, <1>5 DEF StepsRise

\* Every step keeps the codes rising; a restart forgets them all.
LEMMA StepsKeepRising == StepsRise /\ [Next]_vars => StepsRise'
<1> SUFFICES ASSUME StepsRise, [Next]_vars PROVE StepsRise'
    OBVIOUS
<1>1. CASE VerifyLocked
    BY <1>1 DEF VerifyLocked, StepsRise
<1>2. CASE VerifyNotEnrolled
    BY <1>2 DEF VerifyNotEnrolled, StepsRise
<1>3. CASE VerifyRefused
    BY <1>3 DEF VerifyRefused, StepsRise
<1>4. CASE VerifyAccepted
    BY <1>4, AcceptanceRises
<1>5. CASE Enroll
    BY <1>5 DEF Enroll, StepsRise
<1>6. CASE Tick
    BY <1>6 DEF Tick, StepsRise
<1>7. CASE Restart
    BY <1>7 DEF Restart, StepsRise, NoStep
<1>8. CASE UNCHANGED vars
    BY <1>8 DEF vars, StepsRise
<1> QED
    BY <1>1, <1>2, <1>3, <1>4, <1>5, <1>6, <1>7, <1>8 DEF Next

LEMMA RisingNeverRepeats == StepsRise => NoCodeTwice
<1> SUFFICES ASSUME StepsRise, NEW i \in 1..Len(accepted), NEW j \in 1..Len(accepted), i < j
             PROVE  accepted[i] # accepted[j]
    BY DEF NoCodeTwice
<1>1. accepted[i] \in Int /\ accepted[j] \in Int
    BY DEF StepsRise
<1> QED
    BY <1>1 DEF StepsRise

\* Between two starts no code authorises two actions, in whatever order codes
\* within the drift arrive (step-up.ts:124-136).
THEOREM CodesCountOnce == Spec => []NoCodeTwice
BY InitRises, StepsKeepRising, RisingNeverRepeats, PTL DEF Spec
-----------------------------------------------------------------------------
(* The lock.                                                               *)

Rising(times) == \A i, j \in 1..Len(times) : i < j => times[i] <= times[j]
Old(t) == now - t >= Window

\* Recent, of times in order, drops the first k, which are the old ones.
LEMMA RecentDropsTheOld ==
    ASSUME NEW S \in SUBSET Int, NEW times \in Seq(S), Rising(times), now \in Int
    PROVE  \E k \in 0..Len(times) :
              /\ \A i \in 1..Len(times) : Old(times[i]) <=> i <= k
              /\ Recent(times) \in Seq(S)
              /\ Len(Recent(times)) = Len(times) - k
              /\ \A i \in 1..(Len(times) - k) : Recent(times)[i] = times[k + i]
<1> DEFINE n == Len(times)
           old == {i \in 1..n : now - times[i] >= Window}
           k == Cardinality(old)
<1>1. n \in Nat /\ Window \in Nat /\ \A i \in 1..n : times[i] \in S /\ times[i] \in Int
  <2>1. n \in Nat /\ \A i \in 1..n : times[i] \in S
    OBVIOUS
  <2>2. \A x \in S : x \in Int
    OBVIOUS
  <2> QED BY <2>1, <2>2, StepUpAssumption
<1>2. /\ IsFiniteSet(1..n) /\ Cardinality(1..n) = n
      /\ IsFiniteSet(old) /\ k \in Nat /\ k <= n
  <2>1. IsFiniteSet(1..n) /\ Cardinality(1..n) = n
    <3> HIDE DEF n
    <3> QED BY <1>1, FS_Interval
  <2>2. old \subseteq 1..n
    OBVIOUS
  <2> HIDE DEF old, n
  <2>3. IsFiniteSet(old) /\ Cardinality(old) <= n
    BY <2>1, <2>2, FS_Subset
  <2> QED BY <2>1, <2>3, FS_CardinalityType
<1>3. \A i \in 1..n : Old(times[i]) <=> i <= k
  <2> SUFFICES ASSUME NEW i \in 1..n PROVE i \in old <=> i <= k
    BY DEF Old
  <2>1. ASSUME NEW j \in old, NEW m \in 1..n, m <= j PROVE m \in old
    BY <1>1, <2>1 DEF Rising
  <2>2. ASSUME i \in old PROVE i <= k
    <3>1. 1..i \subseteq old
      BY <2>1, <2>2, <1>1
    <3>2. IsFiniteSet(1..i) /\ Cardinality(1..i) = i
      BY <1>1, FS_Interval
    <3> HIDE DEF old
    <3>3. Cardinality(1..i) <= Cardinality(old)
      BY <1>2, <3>1, FS_Subset
    <3> QED BY <1>1, <1>2, <3>2, <3>3
  <2>3. ASSUME i \notin old PROVE k < i
    <3>1. old \subseteq 1..(i - 1)
      BY <2>1, <2>3, <1>1
    <3>2. IsFiniteSet(1..(i - 1)) /\ Cardinality(1..(i - 1)) = i - 1
      <4> DEFINE m == i - 1
      <4>1. m \in Nat
        BY <1>1
      <4> HIDE DEF m
      <4>2. IsFiniteSet(1..m) /\ Cardinality(1..m) = m
        BY <4>1, FS_Interval
      <4> QED BY <4>2 DEF m
    <3> HIDE DEF old
    <3>3. Cardinality(old) <= Cardinality(1..(i - 1))
      BY <3>1, <3>2, FS_Subset
    <3> QED BY <1>1, <1>2, <3>2, <3>3
  <2> QED BY <1>1, <1>2, <2>2, <2>3
<1>4. Recent(times) = SubSeq(times, k + 1, n)
  BY DEF Recent
<1> HIDE DEF k
<1>5. /\ SubSeq(times, k + 1, n) \in Seq(S)
      /\ Len(SubSeq(times, k + 1, n)) = n - k
      /\ \A i \in 1..(n - k) : SubSeq(times, k + 1, n)[i] = times[k + i]
  BY <1>1, <1>2
<1> QED BY SMTT(30), <1>1, <1>2, <1>3, <1>4, <1>5

\* A time is appended to times in order.
LEMMA AppendRises ==
    ASSUME NEW S \in SUBSET Int, NEW times \in Seq(S), Rising(times), NEW t \in S,
           \A i \in 1..Len(times) : times[i] <= t
    PROVE  /\ Append(times, t) \in Seq(S) /\ Rising(Append(times, t))
           /\ Len(Append(times, t)) = Len(times) + 1
           /\ \A i \in 1..Len(times) : Append(times, t)[i] = times[i]
           /\ Append(times, t)[Len(times) + 1] = t
           /\ \A i \in 1..(Len(times) + 1) : Append(times, t)[i] <= t
<1> DEFINE longer == Append(times, t)
<1>1. /\ longer \in Seq(S) /\ Len(longer) = Len(times) + 1 /\ Len(times) \in Nat
      /\ \A i \in 1..Len(times) : longer[i] = times[i]
      /\ longer[Len(times) + 1] = t
  OBVIOUS
<1> HIDE DEF longer
<1>2. \A i \in 1..(Len(times) + 1) : longer[i] <= t
  <2> SUFFICES ASSUME NEW i \in 1..(Len(times) + 1) PROVE longer[i] <= t
    OBVIOUS
  <2>1. i = Len(times) + 1 \/ i \in 1..Len(times)
    BY <1>1
  <2> QED BY <1>1, <2>1
<1>3. Rising(longer)
  <2> SUFFICES ASSUME NEW i \in 1..Len(longer), NEW j \in 1..Len(longer), i < j PROVE longer[i] <= longer[j]
    BY DEF Rising
  <2>1. i \in 1..Len(times) /\ (j = Len(times) + 1 \/ j \in 1..Len(times))
    BY <1>1
  <2> QED BY <1>1, <2>1 DEF Rising
<1> QED BY <1>1, <1>2, <1>3 DEF longer

StepUpTypes ==
    /\ now \in 0..MaxNow
    /\ enrolled \in BOOLEAN
    /\ lastStep \in NoStep..(MaxNow + Drift)
    /\ outcome \in Outcomes
    /\ boot \in 0..MaxBoots
    /\ accepted \in Seq(0..(MaxNow + Drift))

\* The list of failures is the end of the list of all wrong guesses, and what it
\* lacks is out of the window for good.
Dropped == Len(guesses) - Len(failures)
FailuresOK ==
    /\ guesses \in Seq(0..MaxNow) /\ failures \in Seq(0..MaxNow)
    /\ Rising(guesses)
    /\ \A i \in 1..Len(guesses) : guesses[i] <= now
    /\ Dropped \in Nat
    /\ \A i \in 1..Len(failures) : failures[i] = guesses[Dropped + i]
    /\ \A i \in 1..Dropped : Old(guesses[i])
    /\ Len(failures) <= MaxFailures

LockInv == StepUpTypes /\ FailuresOK /\ GuessesAreRare

LEMMA LockInvInit == Init => LockInv
<1> SUFFICES ASSUME Init PROVE LockInv
  OBVIOUS
<1>1. StepUpTypes
  <2>1. <<>> \in Seq(0..(MaxNow + Drift))
    OBVIOUS
  <2>2. 0 \in 0..MaxNow /\ 0 \in 0..MaxBoots /\ NoStep \in NoStep..(MaxNow + Drift)
    BY StepUpAssumption DEF NoStep
  <2> QED BY <2>1, <2>2 DEF Init, StepUpTypes, Outcomes
<1>2. FailuresOK /\ GuessesAreRare
  <2>1. <<>> \in Seq(0..MaxNow) /\ Len(<<>>) = 0
    OBVIOUS
  <2> QED BY <2>1, StepUpAssumption DEF Init, FailuresOK, GuessesAreRare, Rising, Dropped
<1> QED BY <1>1, <1>2 DEF LockInv

\* What the failures in the window and the wrong guesses in the window have in common.
LEMMA SameWindow ==
    ASSUME LockInv
    PROVE  \E k \in 0..Len(failures) :
              /\ Recent(failures) \in Seq(0..MaxNow)
              /\ Len(Recent(failures)) = Len(failures) - k
              /\ \A i \in 1..(Len(failures) - k) : Recent(failures)[i] = guesses[Dropped + k + i]
              /\ \A i \in 1..Len(guesses) : Old(guesses[i]) <=> i <= Dropped + k
              /\ Len(Recent(guesses)) = Len(guesses) - (Dropped + k)
<1> USE DEF LockInv
<1>0. /\ guesses \in Seq(0..MaxNow) /\ failures \in Seq(0..MaxNow)
      /\ Len(guesses) \in Nat /\ Len(failures) \in Nat /\ Dropped \in Nat
      /\ Len(guesses) = Dropped + Len(failures)
      /\ 0..MaxNow \in SUBSET Int /\ now \in Int
      /\ \A i \in 1..Len(failures) : failures[i] = guesses[Dropped + i]
      /\ \A i \in 1..Dropped : Old(guesses[i])
      /\ Rising(guesses)
  BY DEF StepUpTypes, FailuresOK, Dropped
<1>1. Rising(failures)
  <2> SUFFICES ASSUME NEW i \in 1..Len(failures), NEW j \in 1..Len(failures), i < j
               PROVE  failures[i] <= failures[j]
    BY DEF Rising
  <2>1. Dropped + i \in 1..Len(guesses) /\ Dropped + j \in 1..Len(guesses) /\ Dropped + i < Dropped + j
    BY <1>0
  <2> QED BY <1>0, <2>1 DEF Rising
<1>2. PICK k \in 0..Len(failures) :
        /\ \A i \in 1..Len(failures) : Old(failures[i]) <=> i <= k
        /\ Recent(failures) \in Seq(0..MaxNow)
        /\ Len(Recent(failures)) = Len(failures) - k
        /\ \A i \in 1..(Len(failures) - k) : Recent(failures)[i] = failures[k + i]
  BY <1>0, <1>1, RecentDropsTheOld
<1>3. PICK m \in 0..Len(guesses) :
        /\ \A i \in 1..Len(guesses) : Old(guesses[i]) <=> i <= m
        /\ Len(Recent(guesses)) = Len(guesses) - m
  BY <1>0, RecentDropsTheOld
<1>4. m = Dropped + k
  <2>1. Dropped <= m
    <3>1. CASE Dropped = 0
      BY <1>3, <3>1
    <3>2. CASE Dropped # 0
      <4>1. Dropped \in 1..Dropped /\ Dropped \in 1..Len(guesses)
        BY <1>0, <3>2
      <4> QED BY <1>0, <1>3, <4>1
    <3> QED BY <3>1, <3>2
  <2>2. ~(m < Dropped + k)
    <3> SUFFICES ASSUME m < Dropped + k PROVE FALSE
      OBVIOUS
    <3>1. k \in 1..Len(failures) /\ Dropped + k \in 1..Len(guesses)
      BY <1>0, <1>2, <1>3, <2>1
    <3> QED BY <1>0, <1>2, <1>3, <3>1
  <2>3. ~(Dropped + k < m)
    <3> SUFFICES ASSUME Dropped + k < m PROVE FALSE
      OBVIOUS
    <3>1. k + 1 \in 1..Len(failures) /\ Dropped + (k + 1) \in 1..Len(guesses) /\ Dropped + (k + 1) <= m
      BY <1>0, <1>2, <1>3
    <3> QED BY <1>0, <1>2, <1>3, <3>1
  <2> QED BY <1>0, <1>2, <1>3, <2>2, <2>3
<1>5. \A i \in 1..(Len(failures) - k) : Recent(failures)[i] = guesses[Dropped + k + i]
  <2> SUFFICES ASSUME NEW i \in 1..(Len(failures) - k) PROVE Recent(failures)[i] = guesses[Dropped + k + i]
    OBVIOUS
  <2>1. k + i \in 1..Len(failures) /\ Dropped + (k + i) = Dropped + k + i
    BY <1>0, <1>2
  <2> QED BY <1>0, <1>2, <2>1
<1> QED BY <1>0, <1>2, <1>3, <1>4, <1>5

\* The list cut to the window is still the end of the list of wrong guesses.
LEMMA CutKeeps ==
    ASSUME LockInv, failures' = Recent(failures), UNCHANGED <<guesses, now>>
    PROVE  FailuresOK' /\ GuessesAreRare'
<1>1. PICK k \in 0..Len(failures) :
         /\ Recent(failures) \in Seq(0..MaxNow)
         /\ Len(Recent(failures)) = Len(failures) - k
         /\ \A i \in 1..(Len(failures) - k) : Recent(failures)[i] = guesses[Dropped + k + i]
         /\ \A i \in 1..Len(guesses) : Old(guesses[i]) <=> i <= Dropped + k
  BY SameWindow
<1>2. /\ Len(failures) \in Nat /\ Len(guesses) \in Nat /\ Dropped \in Nat
      /\ Len(guesses) = Dropped + Len(failures) /\ Len(failures) <= MaxFailures
  BY DEF LockInv, FailuresOK, Dropped
<1>3. Dropped' = Dropped + k
  BY <1>1, <1>2 DEF Dropped
<1>4. \A i \in 1..Len(failures') : failures'[i] = guesses'[Dropped' + i]
  BY <1>1, <1>2, <1>3
<1>5. \A i \in 1..Dropped' : now' - guesses'[i] >= Window
  <2> SUFFICES ASSUME NEW i \in 1..Dropped' PROVE now' - guesses'[i] >= Window
    OBVIOUS
  <2>1. i \in 1..Len(guesses) /\ i <= Dropped + k
    BY <1>1, <1>2, <1>3
  <2> QED BY <1>1, <2>1 DEF Old
<1>6. Len(failures') <= MaxFailures
  BY <1>1, <1>2, StepUpAssumption
<1>7. GuessesAreRare'
  BY DEF LockInv, GuessesAreRare
<1>8. guesses' \in Seq(0..MaxNow) /\ Rising(guesses') /\ \A i \in 1..Len(guesses') : guesses'[i] <= now'
  BY DEF LockInv, FailuresOK
<1>9. failures' \in Seq(0..MaxNow) /\ Dropped' \in Nat
  BY <1>1, <1>2, <1>3
<1> QED BY <1>4, <1>5, <1>6, <1>7, <1>8, <1>9 DEF FailuresOK, Old

\* A wrong guess is counted: the list had room, so what it and the window hold
\* is fewer than MaxFailures.
LEMMA RefusalKeeps ==
    ASSUME LockInv, VerifyRefused
    PROVE  FailuresOK' /\ GuessesAreRare'
<1>0. /\ failures' = Append(Recent(failures), now) /\ guesses' = Append(guesses, now)
      /\ now' = now /\ ~Locked
  BY DEF VerifyRefused
<1>1. PICK k \in 0..Len(failures) :
         /\ Recent(failures) \in Seq(0..MaxNow)
         /\ Len(Recent(failures)) = Len(failures) - k
         /\ \A i \in 1..(Len(failures) - k) : Recent(failures)[i] = guesses[Dropped + k + i]
         /\ \A i \in 1..Len(guesses) : Old(guesses[i]) <=> i <= Dropped + k
  BY SameWindow
<1>2. /\ Len(failures) \in Nat /\ Len(guesses) \in Nat /\ Dropped \in Nat
      /\ Len(guesses) = Dropped + Len(failures)
      /\ guesses \in Seq(0..MaxNow) /\ 0..MaxNow \in SUBSET Int /\ now \in 0..MaxNow
      /\ Rising(guesses) /\ \A i \in 1..Len(guesses) : guesses[i] <= now
      /\ MaxFailures \in Nat \ {0}
  BY StepUpAssumption DEF LockInv, StepUpTypes, FailuresOK, Dropped
<1>3. Len(failures) - k < MaxFailures
  BY <1>0, <1>1, <1>2 DEF Locked
<1>4. /\ guesses' \in Seq(0..MaxNow) /\ Rising(guesses')
      /\ Len(guesses') = Len(guesses) + 1
      /\ \A i \in 1..Len(guesses) : guesses'[i] = guesses[i]
      /\ guesses'[Len(guesses) + 1] = now
      /\ \A i \in 1..(Len(guesses) + 1) : guesses'[i] <= now
  <2> DEFINE S == 0..MaxNow
             grown == Append(guesses, now)
  <2>1. S \in SUBSET Int /\ guesses \in Seq(S) /\ now \in S
    BY <1>2
  <2> HIDE DEF S
  <2>2. /\ grown \in Seq(S) /\ Rising(grown)
        /\ Len(grown) = Len(guesses) + 1
        /\ \A i \in 1..Len(guesses) : grown[i] = guesses[i]
        /\ grown[Len(guesses) + 1] = now
        /\ \A i \in 1..(Len(guesses) + 1) : grown[i] <= now
    BY <1>2, <2>1, AppendRises
  <2>3. guesses' = grown
    BY <1>0
  <2> HIDE DEF grown
  <2> QED BY <2>2, <2>3 DEF S
<1> DEFINE recent == Recent(failures)
<1>5. /\ failures' \in Seq(0..MaxNow)
      /\ Len(failures') = Len(failures) - k + 1
      /\ \A i \in 1..(Len(failures) - k) : failures'[i] = guesses[Dropped + k + i]
      /\ failures'[Len(failures) - k + 1] = now
  <2>1. /\ recent \in Seq(0..MaxNow) /\ Len(recent) = Len(failures) - k
        /\ \A i \in 1..(Len(failures) - k) : recent[i] = guesses[Dropped + k + i]
        /\ failures' = Append(recent, now)
    BY <1>0, <1>1
  <2> HIDE DEF recent
  <2> QED BY <1>1, <1>2, <2>1
<1>6. Dropped' = Dropped + k /\ Dropped' \in Nat
  BY <1>1, <1>2, <1>4, <1>5 DEF Dropped
<1>7. \A i \in 1..Len(failures') : failures'[i] = guesses'[Dropped' + i]
  <2> SUFFICES ASSUME NEW i \in 1..Len(failures') PROVE failures'[i] = guesses'[Dropped' + i]
    OBVIOUS
  <2>1. CASE i = Len(failures) - k + 1
    <3>1. Dropped' + i = Len(guesses) + 1
      BY <1>1, <1>2, <1>6, <2>1
    <3> QED BY <1>4, <1>5, <2>1, <3>1
  <2>2. CASE i # Len(failures) - k + 1
    <3>0. k \in 0..Len(failures) /\ i \in 1..(Len(failures) - k + 1)
      BY <1>1, <1>5
    <3>1. i \in 1..(Len(failures) - k) /\ Dropped + k + i \in 1..Len(guesses)
      BY <1>2, <2>2, <3>0
    <3> QED BY <1>4, <1>5, <1>6, <3>1
  <2> QED BY <2>1, <2>2
<1>8. \A i \in 1..Dropped' : now' - guesses'[i] >= Window
  <2> SUFFICES ASSUME NEW i \in 1..Dropped' PROVE now' - guesses'[i] >= Window
    OBVIOUS
  <2>1. i \in 1..Len(guesses) /\ i <= Dropped + k
    BY <1>1, <1>2, <1>6
  <2> QED BY <1>0, <1>1, <1>4, <2>1 DEF Old
<1>9. Len(failures') <= MaxFailures
  BY <1>1, <1>2, <1>3, <1>5
<1>10. GuessesAreRare'
  <2> SUFFICES ASSUME NEW i \in 1..Len(guesses'), i + MaxFailures <= Len(guesses')
               PROVE  guesses'[i + MaxFailures] - guesses'[i] >= Window
    BY DEF GuessesAreRare
  <2>1. i \in 1..Len(guesses) /\ guesses'[i] = guesses[i]
    BY <1>2, <1>4
  <2>2. CASE i + MaxFailures = Len(guesses) + 1
    <3>1. i <= Dropped + k
      BY <1>1, <1>2, <1>3, <2>1, <2>2
    <3> QED BY <1>1, <1>4, <2>1, <2>2, <3>1 DEF Old
  <2>3. CASE i + MaxFailures # Len(guesses) + 1
    <3>1. i + MaxFailures \in 1..Len(guesses)
      BY <1>2, <1>4, <2>1, <2>3
    <3> QED BY <1>4, <2>1, <3>1 DEF LockInv, GuessesAreRare
  <2> QED BY <2>2, <2>3
<1>11. \A i \in 1..Len(guesses') : guesses'[i] <= now'
  BY <1>0, <1>4
<1> HIDE DEF recent
<1> QED BY <1>4, <1>5, <1>6, <1>7, <1>8, <1>9, <1>10, <1>11 DEF FailuresOK, Old

\* With no guess refused there is nothing to say.
LEMMA EmptyKeeps ==
    ASSUME LockInv, failures' = <<>>, guesses' = <<>>
    PROVE  FailuresOK' /\ GuessesAreRare'
<1>1. <<>> \in Seq(0..MaxNow) /\ Len(<<>>) = 0
  OBVIOUS
<1> QED BY <1>1, StepUpAssumption DEF FailuresOK, GuessesAreRare, Rising, Dropped

\* As the clock moves on what is old stays old.
LEMMA SameKeeps ==
    ASSUME LockInv, UNCHANGED <<failures, guesses>>, now' \in Int, now <= now'
    PROVE  FailuresOK' /\ GuessesAreRare'
<1>1. Dropped' = Dropped
  BY DEF Dropped
<1>2. /\ Len(guesses) \in Nat /\ \A i \in 1..Len(guesses) : guesses[i] \in Int /\ guesses[i] <= now
      /\ Len(failures) \in Nat /\ now \in Int /\ Window \in Int
  <2>1. guesses \in Seq(0..MaxNow) /\ failures \in Seq(0..MaxNow) /\ \A i \in 1..Len(guesses) : guesses[i] <= now
    BY DEF LockInv, FailuresOK
  <2>2. \A i \in 1..Len(guesses) : guesses[i] \in 0..MaxNow
    <3> DEFINE S == 0..MaxNow
    <3>1. guesses \in Seq(S)
      BY <2>1
    <3> HIDE DEF S
    <3>2. \A i \in 1..Len(guesses) : guesses[i] \in S
      BY <3>1
    <3> QED BY <3>2 DEF S
  <2>3. now \in Int /\ Window \in Int
    BY StepUpAssumption DEF LockInv, StepUpTypes
  <2> QED BY <2>1, <2>2, <2>3
<1>3. \A i \in 1..Dropped' : now' - guesses'[i] >= Window
  <2> SUFFICES ASSUME NEW i \in 1..Dropped PROVE now' - guesses[i] >= Window
    BY <1>1
  <2>1. i \in 1..Len(guesses) /\ Old(guesses[i])
    BY <1>2 DEF LockInv, FailuresOK, Dropped
  <2> QED BY <1>2, <2>1 DEF Old
<1>4. \A i \in 1..Len(guesses') : guesses'[i] <= now'
  BY <1>2
<1>5. GuessesAreRare'
  BY DEF LockInv, GuessesAreRare
<1>6. /\ guesses' \in Seq(0..MaxNow) /\ Rising(guesses')
      /\ failures' \in Seq(0..MaxNow) /\ Dropped' \in Nat
      /\ \A i \in 1..Len(failures') : failures'[i] = guesses'[Dropped' + i]
      /\ Len(failures') <= MaxFailures
  BY <1>1 DEF LockInv, FailuresOK
<1> QED BY <1>3, <1>4, <1>5, <1>6 DEF FailuresOK, Old

LEMMA LockStep == LockInv /\ [Next]_vars => LockInv'
<1> SUFFICES ASSUME LockInv, [Next]_vars PROVE LockInv'
  OBVIOUS
<1>0. now \in Int /\ MaxNow \in Nat /\ MaxBoots \in Nat /\ Drift \in Nat
  BY StepUpAssumption DEF LockInv, StepUpTypes
<1>1. CASE VerifyLocked
  <2>1. StepUpTypes'
    BY <1>1 DEF VerifyLocked, Answer, LockInv, StepUpTypes, Outcomes
  <2> QED BY <1>1, <2>1, CutKeeps DEF VerifyLocked, LockInv
<1>2. CASE VerifyNotEnrolled
  <2>1. StepUpTypes'
    BY <1>2 DEF VerifyNotEnrolled, Answer, LockInv, StepUpTypes, Outcomes
  <2> QED BY <1>2, <2>1, CutKeeps DEF VerifyNotEnrolled, LockInv
<1>3. CASE VerifyRefused
  <2>1. StepUpTypes'
    BY <1>3 DEF VerifyRefused, Answer, LockInv, StepUpTypes, Outcomes
  <2> QED BY <1>3, <2>1, RefusalKeeps DEF LockInv
<1>4. CASE VerifyAccepted
  <2>1. PICK step \in 0..(MaxNow + Drift) : lastStep' = step /\ accepted' = Append(accepted, step)
    BY <1>4 DEF VerifyAccepted, Matches
  <2>2. lastStep' \in NoStep..(MaxNow + Drift)
    BY <1>0, <2>1 DEF NoStep
  <2>3. StepUpTypes'
    BY <1>4, <2>1, <2>2 DEF VerifyAccepted, Answer, LockInv, StepUpTypes, Outcomes
  <2> QED BY <1>4, <2>3, EmptyKeeps DEF VerifyAccepted, LockInv
<1>5. CASE Enroll
  <2>1. StepUpTypes' /\ UNCHANGED <<failures, guesses, now>>
    BY <1>5 DEF Enroll, LockInv, StepUpTypes
  <2> QED BY <1>0, <2>1, SameKeeps DEF LockInv
<1>6. CASE Tick
  <2>1. now' \in 0..MaxNow /\ now <= now'
    BY <1>0, <1>6 DEF Tick, LockInv, StepUpTypes
  <2>2. StepUpTypes'
    BY <1>6, <2>1 DEF Tick, LockInv, StepUpTypes
  <2> QED BY <1>6, <2>1, <2>2, SameKeeps DEF Tick, LockInv
<1>7. CASE Restart
  <2>1. boot' \in 0..MaxBoots /\ NoStep \in NoStep..(MaxNow + Drift)
    BY <1>0, <1>7 DEF Restart, LockInv, StepUpTypes, NoStep
  <2>2. StepUpTypes'
    BY <1>7, <2>1 DEF Restart, LockInv, StepUpTypes, Outcomes
  <2> QED BY <1>7, <2>2, EmptyKeeps DEF Restart, LockInv
<1>8. CASE UNCHANGED vars
  <2>1. StepUpTypes' /\ UNCHANGED <<failures, guesses, now>>
    BY <1>8 DEF vars, LockInv, StepUpTypes
  <2> QED BY <1>0, <2>1, SameKeeps DEF LockInv
<1> QED BY <1>1, <1>2, <1>3, <1>4, <1>5, <1>6, <1>7, <1>8 DEF Next

\* LockInv is inductive.
THEOREM LockInvariant == Spec => []LockInv
BY LockInvInit, LockStep, PTL DEF Spec

\* TypeOK: the verifier keeps its types, and its list of failures never outgrows
\* MaxFailures (step-up.ts:108-134).
THEOREM TypeCorrect == Spec => []TypeOK
<1>1. LockInv => TypeOK
  BY DEF LockInv, StepUpTypes, FailuresOK, TypeOK
<1> QED BY <1>1, LockInvariant, PTL

\* GuessesAreRare: no stretch of Window sees more than MaxFailures wrong guesses
\* evaluated, though the list they are counted in is cut at each attempt.
THEOREM RareGuesses == Spec => []GuessesAreRare
<1>1. LockInv => GuessesAreRare
  BY DEF LockInv
<1> QED BY <1>1, LockInvariant, PTL

\* LockIsExact: the verifier locks exactly when the last Window holds MaxFailures
\* wrong guesses.
THEOREM ExactLock == Spec => []LockIsExact
<1>1. ASSUME LockInv PROVE LockIsExact
  <2>1. PICK k \in 0..Len(failures) :
           /\ Len(Recent(failures)) = Len(failures) - k
           /\ Len(Recent(guesses)) = Len(guesses) - (Dropped + k)
    BY <1>1, SameWindow
  <2>2. Len(failures) \in Nat /\ Len(guesses) \in Nat
    BY <1>1 DEF LockInv, FailuresOK
  <2> QED BY <2>1, <2>2 DEF LockIsExact, Locked, Dropped
<1> QED BY <1>1, LockInvariant, PTL

-----------------------------------------------------------------------------
(***************************************************************************)
(* The paper desk, for any number of clients, trades and requests.         *)
(***************************************************************************)

(* Sums over requests: what is counted up less what is counted down.       *)

Units(W, Q) == {p \in W \X Nat : p[2] < Q[p[1]]}
Debts(W, Q) == {p \in W \X Nat : p[2] < -Q[p[1]]}
Sum(W, Q) == Cardinality(Units(W, Q)) - Cardinality(Debts(W, Q))
Within(Q, B) == \A q \in Tasks : -B <= Q[q] /\ Q[q] <= B

LEMMA TasksAreFinite == IsFiniteSet(Tasks)
BY PaperDeskAssumption, FS_AddElement DEF Tasks

\* A set of pairs below f is finite, and one more task adds as many as its f.
LEMMA PairsCount ==
    ASSUME NEW W \in SUBSET Tasks, NEW F \in [Tasks -> Int], NEW B \in Nat, \A q \in Tasks : F[q] <= B
    PROVE  /\ IsFiniteSet(Units(W, F)) /\ Cardinality(Units(W, F)) \in Nat
           /\ \A q \in Tasks \ W :
                 Cardinality(Units(W \cup {q}, F)) = Cardinality(Units(W, F)) + (IF F[q] > 0 THEN F[q] ELSE 0)
<1>1. ASSUME NEW V \in SUBSET Tasks PROVE IsFiniteSet(Units(V, F)) /\ Cardinality(Units(V, F)) \in Nat
  <2>1. IsFiniteSet(V)
    BY TasksAreFinite, FS_Subset
  <2>2. IsFiniteSet(0..B)
    BY FS_Interval
  <2>3. IsFiniteSet(V \X (0..B))
    BY <2>1, <2>2, FS_Product
  <2>4. Units(V, F) \subseteq V \X (0..B)
    <3> SUFFICES ASSUME NEW p \in Units(V, F) PROVE p \in V \X (0..B)
      OBVIOUS
    <3>1. p \in V \X Nat /\ p[2] < F[p[1]]
      BY DEF Units
    <3>2. p[1] \in Tasks /\ p[2] \in Nat /\ p = <<p[1], p[2]>>
      BY <3>1
    <3>3. F[p[1]] \in Int /\ F[p[1]] <= B
      BY <3>2
    <3>4. p[2] \in 0..B
      BY <3>1, <3>2, <3>3
    <3> QED BY <3>1, <3>2, <3>4
  <2>5. IsFiniteSet(Units(V, F))
    BY <2>3, <2>4, FS_Subset
  <2> QED BY <2>5, FS_CardinalityType
<1>2. ASSUME NEW q \in Tasks \ W
      PROVE  Cardinality(Units(W \cup {q}, F)) = Cardinality(Units(W, F)) + (IF F[q] > 0 THEN F[q] ELSE 0)
  <2> DEFINE n == IF F[q] > 0 THEN F[q] ELSE 0
             N == 0..(n - 1)
             Mine == {q} \X N
  <2>0. F[q] \in Int /\ n \in Nat
    OBVIOUS
  <2>1. IsFiniteSet(N) /\ Cardinality(N) = n
    <3> HIDE DEF n
    <3>1. n - 1 \in Int
      BY <2>0
    <3> QED BY <2>0, <3>1, FS_Interval
  <2>2. IsFiniteSet({q}) /\ Cardinality({q}) = 1
    BY FS_Singleton
  <2>3. IsFiniteSet(Mine) /\ Cardinality(Mine) = n
    <3> HIDE DEF N, n
    <3>1. IsFiniteSet(Mine)
      BY <2>1, <2>2, FS_Product
    <3>2. Cardinality(Mine) = Cardinality({q}) * Cardinality(N)
      BY <2>1, <2>2, FS_Product
    <3> QED BY <2>0, <2>1, <2>2, <3>1, <3>2
  <2>4. Units(W \cup {q}, F) = Units(W, F) \cup Mine
    <3>1. ASSUME NEW p \in Units(W \cup {q}, F) PROVE p \in Units(W, F) \cup Mine
      <4>1. p \in (W \cup {q}) \X Nat /\ p[2] < F[p[1]]
        BY <3>1 DEF Units
      <4>2. p[1] \in W \cup {q} /\ p[2] \in Nat /\ p = <<p[1], p[2]>>
        BY <4>1
      <4>3. CASE p[1] \in W
        BY <4>1, <4>2, <4>3 DEF Units
      <4>4. CASE p[1] = q
        <5>1. p[2] \in N
          BY <2>0, <4>1, <4>2, <4>4
        <5> QED BY <4>2, <4>4, <5>1
      <4> QED BY <4>2, <4>3, <4>4
    <3>2. ASSUME NEW p \in Units(W, F) PROVE p \in Units(W \cup {q}, F)
      BY <3>2 DEF Units
    <3>3. ASSUME NEW p \in Mine PROVE p \in Units(W \cup {q}, F)
      <4>1. p[1] = q /\ p[2] \in N /\ p = <<p[1], p[2]>>
        BY <3>3
      <4>2. p[2] \in Nat /\ p[2] < F[q]
        BY <2>0, <4>1
      <4> QED BY <4>1, <4>2 DEF Units
    <3> QED BY <3>1, <3>2, <3>3
  <2>5. Units(W, F) \cap Mine = {}
    BY DEF Units
  <2>6. IsFiniteSet(Units(W, F)) /\ Cardinality(Units(W, F)) \in Nat
    BY <1>1
  <2> HIDE DEF Mine, n
  <2>7. Cardinality(Units(W, F) \cup Mine) = Cardinality(Units(W, F)) + Cardinality(Mine) - Cardinality(Units(W, F) \cap Mine)
    BY <2>3, <2>6, FS_Union
  <2>8. Cardinality(Units(W, F) \cap Mine) = 0
    BY <2>5, FS_EmptySet
  <2>9. Cardinality(Units(W \cup {q}, F)) = Cardinality(Units(W, F)) + n
    <3>1. Cardinality(Units(W, F) \cup Mine) = Cardinality(Units(W, F)) + n
      BY <2>0, <2>3, <2>6, <2>7, <2>8
    <3> QED BY <2>4, <3>1
  <2> QED BY <2>9 DEF n
<1> QED BY <1>1, <1>2

\* One more request adds its quantity.
LEMMA OneMore ==
    ASSUME NEW W \in SUBSET Tasks, NEW Q \in [Tasks -> Int], NEW B \in Nat, Within(Q, B), NEW q \in Tasks \ W
    PROVE  Sum(W, Q) \in Int /\ Sum(W \cup {q}, Q) = Sum(W, Q) + Q[q]
<1> DEFINE D == [p \in Tasks |-> -Q[p]]
<1>1. D \in [Tasks -> Int] /\ (\A p \in Tasks : D[p] = -Q[p]) /\ (\A p \in Tasks : Q[p] <= B /\ D[p] <= B)
  BY DEF Within
<1>2. \A V \in SUBSET Tasks : Debts(V, Q) = Units(V, D)
  <2> SUFFICES ASSUME NEW V \in SUBSET Tasks PROVE Debts(V, Q) = Units(V, D)
    OBVIOUS
  <2> QED BY <1>1 DEF Debts, Units
<1> HIDE DEF D
<1>3. /\ Cardinality(Units(W, Q)) \in Nat
      /\ Cardinality(Units(W \cup {q}, Q)) = Cardinality(Units(W, Q)) + (IF Q[q] > 0 THEN Q[q] ELSE 0)
  BY <1>1, PairsCount
<1>4. /\ Cardinality(Units(W, D)) \in Nat
      /\ Cardinality(Units(W \cup {q}, D)) = Cardinality(Units(W, D)) + (IF D[q] > 0 THEN D[q] ELSE 0)
  BY <1>1, PairsCount
<1>5. Q[q] \in Int /\ D[q] = -Q[q]
  BY <1>1
<1>6. Debts(W, Q) = Units(W, D) /\ Debts(W \cup {q}, Q) = Units(W \cup {q}, D)
  BY <1>2
<1> QED BY <1>3, <1>4, <1>5, <1>6 DEF Sum

LEMMA NobodyOwes == ASSUME NEW Q PROVE Sum({}, Q) = 0
<1>1. Units({}, Q) = {} /\ Debts({}, Q) = {}
  BY DEF Units, Debts
<1>2. Cardinality({}) = 0
  BY FS_EmptySet
<1> QED BY SMTT(30), <1>1, <1>2 DEF Sum

\* A sum follows the one request that moves.
LEMMA SumFollows ==
    ASSUME NEW W \in SUBSET Tasks, NEW V \in SUBSET Tasks, NEW Q \in [Tasks -> Int], NEW R \in [Tasks -> Int],
           NEW B \in Nat, Within(Q, B), Within(R, B), NEW q \in Tasks,
           \A p \in Tasks \ {q} : Q[p] = R[p] /\ (p \in W <=> p \in V)
    PROVE  /\ Sum(W, Q) \in Int /\ Sum(V, R) \in Int
           /\ Sum(V, R) - Sum(W, Q) = (IF q \in V THEN R[q] ELSE 0) - (IF q \in W THEN Q[q] ELSE 0)
<1> DEFINE U == W \ {q}
<1>1. U \in SUBSET Tasks /\ q \in Tasks \ U
  OBVIOUS
<1>2. (q \in W => W = U \cup {q}) /\ (q \notin W => W = U)
  OBVIOUS
<1>3. (q \in V => V = U \cup {q}) /\ (q \notin V => V = U)
  OBVIOUS
<1>4. Sum(U, Q) = Sum(U, R)
  <2>1. Units(U, Q) = Units(U, R)
    BY DEF Units
  <2>2. Debts(U, Q) = Debts(U, R)
    BY DEF Debts
  <2> QED BY <2>1, <2>2 DEF Sum
<1> HIDE DEF U
<1>5. Sum(U, Q) \in Int /\ Sum(U \cup {q}, Q) = Sum(U, Q) + Q[q]
  BY <1>1, OneMore
<1>6. Sum(U, R) \in Int /\ Sum(U \cup {q}, R) = Sum(U, R) + R[q]
  BY <1>1, OneMore
<1>7. Q[q] \in Int /\ R[q] \in Int
  OBVIOUS
<1> QED BY <1>2, <1>3, <1>4, <1>5, <1>6, <1>7

-----------------------------------------------------------------------------
(* The books.                                                              *)

Kinds == {"none", "order", "open", "close", "settle"}
Fills == [trade : Trades \cup {NoTrade}, qty : Int]
TaskRecords ==
    [at : Stages, kind : Kinds, todo : SUBSET Fills, trade : Trades \cup {NoTrade}, qty : Int, seen : Int,
     was : {"none", "open", "closed"}]

DeskTypes ==
    /\ position \in Int /\ booked \in Int /\ cash \in Int
    /\ rows \in [Trades -> Int] /\ linked \in [Trades -> Int]
    /\ status \in [Trades -> {"none", "open", "closed"}]
    /\ tasks \in [Tasks -> TaskRecords]
    /\ expired \in BOOLEAN /\ stale \in BOOLEAN
    /\ calls \in 0 .. MaxCalls /\ deaths \in 0 .. MaxDeaths

\* From its row on a trade is in the hands of a request.
Late == {"linking", "reading row", "writing row", "checking", "counting", "closing"}
TradeNamed == \A q \in Tasks : tasks[q].at \in Late \cup {"opening"} => tasks[q].trade \in Trades

Qty == [q \in Tasks |-> tasks[q].qty]
Bounded == \E B \in Nat : Within(Qty, B)

\* The fills of a request that are in one sum and not yet in another.
NotPaid == {"reading", "writing", "paying"}
NotHeld == {"reading", "writing"}
NotRowed == {"reading row", "writing row"}
At(stages) == {q \in Tasks : tasks[q].at \in stages}
AtRow(t) == {q \in Tasks : tasks[q].at \in NotRowed /\ tasks[q].trade = t}

CashInv == booked - cash = Sum(At(NotPaid), Qty)
PositionInv == booked - position = Sum(At(NotHeld), Qty)
RowsInv == \A t \in Trades : linked[t] - rows[t] = Sum(AtRow(t), Qty)
StatusInv ==
    \A t \in Trades :
        \/ status[t] = "none"
        \/ status[t] = "closed" <=> rows[t] = 0
        \/ \E q \in Tasks : tasks[q].at \in Late /\ tasks[q].trade = t

\* A death half-way parts the sums for good, and so does a row overwritten in vain.
Books == deaths = 0 => CashInv /\ (stale = FALSE => PositionInv /\ RowsInv /\ StatusInv)

DeskInv == DeskTypes /\ TradeNamed /\ Bounded /\ Books

-----------------------------------------------------------------------------
LEMMA DeskInit == PDInit => DeskInv
<1> SUFFICES ASSUME PDInit PROVE DeskInv
  OBVIOUS
<1>1. NoTask \in TaskRecords /\ NoTask.at = "idle" /\ NoTask.qty = 0
  BY DEF NoTask, TaskRecords, Stages, Kinds
<1>2. \A q \in Tasks : tasks[q] = NoTask
  BY DEF PDInit
<1>3. DeskTypes
  <2>1. tasks \in [Tasks -> TaskRecords]
    BY <1>1 DEF PDInit
  <2>2. calls \in 0 .. MaxCalls /\ deaths \in 0 .. MaxDeaths
    BY PaperDeskAssumption DEF PDInit
  <2>3. /\ rows \in [Trades -> Int] /\ linked \in [Trades -> Int]
        /\ status \in [Trades -> {"none", "open", "closed"}]
    BY DEF PDInit
  <2>4. position \in Int /\ booked \in Int /\ cash \in Int
    BY DEF PDInit
  <2>5. expired \in BOOLEAN /\ stale \in BOOLEAN
    BY DEF PDInit
  <2> QED BY <2>1, <2>2, <2>3, <2>4, <2>5 DEF DeskTypes
<1>4. TradeNamed
  BY <1>1, <1>2 DEF TradeNamed, Late
<1>5. Bounded
  BY <1>1, <1>2 DEF Bounded, Within, Qty
<1>6. /\ At(NotPaid) = {} /\ At(NotHeld) = {}
      /\ \A t \in Trades : AtRow(t) = {}
  BY <1>1, <1>2 DEF At, AtRow, NotPaid, NotHeld, NotRowed
<1>7. CashInv /\ PositionInv /\ RowsInv
  <2>1. booked - cash = 0 /\ booked - position = 0 /\ \A t \in Trades : linked[t] - rows[t] = 0
    BY DEF PDInit
  <2> QED BY <1>6, <2>1, NobodyOwes DEF CashInv, PositionInv, RowsInv
<1>8. StatusInv
  BY DEF PDInit, StatusInv
<1> QED BY <1>3, <1>4, <1>5, <1>7, <1>8 DEF DeskInv, Books

\* What a request has in one sum and not yet in the other.
Owes(task, stages) == IF task.at \in stages THEN task.qty ELSE 0
OwesRow(task, t) == IF task.at \in NotRowed /\ task.trade = t THEN task.qty ELSE 0

\* Only q moves.
Moves(q) ==
    /\ tasks' \in [Tasks -> TaskRecords]
    /\ \A p \in Tasks : p # q => tasks'[p] = tasks[p]
    /\ tasks'[q].at \in Late \cup {"opening"} => tasks'[q].trade \in Trades

\* The sums follow it.
LEMMA SumsFollow ==
    ASSUME DeskInv, NEW q \in Tasks, Moves(q)
    PROVE  /\ Bounded'
           /\ \A stages : /\ Sum(At(stages), Qty) \in Int /\ Sum(At(stages)', Qty') \in Int
                          /\ Sum(At(stages)', Qty') - Sum(At(stages), Qty)
                                = Owes(tasks'[q], stages) - Owes(tasks[q], stages)
           /\ \A t : /\ Sum(AtRow(t), Qty) \in Int /\ Sum(AtRow(t)', Qty') \in Int
                     /\ Sum(AtRow(t)', Qty') - Sum(AtRow(t), Qty) = OwesRow(tasks'[q], t) - OwesRow(tasks[q], t)
<1>1. PICK B \in Nat : Within(Qty, B)
  BY DEF DeskInv, Bounded
<1>2. /\ Qty \in [Tasks -> Int] /\ Qty' \in [Tasks -> Int]
      /\ \A p \in Tasks : Qty[p] = tasks[p].qty /\ Qty'[p] = tasks'[p].qty
  BY DEF Qty, Moves, DeskInv, DeskTypes, TaskRecords
<1>3. \A p \in Tasks \ {q} : Qty[p] = Qty'[p]
  BY <1>2 DEF Moves
<1>4. PICK C \in Nat : Within(Qty, C) /\ Within(Qty', C)
  <2>1. Qty'[q] \in Int
    BY <1>2
  <2> DEFINE C == B + (IF Qty'[q] >= 0 THEN Qty'[q] ELSE -Qty'[q])
  <2>2. C \in Nat /\ B <= C /\ Qty'[q] <= C /\ -C <= Qty'[q]
    BY <2>1
  <2> HIDE DEF C
  <2>3. \A p \in Tasks : Qty[p] \in Int /\ -B <= Qty[p] /\ Qty[p] <= B
    BY <1>1, <1>2 DEF Within
  <2>4. Within(Qty, C)
    BY <2>2, <2>3 DEF Within
  <2>5. Within(Qty', C)
    BY <1>3, <2>2, <2>3 DEF Within
  <2> QED BY <2>2, <2>4, <2>5
<1>5. Bounded'
  BY <1>4 DEF Bounded
<1>6. ASSUME NEW stages
      PROVE  /\ Sum(At(stages), Qty) \in Int /\ Sum(At(stages)', Qty') \in Int
             /\ Sum(At(stages)', Qty') - Sum(At(stages), Qty)
                   = Owes(tasks'[q], stages) - Owes(tasks[q], stages)
  <2> DEFINE W == At(stages)
             V == At(stages)'
             Q == Qty
             R == Qty'
  <2>1. W \in SUBSET Tasks /\ V \in SUBSET Tasks /\ \A p \in Tasks \ {q} : p \in W <=> p \in V
    BY DEF At, Moves
  <2>2. (q \in W <=> tasks[q].at \in stages) /\ (q \in V <=> tasks'[q].at \in stages)
    BY DEF At
  <2>3. Q[q] = tasks[q].qty /\ R[q] = tasks'[q].qty
    BY <1>2
  <2> HIDE DEF W, V
  <2>4. /\ Q \in [Tasks -> Int] /\ R \in [Tasks -> Int] /\ Within(Q, C) /\ Within(R, C)
        /\ \A p \in Tasks \ {q} : Q[p] = R[p]
    BY <1>2, <1>3, <1>4
  <2> HIDE DEF Q, R
  <2>5. /\ Sum(W, Q) \in Int /\ Sum(V, R) \in Int
        /\ Sum(V, R) - Sum(W, Q) = (IF q \in V THEN R[q] ELSE 0) - (IF q \in W THEN Q[q] ELSE 0)
    <3>1. \A p \in Tasks \ {q} : Q[p] = R[p] /\ (p \in W <=> p \in V)
      BY <2>1, <2>4
    <3>2. C \in Nat
      BY <1>4
    <3> QED BY <2>1, <2>4, <3>1, <3>2, SumFollows
  <2>6. /\ Sum(W, Q) \in Int /\ Sum(V, R) \in Int
        /\ Sum(V, R) - Sum(W, Q) = Owes(tasks'[q], stages) - Owes(tasks[q], stages)
    BY <2>2, <2>3, <2>5 DEF Owes
  <2> QED BY <2>6 DEF W, V, Q, R
<1>7. ASSUME NEW t
      PROVE  /\ Sum(AtRow(t), Qty) \in Int /\ Sum(AtRow(t)', Qty') \in Int
             /\ Sum(AtRow(t)', Qty') - Sum(AtRow(t), Qty) = OwesRow(tasks'[q], t) - OwesRow(tasks[q], t)
  <2> DEFINE W == AtRow(t)
             V == AtRow(t)'
             Q == Qty
             R == Qty'
  <2>1. W \in SUBSET Tasks /\ V \in SUBSET Tasks /\ \A p \in Tasks \ {q} : p \in W <=> p \in V
    BY DEF AtRow, Moves
  <2>2. /\ q \in W <=> tasks[q].at \in NotRowed /\ tasks[q].trade = t
        /\ q \in V <=> tasks'[q].at \in NotRowed /\ tasks'[q].trade = t
    BY DEF AtRow
  <2>3. Q[q] = tasks[q].qty /\ R[q] = tasks'[q].qty
    BY <1>2
  <2> HIDE DEF W, V
  <2>4. /\ Q \in [Tasks -> Int] /\ R \in [Tasks -> Int] /\ Within(Q, C) /\ Within(R, C)
        /\ \A p \in Tasks \ {q} : Q[p] = R[p]
    BY <1>2, <1>3, <1>4
  <2> HIDE DEF Q, R
  <2>5. /\ Sum(W, Q) \in Int /\ Sum(V, R) \in Int
        /\ Sum(V, R) - Sum(W, Q) = (IF q \in V THEN R[q] ELSE 0) - (IF q \in W THEN Q[q] ELSE 0)
    <3>1. \A p \in Tasks \ {q} : Q[p] = R[p] /\ (p \in W <=> p \in V)
      BY <2>1, <2>4
    <3>2. C \in Nat
      BY <1>4
    <3> QED BY <2>1, <2>4, <3>1, <3>2, SumFollows
  <2>6. /\ Sum(W, Q) \in Int /\ Sum(V, R) \in Int
        /\ Sum(V, R) - Sum(W, Q) = OwesRow(tasks'[q], t) - OwesRow(tasks[q], t)
    BY <2>2, <2>3, <2>5 DEF OwesRow
  <2> QED BY <2>6 DEF W, V, Q, R
<1> QED BY <1>5, <1>6, <1>7

\* The rest of what a step of one request must do.
LEMMA MovesKeep ==
    ASSUME DeskInv, NEW q \in Tasks, Moves(q), DeskTypes', deaths' = deaths, stale = TRUE => stale' = TRUE,
           booked' - cash' = (booked - cash) + Owes(tasks'[q], NotPaid) - Owes(tasks[q], NotPaid),
           stale' = FALSE =>
               /\ booked' - position' = (booked - position) + Owes(tasks'[q], NotHeld) - Owes(tasks[q], NotHeld)
               /\ \A t \in Trades : linked'[t] - rows'[t] = (linked[t] - rows[t]) + OwesRow(tasks'[q], t) - OwesRow(tasks[q], t),
           deaths = 0 /\ stale' = FALSE /\ StatusInv => StatusInv'
    PROVE  DeskInv'
<1>1. /\ booked \in Int /\ cash \in Int /\ position \in Int
      /\ booked' \in Int /\ cash' \in Int /\ position' \in Int
      /\ \A t \in Trades : rows[t] \in Int /\ linked[t] \in Int /\ rows'[t] \in Int /\ linked'[t] \in Int
      /\ stale \in BOOLEAN /\ stale' \in BOOLEAN
  BY DEF DeskInv, DeskTypes
<1>2. \A x \in {tasks[q], tasks'[q]} : x.qty \in Int
  BY DEF Moves, DeskInv, DeskTypes, TaskRecords
<1>3. \A stages, t : /\ Owes(tasks[q], stages) \in Int /\ Owes(tasks'[q], stages) \in Int
                     /\ OwesRow(tasks[q], t) \in Int /\ OwesRow(tasks'[q], t) \in Int
  BY <1>2 DEF Owes, OwesRow
<1>4. ASSUME deaths = 0 PROVE CashInv'
  <2>1. booked - cash = Sum(At(NotPaid), Qty)
    BY <1>4 DEF DeskInv, Books, CashInv
  <2>2. /\ Sum(At(NotPaid), Qty) \in Int /\ Sum(At(NotPaid)', Qty') \in Int
        /\ Sum(At(NotPaid)', Qty') - Sum(At(NotPaid), Qty) = Owes(tasks'[q], NotPaid) - Owes(tasks[q], NotPaid)
    BY SumsFollow
  <2>3. booked' - cash' = Sum(At(NotPaid)', Qty')
    BY <1>1, <1>3, <2>1, <2>2
  <2> QED BY <2>3 DEF CashInv
<1>5. ASSUME deaths = 0, stale' = FALSE PROVE PositionInv' /\ RowsInv' /\ StatusInv'
  <2>0. stale = FALSE
    BY <1>1, <1>5
  <2>1. PositionInv /\ RowsInv /\ StatusInv
    BY <1>5, <2>0 DEF DeskInv, Books
  <2>2. booked' - position' = Sum(At(NotHeld)', Qty')
    <3>1. /\ Sum(At(NotHeld), Qty) \in Int /\ Sum(At(NotHeld)', Qty') \in Int
          /\ Sum(At(NotHeld)', Qty') - Sum(At(NotHeld), Qty) = Owes(tasks'[q], NotHeld) - Owes(tasks[q], NotHeld)
      BY SumsFollow
    <3> QED BY <1>1, <1>3, <1>5, <2>1, <3>1 DEF PositionInv
  <2>3. \A t \in Trades : linked'[t] - rows'[t] = Sum(AtRow(t)', Qty')
    <3> SUFFICES ASSUME NEW t \in Trades PROVE linked'[t] - rows'[t] = Sum(AtRow(t)', Qty')
      OBVIOUS
    <3>1. /\ Sum(AtRow(t), Qty) \in Int /\ Sum(AtRow(t)', Qty') \in Int
          /\ Sum(AtRow(t)', Qty') - Sum(AtRow(t), Qty) = OwesRow(tasks'[q], t) - OwesRow(tasks[q], t)
      BY SumsFollow
    <3>2. linked[t] - rows[t] = Sum(AtRow(t), Qty)
      BY <2>1 DEF RowsInv
    <3>3. linked'[t] - rows'[t] = (linked[t] - rows[t]) + OwesRow(tasks'[q], t) - OwesRow(tasks[q], t)
      BY <1>5
    <3> QED BY <1>1, <1>3, <3>1, <3>2, <3>3
  <2> QED BY <1>5, <2>1, <2>2, <2>3 DEF PositionInv, RowsInv
<1>6. TradeNamed'
  BY DEF TradeNamed, Moves, DeskInv
<1>7. Bounded'
  BY SumsFollow
<1> QED BY <1>4, <1>5, <1>6, <1>7 DEF DeskInv, Books

\* A trade whose row or status changes is in the hands of q, and q lets go of none.
LEMMA StatusKeeps ==
    ASSUME NEW q \in Tasks, Moves(q), StatusInv,
           tasks[q].at \in Late => tasks'[q].at \in Late /\ tasks'[q].trade = tasks[q].trade,
           \A t \in Trades : \/ rows'[t] = rows[t] /\ status'[t] = status[t]
                             \/ tasks'[q].at \in Late /\ tasks'[q].trade = t
    PROVE  StatusInv'
<1> SUFFICES ASSUME NEW t \in Trades
             PROVE  \/ status'[t] = "none"
                    \/ status'[t] = "closed" <=> rows'[t] = 0
                    \/ \E p \in Tasks : tasks'[p].at \in Late /\ tasks'[p].trade = t
  BY DEF StatusInv
<1>1. CASE tasks'[q].at \in Late /\ tasks'[q].trade = t
  BY <1>1
<1>2. CASE rows'[t] = rows[t] /\ status'[t] = status[t]
  <2>1. \/ status[t] = "none"
        \/ status[t] = "closed" <=> rows[t] = 0
        \/ \E p \in Tasks : tasks[p].at \in Late /\ tasks[p].trade = t
    BY DEF StatusInv
  <2>2. ASSUME NEW p \in Tasks, tasks[p].at \in Late, tasks[p].trade = t
        PROVE  tasks'[p].at \in Late /\ tasks'[p].trade = t
    BY <2>2 DEF Moves
  <2> QED BY <1>2, <2>1, <2>2
<1> QED BY <1>1, <1>2

-----------------------------------------------------------------------------
(* What a step makes of its request.                                       *)

LEMMA IdleTask ==
    NoTask \in TaskRecords /\ NoTask.at = "idle" /\ NoTask.qty = 0 /\ NoTask.trade = NoTrade
BY DEF NoTask, TaskRecords, Stages, Kinds

Filling(kind, todo, trade, qty) ==
    [NoTask EXCEPT !.at = "saving", !.kind = kind, !.todo = todo, !.trade = trade, !.qty = qty]

LEMMA NextFill ==
    ASSUME NEW kind \in Kinds, NEW todo \in SUBSET Fills, NEW trade \in Trades \cup {NoTrade}, NEW qty \in Int
    PROVE  Filling(kind, todo, trade, qty) \in TaskRecords /\ Filling(kind, todo, trade, qty).at = "saving"
<1> DEFINE task == NoTask
           next == [task EXCEPT !.at = "saving", !.kind = kind, !.todo = todo, !.trade = trade, !.qty = qty]
<1>1. task \in TaskRecords /\ "saving" \in Stages
  BY IdleTask DEF Stages
<1> HIDE DEF task
<1>2. next \in TaskRecords /\ next.at = "saving"
  BY <1>1 DEF TaskRecords
<1> QED BY <1>2 DEF Filling, task

LEMMA NextErrand ==
    ASSUME NEW task \in TaskRecords, NEW stage \in Stages, NEW kind \in Kinds, NEW qty \in Int
    PROVE  LET next == [task EXCEPT !.at = stage, !.kind = kind, !.qty = qty] IN
              next \in TaskRecords /\ next.at = stage
BY DEF TaskRecords

\* q goes on with what it has read.
LEMMA TurnsOK ==
    ASSUME DeskTypes, TradeNamed, NEW q \in Tasks, NEW stage \in Stages, NEW seen \in Int,
           tasks' = [tasks EXCEPT ![q].at = stage, ![q].seen = seen],
           stage \in Late \cup {"opening"} => tasks[q].trade \in Trades
    PROVE  /\ Moves(q)
           /\ tasks'[q].at = stage /\ tasks'[q].qty = tasks[q].qty /\ tasks'[q].trade = tasks[q].trade
<1> DEFINE task == tasks[q]
           next == [task EXCEPT !.at = stage, !.seen = seen]
<1>1. task \in TaskRecords
  BY DEF DeskTypes
<1>2. next \in TaskRecords /\ next.at = stage /\ next.qty = task.qty /\ next.trade = task.trade
  <2> HIDE DEF task
  <2>1. next \in TaskRecords
    BY <1>1 DEF TaskRecords
  <2>2. next.at = stage /\ next.qty = task.qty /\ next.trade = task.trade
    BY <1>1 DEF TaskRecords
  <2> QED BY <2>1, <2>2
<1>3. tasks' = [tasks EXCEPT ![q] = next] /\ tasks \in [Tasks -> TaskRecords]
  BY DEF DeskTypes
<1> HIDE DEF next
<1>4. /\ tasks' \in [Tasks -> TaskRecords] /\ tasks'[q] = next
      /\ \A p \in Tasks : p # q => tasks'[p] = tasks[p]
  BY <1>2, <1>3
<1> QED BY <1>2, <1>4 DEF Moves

LEMMA DoesOK ==
    ASSUME DeskTypes, TradeNamed, NEW q \in Tasks, NEW stage \in Stages, Does(q, stage),
           stage \in Late \cup {"opening"} => tasks[q].trade \in Trades
    PROVE  /\ Moves(q)
           /\ tasks'[q].at = stage /\ tasks'[q].qty = tasks[q].qty /\ tasks'[q].trade = tasks[q].trade
<1>1. tasks' = [tasks EXCEPT ![q].at = stage, ![q].seen = 0]
  BY DEF Does
<1>2. 0 \in Int
  OBVIOUS
<1> QED BY <1>1, <1>2, TurnsOK

LEMMA WritesOK ==
    ASSUME DeskTypes, NEW q \in Tasks, NEW kind \in Kinds, NEW todo \in SUBSET Fills, Writes(q, kind, todo)
    PROVE  Moves(q) /\ tasks'[q].at \in {"idle", "saving"}
<1>0. tasks \in [Tasks -> TaskRecords]
  BY DEF DeskTypes
<1>1. CASE tasks' = [tasks EXCEPT ![q] = NoTask]
  <2>1. /\ tasks' \in [Tasks -> TaskRecords] /\ tasks'[q] = NoTask
        /\ \A p \in Tasks : p # q => tasks'[p] = tasks[p]
    BY <1>0, <1>1, IdleTask
  <2> QED BY <2>1, IdleTask DEF Moves, Late
<1>2. ASSUME NEW f \in todo,
             tasks' = [tasks EXCEPT ![q] = [NoTask EXCEPT !.at = "saving", !.kind = kind, !.todo = todo \ {f},
                                                          !.trade = f.trade, !.qty = f.qty]]
      PROVE  Moves(q) /\ tasks'[q].at \in {"idle", "saving"}
  <2> DEFINE next == Filling(kind, todo \ {f}, f.trade, f.qty)
  <2>1. f.trade \in Trades \cup {NoTrade} /\ f.qty \in Int /\ todo \ {f} \in SUBSET Fills
    BY DEF Fills
  <2>2. next \in TaskRecords /\ next.at = "saving"
    BY <2>1, NextFill
  <2>4. tasks' = [tasks EXCEPT ![q] = next]
    BY <1>2 DEF Filling
  <2> HIDE DEF next
  <2>3. /\ tasks' \in [Tasks -> TaskRecords] /\ tasks'[q] = next
        /\ \A p \in Tasks : p # q => tasks'[p] = tasks[p]
    BY <1>0, <2>2, <2>4
  <2> QED BY <2>2, <2>3 DEF Moves, Late
<1> QED BY <1>1, <1>2 DEF Writes

\* A step that touches no money, but for its request's own words.
LEMMA QuietKeeps ==
    ASSUME DeskInv, NEW q \in Tasks, Moves(q), DeskTypes',
           UNCHANGED <<position, booked, cash, rows, linked, status, stale, deaths>>,
           \/ tasks[q].at \notin NotPaid /\ tasks'[q].at \notin NotPaid
           \/ tasks[q].at \in NotHeld /\ tasks'[q].at \in NotHeld /\ tasks'[q].qty = tasks[q].qty,
           \/ tasks[q].at \notin NotRowed /\ tasks'[q].at \notin NotRowed
           \/ /\ tasks[q].at \in NotRowed /\ tasks'[q].at \in NotRowed
              /\ tasks'[q].qty = tasks[q].qty /\ tasks'[q].trade = tasks[q].trade,
           tasks[q].at \in Late => tasks'[q].at \in Late /\ tasks'[q].trade = tasks[q].trade
    PROVE  DeskInv'
<1>1. /\ booked \in Int /\ cash \in Int /\ position \in Int
      /\ \A t \in Trades : rows[t] \in Int /\ linked[t] \in Int
      /\ tasks[q].qty \in Int
  BY DEF DeskInv, DeskTypes, TaskRecords
<1>2. /\ Owes(tasks'[q], NotPaid) = Owes(tasks[q], NotPaid)
      /\ Owes(tasks'[q], NotHeld) = Owes(tasks[q], NotHeld)
      /\ \A t : OwesRow(tasks'[q], t) = OwesRow(tasks[q], t)
  BY DEF Owes, OwesRow, NotPaid, NotHeld
<1>3. /\ \A stages : Owes(tasks[q], stages) \in Int
      /\ \A t : OwesRow(tasks[q], t) \in Int
  BY <1>1 DEF Owes, OwesRow
<1>4. StatusInv => StatusInv'
  BY StatusKeeps
<1>5. booked' - cash' = (booked - cash) + Owes(tasks'[q], NotPaid) - Owes(tasks[q], NotPaid)
  BY <1>1, <1>2, <1>3
<1>6. booked' - position' = (booked - position) + Owes(tasks'[q], NotHeld) - Owes(tasks[q], NotHeld)
  BY <1>1, <1>2, <1>3
<1>7. \A t \in Trades : linked'[t] - rows'[t] = (linked[t] - rows[t]) + OwesRow(tasks'[q], t) - OwesRow(tasks[q], t)
  BY <1>1, <1>2, <1>3
<1> QED BY <1>4, <1>5, <1>6, <1>7, MovesKeep

-----------------------------------------------------------------------------
(* The steps.                                                              *)

\* Where a request begins, or ends, it owes nothing.
LEMMA CalledKeeps ==
    ASSUME DeskInv, NEW q \in Tasks, Moves(q), tasks[q].at \in {"idle", "resolving"},
           tasks'[q].at \in {"idle", "resolving", "saving"},
           UNCHANGED <<position, booked, cash, rows, linked, status, expired, stale, deaths>>,
           calls' \in 0 .. MaxCalls
    PROVE  DeskInv'
<1>1. DeskTypes'
  BY DEF DeskInv, DeskTypes, Moves
<1> QED BY <1>1, QuietKeeps DEF NotPaid, NotRowed, Late

LEMMA CalledFacts ==
    ASSUME DeskInv, NEW q, Called(q)
    PROVE  /\ q \in Tasks /\ tasks[q].at = "idle" /\ calls' \in 0 .. MaxCalls
           /\ UNCHANGED <<position, booked, cash, rows, linked, status, expired, stale, deaths>>
<1>1. q \in Tasks /\ tasks[q].at = "idle"
  BY IdleTask DEF Called, Tasks
<1>2. calls' \in 0 .. MaxCalls
  BY PaperDeskAssumption DEF Called, DeskInv, DeskTypes
<1> QED BY <1>1, <1>2 DEF Called

LEMMA OrderKeeps == ASSUME DeskInv, NEW q \in Clients, Order(q) PROVE DeskInv'
<1>1. Called(q)
  BY DEF Order
<1>2. PICK kind \in Kinds, trade \in Trades \cup {NoTrade}, qty \in Int : Writes(q, kind, {Fill(trade, qty)})
  <2>1. PICK qty \in Sizes :
           \/ Writes(q, "order", {Fill(NoTrade, qty)})
           \/ \E t \in Trades : Writes(q, "open", {Fill(t, qty)})
    BY DEF Order
  <2>2. qty \in Int
    BY PaperDeskAssumption
  <2> QED BY <2>1, <2>2 DEF Kinds
<1>3. {Fill(trade, qty)} \in SUBSET Fills
  BY <1>2 DEF Fill, Fills
<1>4. Moves(q) /\ tasks'[q].at \in {"idle", "saving"}
  BY <1>1, <1>2, <1>3, CalledFacts, WritesOK DEF DeskInv
<1> QED BY <1>1, <1>4, CalledFacts, CalledKeeps

LEMMA CloseKeeps == ASSUME DeskInv, NEW q \in Clients, NEW t \in Trades, Close(q, t) PROVE DeskInv'
<1>1. Called(q) /\ Writes(q, "close", {Fill(t, -rows[t])})
  BY DEF Close
<1>2. {Fill(t, -rows[t])} \in SUBSET Fills
  BY DEF Fill, Fills, DeskInv, DeskTypes
<1>3. Moves(q) /\ tasks'[q].at \in {"idle", "saving"}
  BY <1>1, <1>2, CalledFacts, WritesOK DEF DeskInv, Kinds
<1> QED BY <1>1, <1>3, CalledFacts, CalledKeeps

LEMMA SettlesMoves ==
    ASSUME DeskInv, NEW q \in Tasks, Settles(q)
    PROVE  Moves(q) /\ tasks[q].at = "idle" /\ tasks'[q].at = "resolving"
<1> DEFINE next == [NoTask EXCEPT !.at = "resolving", !.kind = "settle", !.qty = -position]
<1>1. next \in TaskRecords /\ next.at = "resolving"
  <2>1. "resolving" \in Stages /\ "settle" \in Kinds /\ NoTask \in TaskRecords
    BY IdleTask DEF Stages, Kinds
  <2>2. -position \in Int
    BY DEF DeskInv, DeskTypes
  <2> QED BY <2>1, <2>2, NextErrand
<1>2. tasks' = [tasks EXCEPT ![q] = next] /\ tasks \in [Tasks -> TaskRecords] /\ tasks[q].at = "idle"
  BY IdleTask DEF Settles, DeskInv, DeskTypes
<1> HIDE DEF next
<1>3. /\ tasks' \in [Tasks -> TaskRecords] /\ tasks'[q] = next
      /\ \A p \in Tasks : p # q => tasks'[p] = tasks[p]
  BY <1>1, <1>2
<1> QED BY <1>1, <1>2, <1>3 DEF Moves, Late

LEMMA SettlementKeeps ==
    /\ \A q \in Clients : DeskInv /\ SettleNow(q) => DeskInv'
    /\ DeskInv /\ CronRuns => DeskInv'
<1>1. ASSUME DeskInv, NEW q \in Clients, SettleNow(q) PROVE DeskInv'
  <2>1. Settles(q) /\ Called(q)
    BY <1>1 DEF SettleNow
  <2> QED BY <1>1, <2>1, CalledFacts, SettlesMoves, CalledKeeps
<1>2. ASSUME DeskInv, CronRuns PROVE DeskInv'
  <2>1. Cron \in Tasks /\ Settles(Cron)
    BY <1>2 DEF CronRuns, Tasks
  <2>2. calls' \in 0 .. MaxCalls /\ UNCHANGED <<position, booked, cash, rows, linked, status, expired, stale, deaths>>
    BY <1>2 DEF CronRuns, DeskInv, DeskTypes
  <2> QED BY <1>2, <2>1, <2>2, SettlesMoves, CalledKeeps
<1> QED BY <1>1, <1>2

LEMMA ResolvesKeeps == ASSUME DeskInv, NEW q \in Tasks, Resolves(q) PROVE DeskInv'
<1>1. OpenLegs \subseteq Fills
  BY DEF OpenLegs, Fill, Fills, DeskInv, DeskTypes
<1>2. tasks[q].qty \in Int
  BY DEF DeskInv, DeskTypes, TaskRecords
<1>3. Settlement(tasks[q].qty) \in SUBSET Fills
  BY <1>1, <1>2 DEF Settlement, Fill, Fills
<1>4. Moves(q) /\ tasks'[q].at \in {"idle", "saving"}
  BY <1>3, WritesOK DEF Resolves, DeskInv, Kinds
<1>5. calls' \in 0 .. MaxCalls
  BY DEF Resolves, DeskInv, DeskTypes
<1> QED BY <1>4, <1>5, CalledKeeps DEF Resolves

\* What the request of a step is, and what it and the sums it is in are worth.
LEMMA TaskFacts ==
    ASSUME DeskInv, NEW q \in Tasks
    PROVE  /\ tasks[q] \in TaskRecords /\ tasks[q].qty \in Int /\ tasks[q].seen \in Int
           /\ tasks[q].kind \in Kinds /\ tasks[q].todo \in SUBSET Fills
           /\ tasks[q].at \in Late \cup {"opening"} => tasks[q].trade \in Trades
           /\ position \in Int /\ booked \in Int /\ cash \in Int
           /\ \A t \in Trades : rows[t] \in Int /\ linked[t] \in Int
           /\ rows \in [Trades -> Int] /\ linked \in [Trades -> Int]
           /\ status \in [Trades -> {"none", "open", "closed"}]
           /\ calls \in 0 .. MaxCalls /\ deaths \in 0 .. MaxDeaths
           /\ stale \in BOOLEAN /\ expired \in BOOLEAN
BY DEF DeskInv, DeskTypes, TradeNamed, TaskRecords

LEMMA SavesFillKeeps == ASSUME DeskInv, NEW q \in Tasks, SavesFill(q) PROVE DeskInv'
<1>1. /\ tasks[q].at = "saving" /\ booked' = booked + tasks[q].qty /\ Does(q, "reading")
      /\ UNCHANGED <<position, cash, rows, linked, status, expired, stale, calls, deaths>>
  BY DEF SavesFill
<1>2. /\ Moves(q) /\ tasks'[q].at = "reading" /\ tasks'[q].qty = tasks[q].qty
      /\ tasks'[q].trade = tasks[q].trade
  BY <1>1, DoesOK DEF DeskInv, Stages, Late
<1>3. DeskTypes'
  BY <1>1, <1>2, TaskFacts DEF DeskTypes, Moves
<1>4. /\ Owes(tasks'[q], NotPaid) = tasks[q].qty /\ Owes(tasks[q], NotPaid) = 0
      /\ Owes(tasks'[q], NotHeld) = tasks[q].qty /\ Owes(tasks[q], NotHeld) = 0
      /\ \A t : OwesRow(tasks'[q], t) = 0 /\ OwesRow(tasks[q], t) = 0
  BY <1>1, <1>2 DEF Owes, OwesRow, NotPaid, NotHeld, NotRowed
<1>5. /\ booked' - cash' = (booked - cash) + Owes(tasks'[q], NotPaid) - Owes(tasks[q], NotPaid)
      /\ booked' - position' = (booked - position) + Owes(tasks'[q], NotHeld) - Owes(tasks[q], NotHeld)
      /\ \A t \in Trades : linked'[t] - rows'[t] = (linked[t] - rows[t]) + OwesRow(tasks'[q], t) - OwesRow(tasks[q], t)
  BY <1>1, <1>4, TaskFacts
<1>6. StatusInv => StatusInv'
  BY <1>1, <1>2, StatusKeeps DEF Late
<1> QED BY <1>1, <1>2, <1>3, <1>5, <1>6, MovesKeep

\* One entry of a table changes.
LEMMA Entry ==
    ASSUME NEW S, NEW f \in [Trades -> S], NEW t \in Trades, NEW x \in S
    PROVE  /\ [f EXCEPT ![t] = x] \in [Trades -> S]
           /\ [f EXCEPT ![t] = x][t] = x
           /\ \A u \in Trades : u # t => [f EXCEPT ![t] = x][u] = f[u]
OBVIOUS

LEMMA ReadsPositionKeeps == ASSUME DeskInv, NEW q \in Tasks, ReadsPosition(q) PROVE DeskInv'
<1>1. /\ tasks[q].at = "reading" /\ tasks' = [tasks EXCEPT ![q].at = "writing", ![q].seen = position]
      /\ UNCHANGED <<position, booked, cash, rows, linked, status, expired, stale, calls, deaths>>
  BY DEF ReadsPosition
<1>2. /\ Moves(q) /\ tasks'[q].at = "writing" /\ tasks'[q].qty = tasks[q].qty
      /\ tasks'[q].trade = tasks[q].trade
  <2>1. "writing" \in Stages /\ "writing" \notin Late \cup {"opening"} /\ position \in Int
    BY TaskFacts DEF Stages, Late
  <2> QED BY <1>1, <2>1, TurnsOK DEF DeskInv
<1>3. DeskTypes'
  BY <1>1, <1>2, TaskFacts DEF DeskTypes, Moves
<1> QED BY <1>1, <1>2, <1>3, QuietKeeps DEF NotPaid, NotHeld, NotRowed, Late

LEMMA WritesPositionKeeps == ASSUME DeskInv, NEW q \in Tasks, WritesPosition(q) PROVE DeskInv'
<1>1. /\ tasks[q].at = "writing" /\ position' = tasks[q].seen + tasks[q].qty
      /\ stale' = (stale \/ position # tasks[q].seen)
      /\ Does(q, "paying")
      /\ UNCHANGED <<booked, cash, rows, linked, status, expired, calls, deaths>>
  BY DEF WritesPosition
<1>2. /\ Moves(q) /\ tasks'[q].at = "paying" /\ tasks'[q].qty = tasks[q].qty
      /\ tasks'[q].trade = tasks[q].trade
  BY <1>1, DoesOK DEF DeskInv, Stages, Late
<1>3. DeskTypes'
  <2>1. stale' \in BOOLEAN
    BY <1>1
  <2>2. position' \in Int
    BY <1>1, TaskFacts
  <2> QED BY <1>1, <1>2, <2>1, <2>2, TaskFacts DEF DeskTypes, Moves
<1>4. /\ Owes(tasks'[q], NotPaid) = tasks[q].qty /\ Owes(tasks[q], NotPaid) = tasks[q].qty
      /\ Owes(tasks'[q], NotHeld) = 0 /\ Owes(tasks[q], NotHeld) = tasks[q].qty
      /\ \A t : OwesRow(tasks'[q], t) = 0 /\ OwesRow(tasks[q], t) = 0
  BY <1>1, <1>2 DEF Owes, OwesRow, NotPaid, NotHeld, NotRowed
<1>5. booked' - cash' = (booked - cash) + Owes(tasks'[q], NotPaid) - Owes(tasks[q], NotPaid)
  BY <1>1, <1>4, TaskFacts
<1>6. stale' = FALSE =>
          /\ booked' - position' = (booked - position) + Owes(tasks'[q], NotHeld) - Owes(tasks[q], NotHeld)
          /\ \A t \in Trades :
                linked'[t] - rows'[t] = (linked[t] - rows[t]) + OwesRow(tasks'[q], t) - OwesRow(tasks[q], t)
  <2>1. stale' = FALSE => position = tasks[q].seen
    BY <1>1
  <2> QED BY <1>1, <1>4, <2>1, TaskFacts
<1>7. StatusInv => StatusInv'
  BY <1>1, <1>2, StatusKeeps DEF Late
<1>8. stale = TRUE => stale' = TRUE
  BY <1>1
<1> QED BY <1>1, <1>2, <1>3, <1>5, <1>6, <1>7, <1>8, MovesKeep

\* The next fill is nothing yet.
LEMMA ProceedsOK ==
    ASSUME DeskInv, NEW q \in Tasks, Proceeds(q)
    PROVE  Moves(q) /\ tasks'[q].at \in {"idle", "saving"}
<1>1. Writes(q, tasks[q].kind, tasks[q].todo) /\ tasks[q].kind \in Kinds /\ tasks[q].todo \in SUBSET Fills
  BY TaskFacts DEF Proceeds
<1> QED BY <1>1, WritesOK DEF DeskInv

LEMMA PaysFillKeeps == ASSUME DeskInv, NEW q \in Tasks, PaysFill(q) PROVE DeskInv'
<1>1. /\ tasks[q].at = "paying" /\ cash' = cash + tasks[q].qty
      /\ UNCHANGED <<position, booked, rows, linked, status, expired, stale, calls, deaths>>
  BY DEF PaysFill, Paid
<1>2. Moves(q) /\ tasks'[q].at \in {"idle", "saving", "opening", "linking"}
  <2>1. CASE Proceeds(q)
    BY <2>1, ProceedsOK
  <2>2. CASE tasks[q].trade # NoTrade /\ Does(q, "opening")
    <3>1. tasks[q].trade \in Trades
      BY <2>2, TaskFacts DEF TaskRecords
    <3> QED BY <2>2, <3>1, DoesOK DEF DeskInv, Stages
  <2>3. CASE tasks[q].trade # NoTrade /\ Does(q, "linking")
    <3>1. tasks[q].trade \in Trades
      BY <2>3, TaskFacts DEF TaskRecords
    <3> QED BY <2>3, <3>1, DoesOK DEF DeskInv, Stages
  <2>4. \/ Proceeds(q)
        \/ tasks[q].trade # NoTrade /\ Does(q, "opening")
        \/ tasks[q].trade # NoTrade /\ Does(q, "linking")
    <3>1. CASE tasks[q].kind = "open"
      BY <3>1 DEF PaysFill
    <3>2. CASE tasks[q].kind # "open"
      BY <3>2 DEF PaysFill
    <3> QED BY <3>1, <3>2
  <2> QED BY <2>1, <2>2, <2>3, <2>4
<1>3. DeskTypes'
  BY <1>1, <1>2, TaskFacts DEF DeskTypes, Moves
<1>4. /\ Owes(tasks'[q], NotPaid) = 0 /\ Owes(tasks[q], NotPaid) = tasks[q].qty
      /\ Owes(tasks'[q], NotHeld) = 0 /\ Owes(tasks[q], NotHeld) = 0
      /\ \A t : OwesRow(tasks'[q], t) = 0 /\ OwesRow(tasks[q], t) = 0
  BY <1>1, <1>2 DEF Owes, OwesRow, NotPaid, NotHeld, NotRowed
<1>5. /\ booked' - cash' = (booked - cash) + Owes(tasks'[q], NotPaid) - Owes(tasks[q], NotPaid)
      /\ booked' - position' = (booked - position) + Owes(tasks'[q], NotHeld) - Owes(tasks[q], NotHeld)
      /\ \A t \in Trades :
            linked'[t] - rows'[t] = (linked[t] - rows[t]) + OwesRow(tasks'[q], t) - OwesRow(tasks[q], t)
  BY <1>1, <1>4, TaskFacts
<1>6. StatusInv => StatusInv'
  BY <1>1, <1>2, StatusKeeps DEF Late
<1> QED BY <1>1, <1>2, <1>3, <1>5, <1>6, MovesKeep

LEMMA OpensTradeKeeps == ASSUME DeskInv, NEW q \in Tasks, OpensTrade(q) PROVE DeskInv'
<1>1. /\ tasks[q].at = "opening" /\ status' = [status EXCEPT ![tasks[q].trade] = "open"] /\ Does(q, "linking")
      /\ UNCHANGED <<position, booked, cash, rows, linked, expired, stale, calls, deaths>>
  BY DEF OpensTrade
<1>2. /\ Moves(q) /\ tasks'[q].at = "linking" /\ tasks'[q].qty = tasks[q].qty
      /\ tasks'[q].trade = tasks[q].trade /\ tasks[q].trade \in Trades
  BY <1>1, TaskFacts, DoesOK DEF DeskInv, Stages
<1>7. /\ status' \in [Trades -> {"none", "open", "closed"}]
      /\ \A t \in Trades : t # tasks[q].trade => status'[t] = status[t]
  <2>1. "open" \in {"none", "open", "closed"} /\ status \in [Trades -> {"none", "open", "closed"}]
    BY TaskFacts
  <2> QED BY <1>1, <1>2, <2>1, Entry
<1>3. DeskTypes'
  <2>1. status' \in [Trades -> {"none", "open", "closed"}]
    BY <1>7
  <2> QED BY <1>1, <1>2, <2>1, TaskFacts DEF DeskTypes, Moves
<1>4. /\ Owes(tasks'[q], NotPaid) = 0 /\ Owes(tasks[q], NotPaid) = 0
      /\ Owes(tasks'[q], NotHeld) = 0 /\ Owes(tasks[q], NotHeld) = 0
      /\ \A t : OwesRow(tasks'[q], t) = 0 /\ OwesRow(tasks[q], t) = 0
  BY <1>1, <1>2 DEF Owes, OwesRow, NotPaid, NotHeld, NotRowed
<1>5. /\ booked' - cash' = (booked - cash) + Owes(tasks'[q], NotPaid) - Owes(tasks[q], NotPaid)
      /\ booked' - position' = (booked - position) + Owes(tasks'[q], NotHeld) - Owes(tasks[q], NotHeld)
      /\ \A t \in Trades :
            linked'[t] - rows'[t] = (linked[t] - rows[t]) + OwesRow(tasks'[q], t) - OwesRow(tasks[q], t)
  BY <1>1, <1>4, TaskFacts
<1>6. StatusInv => StatusInv'
  <2>1. ASSUME NEW t \in Trades
        PROVE  \/ rows'[t] = rows[t] /\ status'[t] = status[t]
               \/ tasks'[q].at \in Late /\ tasks'[q].trade = t
    <3>1. CASE t = tasks[q].trade
      BY <1>2, <3>1 DEF Late
    <3>2. CASE t # tasks[q].trade
      <4>1. rows'[t] = rows[t] /\ status'[t] = status[t]
        BY <1>1, <1>7, <3>2
      <4> QED BY <4>1
    <3> QED BY <3>1, <3>2
  <2> QED BY <1>1, <1>2, <2>1, StatusKeeps DEF Late
<1> QED BY <1>1, <1>2, <1>3, <1>5, <1>6, MovesKeep

LEMMA LinksOrderKeeps == ASSUME DeskInv, NEW q \in Tasks, LinksOrder(q) PROVE DeskInv'
<1>1. /\ tasks[q].at = "linking" /\ linked' = [linked EXCEPT ![tasks[q].trade] = @ + tasks[q].qty]
      /\ Does(q, "reading row")
      /\ UNCHANGED <<position, booked, cash, rows, status, expired, stale, calls, deaths>>
  BY DEF LinksOrder
<1>2. /\ Moves(q) /\ tasks'[q].at = "reading row" /\ tasks'[q].qty = tasks[q].qty
      /\ tasks'[q].trade = tasks[q].trade /\ tasks[q].trade \in Trades
  BY <1>1, TaskFacts, DoesOK DEF DeskInv, Stages, Late
<1>3. /\ linked' \in [Trades -> Int] /\ linked'[tasks[q].trade] = linked[tasks[q].trade] + tasks[q].qty
      /\ \A t \in Trades : t # tasks[q].trade => linked'[t] = linked[t]
  <2> DEFINE n == linked[tasks[q].trade] + tasks[q].qty
  <2>3. linked \in [Trades -> Int] /\ tasks[q].qty \in Int /\ linked[tasks[q].trade] \in Int
    BY <1>2, TaskFacts
  <2>1. n \in Int /\ linked \in [Trades -> Int] /\ linked' = [linked EXCEPT ![tasks[q].trade] = n]
    <3>1. n \in Int
      BY <2>3
    <3>2. linked' = [linked EXCEPT ![tasks[q].trade] = n]
      BY <1>1
    <3> QED BY <2>3, <3>1, <3>2
  <2> HIDE DEF n
  <2>2. /\ linked' \in [Trades -> Int] /\ linked'[tasks[q].trade] = n
        /\ \A t \in Trades : t # tasks[q].trade => linked'[t] = linked[t]
    BY <1>2, <2>1, Entry
  <2> QED BY <2>2 DEF n
<1>4. DeskTypes'
  BY <1>1, <1>2, <1>3, TaskFacts DEF DeskTypes, Moves
<1>5. /\ Owes(tasks'[q], NotPaid) = 0 /\ Owes(tasks[q], NotPaid) = 0
      /\ Owes(tasks'[q], NotHeld) = 0 /\ Owes(tasks[q], NotHeld) = 0
  BY <1>1, <1>2 DEF Owes, NotPaid, NotHeld
<1>6. /\ booked' - cash' = (booked - cash) + Owes(tasks'[q], NotPaid) - Owes(tasks[q], NotPaid)
      /\ booked' - position' = (booked - position) + Owes(tasks'[q], NotHeld) - Owes(tasks[q], NotHeld)
  <2>1. booked \in Int /\ cash \in Int /\ position \in Int
    BY TaskFacts
  <2>2. booked' = booked /\ cash' = cash /\ position' = position
    BY <1>1
  <2> QED BY <1>5, <2>1, <2>2
<1>7. ASSUME NEW t \in Trades
      PROVE  linked'[t] - rows'[t] = (linked[t] - rows[t]) + OwesRow(tasks'[q], t) - OwesRow(tasks[q], t)
  <2>1. OwesRow(tasks[q], t) = 0 /\ rows'[t] = rows[t] /\ rows[t] \in Int /\ linked[t] \in Int
    BY <1>1, TaskFacts DEF OwesRow, NotRowed
  <2>2. CASE t = tasks[q].trade
    <3>1. OwesRow(tasks'[q], t) = tasks[q].qty /\ linked'[t] = linked[t] + tasks[q].qty
      BY <1>2, <1>3, <2>2 DEF OwesRow, NotRowed
    <3> QED BY <2>1, <3>1, TaskFacts
  <2>3. CASE t # tasks[q].trade
    <3>1. OwesRow(tasks'[q], t) = 0 /\ linked'[t] = linked[t]
      BY <1>2, <1>3, <2>3 DEF OwesRow
    <3> QED BY <2>1, <3>1
  <2> QED BY <2>2, <2>3
<1>8. StatusInv => StatusInv'
  BY <1>1, <1>2, StatusKeeps DEF Late
<1> QED BY <1>1, <1>2, <1>4, <1>6, <1>7, <1>8, MovesKeep

LEMMA ReadsRowKeeps == ASSUME DeskInv, NEW q \in Tasks, ReadsRow(q) PROVE DeskInv'
<1>1. /\ tasks[q].at = "reading row"
      /\ tasks' = [tasks EXCEPT ![q].at = "writing row", ![q].seen = rows[tasks[q].trade]]
      /\ UNCHANGED <<position, booked, cash, rows, linked, status, expired, stale, calls, deaths>>
  BY DEF ReadsRow
<1>2. /\ Moves(q) /\ tasks'[q].at = "writing row" /\ tasks'[q].qty = tasks[q].qty
      /\ tasks'[q].trade = tasks[q].trade
  <2>1. "writing row" \in Stages /\ tasks[q].trade \in Trades /\ rows[tasks[q].trade] \in Int
    BY <1>1, TaskFacts DEF Stages, Late
  <2> QED BY <1>1, <2>1, TurnsOK DEF DeskInv
<1>3. DeskTypes'
  BY <1>1, <1>2, TaskFacts DEF DeskTypes, Moves
<1> QED BY <1>1, <1>2, <1>3, QuietKeeps DEF NotPaid, NotHeld, NotRowed, Late

LEMMA WritesRowKeeps == ASSUME DeskInv, NEW q \in Tasks, WritesRow(q) PROVE DeskInv'
<1>1. /\ tasks[q].at = "writing row"
      /\ rows' = [rows EXCEPT ![tasks[q].trade] = tasks[q].seen + tasks[q].qty]
      /\ stale' = (stale \/ rows[tasks[q].trade] # tasks[q].seen)
      /\ Does(q, "checking")
      /\ UNCHANGED <<position, booked, cash, linked, status, expired, calls, deaths>>
  BY DEF WritesRow
<1>2. /\ Moves(q) /\ tasks'[q].at = "checking" /\ tasks'[q].qty = tasks[q].qty
      /\ tasks'[q].trade = tasks[q].trade /\ tasks[q].trade \in Trades
  BY <1>1, TaskFacts, DoesOK DEF DeskInv, Stages, Late
<1>3. /\ rows' \in [Trades -> Int] /\ rows'[tasks[q].trade] = tasks[q].seen + tasks[q].qty
      /\ \A t \in Trades : t # tasks[q].trade => rows'[t] = rows[t]
  <2> DEFINE n == tasks[q].seen + tasks[q].qty
  <2>3. rows \in [Trades -> Int] /\ tasks[q].qty \in Int /\ tasks[q].seen \in Int
    BY TaskFacts
  <2>1. n \in Int /\ rows \in [Trades -> Int] /\ rows' = [rows EXCEPT ![tasks[q].trade] = n]
    <3>1. n \in Int
      BY <2>3
    <3>2. rows' = [rows EXCEPT ![tasks[q].trade] = n]
      BY <1>1
    <3> QED BY <2>3, <3>1, <3>2
  <2> HIDE DEF n
  <2>2. /\ rows' \in [Trades -> Int] /\ rows'[tasks[q].trade] = n
        /\ \A t \in Trades : t # tasks[q].trade => rows'[t] = rows[t]
    BY <1>2, <2>1, Entry
  <2> QED BY <2>2 DEF n
<1>4. DeskTypes'
  <2>1. stale' \in BOOLEAN
    BY <1>1
  <2> QED BY <1>1, <1>2, <1>3, <2>1, TaskFacts DEF DeskTypes, Moves
<1>5. /\ Owes(tasks'[q], NotPaid) = 0 /\ Owes(tasks[q], NotPaid) = 0
      /\ Owes(tasks'[q], NotHeld) = 0 /\ Owes(tasks[q], NotHeld) = 0
  BY <1>1, <1>2 DEF Owes, NotPaid, NotHeld
<1>6. /\ booked' - cash' = (booked - cash) + Owes(tasks'[q], NotPaid) - Owes(tasks[q], NotPaid)
      /\ booked' - position' = (booked - position) + Owes(tasks'[q], NotHeld) - Owes(tasks[q], NotHeld)
  <2>1. booked \in Int /\ cash \in Int /\ position \in Int
    BY TaskFacts
  <2>2. booked' = booked /\ cash' = cash /\ position' = position
    BY <1>1
  <2> QED BY <1>5, <2>1, <2>2
<1>7. ASSUME NEW t \in Trades, stale' = FALSE
      PROVE  linked'[t] - rows'[t] = (linked[t] - rows[t]) + OwesRow(tasks'[q], t) - OwesRow(tasks[q], t)
  <2>1. OwesRow(tasks'[q], t) = 0 /\ linked'[t] = linked[t] /\ rows[t] \in Int /\ linked[t] \in Int
    BY <1>1, <1>2, TaskFacts DEF OwesRow, NotRowed
  <2>2. CASE t = tasks[q].trade
    <3>1. rows[tasks[q].trade] = tasks[q].seen
      BY <1>1, <1>7
    <3>2. OwesRow(tasks[q], t) = tasks[q].qty /\ rows'[t] = rows[t] + tasks[q].qty
      BY <1>1, <1>3, <2>2, <3>1 DEF OwesRow, NotRowed
    <3> QED BY <2>1, <3>2, TaskFacts
  <2>3. CASE t # tasks[q].trade
    <3>1. OwesRow(tasks[q], t) = 0 /\ rows'[t] = rows[t]
      BY <1>3, <2>3 DEF OwesRow
    <3> QED BY <2>1, <3>1
  <2> QED BY <2>2, <2>3
<1>8. StatusInv => StatusInv'
  <2>1. ASSUME NEW t \in Trades
        PROVE  \/ rows'[t] = rows[t] /\ status'[t] = status[t]
               \/ tasks'[q].at \in Late /\ tasks'[q].trade = t
    <3>1. CASE t = tasks[q].trade
      BY <1>2, <3>1 DEF Late
    <3>2. CASE t # tasks[q].trade
      <4>1. rows'[t] = rows[t] /\ status'[t] = status[t]
        BY <1>1, <1>3, <3>2
      <4> QED BY <4>1
    <3> QED BY <3>1, <3>2
  <2> QED BY <1>1, <1>2, <2>1, StatusKeeps DEF Late
<1>9. stale = TRUE => stale' = TRUE
  BY <1>1
<1> QED BY <1>1, <1>2, <1>4, <1>6, <1>7, <1>8, <1>9, MovesKeep

LEMMA ReadsTradeKeeps == ASSUME DeskInv, NEW q \in Tasks, ReadsTrade(q) PROVE DeskInv'
<1>1. /\ tasks[q].at = "checking"
      /\ tasks' = [tasks EXCEPT ![q].at = "counting", ![q].was = status[tasks[q].trade]]
      /\ UNCHANGED <<position, booked, cash, rows, linked, status, expired, stale, calls, deaths>>
  BY DEF ReadsTrade
<1>2. /\ Moves(q) /\ tasks'[q].at = "counting" /\ tasks'[q].qty = tasks[q].qty
      /\ tasks'[q].trade = tasks[q].trade
  <2> DEFINE task == tasks[q]
             was == status[task.trade]
             next == [task EXCEPT !.at = "counting", !.was = was]
  <2>1. task \in TaskRecords /\ task.trade \in Trades /\ was \in {"none", "open", "closed"}
    BY <1>1, TaskFacts DEF Late
  <2>2. next \in TaskRecords /\ next.at = "counting" /\ next.qty = task.qty /\ next.trade = task.trade
    <3> HIDE DEF task, was
    <3> QED BY <2>1 DEF TaskRecords, Stages
  <2>3. tasks' = [tasks EXCEPT ![q] = next] /\ tasks \in [Tasks -> TaskRecords]
    BY <1>1 DEF DeskInv, DeskTypes
  <2> HIDE DEF next
  <2>4. /\ tasks' \in [Tasks -> TaskRecords] /\ tasks'[q] = next
        /\ \A p \in Tasks : p # q => tasks'[p] = tasks[p]
    BY <2>2, <2>3
  <2> QED BY <2>1, <2>2, <2>4 DEF Moves
<1>3. DeskTypes'
  BY <1>1, <1>2, TaskFacts DEF DeskTypes, Moves
<1> QED BY <1>1, <1>2, <1>3, QuietKeeps DEF NotPaid, NotHeld, NotRowed, Late

LEMMA CountsLegsKeeps == ASSUME DeskInv, NEW q \in Tasks, CountsLegs(q) PROVE DeskInv'
<1>1. /\ tasks[q].at = "counting"
      /\ tasks' = [tasks EXCEPT ![q].at = "closing", ![q].seen = rows[tasks[q].trade]]
      /\ UNCHANGED <<position, booked, cash, rows, linked, status, expired, stale, calls, deaths>>
  BY DEF CountsLegs
<1>2. /\ Moves(q) /\ tasks'[q].at = "closing" /\ tasks'[q].qty = tasks[q].qty
      /\ tasks'[q].trade = tasks[q].trade
  <2>1. "closing" \in Stages /\ tasks[q].trade \in Trades /\ rows[tasks[q].trade] \in Int
    BY <1>1, TaskFacts DEF Stages, Late
  <2> QED BY <1>1, <2>1, TurnsOK DEF DeskInv
<1>3. DeskTypes'
  BY <1>1, <1>2, TaskFacts DEF DeskTypes, Moves
<1> QED BY <1>1, <1>2, <1>3, QuietKeeps DEF NotPaid, NotHeld, NotRowed, Late

Rechecked(task) == [task EXCEPT !.at = "checking", !.kind = "order", !.seen = 0, !.was = "none"]

LEMMA Rechecks ==
    ASSUME NEW task \in TaskRecords
    PROVE  /\ Rechecked(task) \in TaskRecords /\ Rechecked(task).at = "checking"
           /\ Rechecked(task).trade = task.trade
<1> DEFINE flat == 0
           half == [task EXCEPT !.at = "checking", !.kind = "order"]
           next == [half EXCEPT !.seen = flat, !.was = "none"]
<1>1. half \in TaskRecords /\ half.at = "checking" /\ half.trade = task.trade
  BY DEF TaskRecords, Stages, Kinds
<1>2. flat \in Int
  OBVIOUS
<1>3. Rechecked(task) = next
  BY DEF Rechecked
<1> HIDE DEF half, flat
<1>4. next \in TaskRecords /\ next.at = half.at /\ next.trade = half.trade
  BY <1>1, <1>2 DEF TaskRecords
<1> HIDE DEF next
<1> QED BY <1>1, <1>3, <1>4

LEMMA ClosesTradeKeeps == ASSUME DeskInv, NEW q \in Tasks, ClosesTrade(q) PROVE DeskInv'
<1> DEFINE t0 == tasks[q].trade
<1>1. /\ tasks[q].at = "closing"
      /\ stale' = (stale \/ rows[t0] # tasks[q].seen \/ status[t0] # tasks[q].was)
      /\ UNCHANGED <<position, booked, cash, rows, linked, expired, calls, deaths>>
  BY DEF ClosesTrade
<1>2. t0 \in Trades
  BY <1>1, TaskFacts DEF Late
<1>3. /\ Lifecycle(q) \in {"none", "open", "closed"}
      /\ Lifecycle(q) = "closed" <=> tasks[q].seen = 0
      /\ Lifecycle(q) # "none"
  BY DEF Lifecycle
<1>4. /\ status' \in [Trades -> {"none", "open", "closed"}]
      /\ \A t \in Trades : t # t0 => status'[t] = status[t]
      /\ status'[t0] = Lifecycle(q) \/ (tasks[q].was = Lifecycle(q) /\ status'[t0] = status[t0])
  <2>0. status \in [Trades -> {"none", "open", "closed"}]
    BY TaskFacts
  <2>1. CASE status' = [status EXCEPT ![t0] = Lifecycle(q)]
    <3> HIDE DEF t0
    <3> QED BY <1>2, <1>3, <2>0, <2>1, Entry
  <2>2. CASE tasks[q].was = Lifecycle(q) /\ UNCHANGED status
    BY <2>0, <2>2
  <2> QED BY <2>1, <2>2 DEF ClosesTrade
<1>5. /\ Moves(q)
      /\ \/ tasks'[q].at = "checking" /\ tasks'[q].trade = t0
         \/ tasks'[q].at \in {"idle", "saving"}
  <2>1. CASE tasks' = [tasks EXCEPT ![q].at = "checking", ![q].kind = "order", ![q].seen = 0, ![q].was = "none"]
    <3> DEFINE next == Rechecked(tasks[q])
    <3>1. next \in TaskRecords /\ next.at = "checking" /\ next.trade = t0
      BY TaskFacts, Rechecks
    <3>2. tasks' = [tasks EXCEPT ![q] = next] /\ tasks \in [Tasks -> TaskRecords]
      BY <2>1 DEF DeskInv, DeskTypes, Rechecked
    <3> HIDE DEF next
    <3>3. /\ tasks' \in [Tasks -> TaskRecords] /\ tasks'[q] = next
          /\ \A p \in Tasks : p # q => tasks'[p] = tasks[p]
      BY <3>1, <3>2
    <3> QED BY <1>2, <3>1, <3>3 DEF Moves
  <2>2. CASE Proceeds(q)
    BY <2>2, ProceedsOK
  <2> QED BY <2>1, <2>2 DEF ClosesTrade
<1>6. DeskTypes'
  <2>1. stale' \in BOOLEAN
    BY <1>1
  <2> QED BY <1>1, <1>4, <1>5, <2>1, TaskFacts DEF DeskTypes, Moves
<1>7. /\ Owes(tasks'[q], NotPaid) = 0 /\ Owes(tasks[q], NotPaid) = 0
      /\ Owes(tasks'[q], NotHeld) = 0 /\ Owes(tasks[q], NotHeld) = 0
      /\ \A t : OwesRow(tasks'[q], t) = 0 /\ OwesRow(tasks[q], t) = 0
  BY <1>1, <1>5 DEF Owes, OwesRow, NotPaid, NotHeld, NotRowed
<1>8. /\ booked' - cash' = (booked - cash) + Owes(tasks'[q], NotPaid) - Owes(tasks[q], NotPaid)
      /\ booked' - position' = (booked - position) + Owes(tasks'[q], NotHeld) - Owes(tasks[q], NotHeld)
      /\ \A t \in Trades :
            linked'[t] - rows'[t] = (linked[t] - rows[t]) + OwesRow(tasks'[q], t) - OwesRow(tasks[q], t)
  BY <1>1, <1>7, TaskFacts
<1>9. ASSUME stale' = FALSE, StatusInv PROVE StatusInv'
  <2>1. rows[t0] = tasks[q].seen /\ status[t0] = tasks[q].was
    BY <1>1, <1>9
  <2>2. status'[t0] = Lifecycle(q) /\ rows'[t0] = rows[t0]
    BY <1>1, <1>4, <2>1
  <2> SUFFICES ASSUME NEW t \in Trades
               PROVE  \/ status'[t] = "none"
                      \/ status'[t] = "closed" <=> rows'[t] = 0
                      \/ \E p \in Tasks : tasks'[p].at \in Late /\ tasks'[p].trade = t
    BY DEF StatusInv
  <2>3. CASE t = t0
    BY <1>3, <2>1, <2>2, <2>3
  <2>4. CASE t # t0
    <3>1. \/ status[t] = "none"
          \/ status[t] = "closed" <=> rows[t] = 0
          \/ \E p \in Tasks : tasks[p].at \in Late /\ tasks[p].trade = t
      BY <1>9 DEF StatusInv
    <3>2. ASSUME NEW p \in Tasks, tasks[p].at \in Late, tasks[p].trade = t
          PROVE  tasks'[p].at \in Late /\ tasks'[p].trade = t
      BY <1>5, <2>4, <3>2 DEF Moves
    <3>3. status'[t] = status[t] /\ rows'[t] = rows[t]
      BY <1>1, <1>4, <2>4
    <3> QED BY <3>1, <3>2, <3>3
  <2> QED BY <2>3, <2>4
<1>10. stale = TRUE => stale' = TRUE
  BY <1>1
<1> HIDE DEF t0
<1> QED BY <1>1, <1>5, <1>6, <1>8, <1>9, <1>10, MovesKeep

\* Time, and the calls of others.
LEMMA DeskStillKeeps ==
    ASSUME DeskInv, UNCHANGED <<position, booked, cash, rows, linked, status, tasks, stale, calls, deaths>>,
           expired' \in BOOLEAN
    PROVE  DeskInv'
<1>1. DeskTypes' /\ TradeNamed'
  BY DEF DeskInv, DeskTypes, TradeNamed
<1>2. Qty' = Qty /\ (\A stages : At(stages)' = At(stages)) /\ \A t : AtRow(t)' = AtRow(t)
  BY DEF Qty, At, AtRow
<1>3. Bounded'
  BY <1>2 DEF DeskInv, Bounded
<1>4. Books'
  <2>1. CashInv => CashInv'
    BY <1>2 DEF CashInv
  <2>2. PositionInv => PositionInv'
    BY <1>2 DEF PositionInv
  <2>3. RowsInv => RowsInv'
    BY <1>2 DEF RowsInv
  <2>4. StatusInv => StatusInv'
    BY DEF StatusInv
  <2> QED BY <2>1, <2>2, <2>3, <2>4 DEF DeskInv, Books
<1> QED BY <1>1, <1>3, <1>4 DEF DeskInv

LEMMA DieKeeps == ASSUME DeskInv, Die PROVE DeskInv'
<1>1. PICK dead \in SUBSET Tasks : tasks' = [q \in Tasks |-> IF q \in dead THEN NoTask ELSE tasks[q]]
  BY DEF Die
<1>2. /\ tasks' \in [Tasks -> TaskRecords]
      /\ \A q \in Tasks : tasks'[q] = NoTask \/ tasks'[q] = tasks[q]
  BY <1>1, IdleTask DEF DeskInv, DeskTypes
<1>3. deaths' \in 0 .. MaxDeaths /\ deaths' # 0
  BY PaperDeskAssumption DEF Die, DeskInv, DeskTypes
<1>4. DeskTypes'
  BY <1>2, <1>3 DEF Die, DeskInv, DeskTypes
<1>5. TradeNamed'
  BY <1>2, IdleTask DEF TradeNamed, DeskInv, Late
<1>6. Bounded'
  <2>1. PICK B \in Nat : Within(Qty, B)
    BY DEF DeskInv, Bounded
  <2>2. \A q \in Tasks : Qty[q] = tasks[q].qty /\ Qty'[q] = tasks'[q].qty
    BY DEF Qty
  <2>3. \A q \in Tasks : Qty'[q] = Qty[q] \/ Qty'[q] = 0
    BY <1>2, <2>2, IdleTask
  <2>4. Within(Qty', B)
    BY <2>1, <2>3 DEF Within
  <2> QED BY <2>4 DEF Bounded
<1> QED BY <1>3, <1>4, <1>5, <1>6 DEF DeskInv, Books

LEMMA StepKeeps == ASSUME DeskInv, [PDNext]_deskVars PROVE DeskInv'
<1>1. CASE \E q \in Clients : Order(q) \/ SettleNow(q) \/ \E t \in Trades : Close(q, t)
  BY <1>1, OrderKeeps, SettlementKeeps, CloseKeeps
<1>2. CASE CronRuns
  BY <1>2, SettlementKeeps
<1>3. CASE \E q \in Tasks : GoesOn(q)
  BY <1>3, ResolvesKeeps, SavesFillKeeps, ReadsPositionKeeps, WritesPositionKeeps, PaysFillKeeps,
     OpensTradeKeeps, LinksOrderKeeps, ReadsRowKeeps, WritesRowKeeps, ReadsTradeKeeps, CountsLegsKeeps,
     ClosesTradeKeeps DEF GoesOn
<1>4. CASE Expire
  BY <1>4, DeskStillKeeps DEF Expire
<1>5. CASE Die
  BY <1>5, DieKeeps
<1>6. CASE UNCHANGED deskVars
  <2>1. expired' \in BOOLEAN
    BY <1>6 DEF deskVars, DeskInv, DeskTypes
  <2> QED BY <1>6, <2>1, DeskStillKeeps DEF deskVars
<1> QED BY <1>1, <1>2, <1>3, <1>4, <1>5, <1>6 DEF PDNext

\* The books of the paper account and what its requests have yet to write of them.
THEOREM DeskInvariant == PDSpec => []DeskInv
BY DeskInit, StepKeeps, PTL DEF PDSpec

\* Every variable of the paper desk keeps its type.
THEOREM PDTypeCorrect == PDSpec => []PDTypeOK
<1>1. DeskInv => PDTypeOK
  BY DEF DeskInv, DeskTypes, PDTypeOK, TaskRecords, Kinds, Fills
<1> QED BY <1>1, DeskInvariant, PTL

\* apply-fill.ts:8 "Atomic for a single fill": with no request under way and none
\* that died, every fill is paid for; and if no row was overwritten in vain the
\* position and each trade's row are the sums of their fills, and a trade is
\* closed when its row is flat.
THEOREM BooksCorrect == PDSpec => []BooksAgree
<1>1. ASSUME DeskInv, deaths = 0, \A q \in Tasks : tasks[q] = NoTask
      PROVE  /\ cash = booked
             /\ ~stale => /\ position = booked
                          /\ rows = linked
                          /\ \A t \in Trades : status[t] # "none" => (status[t] = "closed" <=> rows[t] = 0)
  <2>1. \A q \in Tasks : tasks[q].at = "idle"
    BY <1>1, IdleTask
  <2>2. At(NotPaid) = {} /\ At(NotHeld) = {} /\ \A t \in Trades : AtRow(t) = {}
    BY <2>1 DEF At, AtRow, NotPaid, NotHeld, NotRowed
  <2>3. /\ position \in Int /\ booked \in Int /\ cash \in Int /\ stale \in BOOLEAN
        /\ rows \in [Trades -> Int] /\ linked \in [Trades -> Int]
        /\ \A t \in Trades : rows[t] \in Int /\ linked[t] \in Int
    BY <1>1, TaskFacts DEF DeskInv, DeskTypes
  <2>4. booked - cash = 0
    BY <1>1, <2>2, NobodyOwes DEF DeskInv, Books, CashInv
  <2>5. ASSUME ~stale
        PROVE  /\ position = booked /\ rows = linked
               /\ \A t \in Trades : status[t] # "none" => (status[t] = "closed" <=> rows[t] = 0)
    <3>1. PositionInv /\ RowsInv /\ StatusInv
      BY <1>1, <2>3, <2>5 DEF DeskInv, Books
    <3>2. booked - position = 0
      BY <2>2, <3>1, NobodyOwes DEF PositionInv
    <3>3. \A t \in Trades : linked[t] - rows[t] = 0
      BY <2>2, <3>1, NobodyOwes DEF RowsInv
    <3>4. \A t \in Trades : rows[t] = linked[t]
      BY <2>3, <3>3
    <3>5. rows = linked
      BY <2>3, <3>4
    <3>6. \A t \in Trades : status[t] # "none" => (status[t] = "closed" <=> rows[t] = 0)
      BY <2>1, <3>1 DEF StatusInv, Late
    <3>7. position = booked
      BY <2>3, <3>2
    <3> QED BY <3>5, <3>6, <3>7
  <2>6. cash = booked
    BY <2>3, <2>4
  <2> QED BY <2>5, <2>6
<1>2. DeskInv => BooksAgree
  BY <1>1 DEF BooksAgree
<1> QED BY <1>2, DeskInvariant, PTL

-----------------------------------------------------------------------------
(* Side by side.                                                           *)

\* What holds of each component by itself holds of it beside the others.
THEOREM Apart == SideBySideSpec => Spec /\ JRSpec /\ OBSpec /\ PDSpec
<1>1. SideBySideInit => Init /\ JRInit /\ OBInit /\ PDInit
  BY DEF SideBySideInit
<1>2. [SideBySideNext]_<<vars, sessionVars, outboxVars, deskVars>> => [Next]_vars
  BY DEF SideBySideNext
<1>3. [SideBySideNext]_<<vars, sessionVars, outboxVars, deskVars>> => [JRNext]_sessionVars
  BY DEF SideBySideNext
<1>4. [SideBySideNext]_<<vars, sessionVars, outboxVars, deskVars>> => [OBNext]_outboxVars
  BY DEF SideBySideNext
<1>5. [SideBySideNext]_<<vars, sessionVars, outboxVars, deskVars>> => [PDNext]_deskVars
  BY DEF SideBySideNext
<1> QED BY <1>1, <1>2, <1>3, <1>4, <1>5, PTL DEF SideBySideSpec, Spec, JRSpec, OBSpec, PDSpec

\* The types of the four components, in the one specification TLC checks.
THEOREM AllTypesCorrect == SideBySideSpec => []TypesOK
<1>1. TypeOK /\ JRTypeOK /\ OBTypeOK /\ PDTypeOK => TypesOK
  BY DEF TypesOK
<1> QED BY <1>1, Apart, TypeCorrect, JRTypeCorrect, OBTypeCorrect, PDTypeCorrect, PTL
==============================================================================

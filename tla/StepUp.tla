------------------------------- MODULE StepUp -------------------------------
(***************************************************************************)
(* StepUpVerifier (packages/execution/src/step-up.ts) for one actor: the   *)
(* one-time code that arming and resetting ask for, each usable once, and  *)
(* the lock after too many wrong guesses.                                  *)
(*                                                                         *)
(* Time is counted in TOTP steps (30 s).  A code is the step it is the     *)
(* code of, so that matchTotp answers with a step near the present, or     *)
(* with none.  Both maps of the verifier live in memory.                   *)
(***************************************************************************)
EXTENDS Integers, Sequences, FiniteSets

CONSTANTS
    MaxFailures,    \* MAX_FAILURES, five in the code
    Window,         \* FAILURE_WINDOW_MS, thirty steps in the code
    Drift,          \* the window parameter of matchTotp, one in the code
    JournalMayFail, \* TRUE when Journal.append may throw
    MaxNow,         \* bound: the clock
    MaxBoots        \* bound: restarts of the daemon

ASSUME StepUpAssumption ==
    /\ MaxFailures \in Nat \ {0}
    /\ Window \in Nat \ {0}
    /\ Drift \in Nat
    /\ JournalMayFail \in BOOLEAN
    /\ MaxNow \in Nat
    /\ MaxBoots \in Nat

VARIABLES
    now,        \* the clock
    enrolled,   \* the actor's secret is on disk
    lastStep,   \* the newest step accepted, or NoStep
    failures,   \* the times of the failures still counted
    outcome,    \* how the last verification ended
    boot,       \* restarts so far
    guesses,    \* history: all refused guesses since the start or a success
    accepted    \* history: all accepted steps since the start

vars == <<now, enrolled, lastStep, failures, outcome, boot, guesses, accepted>>

NoStep == -1

Outcomes == {"none", "ok", "failed", "locked", "not_enrolled", "internal"}

TypeOK ==
    /\ now \in 0..MaxNow
    /\ enrolled \in BOOLEAN
    /\ lastStep \in NoStep..(MaxNow + Drift)
    /\ failures \in Seq(0..MaxNow)
    /\ Len(failures) <= MaxFailures
    /\ outcome \in Outcomes
    /\ boot \in 0..MaxBoots
    /\ guesses \in Seq(0..MaxNow)
    /\ accepted \in Seq(0..(MaxNow + Drift))

Init ==
    /\ now = 0
    /\ enrolled = FALSE
    /\ lastStep = NoStep
    /\ failures = <<>>
    /\ outcome = "none"
    /\ boot = 0
    /\ guesses = <<>>
    /\ accepted = <<>>

-----------------------------------------------------------------------------
\* The filter of recentFailures: times are in order, so the old ones come first.
Recent(times) ==
    LET old == {i \in 1..Len(times) : now - times[i] >= Window}
    IN SubSeq(times, Cardinality(old) + 1, Len(times))

\* The answer, unless the append before the return throws.
Answer(response) == outcome' = response \/ (JournalMayFail /\ outcome' = "internal")

\* What matchTotp may answer for a code: NoStep, or a step within the drift.
Matches == {NoStep} \cup {s \in 0..(MaxNow + Drift) : s >= now - Drift /\ s <= now + Drift}

\* Mutant of Reused: only the very last code is refused.
ReusedLast(step) == step = lastStep

Reused(step) == step <= lastStep

\* Mutants of Locked: one guess too many; a list never cut to the window.
LockedLate == Len(Recent(failures)) > MaxFailures
LockedForGood == Len(failures) >= MaxFailures

Locked == Len(Recent(failures)) >= MaxFailures

\* A locked actor's attempt is not counted.
VerifyLocked ==
    /\ Locked
    /\ failures' = Recent(failures)
    /\ Answer("locked")
    /\ UNCHANGED <<now, enrolled, lastStep, boot, guesses, accepted>>

VerifyNotEnrolled ==
    /\ ~Locked
    /\ ~enrolled
    /\ failures' = Recent(failures)
    /\ Answer("not_enrolled")
    /\ UNCHANGED <<now, enrolled, lastStep, boot, guesses, accepted>>

VerifyRefused ==
    /\ ~Locked
    /\ enrolled
    /\ \E step \in Matches : step = NoStep \/ Reused(step)
    /\ failures' = Append(Recent(failures), now)
    /\ guesses' = Append(guesses, now)
    /\ Answer(IF Len(failures') >= MaxFailures THEN "locked" ELSE "failed")
    /\ UNCHANGED <<now, enrolled, lastStep, boot, accepted>>

\* The code is spent even when the append throws and nothing comes of it.
VerifyAccepted ==
    /\ ~Locked
    /\ enrolled
    /\ \E step \in Matches \ {NoStep} :
          /\ ~Reused(step)
          /\ lastStep' = step
          /\ accepted' = Append(accepted, step)
    /\ failures' = <<>>
    /\ guesses' = <<>>
    /\ Answer("ok")
    /\ UNCHANGED <<now, enrolled, boot>>

\* The host's CLI enrols the actor; a running daemon reads the file each time.
Enroll ==
    /\ ~enrolled
    /\ enrolled' = TRUE
    /\ UNCHANGED <<now, lastStep, failures, outcome, boot, guesses, accepted>>

Tick ==
    /\ now < MaxNow
    /\ now' = now + 1
    /\ UNCHANGED <<enrolled, lastStep, failures, outcome, boot, guesses, accepted>>

Restart ==
    /\ boot < MaxBoots
    /\ boot' = boot + 1
    /\ lastStep' = NoStep
    /\ failures' = <<>>
    /\ outcome' = "none"
    /\ guesses' = <<>>
    /\ accepted' = <<>>
    /\ UNCHANGED <<now, enrolled>>

Next ==
    \/ VerifyLocked
    \/ VerifyNotEnrolled
    \/ VerifyRefused
    \/ VerifyAccepted
    \/ Enroll
    \/ Tick
    \/ Restart

Spec == Init /\ [][Next]_vars
-----------------------------------------------------------------------------
(* Properties.                                                             *)

\* No stretch of Window sees more than MaxFailures wrong guesses evaluated:
\* the list is cut to the window at each attempt and refilled, and a guess is
\* compared with the secret only when the cut list has room (step-up.ts:108-134).
GuessesAreRare ==
    \A i \in 1..Len(guesses) :
        i + MaxFailures <= Len(guesses) => guesses[i + MaxFailures] - guesses[i] >= Window

\* The lock is exactly that: on when the last Window holds MaxFailures wrong
\* guesses, off as soon as it does not, however often the locked actor has
\* tried meanwhile ("locks out after five failures in fifteen minutes, then
\* recovers").
LockIsExact ==
    Locked <=> Len(Recent(guesses)) >= MaxFailures

\* No code authorises two actions between two starts, whatever the order in
\* which codes within the drift arrive (step-up.ts:124-136).
NoCodeTwice ==
    \A i, j \in 1..Len(accepted) : i < j => accepted[i] # accepted[j]
=============================================================================

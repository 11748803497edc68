------------------------ MODULE CommandServer_proofs ------------------------
(***************************************************************************)
(* LiveControl and CommandServer for every set of actors, requests, keys   *)
(* and connections, with or without a failing journal, and for every       *)
(* number of restarts.                                                     *)
(*                                                                         *)
(* CommandServer's steps are not steps of LiveControl - a replay answers   *)
(* without asking it, a dying process answers nothing - but each of them   *)
(* is Moved, which is all that the theorems about LiveControl rest on: the *)
(* kill switch is proved once more, behind the socket.                     *)
(***************************************************************************)
EXTENDS CommandServer, TLAPS

-----------------------------------------------------------------------------
(* What the building blocks of the commands change.                        *)

\* StateOf never reports "uncached".
LEMMA StateOfType ==
    ASSUME TypeOK, NEW a \in Actors
    PROVE  StateOf(a) \in States
  BY DEF StateOf, TypeOK, Cached, States

\* A call that suspends or ends keeps the call variables well typed.
LEMMA SuspendType ==
    ASSUME TypeOK, NEW r \in Requests, NEW a \in Actors \cup {System}, NEW s \in Stages,
           Suspend(r, a, s)
    PROVE  /\ stage' \in [Requests -> Stages]
           /\ who' \in [Requests -> Actors \cup {System}]
           /\ res' \in [Requests -> Responses]
  BY DEF Suspend, TypeOK, Responses

LEMMA FinishType ==
    ASSUME TypeOK, NEW r \in Requests, NEW response \in Responses, Finish(r, response)
    PROVE  /\ stage' \in [Requests -> Stages]
           /\ who' \in [Requests -> Actors \cup {System}]
           /\ res' \in [Requests -> Responses]
  BY DEF Finish, TypeOK, Stages

LEMMA AnswerType ==
    ASSUME TypeOK, NEW r \in Requests, NEW a \in Actors, NEW response \in Responses,
           Answer(r, a, response)
    PROVE  TypeOK'
  <1>1. mem' \in [Actors -> Cached]
    BY StateOfType DEF Answer, Cache, TypeOK, Cached
  <1>2. QED
    BY <1>1, FinishType DEF Answer, TypeOK, alerts

LEMMA ChangeType ==
    ASSUME TypeOK, NEW r \in Requests, NEW a \in Actors, NEW state \in States,
           NEW row \in Rows, NEW next \in Stages, Change(r, a, state, row, next)
    PROVE  /\ lastRow' \in [Actors -> Rows]
           /\ mem' \in [Actors -> Cached]
           /\ stage' \in [Requests -> Stages]
           /\ who' \in [Requests -> Actors \cup {System}]
           /\ res' \in [Requests -> Responses]
           /\ unjournaled' \subseteq Actors
           /\ UNCHANGED <<alerts, boot>>
  <1>1. mem' \in [Actors -> Cached]
    BY DEF Change, TypeOK, Cached
  <1>2. UNCHANGED <<alerts, boot>>
    BY DEF Change
  <1>3. PICK ok \in AppendOutcomes :
           IF ok
           THEN /\ lastRow' = [lastRow EXCEPT ![a] = row]
                /\ unjournaled' = unjournaled \ {a}
                /\ Suspend(r, a, next)
           ELSE /\ unjournaled' = unjournaled \cup {a}
                /\ Finish(r, "internal")
                /\ UNCHANGED lastRow
    BY DEF Change
  <1>4. CASE ok
    BY <1>1, <1>2, <1>3, <1>4, SuspendType DEF TypeOK
  <1>5. CASE ~ok
    <2>1. "internal" \in Responses
      BY DEF Responses
    <2>2. QED
      BY <1>1, <1>2, <1>3, <1>5, <2>1, FinishType DEF TypeOK
  <1>6. QED
    BY <1>4, <1>5

-----------------------------------------------------------------------------
(* Type correctness.                                                       *)

LEMMA CommandType ==
    ASSUME TypeOK, NEW r \in Requests, NEW a \in Actors, Command(r, a)
    PROVE  TypeOK'
  <1> USE StateOfType
  <1> "refused" \in Responses /\ "internal" \in Responses /\ States \subseteq Responses
    BY DEF Responses
  <1>1. CASE Status(r, a)
    BY <1>1, AnswerType DEF Status
  <1>2. CASE ArmRefused(r, a)
    BY <1>2, AnswerType DEF ArmRefused
  <1>3. CASE ArmStepUpThrows(r, a)
    BY <1>3, AnswerType DEF ArmStepUpThrows, StepUpThrows
  <1>4. CASE Arm(r, a)
    BY <1>4, ChangeType DEF Arm, States, Rows, Stages, TypeOK, alerts
  <1>5. CASE Disarm(r, a)
    BY <1>5, ChangeType DEF Disarm, States, Rows, Stages, TypeOK, alerts
  <1>6. CASE DisarmNothing(r, a)
    BY <1>6, AnswerType DEF DisarmNothing
  <1>7. CASE Kill(r, a)
    BY <1>7, ChangeType DEF Kill, States, Rows, Stages, TypeOK, alerts
  <1>8. CASE ResetStepUpThrows(r, a)
    BY <1>8, AnswerType DEF ResetStepUpThrows, StepUpThrows
  <1>9. CASE Reset(r, a)
    BY <1>9, ChangeType DEF Reset, States, Rows, Stages, TypeOK, alerts
  <1>10. CASE ResetNothing(r, a)
    BY <1>10, AnswerType DEF ResetNothing
  <1>11. QED
    BY <1>1, <1>2, <1>3, <1>4, <1>5, <1>6, <1>7, <1>8, <1>9, <1>10 DEF Command

LEMMA KillEveryoneType ==
    ASSUME TypeOK, NEW r \in Requests, KillEveryone(r)
    PROVE  TypeOK'
  <1>1. PICK ok \in AppendOutcomes :
           IF ok
           THEN /\ lastRow' = [a \in Actors |-> "killed"]
                /\ unjournaled' = {}
                /\ standing' = Actors
                /\ Suspend(r, System, "venue")
           ELSE /\ unjournaled' = unjournaled \cup {a \in Actors : mem[a] # "uncached"}
                /\ Finish(r, "internal")
                /\ UNCHANGED <<lastRow, standing>>
    BY DEF KillEveryone
  <1>2. mem' \in [Actors -> Cached] /\ UNCHANGED <<alerts, boot>>
    BY DEF KillEveryone, TypeOK, Cached, States
  <1>3. CASE ok
    BY <1>1, <1>2, <1>3, SuspendType DEF TypeOK, alerts, Rows, Stages
  <1>4. CASE ~ok
    <2>1. "internal" \in Responses
      BY DEF Responses
    <2>2. QED
      BY <1>1, <1>2, <1>4, <2>1, FinishType DEF TypeOK, alerts
  <1>5. QED
    BY <1>3, <1>4

LEMMA FinalResponseType ==
    ASSUME TypeOK, NEW r \in Requests
    PROVE  FinalResponse(r) \in Responses
  BY StateOfType DEF FinalResponse, TypeOK, Responses, States

LEMMA DeliveredType ==
    ASSUME TypeOK, NEW r \in Requests, NEW targets, NEW got, Delivered(r, targets, got)
    PROVE  /\ stage' \in [Requests -> Stages]
           /\ who' \in [Requests -> Actors \cup {System}]
           /\ res' \in [Requests -> Responses]
  <1>1. "internal" \in Responses
    BY DEF Responses
  <1>2. QED
    BY <1>1, FinalResponseType, FinishType DEF Delivered

LEMMA ContinuationType ==
    ASSUME TypeOK, NEW r \in Requests, Continuation(r)
    PROVE  TypeOK'
  <1>1. CASE VenueSettles(r)
    <2>1. who[r] \in Actors \cup {System} /\ "critical" \in Stages /\ "internal" \in Responses
      BY DEF TypeOK, Stages, Responses
    <2>2. Suspend(r, who[r], "critical") \/ Finish(r, "internal")
      BY <1>1 DEF VenueSettles
    <2>3. UNCHANGED <<lastRow, mem, alerts, boot, unjournaled, standing>>
      BY <1>1 DEF VenueSettles
    <2>4. QED
      BY <2>1, <2>2, <2>3, SuspendType, FinishType DEF TypeOK, alerts
  <1>2. CASE AlertSettles(r)
    BY <1>2, DeliveredType DEF AlertSettles, TypeOK, alerts
  <1>3. CASE CriticalSettles(r)
    BY <1>3, DeliveredType DEF CriticalSettles, TypeOK
  <1>4. QED
    BY <1>1, <1>2, <1>3 DEF Continuation

LEMMA BootBound == MaxBoots \in Nat
  BY LiveControlAssumption DEF LiveControlAssumption

LEMMA InitType ==
    ASSUME Init
    PROVE  TypeOK
  <1>1. boot \in 0..MaxBoots
    BY BootBound DEF Init
  <1>2. /\ testing \in BOOLEAN
        /\ testDelivered \in BOOLEAN
        /\ criticalLost \in BOOLEAN
    BY Zenon DEF Init
  <1>3. QED
    BY <1>1, <1>2 DEF Init, TypeOK, Rows, Cached, Stages, Responses

LEMMA TestSettlesType ==
    ASSUME TypeOK, TestSettles
    PROVE  TypeOK'
  BY DEF TestSettles, TypeOK, calls

LEMMA RestartType ==
    ASSUME TypeOK, Restart
    PROVE  TypeOK'
  <1>1. boot' \in 0..MaxBoots
    BY BootBound DEF Restart, TypeOK
  <1>2. /\ testing' \in BOOLEAN
        /\ testDelivered' \in BOOLEAN
        /\ criticalLost' \in BOOLEAN
    BY Zenon DEF Restart
  <1>3. QED
    BY <1>1, <1>2 DEF Restart, TypeOK, Cached, Stages, Responses

\* Every reachable state is well typed, and the boot counter stays bounded.
THEOREM TypeCorrect == Spec => []TypeOK
  <1>1. Init => TypeOK
    BY InitType
  <1>2. TypeOK /\ [Next]_vars => TypeOK'
    <2> SUFFICES ASSUME TypeOK, [Next]_vars PROVE TypeOK'
      OBVIOUS
    <2>1. ASSUME NEW r \in Requests, NEW a \in Actors, Command(r, a) PROVE TypeOK'
      BY <2>1, CommandType
    <2>2. ASSUME NEW r \in Requests, KillEveryone(r) PROVE TypeOK'
      BY <2>2, KillEveryoneType
    <2>3. ASSUME NEW r \in Requests, Continuation(r) PROVE TypeOK'
      BY <2>3, ContinuationType
    <2>4. CASE UNCHANGED vars
      BY <2>4 DEF vars, TypeOK
    <2>5. QED
      BY <2>1, <2>2, <2>3, <2>4, TestSettlesType, RestartType DEF Next
  <1>3. QED
    BY <1>1, <1>2, PTL DEF Spec

-----------------------------------------------------------------------------
(* Every step is quiet, a change of one actor, a daemon-wide kill or a     *)
(* restart.                                                                *)

\* The cache may be filled; no state, row or history changes.
Quiet ==
    /\ \A b \in Actors : mem'[b] = mem[b] \/ mem'[b] = StateOf(b)
    /\ UNCHANGED <<lastRow, unjournaled, standing>>

\* One actor moves to a state; the row says so or was not written.
Moves(a, state, row) ==
    /\ mem' = [mem EXCEPT ![a] = state]
    /\ \/ /\ lastRow' = [lastRow EXCEPT ![a] = row]
          /\ unjournaled' = unjournaled \ {a}
       \/ /\ UNCHANGED lastRow
          /\ unjournaled' = unjournaled \cup {a}

Kills(a) ==
    /\ Moves(a, "killed", "killed")
    /\ \/ standing' = standing
       \/ standing' = standing \cup {a} /\ lastRow'[a] = "killed"

KillsAll ==
    /\ mem' = [a \in Actors |-> IF mem[a] # "uncached" THEN "killed" ELSE "uncached"]
    /\ \/ /\ lastRow' = [a \in Actors |-> "killed"]
          /\ unjournaled' = {}
          /\ standing' = Actors
       \/ /\ UNCHANGED <<lastRow, standing>>
          /\ unjournaled' = unjournaled \cup {a \in Actors : mem[a] # "uncached"}

Moved ==
    \/ Quiet
    \/ \E a \in Actors :
          \/ Kills(a)
          \/ ArmAllowed(a) /\ Moves(a, "armed", "armed") /\ UNCHANGED standing
          \/ StateOf(a) = "armed" /\ Moves(a, "disarmed", "disarmed") /\ UNCHANGED standing
          \/ StateOf(a) = "killed" /\ Moves(a, "disarmed", "reset") /\ standing' = standing \ {a}
    \/ KillsAll
    \/ Restart

LEMMA AnswerIsQuiet ==
    ASSUME TypeOK, NEW r \in Requests, NEW a \in Actors, NEW response, Answer(r, a, response)
    PROVE  Quiet
  BY DEF Answer, Cache, Quiet, TypeOK

\* An append that succeeded suspended the call; one that threw ended it.
LEMMA ChangeMoves ==
    ASSUME TypeOK, NEW r \in Requests, NEW a \in Actors, NEW state, NEW row,
           NEW next \in Stages \ {"idle"}, Change(r, a, state, row, next)
    PROVE  /\ Moves(a, state, row)
           /\ stage'[r] = next => lastRow'[a] = row
  BY DEF Change, Moves, Suspend, Finish, TypeOK, Stages

LEMMA CommandMoves ==
    ASSUME TypeOK, NEW r \in Requests, NEW a \in Actors, Command(r, a)
    PROVE  Moved
  <1>1. CASE Status(r, a) \/ ArmRefused(r, a) \/ DisarmNothing(r, a) \/ ResetNothing(r, a)
    BY <1>1, AnswerIsQuiet DEF Status, ArmRefused, DisarmNothing, ResetNothing, Moved
  <1>2. CASE ArmStepUpThrows(r, a) \/ ResetStepUpThrows(r, a)
    BY <1>2, AnswerIsQuiet DEF ArmStepUpThrows, ResetStepUpThrows, StepUpThrows, Moved
  <1>3. CASE Arm(r, a)
    BY <1>3, ChangeMoves DEF Arm, Moved, Stages
  <1>4. CASE Disarm(r, a)
    BY <1>4, ChangeMoves DEF Disarm, Moved, Stages
  <1>5. CASE Kill(r, a)
    <2>1. Moves(a, "killed", "killed") /\ (stage'[r] = "venue" => lastRow'[a] = "killed")
      BY <1>5, ChangeMoves DEF Kill, Stages
    <2>2. Kills(a)
      BY <1>5, <2>1 DEF Kill, Kills
    <2>3. QED
      BY <2>2 DEF Moved
  <1>6. CASE Reset(r, a)
    BY <1>6, ChangeMoves DEF Reset, Moved, Stages
  <1>7. QED
    BY <1>1, <1>2, <1>3, <1>4, <1>5, <1>6 DEF Command

LEMMA NextMoves ==
    ASSUME TypeOK, [Next]_vars
    PROVE  Moved
  <1>1. ASSUME NEW r \in Requests, NEW a \in Actors, Command(r, a) PROVE Moved
    BY <1>1, CommandMoves
  <1>2. ASSUME NEW r \in Requests, KillEveryone(r) PROVE KillsAll
    <2>1. mem' = [a \in Actors |-> IF mem[a] # "uncached" THEN "killed" ELSE "uncached"]
      BY <1>2 DEF KillEveryone, TypeOK
    <2>2. QED
      BY <1>2, <2>1 DEF KillEveryone, KillsAll
  <1>3. ASSUME NEW r \in Requests, Continuation(r) PROVE Quiet
    BY <1>3 DEF Continuation, VenueSettles, AlertSettles, CriticalSettles, Quiet
  <1>4. CASE TestSettles
    BY <1>4 DEF TestSettles, Quiet, Moved
  <1>5. CASE UNCHANGED vars
    BY <1>5 DEF vars, Quiet, Moved
  <1>6. QED
    BY <1>1, <1>2, <1>3, <1>4, <1>5 DEF Next, Moved

-----------------------------------------------------------------------------
(* The kill stands.                                                        *)

LEMMA KillStandsStep ==
    ASSUME TypeOK, TypeOK', KillStands, Moved
    PROVE  KillStands'
  <1>1. CASE Quiet
    BY <1>1 DEF Quiet, KillStands, StateOf, TypeOK
  <1>2. ASSUME NEW a \in Actors, Kills(a) PROVE KillStands'
    BY <1>2 DEF Kills, Moves, KillStands, StateOf, TypeOK
  <1>3. ASSUME NEW a \in Actors, ArmAllowed(a) \/ StateOf(a) = "armed",
               NEW state \in States, NEW row, Moves(a, state, row), UNCHANGED standing
        PROVE  KillStands'
    BY <1>3 DEF ArmAllowed, Moves, KillStands, StateOf, TypeOK
  <1>4. ASSUME NEW a \in Actors, Moves(a, "disarmed", "reset"), standing' = standing \ {a}
        PROVE  KillStands'
    BY <1>4 DEF Moves, KillStands, StateOf, TypeOK
  <1>5. CASE KillsAll
    BY <1>5 DEF KillsAll, KillStands, StateOf, TypeOK
  <1>6. CASE Restart
    BY <1>6 DEF Restart, KillStands, StateOf, TypeOK
  <1>7. QED
    BY <1>1, <1>2, <1>3, <1>4, <1>5, <1>6 DEF Moved, States

\* A journaled kill stands until its actor's own reset (control.ts:148-183),
\* with any number of actors, calls and restarts and a journal that may fail.
THEOREM KillsStand == Spec => []KillStands
  <1>1. Init => KillStands
    BY DEF Init, KillStands
  <1>2. TypeOK /\ TypeOK' /\ KillStands /\ [Next]_vars => KillStands'
    BY NextMoves, KillStandsStep
  <1>3. QED
    BY <1>1, <1>2, TypeCorrect, PTL DEF Spec

-----------------------------------------------------------------------------
(* Memory and journal agree.                                               *)

LEMMA MemoryMatchesJournalStep ==
    ASSUME TypeOK, TypeOK', MemoryMatchesJournal, Moved
    PROVE  MemoryMatchesJournal'
  <1> USE DEF MemoryMatchesJournal, StateOf, TypeOK
  <1>1. CASE Quiet
    BY <1>1 DEF Quiet
  <1>2. ASSUME NEW a \in Actors, NEW state \in States, NEW row,
               Moves(a, state, row),
               state = "killed" <=> row = "killed",
               state = "armed" => row = "armed"
        PROVE  MemoryMatchesJournal'
    BY <1>2 DEF Moves, States
  <1>3. CASE KillsAll
    BY <1>3 DEF KillsAll
  <1>4. CASE Restart
    BY <1>4 DEF Restart
  <1>5. QED
    BY <1>1, <1>2, <1>3, <1>4 DEF Moved, Kills, States

\* What LiveControl holds in memory of an actor is what its journal would
\* rebuild, unless the actor's last append threw.
THEOREM JournalAgreement == Spec => []MemoryMatchesJournal
  <1>1. Init => MemoryMatchesJournal
    BY DEF Init, MemoryMatchesJournal
  <1>2. TypeOK /\ TypeOK' /\ MemoryMatchesJournal /\ [Next]_vars => MemoryMatchesJournal'
    BY NextMoves, MemoryMatchesJournalStep
  <1>3. QED
    BY <1>1, <1>2, TypeCorrect, PTL DEF Spec

-----------------------------------------------------------------------------
(* LiveControl implements the kill switch.                                 *)

Latched == {a \in Actors : StateOf(a) = "killed"}
Trading == {a \in Actors : StateOf(a) = "armed"}

\* A quiet step stutters.
LEMMA QuietStutters ==
    ASSUME TypeOK, TypeOK', Quiet
    PROVE  UNCHANGED <<Latched, Trading, unjournaled>>
  <1>1. \A a \in Actors : StateOf(a)' = StateOf(a)
    BY DEF Quiet, StateOf, TypeOK
  <1>2. QED
    BY <1>1 DEF Quiet, Latched, Trading

\* A move of one actor changes that actor in the abstract state and no other.
LEMMA MovesRefines ==
    ASSUME TypeOK, TypeOK', NEW a \in Actors, NEW state \in States, NEW row,
           Moves(a, state, row)
    PROVE  /\ Latched' = IF state = "killed" THEN Latched \cup {a} ELSE Latched \ {a}
           /\ Trading' = IF state = "armed" THEN Trading \cup {a} ELSE Trading \ {a}
           /\ \/ unjournaled' = unjournaled \ {a}
              \/ unjournaled' = unjournaled \cup {a}
  <1>1. StateOf(a)' = state
    BY DEF Moves, StateOf, TypeOK, States
  <1>2. \A b \in Actors \ {a} : StateOf(b)' = StateOf(b)
    BY DEF Moves, StateOf, TypeOK
  <1>3. Latched' = IF state = "killed" THEN Latched \cup {a} ELSE Latched \ {a}
    BY <1>1, <1>2 DEF Latched
  <1>4. Trading' = IF state = "armed" THEN Trading \cup {a} ELSE Trading \ {a}
    BY <1>1, <1>2 DEF Trading
  <1>5. QED
    BY <1>3, <1>4 DEF Moves

\* Recorded, the daemon-wide kill latches everybody; unrecorded, the actors
\* the daemon has seen.
LEMMA KillsAllRefines ==
    ASSUME TypeOK, TypeOK', MemoryMatchesJournal', KillsAll
    PROVE  \E S \in SUBSET Actors :
              /\ Latched' = Latched \cup S
              /\ Trading' = Trading \ S
              /\ \/ unjournaled' = unjournaled \ S
                 \/ unjournaled' = unjournaled \cup S
  <1> DEFINE cached == {a \in Actors : mem[a] # "uncached"}
  <1>1. CASE lastRow' = [a \in Actors |-> "killed"] /\ unjournaled' = {}
    <2>1. \A a \in Actors : StateOf(a)' = "killed"
      BY <1>1 DEF KillsAll, StateOf, TypeOK
    <2>2. Latched' = Latched \cup Actors /\ Trading' = Trading \ Actors
      BY <2>1 DEF Latched, Trading
    <2>3. unjournaled' = unjournaled \ Actors
      BY <1>1 DEF TypeOK
    <2>4. QED
      BY <2>2, <2>3
  <1>2. CASE UNCHANGED lastRow /\ unjournaled' = unjournaled \cup cached
    <2>1. \A a \in cached : StateOf(a)' = "killed"
      BY <1>2 DEF KillsAll, StateOf, TypeOK
    <2>2. \A a \in Actors \ cached : StateOf(a)' = StateOf(a) /\ StateOf(a) # "armed"
      BY <1>2 DEF KillsAll, StateOf, TypeOK
    <2>3. Latched' = Latched \cup cached /\ Trading' = Trading \ cached
      BY <2>1, <2>2 DEF Latched, Trading
    <2>4. QED
      BY <1>2, <2>3
  <1>3. QED
    BY <1>1, <1>2 DEF KillsAll

\* A restart rebuilds from the journal the latch of every actor it recorded.
LEMMA RestartRefines ==
    ASSUME TypeOK, TypeOK', MemoryMatchesJournal, Restart
    PROVE  /\ Trading' = {}
           /\ Latched' \in SUBSET Actors
           /\ \A a \in Actors \ unjournaled : a \in Latched' <=> a \in Latched
           /\ unjournaled' = {}
  <1>1. \A a \in Actors : StateOf(a)' = IF lastRow[a] = "killed" THEN "killed" ELSE "disarmed"
    BY DEF Restart, StateOf, TypeOK
  <1>2. \A a \in Actors \ unjournaled : StateOf(a) = "killed" <=> lastRow[a] = "killed"
    BY DEF MemoryMatchesJournal, StateOf
  <1>3. QED
    BY <1>1, <1>2 DEF Restart, Latched, Trading

LEMMA RefinementStep ==
    ASSUME TypeOK, TypeOK', MemoryMatchesJournal, MemoryMatchesJournal', Moved
    PROVE  [Charter!KSNext]_(Charter!ksVars)
  <1> USE DEF Charter!KSNext, Charter!ksVars
  <1>1. CASE Quiet
    BY <1>1, QuietStutters DEF Latched, Trading
  <1>2. ASSUME NEW a \in Actors, Kills(a) PROVE Charter!KSNext
    <2>1. Charter!Kill({a})
      BY <1>2, MovesRefines DEF Kills, States, Latched, Trading, Charter!Kill, Charter!Recorded
    <2>2. QED
      BY <2>1
  <1>3. ASSUME NEW a \in Actors, ArmAllowed(a), Moves(a, "armed", "armed")
        PROVE  Charter!KSNext
    <2>1. a \notin Latched
      BY <1>3 DEF ArmAllowed, Latched
    <2>2. Charter!Arm(a)
      BY <1>3, <2>1, MovesRefines DEF States, Latched, Trading, Charter!Arm, Charter!Recorded
    <2>3. QED
      BY <2>2
  <1>4. ASSUME NEW a \in Actors, StateOf(a) = "armed", Moves(a, "disarmed", "disarmed")
        PROVE  Charter!KSNext
    <2>1. a \in Trading /\ a \notin Latched
      BY <1>4 DEF Trading, Latched
    <2>2. Charter!Disarm(a)
      BY <1>4, <2>1, MovesRefines DEF States, Latched, Trading, Charter!Disarm, Charter!Recorded
    <2>3. QED
      BY <2>2
  <1>5. ASSUME NEW a \in Actors, StateOf(a) = "killed", Moves(a, "disarmed", "reset")
        PROVE  Charter!KSNext
    <2>1. a \in Latched /\ a \notin Trading
      BY <1>5 DEF Trading, Latched
    <2>2. Charter!Reset(a)
      BY <1>5, <2>1, MovesRefines DEF States, Latched, Trading, Charter!Reset, Charter!Recorded
    <2>3. QED
      BY <2>2
  <1>6. CASE KillsAll
    <2>1. PICK S \in SUBSET Actors : Charter!Kill(S)
      BY <1>6, KillsAllRefines DEF Latched, Trading, Charter!Kill, Charter!Recorded
    <2>2. QED
      BY <2>1
  <1>7. CASE Restart
    BY <1>7, RestartRefines DEF Latched, Trading, Charter!Restart
  <1>8. QED
    BY <1>1, <1>2, <1>3, <1>4, <1>5, <1>6, <1>7 DEF Moved

\* Every behaviour of the daemon's control is a behaviour of the kill switch:
\* the class comment of LiveControl (control.ts:48-52), with the changes the
\* journal refused as the only exception.
THEOREM Refinement == Spec => ImplementsKillSwitch
  <1>1. Init => Charter!KSInit
    BY DEF Init, StateOf, Charter!KSInit
  <1>2. TypeOK /\ TypeOK' /\ MemoryMatchesJournal /\ MemoryMatchesJournal' /\ [Next]_vars
            => [Charter!KSNext]_(Charter!ksVars)
    BY NextMoves, RefinementStep
  <1>3. QED
    BY <1>1, <1>2, TypeCorrect, JournalAgreement, PTL
        DEF Spec, ImplementsKillSwitch, Charter!KSSpec

-----------------------------------------------------------------------------
(* The executions of a command are calls of LiveControl.                   *)

LEMMA ActsIsCommand ==
    ASSUME NEW r \in Requests, NEW k \in Keys, Acts(r, k)
    PROVE  ActorOf[k] \in Actors /\ Command(r, ActorOf[k])
  BY CommandServerAssumption DEF CommandServerAssumption, Acts, Command

LEMMA IdlesIsCommand ==
    ASSUME NEW r \in Requests, NEW k \in Keys, Idles(r, k)
    PROVE  ActorOf[k] \in Actors /\ Command(r, ActorOf[k])
  BY CommandServerAssumption DEF CommandServerAssumption, Idles, Command

LEMMA ExecuteIsCommand ==
    ASSUME NEW r \in Requests, NEW k \in Keys, Execute(r, k)
    PROVE  ActorOf[k] \in Actors /\ Command(r, ActorOf[k])
  BY ActsIsCommand, IdlesIsCommand DEF Execute

-----------------------------------------------------------------------------
(* Type correctness.                                                       *)

\* A step of a command leaves its line running, or a response that may be
\* stored.
LEMMA ProceedType ==
    ASSUME CSTypeOK, TypeOK', NEW r \in Requests, NEW k \in Keys, Proceed(r, k)
    PROVE  /\ line' \in [Requests -> Keys \cup {"none"}]
           /\ stored' \in [Keys -> Stored]
           /\ dying' \in BOOLEAN
  <1>1. dying' \in BOOLEAN
    <2>1. UNCHANGED dying \/ Dies
      BY DEF Proceed, Save
    <2>2. QED
      BY <2>1, Zenon DEF CSTypeOK, Dies
  <1>2. line' \in [Requests -> Keys \cup {"none"}]
    BY DEF Proceed, Save, CSTypeOK
  <1>3. stored' \in [Keys -> Stored]
    <2>1. CASE UNCHANGED stored
      BY <2>1 DEF CSTypeOK
    <2>2. CASE /\ res'[r] # "internal"
               /\ stored' = [stored EXCEPT ![k] = IF @ = "none" THEN res'[r] ELSE @]
      <3>1. res'[r] \in Stored
        BY <2>2 DEF TypeOK, Responses, Stored
      <3>2. QED
        BY <2>2, <3>1 DEF CSTypeOK
    <2>3. QED
      BY <2>1, <2>2 DEF Proceed, Save
  <1>4. QED
    BY <1>1, <1>2, <1>3

LEMMA ActsType ==
    ASSUME CSTypeOK, NEW r \in Requests, NEW k \in Keys, Acts(r, k) \/ Idles(r, k)
    PROVE  spent' \subseteq Keys /\ acted' \subseteq Keys /\ recorded' \subseteq Keys
  BY DEF Acts, Idles, Accept, Refuse, CSTypeOK

LEMMA ExecuteType ==
    ASSUME CSTypeOK, NEW r \in Requests, NEW k \in Keys, Execute(r, k)
    PROVE  CSTypeOK'
  <1>1. TypeOK'
    BY ExecuteIsCommand, CommandType DEF CSTypeOK
  <1>2. ran' \subseteq Keys /\ cutOff' \subseteq Keys
    BY DEF Execute, NoteCutOff, CSTypeOK
  <1>3. spent' \subseteq Keys /\ acted' \subseteq Keys /\ recorded' \subseteq Keys
    BY ActsType DEF Execute
  <1>4. QED
    BY <1>1, <1>2, <1>3, ProceedType DEF Execute, CSTypeOK

LEMMA ReplayType ==
    ASSUME CSTypeOK, NEW r \in Requests, NEW k \in Keys, Replay(r, k)
    PROVE  CSTypeOK'
  <1>1. stored[k] \in Responses
    BY DEF CSTypeOK, Stored, Responses
  <1>2. res' \in [Requests -> Responses]
    BY <1>1 DEF Replay, CSTypeOK, TypeOK
  <1>3. TypeOK'
    BY <1>2 DEF Replay, CSTypeOK, TypeOK, alerts
  <1>4. QED
    BY <1>3 DEF Replay, CSTypeOK, server, past

LEMMA ResumeType ==
    ASSUME CSTypeOK, NEW r \in Requests, line[r] \in Keys, Resume(r)
    PROVE  CSTypeOK'
  <1>1. TypeOK'
    BY ContinuationType DEF Resume, CSTypeOK
  <1>2. cutOff' \subseteq Keys
    BY DEF Resume, NoteCutOff, CSTypeOK
  <1>3. QED
    BY <1>1, <1>2, ProceedType DEF Resume, CSTypeOK

LEMMA CSRestartType ==
    ASSUME CSTypeOK, CSRestart
    PROVE  CSTypeOK'
  <1>1. TypeOK'
    BY RestartType DEF CSRestart, CSTypeOK
  <1>2. dying' \in BOOLEAN
    BY Zenon DEF CSRestart
  <1>3. line' \in [Requests -> Keys \cup {"none"}]
    BY DEF CSRestart
  <1>4. cutOff' \subseteq Keys
    BY DEF CSRestart, InFlight, CSTypeOK
  <1>5. QED
    BY <1>1, <1>2, <1>3, <1>4 DEF CSRestart, CSTypeOK

-----------------------------------------------------------------------------
(* The inductive invariant.                                                *)

\* A line is in flight exactly while its call of LiveControl is suspended.
LinesAreCalls ==
    \A r \in Requests : line[r] = "none" <=> stage[r] = "idle"

\* A kill or an arm only waits for alert or venue once its row is on disk.
WaitingIsRecorded ==
    \A r \in Requests :
        line[r] # "none" /\ CommandOf[line[r]] \in {"arm", "kill"} => line[r] \in recorded

\* A key that ran has an answer, a line that will bring one, or a run that
\* left none.
RunsAreAnswered ==
    \A k \in ran : stored[k] # "none" \/ k \in cutOff \/ k \in InFlight

\* Whatever took effect since the start has spent the step of its code.
ActedIsSpent ==
    \A k \in acted : k \in spent /\ CommandOf[k] \in {"arm", "reset"}

CSInv ==
    /\ CSTypeOK
    /\ LinesAreCalls
    /\ WaitingIsRecorded
    /\ AcknowledgedIsOnDisk
    /\ RunsAreAnswered
    /\ ActedIsSpent

LEMMA NoneIsNoKey == "none" \notin Keys
  BY CommandServerAssumption DEF CommandServerAssumption

\* What the end of a step does to its own line, and leaves to the others.
LEMMA ProceedLine ==
    ASSUME CSTypeOK, NEW r \in Requests, NEW k \in Keys, Proceed(r, k)
    PROVE  /\ line'[r] = IF stage'[r] = "idle" THEN "none" ELSE k
           /\ \A q \in Requests \ {r} : line'[q] = line[q]
  BY DEF Proceed, Save, CSTypeOK

\* A call of LiveControl moves its own slot only.
LEMMA SuspendStage ==
    ASSUME TypeOK, NEW r \in Requests, NEW a, NEW s, Suspend(r, a, s)
    PROVE  stage'[r] = s /\ \A q \in Requests \ {r} : stage'[q] = stage[q]
  BY DEF Suspend, TypeOK

LEMMA FinishStage ==
    ASSUME TypeOK, NEW r \in Requests, NEW response, Finish(r, response)
    PROVE  /\ stage'[r] = "idle" /\ res'[r] = response
           /\ \A q \in Requests \ {r} : stage'[q] = stage[q]
  BY DEF Finish, TypeOK

LEMMA ChangeStage ==
    ASSUME TypeOK, NEW r \in Requests, NEW a, NEW state, NEW row, NEW next,
           Change(r, a, state, row, next)
    PROVE  /\ \A q \in Requests \ {r} : stage'[q] = stage[q]
           /\ \/ stage'[r] = next /\ a \notin unjournaled'
              \/ stage'[r] = "idle" /\ res'[r] = "internal"
  BY SuspendStage, FinishStage DEF Change

LEMMA CommandStage ==
    ASSUME TypeOK, NEW r \in Requests, NEW a \in Actors, Command(r, a)
    PROVE  \A q \in Requests \ {r} : stage'[q] = stage[q]
  BY ChangeStage, FinishStage
  DEF Command, Answer, Status, ArmRefused, ArmStepUpThrows, Arm, Disarm, DisarmNothing, Kill,
      ResetStepUpThrows, Reset, ResetNothing, StepUpThrows

LEMMA ContinuationStage ==
    ASSUME TypeOK, NEW r \in Requests, Continuation(r)
    PROVE  \A q \in Requests \ {r} : stage'[q] = stage[q]
  BY SuspendStage, FinishStage
  DEF Continuation, VenueSettles, AlertSettles, CriticalSettles, Delivered

LEMMA IdlesStage ==
    ASSUME CSTypeOK, NEW r \in Requests, NEW k \in Keys, Idles(r, k)
    PROVE  /\ stage'[r] = "idle"
           /\ CommandOf[k] = "arm" => res'[r] \in {"refused", "internal"}
           /\ CommandOf[k] # "kill"
  BY FinishStage
  DEF CSTypeOK, Idles, Answer, ArmRefused, ArmStepUpThrows, DisarmNothing, ResetStepUpThrows,
      ResetNothing, StepUpThrows

\* An arm or a kill either has its row on disk or ends in an internal error.
LEMMA ActsRecords ==
    ASSUME CSTypeOK, NEW r \in Requests, NEW k \in Keys, Acts(r, k),
           CommandOf[k] \in {"arm", "kill"}
    PROVE  \/ k \in recorded'
           \/ stage'[r] = "idle" /\ res'[r] = "internal"
  <1> DEFINE a == ActorOf[k]
  <1>1. PICK state, row, next : Change(r, a, state, row, next)
    BY DEF Acts, Arm, Kill
  <1>2. \/ a \notin unjournaled'
        \/ stage'[r] = "idle" /\ res'[r] = "internal"
    BY <1>1, ChangeStage DEF CSTypeOK
  <1>3. recorded' = IF a \notin unjournaled' THEN recorded \cup {k} ELSE recorded
    BY DEF Acts
  <1>4. QED
    BY <1>2, <1>3

\* A step of line r with key k: what ExecuteInv and ResumeInv share.
LEMMA LinesAreCallsStep ==
    ASSUME CSTypeOK, LinesAreCalls, NEW r \in Requests, NEW k \in Keys, Proceed(r, k),
           \A q \in Requests \ {r} : stage'[q] = stage[q]
    PROVE  LinesAreCalls'
  BY ProceedLine, NoneIsNoKey DEF LinesAreCalls

LEMMA WaitingIsRecordedStep ==
    ASSUME CSTypeOK, WaitingIsRecorded, NEW r \in Requests, NEW k \in Keys, Proceed(r, k),
           recorded \subseteq recorded',
           stage'[r] # "idle" /\ CommandOf[k] \in {"arm", "kill"} => k \in recorded'
    PROVE  WaitingIsRecorded'
  BY ProceedLine DEF WaitingIsRecorded

LEMMA AcknowledgedStep ==
    ASSUME CSTypeOK, AcknowledgedIsOnDisk, NEW r \in Requests, NEW k \in Keys, Proceed(r, k),
           recorded \subseteq recorded',
           stage'[r] = "idle" /\ res'[r] \in States /\ CommandOf[k] \in {"arm", "kill"}
               => k \in recorded'
    PROVE  AcknowledgedIsOnDisk'
  BY DEF Proceed, Save, CSTypeOK, AcknowledgedIsOnDisk

LEMMA RunsAreAnsweredStep ==
    ASSUME CSTypeOK, TypeOK', RunsAreAnswered, NEW r \in Requests, NEW k \in Keys,
           line[r] \in {"none", k}, Proceed(r, k), NoteCutOff(r, k), ran' \subseteq ran \cup {k},
           stage'[r] = "idle" => res'[r] # "none"
    PROVE  RunsAreAnswered'
  <1>1. cutOff \subseteq cutOff'
    BY DEF NoteCutOff
  <1>2. \A j \in Keys : stored[j] # "none" => stored'[j] # "none"
    BY DEF Proceed, Save, CSTypeOK
  <1>3. \A j \in InFlight \ {k} : j \in InFlight'
    BY ProceedLine DEF InFlight
  <1>4. CASE stage'[r] # "idle"
    <2>1. k \in InFlight'
      BY <1>4, ProceedLine, NoneIsNoKey DEF InFlight
    <2>2. QED
      BY <1>1, <1>2, <1>3, <2>1 DEF RunsAreAnswered, CSTypeOK
  <1>5. CASE stage'[r] = "idle"
    <2>1. k \in cutOff' \/ stored'[k] # "none"
      BY <1>5 DEF Proceed, Save, NoteCutOff, Dies, CSTypeOK
    <2>2. QED
      BY <1>1, <1>2, <1>3, <2>1 DEF RunsAreAnswered, CSTypeOK
  <1>6. QED
    BY <1>4, <1>5

\* A call that ends has a response.
LEMMA AnswerResponds ==
    ASSUME TypeOK, NEW r \in Requests, NEW a \in Actors, NEW response, Answer(r, a, response)
    PROVE  res'[r] = response
  BY FinishStage DEF Answer

LEMMA CommandResponds ==
    ASSUME TypeOK, NEW r \in Requests, NEW a \in Actors, Command(r, a), stage'[r] = "idle"
    PROVE  res'[r] # "none"
  <1> USE AnswerResponds
  <1> StateOf(a) # "none"
    BY StateOfType DEF States
  <1>1. CASE Status(r, a) \/ DisarmNothing(r, a) \/ ResetNothing(r, a) \/ ArmRefused(r, a)
    BY <1>1 DEF Status, DisarmNothing, ResetNothing, ArmRefused
  <1>2. CASE ArmStepUpThrows(r, a) \/ ResetStepUpThrows(r, a)
    BY <1>2 DEF ArmStepUpThrows, ResetStepUpThrows, StepUpThrows
  <1>3. CASE Arm(r, a) \/ Disarm(r, a) \/ Kill(r, a) \/ Reset(r, a)
    BY <1>3, ChangeStage DEF Arm, Disarm, Kill, Reset
  <1>4. QED
    BY <1>1, <1>2, <1>3 DEF Command

LEMMA ContinuationResponds ==
    ASSUME TypeOK, NEW r \in Requests, Continuation(r), stage'[r] = "idle"
    PROVE  res'[r] # "none"
  <1>1. FinalResponse(r) # "none"
    BY StateOfType DEF FinalResponse, TypeOK, States
  <1>2. CASE VenueSettles(r)
    BY <1>2, SuspendStage, FinishStage DEF VenueSettles
  <1>3. CASE AlertSettles(r) \/ CriticalSettles(r)
    BY <1>1, <1>3, FinishStage DEF AlertSettles, CriticalSettles, Delivered
  <1>4. QED
    BY <1>2, <1>3 DEF Continuation

-----------------------------------------------------------------------------
(* Every step keeps it.                                                    *)

LEMMA ExecuteInv ==
    ASSUME CSInv, NEW r \in Requests, NEW k \in Keys, Execute(r, k)
    PROVE  CSInv'
  <1> USE DEF CSInv
  <1> DEFINE a == ActorOf[k]
  <1>1. CSTypeOK' /\ TypeOK /\ TypeOK'
    BY ExecuteType DEF CSTypeOK
  <1>2. a \in Actors /\ Command(r, a)
    BY ExecuteIsCommand
  <1>3. Proceed(r, k) /\ NoteCutOff(r, k) /\ ran' = ran \cup {k}
    BY DEF Execute
  <1>4. line[r] = "none"
    BY DEF Execute, LinesAreCalls
  <1>5. recorded \subseteq recorded'
    BY DEF Execute, Acts, Idles
  <1>6. CommandOf[k] \in {"arm", "kill"} =>
            \/ k \in recorded'
            \/ stage'[r] = "idle" /\ res'[r] \in {"refused", "internal"}
    BY ActsRecords, IdlesStage DEF Execute
  <1>7. LinesAreCalls'
    BY <1>1, <1>2, <1>3, CommandStage, LinesAreCallsStep
  <1>8. WaitingIsRecorded'
    BY <1>3, <1>5, <1>6, WaitingIsRecordedStep
  <1>9. AcknowledgedIsOnDisk'
    BY <1>3, <1>5, <1>6, AcknowledgedStep DEF States
  <1>10. RunsAreAnswered'
    BY <1>1, <1>2, <1>3, <1>4, CommandResponds, RunsAreAnsweredStep
  <1>11. ActedIsSpent'
    BY DEF Execute, Acts, Idles, Accept, Refuse, ActedIsSpent
  <1>12. QED
    BY <1>1, <1>7, <1>8, <1>9, <1>10, <1>11

LEMMA ReplayInv ==
    ASSUME CSInv, NEW r \in Requests, NEW k \in Keys, Replay(r, k)
    PROVE  CSInv'
  <1>1. CSTypeOK'
    BY ReplayType DEF CSInv
  <1>2. QED
    BY <1>1 DEF CSInv, Replay, server, past, LinesAreCalls, WaitingIsRecorded,
        AcknowledgedIsOnDisk, RunsAreAnswered, InFlight, ActedIsSpent

LEMMA QueryInv ==
    ASSUME CSInv, NEW r \in Requests, NEW a \in Actors, Query(r, a)
    PROVE  CSInv'
  <1>1. TypeOK /\ TypeOK' /\ Command(r, a)
    BY CommandType DEF Query, Command, CSInv, CSTypeOK
  <1>2. stage' = stage
    BY <1>1 DEF Query, Status, Answer, Finish, TypeOK
  <1>3. CSTypeOK'
    BY <1>1 DEF Query, server, past, CSInv, CSTypeOK
  <1>4. QED
    BY <1>2, <1>3 DEF CSInv, Query, server, past, LinesAreCalls, WaitingIsRecorded,
        AcknowledgedIsOnDisk, RunsAreAnswered, InFlight, ActedIsSpent

LEMMA ResumeInv ==
    ASSUME CSInv, NEW r \in Requests, Resume(r)
    PROVE  CSInv'
  <1> USE DEF CSInv
  <1> DEFINE k == line[r]
  <1>1. k \in Keys
    BY DEF Resume, Continuation, VenueSettles, AlertSettles, CriticalSettles, LinesAreCalls, CSTypeOK
  <1>2. CSTypeOK' /\ TypeOK /\ TypeOK'
    BY <1>1, ResumeType DEF CSTypeOK
  <1>3. Continuation(r) /\ Proceed(r, k) /\ NoteCutOff(r, k)
    BY DEF Resume
  <1>4. UNCHANGED <<spent, ran, recorded, acted>>
    BY DEF Resume
  <1>5. k # "none" /\ k \in InFlight
    BY <1>1, NoneIsNoKey DEF InFlight
  <1>6. CommandOf[k] \in {"arm", "kill"} => k \in recorded
    BY <1>5 DEF WaitingIsRecorded
  <1>7. LinesAreCalls'
    BY <1>1, <1>2, <1>3, ContinuationStage, LinesAreCallsStep
  <1>8. WaitingIsRecorded'
    BY <1>1, <1>3, <1>4, <1>6, WaitingIsRecordedStep
  <1>9. AcknowledgedIsOnDisk'
    BY <1>1, <1>3, <1>4, <1>6, AcknowledgedStep
  <1>10. RunsAreAnswered'
    BY <1>1, <1>2, <1>3, <1>4, ContinuationResponds, RunsAreAnsweredStep
  <1>11. ActedIsSpent'
    BY <1>4 DEF ActedIsSpent
  <1>12. QED
    BY <1>2, <1>7, <1>8, <1>9, <1>10, <1>11

LEMMA RejectThrowsInv ==
    ASSUME CSInv, RejectThrows
    PROVE  CSInv'
  <1>1. dying' \in BOOLEAN
    BY Zenon DEF RejectThrows, Dies
  <1>2. CSTypeOK'
    BY <1>1 DEF RejectThrows, past, vars, CSInv, CSTypeOK, TypeOK
  <1>3. QED
    BY <1>2 DEF CSInv, RejectThrows, vars, past, LinesAreCalls, WaitingIsRecorded,
        AcknowledgedIsOnDisk, RunsAreAnswered, InFlight, ActedIsSpent

LEMMA TestEndsInv ==
    ASSUME CSInv, TestEnds
    PROVE  CSInv'
  <1>1. CSTypeOK'
    BY TestSettlesType DEF TestEnds, server, past, CSInv, CSTypeOK
  <1>2. QED
    BY <1>1 DEF CSInv, TestEnds, TestSettles, calls, server, past, LinesAreCalls,
        WaitingIsRecorded, AcknowledgedIsOnDisk, RunsAreAnswered, InFlight, ActedIsSpent

LEMMA CSRestartInv ==
    ASSUME CSInv, CSRestart
    PROVE  CSInv'
  <1>1. CSTypeOK'
    BY CSRestartType DEF CSInv
  <1>2. LinesAreCalls' /\ WaitingIsRecorded'
    BY DEF CSRestart, Restart, LinesAreCalls, WaitingIsRecorded
  <1>3. RunsAreAnswered'
    BY DEF CSInv, CSRestart, RunsAreAnswered
  <1>4. AcknowledgedIsOnDisk' /\ ActedIsSpent'
    BY DEF CSInv, CSRestart, AcknowledgedIsOnDisk, ActedIsSpent
  <1>5. QED
    BY <1>1, <1>2, <1>3, <1>4 DEF CSInv

LEMMA CSInitInv ==
    ASSUME CSInit
    PROVE  CSInv
  <1>1. TypeOK
    BY InitType DEF CSInit
  <1>2. dying \in BOOLEAN
    BY Zenon DEF CSInit
  <1>3. CSTypeOK
    BY <1>1, <1>2 DEF CSInit, CSTypeOK, Stored
  <1>4. QED
    BY <1>3 DEF CSInit, Init, CSInv, LinesAreCalls, WaitingIsRecorded, AcknowledgedIsOnDisk,
        RunsAreAnswered, ActedIsSpent, States

LEMMA CSNextInv ==
    ASSUME CSInv, [CSNext]_csVars
    PROVE  CSInv'
  <1>1. CASE UNCHANGED csVars
    BY <1>1 DEF csVars, vars, server, past, CSInv, CSTypeOK, TypeOK, LinesAreCalls,
        WaitingIsRecorded, AcknowledgedIsOnDisk, RunsAreAnswered, InFlight, ActedIsSpent
  <1>2. QED
    BY <1>1, ExecuteInv, ReplayInv, QueryInv, ResumeInv, RejectThrowsInv, TestEndsInv,
        CSRestartInv DEF CSNext

\* The inductive invariant: what the retry lines, the journal and the runs in
\* flight know of one another, wherever the daemon died between two writes
\* (socket-server.ts:73-99).
THEOREM CSInvariant == CSSpec => []CSInv
  <1>1. CSInit => CSInv
    BY CSInitInv
  <1>2. CSInv /\ [CSNext]_csVars => CSInv'
    BY CSNextInv
  <1>3. QED
    BY <1>1, <1>2, PTL DEF CSSpec

\* Every reachable state of the socket server is well typed.
THEOREM CSTypeCorrect == CSSpec => []CSTypeOK
  BY CSInvariant, PTL DEF CSInv

\* "An event isn't acknowledged until it's on disk" (journal.ts:64-66): no
\* kill or arm has a stored success without its control row, however many
\* runs of its key raced and wherever the daemon died.
THEOREM AcknowledgedOnDisk == CSSpec => []AcknowledgedIsOnDisk
  BY CSInvariant, PTL DEF CSInv

-----------------------------------------------------------------------------
(* Action properties.                                                      *)

\* A key runs again only beside one of its own lines, or after a run that
\* left no answer (socket-server.ts:73-99).
THEOREM ExecutedOnce == CSSpec => RunsOnce
  <1>1. ASSUME CSInv, NEW r \in Requests, NEW k \in ran, Execute(r, k)
        PROVE  k \in cutOff \cup InFlight
    BY <1>1 DEF CSInv, RunsAreAnswered, Execute
  <1>2. CSInv /\ [CSNext]_csVars =>
            [\A r \in Requests, k \in ran : Execute(r, k) => k \in cutOff \cup InFlight]_csVars
    BY <1>1
  <1>3. QED
    BY <1>2, CSInvariant, PTL DEF CSSpec, RunsOnce

LEMMA AnswerKeepsStates ==
    ASSUME TypeOK, NEW r \in Requests, NEW b \in Actors, NEW response, Answer(r, b, response),
           NEW a \in Actors
    PROVE  StateOf(a)' = StateOf(a)
  BY DEF Answer, Cache, StateOf, TypeOK

LEMMA IdlesKeepsStates ==
    ASSUME TypeOK, NEW r \in Requests, NEW k \in Keys, Idles(r, k), NEW a \in Actors
    PROVE  StateOf(a)' = StateOf(a)
  <1>1. ActorOf[k] \in Actors
    BY IdlesIsCommand
  <1>2. PICK response : Answer(r, ActorOf[k], response)
    BY DEF Idles, ArmRefused, ArmStepUpThrows, ResetStepUpThrows, ResetNothing, DisarmNothing,
        StepUpThrows
  <1>3. QED
    BY <1>1, <1>2, AnswerKeepsStates

\* The late duplicate of an arm or a reset that took effect since the start
\* arms nobody and lifts no kill: its code is spent (step-up.ts:124-136).
THEOREM LateRetriesHarmless == CSSpec => LateRetryIsHarmless
  <1> DEFINE Harmless(r, k) ==
          Execute(r, k) => \A a \in Actors :
              /\ StateOf(a)' = "armed" => StateOf(a) = "armed"
              /\ StateOf(a) = "killed" => StateOf(a)' = "killed"
  <1>1. ASSUME CSInv, NEW r \in Requests, NEW k \in acted, Execute(r, k)
        PROVE  Harmless(r, k)
    <2>1. k \in Keys /\ k \in spent /\ CommandOf[k] \in {"arm", "reset"}
      BY <1>1 DEF CSInv, CSTypeOK, ActedIsSpent
    <2>2. ~Acts(r, k)
      BY <2>1 DEF Acts, Accept
    <2>3. Idles(r, k)
      BY <1>1, <2>2 DEF Execute
    <2>4. QED
      BY <1>1, <2>1, <2>3, IdlesKeepsStates DEF CSInv, CSTypeOK
  <1>2. CSInv /\ [CSNext]_csVars => [\A r \in Requests, k \in acted : Harmless(r, k)]_csVars
    BY <1>1
  <1>3. QED
    BY <1>2, CSInvariant, PTL DEF CSSpec, LateRetryIsHarmless

-----------------------------------------------------------------------------
(* The kill switch behind the socket.                                      *)

LEMMA CSNextMoves ==
    ASSUME CSInv, [CSNext]_csVars
    PROVE  Moved
  <1> USE DEF CSInv, CSTypeOK
  <1>1. ASSUME NEW r \in Requests, NEW k \in Keys, Execute(r, k) PROVE Moved
    BY <1>1, ExecuteIsCommand, CommandMoves
  <1>2. ASSUME NEW r \in Requests, NEW k \in Keys, Replay(r, k) PROVE Quiet
    BY <1>2 DEF Replay, Quiet
  <1>3. ASSUME NEW r \in Requests, NEW a \in Actors, Query(r, a) PROVE Moved
    BY <1>3, CommandMoves DEF Query, Command
  <1>4. ASSUME NEW r \in Requests, Resume(r) PROVE Quiet
    BY <1>4 DEF Resume, Continuation, VenueSettles, AlertSettles, CriticalSettles, Quiet
  <1>5. CASE RejectThrows \/ TestEnds \/ UNCHANGED csVars
    BY <1>5 DEF RejectThrows, TestEnds, TestSettles, csVars, vars, Quiet, Moved
  <1>6. CASE CSRestart
    BY <1>6 DEF CSRestart, Moved
  <1>7. QED
    BY <1>1, <1>2, <1>3, <1>4, <1>5, <1>6 DEF CSNext, Moved

\* A journaled kill stands behind the socket as well: no retry, replay or
\* death of the process between a row and its response lifts it.
THEOREM CSKillsStand == CSSpec => []KillStands
  <1>1. CSInit => KillStands
    BY DEF CSInit, Init, KillStands
  <1>2. CSInv /\ CSInv' /\ KillStands /\ [CSNext]_csVars => KillStands'
    BY CSNextMoves, KillStandsStep DEF CSInv, CSTypeOK
  <1>3. QED
    BY <1>1, <1>2, CSInvariant, PTL DEF CSSpec

\* Behind the socket too, the armed flag and the kill held in memory are those
\* a replay of the journal yields (live-control.ts:36-41).
THEOREM CSJournalAgreement == CSSpec => []MemoryMatchesJournal
  <1>1. CSInit => MemoryMatchesJournal
    BY DEF CSInit, Init, MemoryMatchesJournal
  <1>2. CSInv /\ CSInv' /\ MemoryMatchesJournal /\ [CSNext]_csVars => MemoryMatchesJournal'
    BY CSNextMoves, MemoryMatchesJournalStep DEF CSInv, CSTypeOK
  <1>3. QED
    BY <1>1, <1>2, CSInvariant, PTL DEF CSSpec

\* The socket server implements the kill switch of LiveControl's charter: its
\* own restarts, replays and lost responses are steps the charter allows.
THEOREM CSRefinement == CSSpec => ImplementsKillSwitch
  <1>1. CSInit => Charter!KSInit
    BY DEF CSInit, Init, StateOf, Charter!KSInit
  <1>2. CSInv /\ CSInv' /\ MemoryMatchesJournal /\ MemoryMatchesJournal' /\ [CSNext]_csVars
            => [Charter!KSNext]_(Charter!ksVars)
    BY CSNextMoves, RefinementStep DEF CSInv, CSTypeOK
  <1>3. QED
    BY <1>1, <1>2, CSInvariant, CSJournalAgreement, PTL
        DEF CSSpec, ImplementsKillSwitch, Charter!KSSpec
=============================================================================

---------------------------- MODULE LiveControl ----------------------------
(***************************************************************************)
(* The control of the execution daemon: armed / disarmed / killed, per     *)
(* actor (packages/execution/src/control.ts) over the journal              *)
(* (journal.ts) and the alerter (alerts/alerter.ts).                       *)
(*                                                                         *)
(* Node runs one command until its first await.  So every command is one   *)
(* action up to there, and one action for the continuation of each await:  *)
(* the alert, the venue's answer to a kill and the critical alert after    *)
(* it.  Between two of them any other command may run.                     *)
(*                                                                         *)
(* Of the journal only the newest control row that concerns an actor is    *)
(* kept: lastOfTypeFor reads nothing else.  Reasons, scopes and report     *)
(* payloads are left out.                                                  *)
(***************************************************************************)
EXTENDS Naturals

CONSTANTS
    Actors,         \* the (user, account) pairs the daemon serves
    Requests,       \* the calls of LiveControl that can be in flight
    System,         \* the journal's actor for a daemon-wide kill
    BoundActors,    \* the actors with a trading key (KeyStore.findForActor)
    Configured,     \* the alert sinks that are configured
    JournalMayFail, \* TRUE when Journal.append may throw
    MaxBoots        \* bound: restarts of the daemon

Sinks == {"telegram", "email"}

ASSUME LiveControlAssumption ==
    /\ System \notin Actors
    /\ BoundActors \subseteq Actors
    /\ Configured \subseteq Sinks
    /\ JournalMayFail \in BOOLEAN
    /\ MaxBoots \in Nat

VARIABLES
    lastRow,        \* [Actors -> Rows]: newest control row of the actor or of System
    mem,            \* [Actors -> Cached]: the map LiveControl.actors
    stage,          \* [Requests -> Stages]: the await the call is suspended at
    who,            \* [Requests -> Actors \cup {System}]: whose call it is
    res,            \* [Requests -> Responses]: how the slot's last call ended
    testing,        \* the start-up test alert has not been answered yet
    testDelivered,  \* Alerter.testDelivered
    criticalLost,   \* Alerter.criticalLost
    boot,           \* restarts so far
    unjournaled,    \* history: actors whose last change of state has no row
                    \* because append threw after the assignment
    standing        \* history: actors with a journaled kill and no reset since

vars == <<lastRow, mem, stage, who, res, testing, testDelivered, criticalLost,
          boot, unjournaled, standing>>
alerts == <<testing, testDelivered, criticalLost>>
calls == <<stage, who, res>>

States == {"disarmed", "armed", "killed"}
Cached == States \cup {"uncached"}
Rows == {"none", "armed", "disarmed", "killed", "reset"}
Stages == {"idle", "alert", "venue", "critical"}

\* A call answers with the state its status reports, with a ControlError, or
\* with any other error; "none" while it runs.
Responses == States \cup {"none", "refused", "internal"}

TypeOK ==
    /\ lastRow \in [Actors -> Rows]
    /\ mem \in [Actors -> Cached]
    /\ stage \in [Requests -> Stages]
    /\ who \in [Requests -> Actors \cup {System}]
    /\ res \in [Requests -> Responses]
    /\ testing \in BOOLEAN
    /\ testDelivered \in BOOLEAN
    /\ criticalLost \in BOOLEAN
    /\ boot \in 0..MaxBoots
    /\ unjournaled \subseteq Actors
    /\ standing \subseteq Actors

Init ==
    /\ lastRow = [a \in Actors |-> "none"]
    /\ mem = [a \in Actors |-> "uncached"]
    /\ stage = [r \in Requests |-> "idle"]
    /\ who = [r \in Requests |-> System]
    /\ res = [r \in Requests |-> "none"]
    /\ testing = TRUE
    /\ testDelivered = FALSE
    /\ criticalLost = FALSE
    /\ boot = 0
    /\ unjournaled = {}
    /\ standing = {}

-----------------------------------------------------------------------------
(* Building blocks.                                                        *)

\* What Journal.append may do: TRUE, the row is on disk; FALSE, it threw.
AppendOutcomes == IF JournalMayFail THEN BOOLEAN ELSE {TRUE}

\* Mutants of StateOf: the type of the row taken for the state; a restart that
\* comes up disarmed whatever the journal says; armed rebuilt like killed.
StateOfRowType(a) == IF mem[a] # "uncached" THEN mem[a] ELSE lastRow[a]
StateOfForgetsKill(a) == IF mem[a] # "uncached" THEN mem[a] ELSE "disarmed"
StateOfRebuildsArmed(a) ==
    IF mem[a] # "uncached" THEN mem[a]
    ELSE IF lastRow[a] \in {"killed", "armed"} THEN lastRow[a] ELSE "disarmed"

\* control(actor): the cached state, or the one the journal gives.
StateOf(a) ==
    IF mem[a] # "uncached" THEN mem[a]
    ELSE IF lastRow[a] = "killed" THEN "killed" ELSE "disarmed"

\* control(actor) also fills the cache.
Cache(a) == mem' = [mem EXCEPT ![a] = StateOf(a)]

\* The call suspends at an await.
Suspend(r, a, s) ==
    /\ stage' = [stage EXCEPT ![r] = s]
    /\ who' = [who EXCEPT ![r] = a]
    /\ res' = [res EXCEPT ![r] = "none"]

\* The call ends: it returned a status or threw.
Finish(r, response) ==
    /\ stage' = [stage EXCEPT ![r] = "idle"]
    /\ who' = [who EXCEPT ![r] = System]
    /\ res' = [res EXCEPT ![r] = response]

\* Mutant of Change: an append that throws is logged and swallowed.
ChangeSwallows(r, a, state, row, next) ==
    /\ mem' = [mem EXCEPT ![a] = state]
    /\ \E ok \in AppendOutcomes :
          /\ lastRow' = IF ok THEN [lastRow EXCEPT ![a] = row] ELSE lastRow
          /\ unjournaled' = IF ok THEN unjournaled \ {a} ELSE unjournaled \cup {a}
    /\ Suspend(r, a, next)
    /\ UNCHANGED <<alerts, boot>>

\* Assign the state, then append the row, then await; an append that throws
\* leaves the assignment in place and ends the call.
Change(r, a, state, row, next) ==
    /\ mem' = [mem EXCEPT ![a] = state]
    /\ \E ok \in AppendOutcomes :
          IF ok
          THEN /\ lastRow' = [lastRow EXCEPT ![a] = row]
               /\ unjournaled' = unjournaled \ {a}
               /\ Suspend(r, a, next)
          ELSE /\ unjournaled' = unjournaled \cup {a}
               /\ Finish(r, "internal")
               /\ UNCHANGED lastRow
    /\ UNCHANGED <<alerts, boot>>

\* The call ends without changing a state; control() was called all the same.
Answer(r, a, response) ==
    /\ Cache(a)
    /\ Finish(r, response)
    /\ UNCHANGED <<lastRow, alerts, boot, unjournaled, standing>>

AlertsReady ==
    /\ Configured = Sinks
    /\ testDelivered
    /\ ~criticalLost

-----------------------------------------------------------------------------
(* The commands, up to their first await.                                  *)

Status(r, a) ==
    /\ stage[r] = "idle"
    /\ Answer(r, a, StateOf(a))

ArmAllowed(a) ==
    /\ StateOf(a) # "killed"
    /\ a \in BoundActors
    /\ AlertsReady

ArmRefused(r, a) ==
    /\ stage[r] = "idle"
    /\ ~ArmAllowed(a)
    /\ Answer(r, a, "refused")

\* requireStepUp throws: the code is refused, or verify's own append throws.
StepUpThrows(r, a) ==
    \/ Answer(r, a, "refused")
    \/ JournalMayFail /\ Answer(r, a, "internal")

ArmStepUpThrows(r, a) ==
    /\ stage[r] = "idle"
    /\ ArmAllowed(a)
    /\ StepUpThrows(r, a)

Arm(r, a) ==
    /\ stage[r] = "idle"
    /\ ArmAllowed(a)
    /\ Change(r, a, "armed", "armed", "alert")
    /\ UNCHANGED standing

Disarm(r, a) ==
    /\ stage[r] = "idle"
    /\ StateOf(a) = "armed"
    /\ Change(r, a, "disarmed", "disarmed", "alert")
    /\ UNCHANGED standing

DisarmNothing(r, a) ==
    /\ stage[r] = "idle"
    /\ StateOf(a) # "armed"
    /\ Answer(r, a, StateOf(a))

\* Always accepted.
Kill(r, a) ==
    /\ stage[r] = "idle"
    /\ Change(r, a, "killed", "killed", "venue")
    /\ standing' = IF stage'[r] = "venue" THEN standing \cup {a} ELSE standing

\* Mutant of KillEveryone: the actors already cached keep their state.
KillEveryoneSkipsCached(r) ==
    /\ stage[r] = "idle"
    /\ lastRow' = [a \in Actors |-> "killed"]
    /\ unjournaled' = {}
    /\ standing' = Actors
    /\ Suspend(r, System, "venue")
    /\ UNCHANGED <<mem, alerts, boot>>

\* Marks the cached actors, then one System row that concerns everybody.
KillEveryone(r) ==
    LET cached == {a \in Actors : mem[a] # "uncached"}
    IN  /\ stage[r] = "idle"
        /\ mem' = [a \in Actors |-> IF a \in cached THEN "killed" ELSE mem[a]]
        /\ \E ok \in AppendOutcomes :
              IF ok
              THEN /\ lastRow' = [a \in Actors |-> "killed"]
                   /\ unjournaled' = {}
                   /\ standing' = Actors
                   /\ Suspend(r, System, "venue")
              ELSE /\ unjournaled' = unjournaled \cup cached
                   /\ Finish(r, "internal")
                   /\ UNCHANGED <<lastRow, standing>>
        /\ UNCHANGED <<alerts, boot>>

ResetStepUpThrows(r, a) ==
    /\ stage[r] = "idle"
    /\ StateOf(a) = "killed"
    /\ StepUpThrows(r, a)

Reset(r, a) ==
    /\ stage[r] = "idle"
    /\ StateOf(a) = "killed"
    /\ Change(r, a, "disarmed", "reset", "alert")
    /\ standing' = standing \ {a}

ResetNothing(r, a) ==
    /\ stage[r] = "idle"
    /\ StateOf(a) # "killed"
    /\ Answer(r, a, StateOf(a))

-----------------------------------------------------------------------------
(* The continuations.                                                      *)

\* Mutant of VenueSettles: a rejected venue call ends the kill unalerted.
VenueSettlesInSilence(r) ==
    /\ stage[r] = "venue"
    /\ \/ Suspend(r, who[r], "critical")
       \/ Finish(r, "killed")
    /\ UNCHANGED <<lastRow, mem, alerts, boot, unjournaled, standing>>

\* The gateway resolved or rejected.  A kill_report whose append throws is
\* followed by a kill_failed row; when that throws too, so does the call.
VenueSettles(r) ==
    /\ stage[r] = "venue"
    /\ \E report, failed \in AppendOutcomes :
          IF report \/ failed
          THEN Suspend(r, who[r], "critical")
          ELSE Finish(r, "internal")
    /\ UNCHANGED <<lastRow, mem, alerts, boot, unjournaled, standing>>

\* status(actor), read after the last await; killEveryone returns nothing.
FinalResponse(r) == IF who[r] = System THEN "killed" ELSE StateOf(who[r])

\* A delivery that failed on some sink appends alert_delivery_failed; when
\* that throws, so does the call that awaits the alert.
Delivered(r, targets, got) ==
    \E ok \in AppendOutcomes :
       Finish(r, IF got = targets \/ ok THEN FinalResponse(r) ELSE "internal")

\* An info or error alert: to Telegram, or suppressed by the cooldown.
AlertSettles(r) ==
    /\ stage[r] = "alert"
    /\ \E got \in SUBSET ({"telegram"} \cap Configured) : Delivered(r, {"telegram"}, got)
    /\ UNCHANGED <<lastRow, mem, alerts, boot, unjournaled, standing>>

\* The alert after a kill: to both sinks, never suppressed.
CriticalSettles(r) ==
    /\ stage[r] = "critical"
    /\ \E got \in SUBSET Configured :
          /\ criticalLost' = (criticalLost \/ got = {})
          /\ Delivered(r, Sinks, got)
    /\ UNCHANGED <<lastRow, mem, testing, testDelivered, boot, unjournaled, standing>>

\* The test alert of startDaemon; the socket already accepts commands.
TestSettles ==
    /\ testing
    /\ testing' = FALSE
    /\ \E got \in SUBSET Configured :
          /\ testDelivered' = (got = Sinks)
          /\ criticalLost' = (criticalLost /\ got # Sinks)
    /\ UNCHANGED <<lastRow, mem, calls, boot, unjournaled, standing>>

\* A crash or a stop, and the next start: only the journal is left.
Restart ==
    /\ boot < MaxBoots
    /\ boot' = boot + 1
    /\ mem' = [a \in Actors |-> "uncached"]
    /\ stage' = [r \in Requests |-> "idle"]
    /\ who' = [r \in Requests |-> System]
    /\ res' = [r \in Requests |-> "none"]
    /\ testing' = TRUE
    /\ testDelivered' = FALSE
    /\ criticalLost' = FALSE
    /\ unjournaled' = {}
    /\ UNCHANGED <<lastRow, standing>>

-----------------------------------------------------------------------------
Command(r, a) ==
    \/ Status(r, a)
    \/ ArmRefused(r, a)
    \/ ArmStepUpThrows(r, a)
    \/ Arm(r, a)
    \/ Disarm(r, a)
    \/ DisarmNothing(r, a)
    \/ Kill(r, a)
    \/ ResetStepUpThrows(r, a)
    \/ Reset(r, a)
    \/ ResetNothing(r, a)

Continuation(r) ==
    \/ VenueSettles(r)
    \/ AlertSettles(r)
    \/ CriticalSettles(r)

Next ==
    \/ \E r \in Requests, a \in Actors : Command(r, a)
    \/ \E r \in Requests : KillEveryone(r)
    \/ \E r \in Requests : Continuation(r)
    \/ TestSettles
    \/ Restart

Spec == Init /\ [][Next]_vars

\* Every await ends: a sink's fetch is aborted after ten seconds and retried
\* twice (sinks.ts, alerter.ts), and the gateway the daemon runs with
\* (StubVenueGateway) answers every call.
FairSpec == Spec /\ \A r \in Requests : WF_vars(Continuation(r))
-----------------------------------------------------------------------------
(* Properties.                                                             *)

\* Memory and disk tell the same story of every actor whose last change was
\* journaled: killed in memory exactly when the newest control row is a kill,
\* and armed only with an 'armed' row to show for it.  The cache is filled
\* lazily, System rows concern actors never seen, and append comes after the
\* assignment, so any of them could break it (control.ts:106-196).
MemoryMatchesJournal ==
    \A a \in Actors \ unjournaled :
        mem[a] # "uncached" =>
            /\ mem[a] = "killed" <=> lastRow[a] = "killed"
            /\ mem[a] = "armed" => lastRow[a] = "armed"

\* A journaled kill stands for every actor it covers, in memory, in the
\* journal and after any number of restarts, until that actor is reset,
\* whatever else is in flight and whatever else the journal lost.
KillStands ==
    \A a \in standing : StateOf(a) = "killed" /\ lastRow[a] = "killed"

Charter == INSTANCE KillSwitch WITH
    latched <- {a \in Actors : StateOf(a) = "killed"},
    trading <- {a \in Actors : StateOf(a) = "armed"},
    unrecorded <- unjournaled

\* The daemon is a kill switch: the class comment of LiveControl
\* (control.ts:48-52), for every actor whose last change was journaled.
ImplementsKillSwitch == Charter!KSSpec

\* A kill that reached the venue call goes on to its critical alert, however
\* the venue answers, unless the call threw or the daemon died
\* (control.ts:203-221).
KillIsAlerted ==
    \A r \in Requests, b \in 0..MaxBoots :
        stage[r] = "venue" /\ boot = b
            ~> stage[r] = "critical" \/ res[r] = "internal" \/ boot # b

\* A kill is "Always accepted" and touches the venue (control.ts:148), the
\* daemon's own stop for every actor on a "journal failure" (control.ts:158)
\* included: no kill ends before the venue has been asked.
KillReachesVenue ==
    [][\A r \in Requests :
          KillEveryone(r) \/ (\E a \in Actors : Kill(r, a)) => stage'[r] = "venue"]_vars
=============================================================================

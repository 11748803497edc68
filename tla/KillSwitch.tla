----------------------------- MODULE KillSwitch -----------------------------
(***************************************************************************)
(* What the execution daemon promises about live trading, per actor: an    *)
(* actor trades only while armed, a kill latches until that actor's reset, *)
(* nobody trades after a restart, and every latch whose last change was    *)
(* recorded on disk survives the restart.  LiveControl is shown to         *)
(* implement this specification.                                           *)
(***************************************************************************)

CONSTANT Actors

VARIABLES
    latched,    \* actors whose kill switch is latched
    trading,    \* actors whose live trading is armed
    unrecorded  \* actors whose last change never reached the disk

ksVars == <<latched, trading, unrecorded>>

KSInit ==
    /\ latched = {}
    /\ trading = {}
    /\ unrecorded = {}

\* The record of a change of the actors in S either reaches the disk or not.
Recorded(S) ==
    \/ unrecorded' = unrecorded \ S
    \/ unrecorded' = unrecorded \cup S

\* A kill of one actor, or of several at once, is accepted in every state.
Kill(S) ==
    /\ latched' = latched \cup S
    /\ trading' = trading \ S
    /\ Recorded(S)

Arm(a) ==
    /\ a \notin latched
    /\ trading' = trading \cup {a}
    /\ UNCHANGED latched
    /\ Recorded({a})

Disarm(a) ==
    /\ a \in trading
    /\ trading' = trading \ {a}
    /\ UNCHANGED latched
    /\ Recorded({a})

\* The only way out of a latch, one actor at a time, and never into trading.
Reset(a) ==
    /\ a \in latched
    /\ latched' = latched \ {a}
    /\ UNCHANGED trading
    /\ Recorded({a})

\* The daemon dies and comes back with what the disk knows.
Restart ==
    /\ trading' = {}
    /\ latched' \in SUBSET Actors
    /\ \A a \in Actors \ unrecorded : a \in latched' <=> a \in latched
    /\ unrecorded' = {}

KSNext ==
    \/ \E S \in SUBSET Actors : Kill(S)
    \/ \E a \in Actors : Arm(a) \/ Disarm(a) \/ Reset(a)
    \/ Restart

KSSpec == KSInit /\ [][KSNext]_ksVars

=============================================================================

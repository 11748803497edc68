-------------------------- MODULE MCCommandServer --------------------------
(***************************************************************************)
(* CommandServer for TLC: one actor with a trading key, three commands     *)
(* that may each be sent again and again over two connections, and one     *)
(* restart.                                                                *)
(***************************************************************************)
EXTENDS CommandServer, TLC

CONSTANTS a1, r1, r2

MCKeys == {"k-arm", "k-kill", "k-reset"}
MCActorOf == [k \in MCKeys |-> a1]
MCCommandOf ==
    [k \in MCKeys |->
        CASE k = "k-arm" -> "arm"
          [] k = "k-kill" -> "kill"
          [] k = "k-reset" -> "reset"]

\* The connections are interchangeable, and no property is a liveness property.
Symmetric == Permutations({r1, r2})
=============================================================================

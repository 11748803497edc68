---------------------------- MODULE MCSideBySide ----------------------------
(***************************************************************************)
(* Four components that share nothing, side by side for TLC: one moves     *)
(* while the others are where they started, so that the states add up and  *)
(* one run explores them all.                                              *)
(*   - StepUp: two failures lock for three steps, over seven steps, so     *)
(*     that a lock begins, is tried, ends and begins again, and a restart. *)
(*   - JsonRpcSession: three channels in batches of two, two replays.      *)
(*   - OiOutbox: three rows, an outbox of one, batches of one.             *)
(*   - PaperDesk: two clients, two requests, one trade, the daily run, and *)
(*     one death.                                                          *)
(***************************************************************************)
EXTENDS StepUp, JsonRpcSession, OiOutbox, PaperDesk

CONSTANTS a, b, c, q1, q2, t1

SideBySideInit == Init /\ JRInit /\ OBInit /\ PDInit

SideBySideNext ==
    \/ JRInit /\ OBInit /\ PDInit /\ Next /\ UNCHANGED <<sessionVars, outboxVars, deskVars>>
    \/ Init /\ OBInit /\ PDInit /\ JRNext /\ UNCHANGED <<vars, outboxVars, deskVars>>
    \/ Init /\ JRInit /\ PDInit /\ OBNext /\ UNCHANGED <<vars, sessionVars, deskVars>>
    \/ Init /\ JRInit /\ OBInit /\ PDNext /\ UNCHANGED <<vars, sessionVars, outboxVars>>

SideBySideSpec ==
    /\ SideBySideInit /\ [][SideBySideNext]_<<vars, sessionVars, outboxVars, deskVars>>
    /\ JRFairness /\ OBFairness /\ PDFairness

\* The types of all four, and the failures a verifier keeps never exceed its limit.
TypesOK == TypeOK /\ JRTypeOK /\ OBTypeOK /\ PDTypeOK
=============================================================================

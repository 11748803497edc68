---------------------------- MODULE MCFeedDemand ----------------------------
(***************************************************************************)
(* Who keeps a chain alive, and whom the venue's feed serves: ChainLeases  *)
(* and VenueFeed for TLC, side by side.  Three sockets come and go on one  *)
(* chain with two runs of cleanup at once; two callers take and release    *)
(* two requests of a venue that refuses once, whose worker dies twice.     *)
(*                                                                         *)
(* The two share no state: each moves while the other is where it started, *)
(* so that the states add up and one run explores both.                    *)
(***************************************************************************)
EXTENDS ChainLeases, VenueFeed

CONSTANTS c1, c2, c3, k1, l1, l2, l3, l4, u1, u2, r1, r2

FeedDemandInit == Init /\ VFInit

FeedDemandNext ==
    \/ Next /\ VFInit /\ UNCHANGED feedVars
    \/ VFNext /\ Init /\ UNCHANGED vars

FeedDemandSpec ==
    /\ FeedDemandInit /\ [][FeedDemandNext]_<<vars, feedVars>>
    /\ LeaseFairness /\ VFFairness
=============================================================================

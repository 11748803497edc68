---------------------------- MODULE MCChainLeases ----------------------------
(***************************************************************************)
(* ChainLeases for TLC: three sockets that come and go on one chain, or    *)
(* two on two chains, with two runs of cleanup at once.                    *)
(***************************************************************************)
EXTENDS ChainLeases

CONSTANTS c1, c2, c3, k1, k2, l1, l2, l3, l4
=============================================================================

--------------------------- MODULE MCChainRuntime ---------------------------
(***************************************************************************)
(* ChainRuntime for TLC: two contracts, on one venue or on two.            *)
(***************************************************************************)
EXTENDS ChainRuntime

CONSTANTS s1, s2, v1, v2

OneVenue == [s \in Symbols |-> v1]
TwoVenues == [s \in Symbols |-> IF s = s1 THEN v1 ELSE v2]
=============================================================================

---------------------------- MODULE MCChainStream ----------------------------
(***************************************************************************)
(* ChainStream for TLC: two contracts, three events of the runtime, among  *)
(* them builds with and without the second contract, a socket that holds   *)
(* diffs back from its second frame, and one socket lost or stalled.       *)
(***************************************************************************)
EXTENDS ChainStream

CONSTANTS s1, s2

ThreeLoads ==
    {[s \in Symbols |-> 1], [s \in Symbols |-> 2], [s \in Symbols |-> IF s = s1 THEN 1 ELSE None]}
=============================================================================

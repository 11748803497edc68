--------------------------- MODULE MCFundedEngine ---------------------------
(***************************************************************************)
(* FundedEngine for TLC: three run ids under a limit of one, two calls in  *)
(* flight, two settlement days, and the tests' template in tens of dollars *)
(* with a deposit of 500: an account can lose 300, stay or win 100.        *)
(***************************************************************************)
EXTENDS FundedEngine, TLC

CONSTANTS r1, r2, r3, c1, c2

MCProfits == {-30, 0, 10}

\* No property is a liveness property.
Symmetric == Permutations({r1, r2, r3}) \cup Permutations({c1, c2})
=============================================================================

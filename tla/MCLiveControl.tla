--------------------------- MODULE MCLiveControl ---------------------------
(***************************************************************************)
(* LiveControl for TLC: two actors, of which one was never given a trading *)
(* key, two calls in flight, a journal that may refuse any append, and one *)
(* restart.                                                                *)
(***************************************************************************)
EXTENDS LiveControl

CONSTANTS a1, a2, r1, r2

=============================================================================

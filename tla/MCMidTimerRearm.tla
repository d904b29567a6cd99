--------------------------- MODULE MCMidTimerRearm ---------------------------
(* MidTimerRearm on a small instance. *)
EXTENDS MidTimerRearm

CONSTANTS f1, c1
=============================================================================

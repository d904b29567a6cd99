----------------------------- MODULE MCMidTimer -----------------------------
(* MidTimer on small instances. *)
EXTENDS MidTimer, TLC

CONSTANTS f1, f2, c1, c2

MCSymmetry == Permutations(Funcs) \cup Permutations(Clients)
=============================================================================

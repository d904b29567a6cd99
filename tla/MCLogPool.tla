------------------------------ MODULE MCLogPool ------------------------------
(* LogPool on small instances. *)
EXTENDS LogPool
=============================================================================

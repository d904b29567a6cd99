-------------------------- MODULE MCUpgradeManager --------------------------
(* UpgradeManager on small instances. *)
EXTENDS UpgradeManager
=============================================================================

---------------------------- MODULE MCMessageLoop ----------------------------
(* MessageLoop on small instances. *)
EXTENDS MessageLoop, TLC

CONSTANTS s1, s2, m1, m2, m3, h1, h2, o1, r1

MCSymmetry == Permutations(Senders) \cup Permutations(Static) \cup Permutations(Heap) \cup Permutations(Handlers)
==============================================================================

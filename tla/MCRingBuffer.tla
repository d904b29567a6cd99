---------------------------- MODULE MCRingBuffer ----------------------------
(* RingBuffer on small instances. *)
EXTENDS RingBuffer
=============================================================================

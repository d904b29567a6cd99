----------------------------- MODULE ByteStream -----------------------------
(***************************************************************************)
(* What a RingBuffer promises its two threads: a pipe of bytes, which are  *)
(* read in the order of writing, each once, with no more than Capacity of  *)
(* them on the way.                                                        *)
(***************************************************************************)
EXTENDS Naturals

CONSTANT Capacity

VARIABLES written, taken   \* bytes submitted by the writer, by the reader

BSInit == written = 0 /\ taken = 0

Write == /\ written' \in written .. taken + Capacity
         /\ UNCHANGED taken

Read == /\ taken' \in taken .. written
        /\ UNCHANGED written

BSSpec == BSInit /\ [][Write \/ Read]_<<written, taken>>
=============================================================================

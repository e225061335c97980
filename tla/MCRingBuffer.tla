---------------------------- MODULE MCRingBuffer ----------------------------
(***************************************************************************)
(* Small instances of RingBuffer: one reader that wants one of two         *)
(* channels, and several writers.                                          *)
(***************************************************************************)
EXTENDS RingBuffer

CONSTANTS r1, wanted

OneChannel == [r \in Reader |-> {wanted}]
=============================================================================

---------------------------- MODULE MCRustClient ----------------------------
(***************************************************************************)
(* Instances of RustClient for TLC.                                         *)
(***************************************************************************)
EXTENDS RustClient

MCAttempts == 1 .. 2
MCLoops == 3 .. 6
=============================================================================

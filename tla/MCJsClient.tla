----------------------------- MODULE MCJsClient -----------------------------
(***************************************************************************)
(* Small instances of JsClient: four messages of which the first and the   *)
(* last share a channel, and three on two channels, of which the first and *)
(* the last share one.                                                     *)
(***************************************************************************)
EXTENDS JsClient

CONSTANTS c1, c2, c3

SharedByTwo == <<c1, c2, c3, c1>>
SharedByEnds == <<c1, c2, c1>>
=============================================================================

-------------------------- MODULE MCJsSubscriptions --------------------------
(***************************************************************************)
(* Instances of JsSubscriptions for TLC: a caller, and a component that may *)
(* be on the caller's pattern or on one that the server refuses.            *)
(***************************************************************************)
EXTENDS JsSubscriptions, TLC

CONSTANTS p1, q1, c1, h1

UsedPatterns == (c1 :> {p1}) @@ (h1 :> {p1, q1})
=============================================================================

-------------------------- MODULE MCRustOperations --------------------------
(***************************************************************************)
(* Instances of RustOperations for TLC: a subscriber, and a caller that     *)
(* publishes, pings and makes requests, with replies on the pattern that    *)
(* the subscriber uses too.                                                 *)
(***************************************************************************)
EXTENDS RustOperations, TLC

CONSTANTS k1, k2, p1

Roles == (k1 :> {"subscribe"}) @@ (k2 :> {"publish", "ping", "request"})
SharedPattern == [c \in Callers |-> {p1}]

\* Whether a request comes back to the client that has a subscription for replies.
RepliesApart == [p \in Pattern |-> {}]
RepliesOnRequests == [p \in Pattern |-> Channel]
=============================================================================

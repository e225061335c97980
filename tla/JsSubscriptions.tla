--------------------------- MODULE JsSubscriptions ---------------------------
(***************************************************************************)
(* Subscriptions of the JavaScript client (client-js/src/client.ts) and the *)
(* components that use them (react.ts): who has a handler, who waits for an *)
(* answer, and what the server has been asked.                              *)
(*                                                                          *)
(* One thread runs it, as in JsClient, and a request is handed to the       *)
(* stream in the step that changes the table of handlers.  A request waits  *)
(* under its pattern, from when the stream has taken it; its timer is never *)
(* cleared, and resubscribe() goes through the table while others change it.*)
(* Dialling is JsClient's subject: here a connection is up, or is not.      *)
(*                                                                          *)
(* Nothing frames what the client writes (client.ts:365-372), and the server*)
(* takes what one read returns for one message: a read with several of them *)
(* in it, or with a part of one, is lost, and so is an answer for which the *)
(* session's queue has no room.                                             *)
(***************************************************************************)
EXTENDS Integers, Sequences, FiniteSetsExt, SequencesExt

CONSTANTS
    User,        \* callers of subscribe(), one subscription each at a time
    Component,   \* those of them that are hooks: useSubscription, useLatestMessage
    Pattern,
    Uses,        \* the patterns that each of them subscribes to, one at a time
    Granted,     \* the patterns that the server's grants allow
    Nobody,      \* who hears of a request whose component has gone; no pattern
    MaxRequests, \* bound: requests made
    MaxConnects, \* bound: connections
    MaxLosses    \* bound: connections lost

ASSUME SubscriptionsAssumption ==
    /\ IsFiniteSet(User) /\ \A u \in User : u \notin Nat
    /\ Component \subseteq User /\ Granted \subseteq Pattern
    /\ Uses \in [User -> SUBSET Pattern]
    /\ Nobody \notin User \cup Pattern \cup Nat
    /\ MaxRequests \in Nat /\ MaxConnects \in Nat /\ MaxLosses \in Nat

VARIABLES
    connected,
    stage,      \* per user: nothing, mounted without a subscription, asking, holding one,
                \* and the pattern it is on
    left,       \* per pattern, handlers that nobody can remove any more
    requests,   \* the calls of doSubscribe and doUnsubscribe, in order
    pending,    \* pendingSubscribes and pendingUnsubscribes: the request that waits, or 0
    loops,      \* the calls of resubscribe(), the last one for this connection
    wire,       \* requests on their way to the server
    inbox,      \* answers on their way back
    server,     \* the patterns the server has subscribed this session to
    robbed,     \* history: requests whose entry was replaced or timed out for another
    confirmed,  \* history: per key, what the server has carried out
    unread,     \* history: patterns whose last request to arrive was lost in a read
    losses

tables == <<stage, left, requests, pending, loops>>
net == <<wire, inbox, server, confirmed, unread>>
vars == <<connected, tables, net, robbed, losses>>

Key == {"subscribe", "unsubscribe"} \X Pattern

Off == [at |-> "none", on |-> Nobody]

Init ==
    /\ connected = FALSE
    /\ stage = [u \in User |-> Off]
    /\ left = [p \in Pattern |-> 0]
    /\ requests = <<>> /\ loops = <<>>
    /\ pending = [k \in Key |-> 0]
    /\ wire = <<>> /\ inbox = <<>> /\ server = {}
    /\ robbed = {} /\ unread = {}
    /\ confirmed = [k \in Key |-> 0]
    /\ losses = 0

\* The handlers of a pattern; without any it has no entry in `subscriptions`.
Holders(p) == {u \in User : stage[u].on = p /\ stage[u].at \in {"asking", "held"}}
Handlers(p) == Cardinality(Holders(p)) + left[p]

\* What the code awaits and knows by now goes on before the next event.
Calm == \A n \in DOMAIN loops : loops[n].at # "next"

-----------------------------------------------------------------------------
(* Requests                                                                 *)

Asked(key, by) ==
    /\ Len(requests) < MaxRequests
    /\ requests' = Append(requests, [key |-> key, by |-> by, at |-> "sending", timer |-> FALSE])

\* The promises of the requests in is are settled: the callers and the loops
\* that wait for them go on.  A handler stays in the table when its caller fails.
Ends(is, outcome) == [i \in DOMAIN requests |->
    IF i \in is THEN [requests[i] EXCEPT !.at = outcome] ELSE requests[i]]

Open(is) == {i \in is : requests[i].at \in {"sending", "waiting"}}
Askers(is) == {u \in User : \E i \in Open(is) : requests[i].by = u /\ requests[i].key[1] = "subscribe"}

Resumed(is) == [n \in DOMAIN loops |->
    IF \E i \in Open(is) : requests[i].by = n THEN [loops[n] EXCEPT !.at = "next"] ELSE loops[n]]

Resolve(i) ==
    /\ requests' = Ends(Open({i}), "resolved")
    /\ loops' = Resumed({i})
    /\ stage' = [u \in User |-> IF u \in Askers({i}) THEN [stage[u] EXCEPT !.at = "held"] ELSE stage[u]]
    /\ UNCHANGED left

Reject(is, extra) ==
    /\ requests' = [i \in DOMAIN requests |->
           [Ends(Open(is), "rejected")[i] EXCEPT !.timer = @ /\ i \notin extra]]
    /\ loops' = Resumed(is)
    /\ stage' = [u \in User |->
           IF u \notin Askers(is) THEN stage[u]
           ELSE IF u \in Component THEN [stage[u] EXCEPT !.at = "mounted"] ELSE Off]
    /\ left' = [p \in Pattern |-> left[p] + Cardinality(Askers(is) \cap Holders(p))]

\* The stream takes a write: the request waits under its name, in the place of
\* one that waited there, and its timer is set.
Written(i) ==
    /\ Calm /\ requests[i].at = "sending"
    /\ \A j \in 1 .. (i - 1) : requests[j].at # "sending"
    /\ LET key == requests[i].key IN
          /\ robbed' = robbed \cup ({pending[key]} \ {0})
          /\ pending' = [pending EXCEPT ![key] = i]
          /\ wire' = Append(wire, key)
    /\ requests' = [requests EXCEPT ![i].at = "waiting", ![i].timer = TRUE]
    /\ UNCHANGED <<connected, stage, left, loops, inbox, server, confirmed, unread, losses>>

\* Timers fire in the order they were set.  One removes whatever waits under its
\* name, and rejects its own promise; without an entry it does nothing.
TimerFires(i) ==
    /\ Calm /\ requests[i].timer /\ \A j \in 1 .. (i - 1) : ~requests[j].timer
    /\ LET key == requests[i].key IN
          /\ Reject(IF pending[key] = 0 THEN {} ELSE {i}, {i})
          /\ pending' = [pending EXCEPT ![key] = 0]
          /\ robbed' = robbed \cup ({pending[key]} \ {0, i})
    /\ UNCHANGED <<connected, net, losses>>

\* The server takes requests in order.  It answers, if the session's queue has
\* room for that.
Serve ==
    /\ wire # <<>>
    /\ LET kind == Head(wire)[1]
           name == Head(wire)[2]
           ok == kind = "unsubscribe" \/ name \in Granted
       IN  /\ server' = IF kind = "unsubscribe" THEN server \ {name}
                        ELSE IF ok THEN server \cup {name} ELSE server
           /\ confirmed' = IF ok THEN [confirmed EXCEPT ![Head(wire)] = @ + 1] ELSE confirmed
           /\ inbox' \in {inbox, Append(inbox, [key |-> Head(wire), ok |-> ok])}
           /\ unread' = unread \ {name}
    /\ wire' = Tail(wire)
    /\ UNCHANGED <<connected, tables, robbed, losses>>

\* A request is lost with the read it arrived in; a read of several is as many
\* such steps.
GarbleRequests ==
    /\ wire # <<>>
    /\ wire' = Tail(wire)
    /\ unread' = unread \cup {Head(wire)[2]}
    /\ UNCHANGED <<connected, tables, inbox, server, confirmed, robbed, losses>>

\* Mutant: the error of an answer is not looked at.
ReceiveAnyAsOk ==
    /\ Calm /\ inbox # <<>>
    /\ LET i == pending[Head(inbox).key] IN
          IF i = 0 THEN UNCHANGED <<requests, loops, stage, left>> ELSE Resolve(i)
    /\ pending' = [pending EXCEPT ![Head(inbox).key] = 0]
    /\ inbox' = Tail(inbox)
    /\ UNCHANGED <<connected, wire, server, confirmed, unread, robbed, losses>>

\* handleMessage: an answer goes to whoever waits under its name.
Receive ==
    /\ Calm /\ inbox # <<>>
    /\ LET i == pending[Head(inbox).key] IN
          IF i = 0 THEN UNCHANGED <<requests, loops, stage, left>>
          ELSE IF Head(inbox).ok THEN Resolve(i) ELSE Reject({i}, {})
    /\ pending' = [pending EXCEPT ![Head(inbox).key] = 0]
    /\ inbox' = Tail(inbox)
    /\ UNCHANGED <<connected, wire, server, confirmed, unread, robbed, losses>>

-----------------------------------------------------------------------------
(* subscribe() and unsubscribe()                                            *)

\* An entry that is new is before every loop that has not ended, one that is
\* gone is not: the iterator of a Map is live.  Mutant: it goes through a copy.
SkipsNone(p) == loops

Visits(p) == [n \in DOMAIN loops |-> [loops[n] EXCEPT !.todo = @ \cup {p}]]
Skips(p) == [n \in DOMAIN loops |-> [loops[n] EXCEPT !.todo = @ \ {p}]]

\* Only the first handler of a pattern is reason to ask the server.
Subscribe(u, p) ==
    /\ IF connected /\ Handlers(p) = 0
       THEN Asked(<<"subscribe", p>>, u) /\ stage' = [stage EXCEPT ![u] = [at |-> "asking", on |-> p]]
       ELSE stage' = [stage EXCEPT ![u] = [at |-> "held", on |-> p]] /\ UNCHANGED requests
    /\ loops' = IF Handlers(p) = 0 THEN Visits(p) ELSE loops
    /\ UNCHANGED <<connected, left, pending, net, robbed, losses>>

\* Mutant: the server is told whenever a handler goes.
UnsubscribeAlways(u) ==
    LET p == stage[u].on IN
    /\ stage[u].at = "held"
    /\ IF connected THEN Asked(<<"unsubscribe", p>>, Nobody) ELSE UNCHANGED requests
    /\ stage' = [stage EXCEPT ![u] = Off]
    /\ loops' = IF Handlers(p) = 1 THEN Skips(p) ELSE loops
    /\ UNCHANGED <<connected, left, pending, net, robbed, losses>>

\* The handler goes, and with the last one the entry and the subscription.
Unsubscribe(u) ==
    LET p == stage[u].on IN
    /\ stage[u].at = "held"
    /\ IF connected /\ Handlers(p) = 1
       THEN Asked(<<"unsubscribe", p>>, Nobody)
       ELSE UNCHANGED requests
    /\ stage' = [stage EXCEPT ![u] = Off]
    /\ loops' = IF Handlers(p) = 1 THEN Skips(p) ELSE loops
    /\ UNCHANGED <<connected, left, pending, net, robbed, losses>>

CallerSubscribes(u, p) == u \notin Component /\ stage[u] = Off /\ Subscribe(u, p)

\* The effect of a hook runs once, when its component mounts: not connected, it
\* does nothing, and the state is not among its dependencies.  Another pattern
\* is another mount.
Mount(u, p) ==
    /\ u \in Component /\ stage[u] = Off
    /\ IF connected THEN Subscribe(u, p)
       ELSE /\ stage' = [stage EXCEPT ![u] = [at |-> "mounted", on |-> p]]
            /\ UNCHANGED <<connected, left, requests, pending, loops, net, robbed, losses>>

\* Its cleanup has something to unsubscribe when subscribe() has resolved by then.
UnmountEarly(u) ==
    /\ u \in Component /\ stage[u].at \in {"mounted", "asking"}
    /\ left' = IF stage[u].at = "asking" THEN [left EXCEPT ![stage[u].on] = @ + 1] ELSE left
    /\ stage' = [stage EXCEPT ![u] = Off]
    /\ requests' = [i \in DOMAIN requests |->
           IF requests[i].by = u THEN [requests[i] EXCEPT !.by = Nobody] ELSE requests[i]]
    /\ UNCHANGED <<connected, pending, loops, net, robbed, losses>>

-----------------------------------------------------------------------------
(* Connections                                                              *)

Connect ==
    /\ Calm /\ ~connected /\ Len(loops) < MaxConnects
    /\ connected' = TRUE
    /\ loops' = Append(loops, [todo |-> {p \in Pattern : Handlers(p) > 0}, at |-> "next"])
    /\ UNCHANGED <<stage, left, requests, pending, net, robbed, losses>>

\* resubscribe() asks for one pattern after the other, whatever comes of it.
\* Without a stream each call throws at once.
LoopAsks(n, p) ==
    /\ loops[n].at = "next" /\ p \in loops[n].todo /\ connected
    /\ Asked(<<"subscribe", p>>, n)
    /\ loops' = [loops EXCEPT ![n] = [todo |-> @.todo \ {p}, at |-> "waiting"]]
    /\ UNCHANGED <<connected, stage, left, pending, net, robbed, losses>>

LoopEnds(n) ==
    /\ loops[n].at = "next" /\ (loops[n].todo = {} \/ ~connected)
    /\ loops' = [loops EXCEPT ![n] = [todo |-> {}, at |-> "done"]]
    /\ UNCHANGED <<connected, stage, left, requests, pending, net, robbed, losses>>

\* Mutant: cleanup() rejects those who wait for a subscription only.
LoseSubscribersOnly ==
    /\ Calm /\ connected /\ losses < MaxLosses
    /\ connected' = FALSE /\ losses' = losses + 1
    /\ LET waits(i) == requests[i].key[1] = "subscribe" /\ pending[requests[i].key] = i IN
          Reject({i \in DOMAIN requests : requests[i].at = "sending" \/ waits(i)}, {})
    /\ pending' = [k \in Key |-> 0]
    /\ wire' = <<>> /\ inbox' = <<>> /\ server' = {} /\ unread' = {}
    /\ UNCHANGED <<robbed, confirmed>>

\* cleanup(), whoever calls it: the writes fail with the stream, those who wait
\* are rejected, and the server forgets the session.
Lose ==
    /\ Calm /\ connected /\ losses < MaxLosses
    /\ connected' = FALSE /\ losses' = losses + 1
    /\ Reject({i \in DOMAIN requests :
                 requests[i].at = "sending" \/ pending[requests[i].key] = i}, {})
    /\ pending' = [k \in Key |-> 0]
    /\ wire' = <<>> /\ inbox' = <<>> /\ server' = {} /\ unread' = {}
    /\ UNCHANGED <<robbed, confirmed>>

-----------------------------------------------------------------------------
Acts(u) ==
    \/ \E p \in Uses[u] : CallerSubscribes(u, p) \/ Mount(u, p)
    \/ Unsubscribe(u) \/ UnmountEarly(u)

Next ==
    \/ \E u \in User : Acts(u)
    \/ \E i \in DOMAIN requests : Written(i) \/ TimerFires(i)
    \/ Serve \/ GarbleRequests \/ Receive
    \/ Connect \/ Lose
    \/ \E n \in DOMAIN loops : LoopEnds(n) \/ \E p \in Pattern : LoopAsks(n, p)

Spec == Init /\ [][Next]_vars

-----------------------------------------------------------------------------
(* Properties                                                               *)

\* What the server will do about a pattern in the end: the last request in line
\* about it says so, those still to be written behind those on the wire.
Sending(p) == {i \in DOMAIN requests : requests[i].at = "sending" /\ requests[i].key[2] = p}
OnWire(p) == {i \in DOMAIN wire : wire[i][2] = p}
WillBeServed(p) ==
    IF Sending(p) # {} THEN requests[Max(Sending(p))].key[1] = "subscribe"
    ELSE IF OnWire(p) # {} THEN wire[Max(OnWire(p))][1] = "subscribe"
    ELSE p \in server

\* The server could not read the last request about a pattern, and none follows.
LastUnread(p) == Sending(p) = {} /\ OnWire(p) = {} /\ p \in unread

Resubscribed == connected /\ Last(loops).at = "done"

\* Once a connection's resubscribe() has ended, the server has subscribed the
\* session to a granted pattern that has handlers, or has that request before it
\* and no later one to undo it: whoever came and went meanwhile, timed out or
\* was answered for another (client.ts:181-213, 313-321).  But when the server
\* could not read the last request about it, nobody sends another one
\* (transport.rs:305-315).
HandlersServed ==
    Resubscribed =>
        \A p \in Pattern \cap Granted : Handlers(p) > 0 => WillBeServed(p) \/ LastUnread(p)

\* And to a pattern without handlers it is not: an unsubscribe() is not undone by
\* a resubscription that goes on after it (client.ts:200-210), unless it was that
\* request that the server could not read.
IdleNotServed ==
    Resubscribed =>
        \A p \in Pattern : Handlers(p) = 0 => ~WillBeServed(p) \/ LastUnread(p)

\* A request that waits has its entry in the table, or has lost it to another
\* request for the same name: nothing else forgets a promise (client.ts:283-311,
\* 403-429, 577-586).
NoneForgotten ==
    \A i \in DOMAIN requests :
        requests[i].at = "waiting" => pending[requests[i].key] = i \/ i \in robbed

\* As many requests resolve as the server has carried out under that name, though
\* answers carry nothing but the name, come late, and meet others' entries.
ResolvedIsConfirmed ==
    \A k \in Key :
        Cardinality({i \in DOMAIN requests : requests[i].key = k /\ requests[i].at = "resolved"})
            <= confirmed[k]

=============================================================================

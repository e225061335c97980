------------------------------- MODULE Broker -------------------------------
(***************************************************************************)
(* The server: sessions (src/src/server/transport.rs, and websocket.rs,    *)
(* whose handler is the same), the registry of connections (connections.rs)*)
(* and the router (router.rs).                                             *)
(*                                                                         *)
(* Every session is a tokio task that authenticates, registers its         *)
(* connection and then handles one request at a time, and a second task    *)
(* that forwards the connection's bounded queue to the client.  Sessions   *)
(* share the registry, its prefix index and each other's queues; nothing   *)
(* is locked from one access to the next, so each access to shared state   *)
(* is an action of its own.  A Caller is a task that uses                  *)
(* WebTransportServer::publish, which routes without a session.            *)
(***************************************************************************)
EXTENDS Channels, FiniteSets

CONSTANTS
  Session,     \* client sessions
  Caller,      \* tasks that publish through the server's API
  Chan,        \* channel names in use
  Pat,         \* patterns clients ask for
  Malformed,   \* a channel or pattern text that does not parse
  Identity,    \* what a token can authenticate as
  Requests,    \* kinds of request each client sends (a bound on the runs)
  Cap,         \* capacity of a connection's queue (100 in the code)
  MaxReq,      \* requests handled per session (a bound on the runs)
  MaxApi,      \* messages published per caller (a bound on the runs)
  None

ASSUME BrokerAssumption ==
  /\ Session \cap Caller = {}
  /\ Chan \subseteq Name
  /\ Pat \subseteq Pattern
  /\ Identity \subseteq [admin : BOOLEAN, read : SUBSET Pattern, write : SUBSET Pattern]
  /\ Cap \in Nat \ {0}
  /\ MaxReq \in Nat /\ MaxApi \in 0..MaxReq
  /\ Malformed \notin Chan \cup Pat

Actor  == Session \cup Caller
Prefix == {p.prefix : p \in Pat}

RoutedKind == {"Message", "YjsUpdate", "YjsAwareness"}
ReplyKind  == {"AuthOk", "Subscribed", "SubscribeError", "Unsubscribed",
               "Published", "PublishError", "YjsSyncResponse", "Pong"}

(* OutboundMessage.  The payload is abstracted to the actor whose request  *)
(* the message stems from and that request's number.                       *)
Routed   == [kind : RoutedKind, topic : Chan, src : Actor, seq : 1..MaxReq]
Reply    == [kind : ReplyKind, topic : Chan \cup Pat \cup {Malformed, None},
             src : Session, seq : 0..MaxReq]
Outbound == Routed \cup Reply

ASSUME NoneAssumption == None \notin Outbound

VARIABLES
  phase,        \* where handle_session is
  ident,        \* client_conn.is_admin and client_conn.grants
  subs,         \* client_conn.subscriptions
  connections,  \* ConnectionManager.connections
  index,        \* ConnectionManager.prefix_index
  out,          \* the connection's mpsc queue
  fwd,          \* its forwarding task
  hand,         \* the message that task has taken and not yet written
  wire,         \* what the client has been sent
  pc,           \* where an actor's request handler is
  job,          \* the message it routes
  reply,        \* the reply it will send when done, None for no reply
  todo,         \* registered when its scan began: the scan has to visit them
  seen,         \* visited by its scan
  targets,      \* subscribers collected by its scan, not yet sent to
  reqs,         \* requests handled so far
  must, may,    \* history: interested throughout / at some time in the route
  lost          \* history: refused the message (queue full or closed)

sessionVars == <<phase, ident, subs, connections, index>>
queueVars   == <<out, fwd, hand, wire>>
routeVars   == <<job, todo, seen, targets>>
history     == <<must, may, lost>>
vars == <<sessionVars, queueVars, pc, reply, reqs, routeVars, history>>

-----------------------------------------------------------------------------
(* Permissions, and who should receive.                                    *)

Nobody == [admin |-> FALSE, read |-> {}, write |-> {}]

(* GrantSet::allows *)
Allows(patterns, ch) == \E g \in patterns : Matches(g, ch)

MayPublish(s, ch)  == ident[s].admin \/ Allows(ident[s].write, ch)
(* A fault: grants of either kind admit a subscription.                    *)
MaySubscribeAnyGrant(s, p) ==
  ident[s].admin \/ \E g \in ident[s].read \cup ident[s].write : Covers(g, p)
MaySubscribe(s, p) == ident[s].admin \/ \E g \in ident[s].read : Covers(g, p)

(* ClientConnection::should_receive *)
ShouldReceive(s, ch) == Allows(subs[s], ch)

Interested(ch) == {s \in connections : ShouldReceive(s, ch)}

-----------------------------------------------------------------------------
(* ClientConnection::send is try_send: it never waits, and fails when the  *)
(* queue is full or the forwarding task has dropped the receiver.          *)

(* A fault: an unbounded queue.                                            *)
AcceptsUnbounded(s) == fwd[s] = "running"
Accepts(s) == fwd[s] = "running" /\ Len(out[s]) < Cap

TrySend(s, m) == out' = IF Accepts(s) THEN [out EXCEPT ![s] = Append(@, m)] ELSE out

-----------------------------------------------------------------------------
Init ==
  /\ phase = [s \in Session |-> "new"]
  /\ ident = [s \in Session |-> Nobody]
  /\ subs = [s \in Session |-> {}]
  /\ connections = {}
  /\ index = [x \in Prefix |-> {}]
  /\ out  = [s \in Session |-> <<>>]
  /\ fwd  = [s \in Session |-> "none"]
  /\ hand = [s \in Session |-> <<>>]
  /\ wire = [s \in Session |-> <<>>]
  /\ pc = [a \in Actor |-> "idle"]
  /\ job = [a \in Actor |-> None]
  /\ reply = [a \in Actor |-> None]
  /\ todo = [a \in Actor |-> {}]
  /\ seen = [a \in Actor |-> {}]
  /\ targets = [a \in Actor |-> <<>>]
  /\ reqs = [a \in Actor |-> 0]
  /\ must = [a \in Actor |-> {}]
  /\ may  = [a \in Actor |-> {}]
  /\ lost = [a \in Actor |-> {}]

-----------------------------------------------------------------------------
(* A session's life.                                                       *)

(* The token is good (and, for a role, the store has answered): AuthOk is  *)
(* written to the client before the connection is registered.              *)
Authenticate(s, id) ==
  /\ phase[s] = "new"
  /\ phase' = [phase EXCEPT ![s] = "greeted"]
  /\ ident' = [ident EXCEPT ![s] = id]
  /\ wire'  = [wire EXCEPT ![s] =
                 Append(@, [kind |-> "AuthOk", topic |-> None, src |-> s, seq |-> 0])]
  /\ UNCHANGED <<subs, connections, index, out, fwd, hand, pc, reply, reqs, routeVars, history>>

(* A bad token, an unknown role, a first message that is not Auth, or a    *)
(* connection lost before AuthOk was written.                              *)
AuthFails(s) ==
  /\ phase[s] = "new"
  /\ phase' = [phase EXCEPT ![s] = "closed"]
  /\ UNCHANGED <<ident, subs, connections, index, queueVars, pc, reply, reqs, routeVars, history>>

(* connections.add, and the forwarding task is spawned.                    *)
Register(s) ==
  /\ phase[s] = "greeted"
  /\ phase' = [phase EXCEPT ![s] = "open"]
  /\ connections' = connections \cup {s}
  /\ fwd' = [fwd EXCEPT ![s] = "running"]
  /\ UNCHANGED <<ident, subs, index, out, hand, wire, pc, reply, reqs, routeVars, history>>

(* The read loop ends, between two requests: ConnectionManager::remove     *)
(* takes the connection out of the registry ...                            *)
Disconnect(s) ==
  /\ phase[s] = "open" /\ pc[s] = "idle"
  /\ phase' = [phase EXCEPT ![s] = "removed"]
  /\ connections' = connections \ {s}
  /\ must' = [a \in Actor |-> must[a] \ {s}]
  /\ UNCHANGED <<ident, subs, index, queueVars, pc, reply, reqs, routeVars, may, lost>>

(* ... and then its ID out of the index, under the patterns it is still    *)
(* subscribed to; the forwarding task is told to abort.                    *)
CleanIndex(s) ==
  /\ phase[s] = "removed"
  /\ phase' = [phase EXCEPT ![s] = "closed"]
  /\ index' = [x \in Prefix |->
                 IF \E p \in subs[s] : p.prefix = x THEN index[x] \ {s} ELSE index[x]]
  /\ UNCHANGED <<ident, subs, connections, queueVars, pc, reply, reqs, routeVars, history>>

-----------------------------------------------------------------------------
(* handle_client_message.  A request that has no effect (a second Auth, a  *)
(* malformed name in Unsubscribe, YjsAwareness or YjsSyncRequest, bytes    *)
(* that are not a request) leaves every variable as it is: a stutter.      *)

Ready(s, request) ==
  /\ request \in Requests[s]
  /\ phase[s] = "open" /\ pc[s] = "idle"
  /\ reqs[s] < MaxReq
  /\ reqs' = [reqs EXCEPT ![s] = @ + 1]

WillReply(s, kind, topic) ==
  reply' = [reply EXCEPT ![s] = [kind |-> kind, topic |-> topic,
                                 src |-> s, seq |-> reqs[s] + 1]]

Goto(a, label) == pc' = [pc EXCEPT ![a] = label]

(* ClientConnection::subscribe, when a read grant covers the pattern.      *)
Subscribe(s, p) ==
  /\ Ready(s, "Subscribe")
  /\ MaySubscribe(s, p)
  /\ subs' = [subs EXCEPT ![s] = @ \cup {p}]
  /\ WillReply(s, "Subscribed", p)
  /\ Goto(s, "index")
  /\ may' = [a \in Actor |-> IF job[a] # None /\ Matches(p, job[a].topic)
                             THEN may[a] \cup {s} ELSE may[a]]
  /\ UNCHANGED <<phase, ident, connections, index, queueVars, routeVars, must, lost>>

(* ConnectionManager::index_subscription *)
IndexSubscription(s) ==
  /\ pc[s] = "index"
  /\ index' = [index EXCEPT ![reply[s].topic.prefix] = @ \cup {s}]
  /\ Goto(s, "reply")
  /\ UNCHANGED <<phase, ident, subs, connections, queueVars, reply, reqs, routeVars, history>>

SubscribeRefused(s, p) ==
  /\ Ready(s, "Subscribe")
  /\ p # Malformed => ~MaySubscribe(s, p)
  /\ WillReply(s, "SubscribeError", p)
  /\ Goto(s, "reply")
  /\ UNCHANGED <<sessionVars, queueVars, routeVars, history>>

(* A fault: the pattern's index entry goes with it, although another       *)
(* subscription may have the same prefix.                                  *)
UnsubscribeUnindexing(s, p) ==
  /\ Ready(s, "Unsubscribe")
  /\ subs' = [subs EXCEPT ![s] = @ \ {p}]
  /\ index' = [index EXCEPT ![p.prefix] = @ \ {s}]
  /\ WillReply(s, "Unsubscribed", p)
  /\ Goto(s, "reply")
  /\ UNCHANGED <<phase, ident, connections, queueVars, routeVars, history>>

(* The index is left alone.                                                *)
Unsubscribe(s, p) ==
  /\ Ready(s, "Unsubscribe")
  /\ subs' = [subs EXCEPT ![s] = @ \ {p}]
  /\ WillReply(s, "Unsubscribed", p)
  /\ Goto(s, "reply")
  /\ must' = [a \in Actor |-> IF job[a] # None /\ ~Allows(subs[s] \ {p}, job[a].topic)
                              THEN must[a] \ {s} ELSE must[a]]
  /\ UNCHANGED <<phase, ident, connections, index, queueVars, routeVars, may, lost>>

-----------------------------------------------------------------------------
(* TopicRouter::route, up to its first access to the registry.             *)

StartRoute(a, kind, ch) ==
  /\ Goto(a, "scan")
  /\ job'  = [job EXCEPT ![a] = [kind |-> kind, topic |-> ch, src |-> a, seq |-> reqs[a] + 1]]
  /\ todo' = [todo EXCEPT ![a] = connections]
  /\ must' = [must EXCEPT ![a] = Interested(ch)]
  /\ may'  = [may EXCEPT ![a] = Interested(ch)]
  /\ UNCHANGED <<sessionVars, queueVars, seen, targets, lost>>

(* A fault: Published is sent before the message is routed.                *)
PublishAcksFirst(s, kind, ch) ==
  /\ Ready(s, kind) /\ kind \in {"Message", "YjsUpdate"} /\ MayPublish(s, ch)
  /\ TrySend(s, [kind |-> "Published", topic |-> ch, src |-> s, seq |-> reqs[s] + 1])
  /\ Goto(s, "scan")
  /\ job'  = [job EXCEPT ![s] = [kind |-> kind, topic |-> ch, src |-> s, seq |-> reqs[s] + 1]]
  /\ todo' = [todo EXCEPT ![s] = connections]
  /\ must' = [must EXCEPT ![s] = Interested(ch)]
  /\ may'  = [may EXCEPT ![s] = Interested(ch)]
  /\ UNCHANGED <<sessionVars, fwd, hand, wire, reply, seen, targets, lost>>

(* Publish and YjsUpdate: the same handler, but for the message's kind.    *)
Publish(s, kind, ch) ==
  /\ Ready(s, kind) /\ kind \in {"Message", "YjsUpdate"}
  /\ MayPublish(s, ch)
  /\ WillReply(s, "Published", ch)
  /\ StartRoute(s, kind, ch)

PublishRefused(s, kind, ch) ==
  /\ Ready(s, kind) /\ kind \in {"Message", "YjsUpdate"}
  /\ ch # Malformed => ~MayPublish(s, ch)
  /\ WillReply(s, "PublishError", ch)
  /\ Goto(s, "reply")
  /\ UNCHANGED <<sessionVars, queueVars, routeVars, history>>

(* No permission is asked for, and no reply is sent.                       *)
YjsAwareness(s, ch) ==
  /\ Ready(s, "YjsAwareness")
  /\ StartRoute(s, "YjsAwareness", ch)
  /\ UNCHANGED reply

(* Ping, and YjsSyncRequest, which echoes the state vector to its sender.  *)
Ping(s) ==
  /\ Ready(s, "Ping")
  /\ WillReply(s, "Pong", None)
  /\ Goto(s, "reply")
  /\ UNCHANGED <<sessionVars, queueVars, routeVars, history>>

YjsSyncRequest(s, ch) ==
  /\ Ready(s, "YjsSyncRequest")
  /\ WillReply(s, "YjsSyncResponse", ch)
  /\ Goto(s, "reply")
  /\ UNCHANGED <<sessionVars, queueVars, routeVars, history>>

(* The reply goes through the same bounded queue, and may be dropped.      *)
SendReply(s) ==
  /\ pc[s] = "reply"
  /\ TrySend(s, reply[s])
  /\ reply' = [reply EXCEPT ![s] = None]
  /\ Goto(s, "idle")
  /\ UNCHANGED <<sessionVars, fwd, hand, wire, reqs, routeVars, history>>

(* WebTransportServer::publish; a malformed channel is an error at once.   *)
ApiPublish(k, ch) ==
  /\ pc[k] = "idle" /\ reqs[k] < MaxApi
  /\ reqs' = [reqs EXCEPT ![k] = @ + 1]
  /\ StartRoute(k, "Message", ch)
  /\ UNCHANGED reply

-----------------------------------------------------------------------------
(* TopicRouter::route.  ConnectionManager::find_subscribers iterates over  *)
(* a sharded map while others insert into it and remove from it: it visits *)
(* every connection that stays registered, each one once, in any order; a  *)
(* connection that joins meanwhile is visited or not.                      *)

(* A fault: the prefix index is asked, which keeps what was unsubscribed.   *)
VisitByIndex(a, s) ==
  /\ pc[a] = "scan"
  /\ s \in connections \ seen[a]
  /\ seen' = [seen EXCEPT ![a] = @ \cup {s}]
  /\ targets' = IF \E p \in Pat : s \in index[p.prefix] /\ Matches(p, job[a].topic)
                THEN [targets EXCEPT ![a] = Append(@, s)] ELSE targets
  /\ UNCHANGED <<sessionVars, queueVars, pc, reply, reqs, job, todo, history>>

Visit(a, s) ==
  /\ pc[a] = "scan"
  /\ s \in connections \ seen[a]
  /\ seen' = [seen EXCEPT ![a] = @ \cup {s}]
  /\ targets' = IF ShouldReceive(s, job[a].topic)
                THEN [targets EXCEPT ![a] = Append(@, s)] ELSE targets
  /\ UNCHANGED <<sessionVars, queueVars, pc, reply, reqs, job, todo, history>>

ScanDone(a) ==
  /\ pc[a] = "scan"
  /\ todo[a] \cap connections \subseteq seen[a]
  /\ Goto(a, "send")
  /\ UNCHANGED <<sessionVars, queueVars, reply, reqs, routeVars, history>>

(* Two faults: the first failed send ends the route; or a send waits for   *)
(* room in the queue, as send_async would.                                 *)
SendNextStopsAtFailure(a) ==
  /\ pc[a] = "send" /\ targets[a] # <<>>
  /\ TrySend(Head(targets[a]), job[a])
  /\ targets' = [targets EXCEPT ![a] = IF Accepts(Head(@)) THEN Tail(@) ELSE <<>>]
  /\ lost' = IF Accepts(Head(targets[a])) THEN lost
             ELSE [lost EXCEPT ![a] = @ \cup {Head(targets[a])}]
  /\ UNCHANGED <<sessionVars, fwd, hand, wire, pc, reply, reqs, job, todo, seen, must, may>>
SendNextWaits(a) ==
  /\ pc[a] = "send" /\ targets[a] # <<>>
  /\ fwd[Head(targets[a])] = "running" => Accepts(Head(targets[a]))
  /\ TrySend(Head(targets[a]), job[a])
  /\ targets' = [targets EXCEPT ![a] = Tail(@)]
  /\ UNCHANGED <<sessionVars, fwd, hand, wire, pc, reply, reqs, job, todo, seen, history>>

(* A collected connection is sent to even if it has unsubscribed or left;  *)
(* a failed send is only logged.                                           *)
SendNext(a) ==
  /\ pc[a] = "send" /\ targets[a] # <<>>
  /\ TrySend(Head(targets[a]), job[a])
  /\ targets' = [targets EXCEPT ![a] = Tail(@)]
  /\ lost' = IF Accepts(Head(targets[a])) THEN lost
             ELSE [lost EXCEPT ![a] = @ \cup {Head(targets[a])}]
  /\ UNCHANGED <<sessionVars, fwd, hand, wire, pc, reply, reqs, job, todo, seen, must, may>>

RouteDone(a) ==
  /\ pc[a] = "send" /\ targets[a] = <<>>
  /\ Goto(a, IF reply[a] = None THEN "idle" ELSE "reply")
  /\ job'  = [job EXCEPT ![a] = None]
  /\ todo' = [todo EXCEPT ![a] = {}]
  /\ seen' = [seen EXCEPT ![a] = {}]
  /\ must' = [must EXCEPT ![a] = {}]
  /\ may'  = [may EXCEPT ![a] = {}]
  /\ lost' = [lost EXCEPT ![a] = {}]
  /\ UNCHANGED <<sessionVars, queueVars, reply, reqs, targets>>

-----------------------------------------------------------------------------
(* The forwarding task: take a message (which frees its place in the       *)
(* queue), write it, stop for good at the first error.  The connection     *)
(* stays registered then, until its own read loop ends.                    *)

Take(s) ==
  /\ fwd[s] = "running" /\ hand[s] = <<>> /\ out[s] # <<>>
  /\ hand' = [hand EXCEPT ![s] = <<Head(out[s])>>]
  /\ out'  = [out EXCEPT ![s] = Tail(@)]
  /\ UNCHANGED <<sessionVars, fwd, wire, pc, reply, reqs, routeVars, history>>

Write(s) ==
  /\ fwd[s] = "running" /\ hand[s] # <<>>
  /\ wire' = [wire EXCEPT ![s] = @ \o hand[s]]
  /\ hand' = [hand EXCEPT ![s] = <<>>]
  /\ UNCHANGED <<sessionVars, out, fwd, pc, reply, reqs, routeVars, history>>

WriteFails(s) ==
  /\ fwd[s] = "running" /\ hand[s] # <<>>
  /\ fwd' = [fwd EXCEPT ![s] = "gone"]
  /\ UNCHANGED <<sessionVars, out, hand, wire, pc, reply, reqs, routeVars, history>>

(* A fault: the task only stops between two messages.                      *)
AbortBetweenMessages(s) ==
  /\ phase[s] = "closed" /\ fwd[s] = "running" /\ hand[s] = <<>>
  /\ fwd' = [fwd EXCEPT ![s] = "gone"]
  /\ UNCHANGED <<sessionVars, out, hand, wire, pc, reply, reqs, routeVars, history>>

(* send_task.abort() takes effect when the task next yields: it may still  *)
(* take and write messages before that.                                    *)
Abort(s) ==
  /\ phase[s] = "closed" /\ fwd[s] = "running"
  /\ fwd' = [fwd EXCEPT ![s] = "gone"]
  /\ UNCHANGED <<sessionVars, out, hand, wire, pc, reply, reqs, routeVars, history>>

-----------------------------------------------------------------------------
Life(s) ==
  \/ \E id \in Identity : Authenticate(s, id)
  \/ AuthFails(s)
  \/ Register(s)
  \/ Disconnect(s)
  \/ CleanIndex(s)

Request(s) ==
  \/ \E p \in Pat : Subscribe(s, p) \/ Unsubscribe(s, p)
  \/ \E p \in Pat \cup {Malformed} : SubscribeRefused(s, p)
  \/ \E kind \in RoutedKind : \/ \E ch \in Chan : Publish(s, kind, ch)
                              \/ \E ch \in Chan \cup {Malformed} : PublishRefused(s, kind, ch)
  \/ \E ch \in Chan : YjsAwareness(s, ch) \/ YjsSyncRequest(s, ch)
  \/ Ping(s)

Route(a) == (\E s \in Session : Visit(a, s)) \/ ScanDone(a) \/ SendNext(a) \/ RouteDone(a)

(* What remains of a request once it has been read.                        *)
Handle(a) == Route(a) \/ (a \in Session /\ (IndexSubscription(a) \/ SendReply(a)))

Forward(s) == Take(s) \/ Write(s) \/ WriteFails(s) \/ Abort(s)

Next ==
  \/ \E s \in Session : Life(s) \/ Request(s) \/ IndexSubscription(s) \/ SendReply(s) \/ Forward(s)
  \/ \E k \in Caller, ch \in Chan : ApiPublish(k, ch)
  \/ \E a \in Actor : Route(a)

Spec == Init /\ [][Next]_vars

(* The runtime polls a task that can run.  Handlers never wait for another *)
(* task, so each goes on; nothing makes clients send, read or leave, and   *)
(* a write to a client that does not read may never complete.              *)
Fairness ==
  /\ \A a \in Actor : WF_vars(Handle(a))
  /\ \A s \in Session : WF_vars(CleanIndex(s)) /\ WF_vars(Abort(s))

FairSpec == Spec /\ Fairness

-----------------------------------------------------------------------------
SessionType ==
  /\ phase \in [Session -> {"new", "greeted", "open", "removed", "closed"}]
  /\ ident \in [Session -> Identity \cup {Nobody}]
  /\ subs \in [Session -> SUBSET Pat]
  /\ connections \in SUBSET Session
  /\ index \in [Prefix -> SUBSET Session]

QueueType ==
  /\ out  \in [Session -> Seq(Outbound)]
  /\ fwd  \in [Session -> {"none", "running", "gone"}]
  /\ hand \in [Session -> Seq(Outbound)]
  /\ wire \in [Session -> Seq(Outbound)]
  /\ \A s \in Session : Len(out[s]) <= Cap /\ Len(hand[s]) <= 1

HandlerType ==
  /\ pc \in [Actor -> {"idle", "index", "reply", "scan", "send"}]
  /\ reply \in [Actor -> Reply \cup {None}]
  /\ reqs \in [Actor -> 0..MaxReq]

RouteType ==
  /\ job \in [Actor -> Routed \cup {None}]
  /\ todo \in [Actor -> SUBSET Session]
  /\ seen \in [Actor -> SUBSET Session]
  /\ targets \in [Actor -> Seq(Session)]

HistoryType ==
  /\ must \in [Actor -> SUBSET Session]
  /\ may  \in [Actor -> SUBSET Session]
  /\ lost \in [Actor -> SUBSET Session]

TypeOK == SessionType /\ QueueType /\ HandlerType /\ RouteType /\ HistoryType

(* What has been accepted for a client, whether or not it was written yet. *)
Sent(s) == wire[s] \o hand[s] \o out[s]
Holds(s) == Range(wire[s]) \cup Range(hand[s]) \cup Range(out[s])

IsRouted(m) == m.kind \in RoutedKind

(* The messages among them, in order: SelectSeq(q, IsRouted), written as a *)
(* function on the lengths of q's prefixes for the sake of the proofs.     *)
RoutedIn(q) ==
  LET upTo[n \in 0..Len(q)] ==
        IF n = 0 THEN <<>>
        ELSE IF IsRouted(q[n]) THEN Append(upTo[n - 1], q[n]) ELSE upTo[n - 1]
  IN  upTo[Len(q)]

(* Nobody is sent a message of a channel they may not read: a message that *)
(* reaches a session is on a channel that one of its read grants matches,  *)
(* or on the bare name before the ".*" of one (which subscribe lets in).   *)
(* Subscription, scan and send are separate steps, so this also says that  *)
(* what a scan collected is still permitted when it is sent.               *)
Readable(s, ch) ==
  \/ ident[s].admin
  \/ \E g \in ident[s].read : Matches(g, ch) \/ (g.wildcard /\ g.prefix = ch)

ReadConfined == \A s \in Session : \A m \in Holds(s) : IsRouted(m) => Readable(s, m.topic)

(* A client sees what one publisher sends in the order it was sent, without*)
(* duplicates; and a session sees its own requests answered in order, with *)
(* its own copy of a message before the Published reply that confirms it.  *)
(* Requests are handled one at a time although their effects go through    *)
(* many queues in many steps.                                              *)
SourceOrder ==
  \A s \in Session : \A i, j \in 1..Len(Sent(s)) :
    LET m == Sent(s)[i]
        n == Sent(s)[j]
    IN  i < j /\ m.src = n.src =>
          \/ m.seq < n.seq
          \/ m.seq = n.seq /\ IsRouted(m) /\ ~IsRouted(n)

(* The prefix index never misses a live subscription, except in the one    *)
(* step between storing it and indexing it: a router that used the index   *)
(* instead of scanning all connections would find every subscriber.        *)
IndexComplete ==
  \A s \in connections : \A p \in subs[s] :
    s \in index[p.prefix] \/ (pc[s] = "index" /\ reply[s].topic = p)

(* A handler always gets to the end of its route, whatever the subscribers *)
(* do: queues that nobody drains, connections that come and go.            *)
RouteReturns == \A a \in Actor : pc[a] \in {"scan", "send"} ~> pc[a] = "idle"

(* A session that has ended is cleaned up, and its forwarding task stops   *)
(* even if it is in the middle of a write that never completes.            *)
EndedSessionsStop ==
  \A s \in Session :
    phase[s] = "removed" ~> phase[s] = "closed" /\ fwd[s] = "gone"

-----------------------------------------------------------------------------
(* The broker keeps the promise of FanOut: the flight is the route, the    *)
(* inbox is every routed message accepted into a queue.                    *)
FO == INSTANCE FanOut WITH
  Message  <- Routed,
  interest <- [s \in Session |-> IF s \in connections
                                 THEN {ch \in Chan : ShouldReceive(s, ch)} ELSE {}],
  room     <- [s \in Session |-> Accepts(s)],
  flight   <- job,
  inbox    <- [s \in Session |-> RoutedIn(Sent(s))]

FanOutSpec == FO!Spec
=============================================================================

---------------------------- MODULE BrokerProofs ----------------------------
(***************************************************************************)
(* Broker, for any sessions, channels, grants, queue capacity and number   *)
(* of requests: type correctness; that no client is ever sent a message it *)
(* may not read; that the prefix index is complete; that one source's      *)
(* messages arrive in order; and that the broker implements FanOut.        *)
(***************************************************************************)
EXTENDS Broker, ChannelsProofs

-----------------------------------------------------------------------------
(* What the operations on queues do to the set of messages in them.        *)

LEMMA RangeAppend ==
  ASSUME NEW S, NEW q \in Seq(S), NEW x \in S
  PROVE  Append(q, x) \in Seq(S) /\ Range(Append(q, x)) = Range(q) \cup {x}
<1>1. Append(q, x) \in Seq(S)
  OBVIOUS
<1>2. /\ Len(Append(q, x)) = Len(q) + 1
      /\ \A i \in 1..Len(q) : Append(q, x)[i] = q[i]
      /\ Append(q, x)[Len(q) + 1] = x
  OBVIOUS
<1>3. DOMAIN Append(q, x) = 1..(Len(q) + 1) /\ DOMAIN q = 1..Len(q) /\ Len(q) \in Nat
  BY <1>1, <1>2
<1>4. Range(Append(q, x)) \subseteq Range(q) \cup {x}
  BY <1>2, <1>3 DEF Range
<1>5. Range(q) \cup {x} \subseteq Range(Append(q, x))
  BY <1>2, <1>3 DEF Range
<1> QED BY <1>1, <1>4, <1>5

LEMMA RangeHeadTail ==
  ASSUME NEW S, NEW q \in Seq(S), q # <<>>
  PROVE  /\ Head(q) \in S /\ Tail(q) \in Seq(S) /\ Len(Tail(q)) = Len(q) - 1
         /\ Head(q) \in Range(q) /\ Range(Tail(q)) \subseteq Range(q)
<1>1. /\ Head(q) = q[1] /\ Tail(q) \in Seq(S)
      /\ Len(q) \in Nat /\ Len(q) > 0 /\ Len(Tail(q)) = Len(q) - 1
      /\ \A i \in 1..Len(Tail(q)) : Tail(q)[i] = q[i + 1]
  OBVIOUS
<1>2. DOMAIN q = 1..Len(q) /\ DOMAIN Tail(q) = 1..Len(Tail(q))
  BY <1>1
<1>3. Head(q) \in Range(q)
  BY <1>1, <1>2 DEF Range
<1>4. Range(Tail(q)) \subseteq Range(q)
  BY <1>1, <1>2 DEF Range
<1> QED BY <1>1, <1>3, <1>4

LEMMA RangeConcat ==
  ASSUME NEW S, NEW q \in Seq(S), NEW r \in Seq(S)
  PROVE  q \o r \in Seq(S) /\ Range(q \o r) \subseteq Range(q) \cup Range(r)
<1>1. /\ q \o r \in Seq(S) /\ Len(q) \in Nat /\ Len(r) \in Nat
      /\ Len(q \o r) = Len(q) + Len(r)
      /\ \A i \in 1..(Len(q) + Len(r)) :
           (q \o r)[i] = IF i <= Len(q) THEN q[i] ELSE r[i - Len(q)]
  OBVIOUS
<1>2. DOMAIN (q \o r) = 1..(Len(q) + Len(r)) /\ DOMAIN q = 1..Len(q) /\ DOMAIN r = 1..Len(r)
  BY <1>1
<1>3. SUFFICES ASSUME NEW i \in 1..(Len(q) + Len(r))
               PROVE  (q \o r)[i] \in Range(q) \cup Range(r)
  BY <1>1, <1>2 DEF Range
<1>4. CASE i <= Len(q)
  BY <1>1, <1>2, <1>4 DEF Range
<1>5. CASE ~(i <= Len(q))
  <2>1. i - Len(q) \in 1..Len(r)
    BY <1>1, <1>5
  <2> QED BY <1>1, <1>2, <1>5, <2>1 DEF Range
<1> QED BY <1>4, <1>5

-----------------------------------------------------------------------------
(* Where a handler is tells what it holds: a route has its message, and    *)
(* only a route has targets; a handler about to answer has its answer.     *)
Control ==
  \A x \in Actor :
    /\ pc[x] \in {"scan", "send"} => job[x] \in Routed
    /\ pc[x] \in {"index", "reply"} => reply[x] \in Reply
    /\ targets[x] # <<>> => pc[x] \in {"scan", "send"}

TypeInv == TypeOK /\ Control

LEMMA TypeInit == Init => TypeInv
<1> SUFFICES ASSUME Init PROVE TypeInv
  OBVIOUS
<1>1. SessionType
  BY DEF Init, SessionType
<1>2. QueueType
  BY BrokerAssumption DEF Init, QueueType
<1>3. HandlerType
  BY BrokerAssumption DEF Init, HandlerType
<1>4. RouteType /\ HistoryType
  BY DEF Init, RouteType, HistoryType
<1>5. Control
  BY DEF Init, Control
<1> QED BY <1>1, <1>2, <1>3, <1>4, <1>5 DEF TypeInv, TypeOK

(* A step that leaves a part of the state alone leaves its type alone.     *)
LEMMA Frame ==
  /\ SessionType /\ UNCHANGED sessionVars => SessionType'
  /\ QueueType /\ UNCHANGED queueVars => QueueType'
  /\ HandlerType /\ UNCHANGED <<pc, reply, reqs>> => HandlerType'
  /\ RouteType /\ UNCHANGED routeVars => RouteType'
  /\ HistoryType /\ UNCHANGED history => HistoryType'
  /\ Control /\ UNCHANGED <<pc, reply, routeVars>> => Control'
<1>1. SessionType /\ UNCHANGED sessionVars => SessionType'
  BY DEF SessionType, sessionVars
<1>2. QueueType /\ UNCHANGED queueVars => QueueType'
  BY DEF QueueType, queueVars
<1>3. HandlerType /\ UNCHANGED <<pc, reply, reqs>> => HandlerType'
  BY DEF HandlerType
<1>4. RouteType /\ UNCHANGED routeVars => RouteType'
  BY DEF RouteType, routeVars
<1>5. HistoryType /\ UNCHANGED history => HistoryType'
  BY DEF HistoryType, history
<1>6. Control /\ UNCHANGED <<pc, reply, routeVars>> => Control'
  BY DEF Control, routeVars
<1> QED BY <1>1, <1>2, <1>3, <1>4, <1>5, <1>6

(* A session's life touches the session's variables, its queue and must.   *)
LEMMA LifeType ==
  ASSUME TypeInv, NEW s \in Session, Life(s)
  PROVE  TypeInv'
<1> USE DEF TypeInv, TypeOK
<1>1. ASSUME NEW id \in Identity, Authenticate(s, id) PROVE TypeInv'
  <2>1. SessionType'
    BY <1>1 DEF Authenticate, SessionType
  <2>2. QueueType'
    <3>1. [kind |-> "AuthOk", topic |-> None, src |-> s, seq |-> 0] \in Outbound
      BY BrokerAssumption DEF Outbound, Reply, ReplyKind
    <3> QED BY <1>1, <3>1 DEF Authenticate, QueueType
  <2> QED BY <1>1, <2>1, <2>2, Frame DEF Authenticate, routeVars
<1>2. CASE AuthFails(s)
  <2>1. SessionType'
    BY <1>2 DEF AuthFails, SessionType
  <2> QED BY <1>2, <2>1, Frame DEF AuthFails
<1>3. CASE Register(s)
  <2>1. SessionType'
    BY <1>3 DEF Register, SessionType
  <2>2. QueueType'
    BY <1>3 DEF Register, QueueType
  <2> QED BY <1>3, <2>1, <2>2, Frame DEF Register
<1>4. CASE Disconnect(s)
  <2>1. SessionType'
    BY <1>4 DEF Disconnect, SessionType
  <2>2. HistoryType'
    BY <1>4 DEF Disconnect, HistoryType
  <2> QED BY <1>4, <2>1, <2>2, Frame DEF Disconnect
<1>5. CASE CleanIndex(s)
  <2>1. SessionType'
    BY <1>5 DEF CleanIndex, SessionType
  <2> QED BY <1>5, <2>1, Frame DEF CleanIndex
<1> QED BY <1>1, <1>2, <1>3, <1>4, <1>5 DEF Life

(* The two operations every handler is made of.                            *)
LEMMA ReadyType ==
  ASSUME TypeInv, NEW s \in Session, NEW request, Ready(s, request)
  PROVE  /\ reqs' \in [Actor -> 0..MaxReq]
         /\ reqs[s] + 1 \in 1..MaxReq
         /\ s \in Actor /\ pc[s] = "idle"
BY BrokerAssumption DEF TypeInv, TypeOK, HandlerType, Ready, Actor

LEMMA WillReplyType ==
  ASSUME TypeInv, NEW s \in Session, NEW kind \in ReplyKind,
         NEW topic \in Chan \cup Pat \cup {Malformed, None},
         reqs[s] + 1 \in 1..MaxReq, WillReply(s, kind, topic)
  PROVE  reply' \in [Actor -> Reply \cup {None}] /\ reply'[s] \in Reply
<1>1. [kind |-> kind, topic |-> topic, src |-> s, seq |-> reqs[s] + 1] \in Reply
  BY BrokerAssumption DEF Reply
<1> QED BY <1>1 DEF TypeInv, TypeOK, HandlerType, WillReply, Actor

LEMMA TrySendType ==
  ASSUME QueueType, NEW s \in Session, NEW m \in Outbound, TrySend(s, m),
         UNCHANGED <<fwd, hand, wire>>
  PROVE  QueueType'
<1>1. CASE Accepts(s)
  <2>1. out' = [out EXCEPT ![s] = Append(out[s], m)] /\ Len(out[s]) < Cap
    BY <1>1 DEF TrySend, Accepts
  <2>2. Append(out[s], m) \in Seq(Outbound) /\ Len(Append(out[s], m)) = Len(out[s]) + 1
    BY DEF QueueType
  <2>3. Len(out[s]) \in Nat /\ Cap \in Nat
    BY BrokerAssumption DEF QueueType
  <2> QED BY <2>1, <2>2, <2>3 DEF QueueType
<1>2. CASE ~Accepts(s)
  BY <1>2 DEF TrySend, QueueType
<1> QED BY <1>1, <1>2

(* A request that is answered without routing anything.                    *)
LEMMA AnswerType ==
  ASSUME TypeInv, NEW s \in Session, NEW kind \in ReplyKind, NEW request,
         NEW topic \in Chan \cup Pat \cup {Malformed, None},
         NEW label \in {"index", "reply"},
         Ready(s, request), WillReply(s, kind, topic), Goto(s, label),
         UNCHANGED routeVars
  PROVE  HandlerType' /\ RouteType' /\ Control'
<1> USE DEF TypeInv, TypeOK
<1>1. /\ reqs' \in [Actor -> 0..MaxReq] /\ reqs[s] + 1 \in 1..MaxReq
      /\ s \in Actor /\ pc[s] = "idle"
  BY ReadyType
<1>2. reply' \in [Actor -> Reply \cup {None}] /\ reply'[s] \in Reply
  BY <1>1, WillReplyType
<1>3. HandlerType'
  BY <1>1, <1>2 DEF HandlerType, Goto
<1>4. Control'
  BY <1>1, <1>2 DEF HandlerType, Control, Goto, WillReply, routeVars
<1> QED BY <1>3, <1>4, Frame

LEMMA StartRouteType ==
  ASSUME TypeInv, NEW x \in Actor, NEW kind \in RoutedKind, NEW ch \in Chan,
         pc[x] = "idle", reqs[x] + 1 \in 1..MaxReq, StartRoute(x, kind, ch),
         reqs' \in [Actor -> 0..MaxReq], reply' \in [Actor -> Reply \cup {None}],
         \A y \in Actor \ {x} : reply'[y] = reply[y]
  PROVE  TypeInv'
<1> USE DEF TypeInv, TypeOK
<1>1. [kind |-> kind, topic |-> ch, src |-> x, seq |-> reqs[x] + 1] \in Routed
  BY DEF Routed
<1>2. Interested(ch) \subseteq Session
  BY DEF SessionType, Interested
<1>3. HandlerType'
  BY DEF HandlerType, StartRoute, Goto
<1>4. RouteType'
  BY <1>1 DEF SessionType, RouteType, StartRoute
<1>5. HistoryType'
  BY <1>2 DEF HistoryType, StartRoute
<1>6. Control'
  BY <1>1 DEF HandlerType, RouteType, Control, StartRoute, Goto
<1> QED BY <1>3, <1>4, <1>5, <1>6, Frame DEF StartRoute

(* Requests, up to the first time another task can run.                    *)
LEMMA RequestStepType ==
  ASSUME TypeInv, NEW s \in Session, Request(s)
  PROVE  TypeInv'
<1> USE DEF TypeInv, TypeOK
<1>0. s \in Actor
  BY DEF Actor
<1>1. ASSUME NEW p \in Pat, Subscribe(s, p) PROVE TypeInv'
  <2>1. HandlerType' /\ RouteType' /\ Control'
    BY <1>1, AnswerType DEF Subscribe, ReplyKind
  <2>2. SessionType'
    BY <1>1 DEF Subscribe, SessionType
  <2>3. HistoryType'
    BY <1>1 DEF Subscribe, HistoryType
  <2> QED BY <1>1, <2>1, <2>2, <2>3, Frame DEF Subscribe
<1>2. ASSUME NEW p \in Pat, Unsubscribe(s, p) PROVE TypeInv'
  <2>1. HandlerType' /\ RouteType' /\ Control'
    BY <1>2, AnswerType DEF Unsubscribe, ReplyKind
  <2>2. SessionType'
    BY <1>2 DEF Unsubscribe, SessionType
  <2>3. HistoryType'
    BY <1>2 DEF Unsubscribe, HistoryType
  <2> QED BY <1>2, <2>1, <2>2, <2>3, Frame DEF Unsubscribe
<1>3. ASSUME NEW p \in Pat \cup {Malformed}, SubscribeRefused(s, p) PROVE TypeInv'
  <2>1. HandlerType' /\ RouteType' /\ Control'
    BY <1>3, AnswerType DEF SubscribeRefused, ReplyKind
  <2> QED BY <1>3, <2>1, Frame DEF SubscribeRefused
<1>4. ASSUME NEW kind \in RoutedKind, NEW ch \in Chan, Publish(s, kind, ch) PROVE TypeInv'
  <2>1. /\ Ready(s, kind) /\ WillReply(s, "Published", ch) /\ StartRoute(s, kind, ch)
    BY <1>4 DEF Publish
  <2>2. /\ reqs' \in [Actor -> 0..MaxReq] /\ reqs[s] + 1 \in 1..MaxReq /\ pc[s] = "idle"
    BY <2>1, ReadyType
  <2>3. reply' \in [Actor -> Reply \cup {None}]
    BY <2>1, <2>2, WillReplyType DEF ReplyKind
  <2>4. \A y \in Actor \ {s} : reply'[y] = reply[y]
    BY <2>1 DEF WillReply, HandlerType
  <2> QED BY <1>0, <2>1, <2>2, <2>3, <2>4, StartRouteType
<1>5. ASSUME NEW kind \in RoutedKind, NEW ch \in Chan \cup {Malformed}, PublishRefused(s, kind, ch)
      PROVE TypeInv'
  <2>1. HandlerType' /\ RouteType' /\ Control'
    BY <1>5, AnswerType DEF PublishRefused, ReplyKind
  <2> QED BY <1>5, <2>1, Frame DEF PublishRefused
<1>6. ASSUME NEW ch \in Chan, YjsAwareness(s, ch) PROVE TypeInv'
  <2>1. Ready(s, "YjsAwareness") /\ StartRoute(s, "YjsAwareness", ch) /\ reply' = reply
    BY <1>6 DEF YjsAwareness
  <2>2. /\ reqs' \in [Actor -> 0..MaxReq] /\ reqs[s] + 1 \in 1..MaxReq /\ pc[s] = "idle"
    BY <2>1, ReadyType
  <2> QED BY <1>0, <2>1, <2>2, StartRouteType DEF HandlerType, RoutedKind
<1>7. ASSUME NEW ch \in Chan, YjsSyncRequest(s, ch) PROVE TypeInv'
  <2>1. HandlerType' /\ RouteType' /\ Control'
    BY <1>7, AnswerType DEF YjsSyncRequest, ReplyKind
  <2> QED BY <1>7, <2>1, Frame DEF YjsSyncRequest
<1>8. CASE Ping(s)
  <2>1. HandlerType' /\ RouteType' /\ Control'
    BY <1>8, AnswerType DEF Ping, ReplyKind
  <2> QED BY <1>8, <2>1, Frame DEF Ping
<1> QED BY <1>1, <1>2, <1>3, <1>4, <1>5, <1>6, <1>7, <1>8 DEF Request

(* The remaining steps of a handler.                                       *)
LEMMA ApiPublishType ==
  ASSUME TypeInv, NEW k \in Caller, NEW ch \in Chan, ApiPublish(k, ch)
  PROVE  TypeInv'
<1>1. /\ k \in Actor /\ pc[k] = "idle" /\ reqs[k] < MaxReq /\ reply' = reply
      /\ reqs' = [reqs EXCEPT ![k] = @ + 1] /\ StartRoute(k, "Message", ch)
  BY BrokerAssumption DEF ApiPublish, Actor, TypeInv, TypeOK, HandlerType
<1>2. reqs[k] + 1 \in 1..MaxReq /\ reqs' \in [Actor -> 0..MaxReq]
  BY <1>1, BrokerAssumption DEF TypeInv, TypeOK, HandlerType
<1> QED BY <1>1, <1>2, StartRouteType DEF TypeInv, TypeOK, HandlerType, RoutedKind

LEMMA IndexSubscriptionType ==
  ASSUME TypeInv, NEW s \in Session, IndexSubscription(s)
  PROVE  TypeInv'
<1> USE DEF TypeInv, TypeOK
<1>1. SessionType'
  BY DEF IndexSubscription, SessionType
<1>2. HandlerType' /\ Control'
  BY DEF IndexSubscription, HandlerType, Control, Goto, routeVars, Actor
<1> QED BY <1>1, <1>2, Frame DEF IndexSubscription

LEMMA SendReplyType ==
  ASSUME TypeInv, NEW s \in Session, SendReply(s)
  PROVE  TypeInv'
<1> USE DEF TypeInv, TypeOK
<1>1. s \in Actor /\ reply[s] \in Outbound
  BY DEF Actor, Control, SendReply, Outbound
<1>2. QueueType'
  BY <1>1, TrySendType DEF SendReply
<1>3. HandlerType' /\ Control'
  BY <1>1 DEF SendReply, HandlerType, Control, Goto, routeVars
<1> QED BY <1>2, <1>3, Frame DEF SendReply

LEMMA RouteStepType ==
  ASSUME TypeInv, NEW x \in Actor, Route(x)
  PROVE  TypeInv'
<1> USE DEF TypeInv, TypeOK
<1>1. ASSUME NEW s \in Session, Visit(x, s) PROVE TypeInv'
  <2>1. targets' \in [Actor -> Seq(Session)]
    <3>1. Append(targets[x], s) \in Seq(Session)
      BY DEF RouteType
    <3> QED BY <1>1, <3>1 DEF Visit, RouteType
  <2>2. RouteType'
    BY <1>1, <2>1 DEF Visit, RouteType
  <2>3. Control'
    BY <1>1 DEF Visit, Control, RouteType
  <2> QED BY <1>1, <2>2, <2>3, Frame DEF Visit
<1>2. CASE ScanDone(x)
  <2>1. HandlerType' /\ Control'
    BY <1>2 DEF ScanDone, HandlerType, Control, Goto, routeVars
  <2> QED BY <1>2, <2>1, Frame DEF ScanDone
<1>3. CASE SendNext(x)
  <2>1. /\ targets[x] \in Seq(Session) /\ targets[x] # <<>>
        /\ Head(targets[x]) \in Session /\ Tail(targets[x]) \in Seq(Session)
    BY <1>3, RangeHeadTail DEF SendNext, RouteType
  <2>2. job[x] \in Outbound
    BY <1>3 DEF SendNext, Control, Outbound
  <2>3. QueueType'
    BY <1>3, <2>1, <2>2, TrySendType DEF SendNext
  <2>4. RouteType' /\ Control'
    BY <1>3, <2>1 DEF SendNext, RouteType, Control
  <2>5. HistoryType'
    BY <1>3, <2>1 DEF SendNext, HistoryType
  <2> QED BY <1>3, <2>3, <2>4, <2>5, Frame DEF SendNext
<1>4. CASE RouteDone(x)
  <2>1. HandlerType' /\ RouteType'
    BY <1>4 DEF RouteDone, HandlerType, RouteType, Goto
  <2>2. Control'
    BY <1>4 DEF RouteDone, HandlerType, RouteType, Control, Goto
  <2>3. HistoryType'
    BY <1>4 DEF RouteDone, HistoryType
  <2> QED BY <1>4, <2>1, <2>2, <2>3, Frame DEF RouteDone
<1> QED BY <1>1, <1>2, <1>3, <1>4 DEF Route

(* The forwarding task.                                                    *)
LEMMA ForwardType ==
  ASSUME TypeInv, NEW s \in Session, Forward(s)
  PROVE  TypeInv'
<1> USE DEF TypeInv, TypeOK
<1>1. CASE Take(s)
  <2>1. /\ out[s] \in Seq(Outbound) /\ out[s] # <<>>
        /\ Head(out[s]) \in Outbound /\ Tail(out[s]) \in Seq(Outbound)
        /\ Len(Tail(out[s])) = Len(out[s]) - 1 /\ Len(out[s]) \in Nat
    BY <1>1, RangeHeadTail DEF Take, QueueType
  <2>2. Len(Tail(out[s])) <= Cap
    BY <2>1, BrokerAssumption DEF QueueType
  <2>3. <<Head(out[s])>> \in Seq(Outbound) /\ Len(<<Head(out[s])>>) = 1
    BY <2>1
  <2>4. QueueType'
    BY <1>1, <2>1, <2>2, <2>3 DEF Take, QueueType
  <2> QED BY <1>1, <2>4, Frame DEF Take
<1>2. CASE Write(s)
  <2>1. wire[s] \o hand[s] \in Seq(Outbound)
    BY DEF QueueType
  <2>2. QueueType'
    BY <1>2, <2>1 DEF Write, QueueType
  <2> QED BY <1>2, <2>2, Frame DEF Write
<1>3. CASE WriteFails(s)
  <2>1. QueueType'
    BY <1>3 DEF WriteFails, QueueType
  <2> QED BY <1>3, <2>1, Frame DEF WriteFails
<1>4. CASE Abort(s)
  <2>1. QueueType'
    BY <1>4 DEF Abort, QueueType
  <2> QED BY <1>4, <2>1, Frame DEF Abort
<1> QED BY <1>1, <1>2, <1>3, <1>4 DEF Forward

LEMMA TypeNext == TypeInv /\ [Next]_vars => TypeInv'
<1> SUFFICES ASSUME TypeInv, [Next]_vars PROVE TypeInv'
  OBVIOUS
<1>1. CASE UNCHANGED vars
  BY <1>1, Frame DEF vars, TypeInv, TypeOK
<1>2. CASE Next
  BY <1>2, LifeType, RequestStepType, IndexSubscriptionType, SendReplyType,
     ForwardType, ApiPublishType, RouteStepType DEF Next
<1> QED BY <1>1, <1>2

(* Every variable keeps its type, queues never exceed their capacity, and  *)
(* the forwarding task holds at most one message, whatever the numbers of  *)
(* sessions, callers, channels and patterns.                               *)
THEOREM TypeCorrect == Spec => []TypeOK
<1>1. Spec => []TypeInv
  BY TypeInit, TypeNext, PTL DEF Spec
<1>2. TypeInv => TypeOK
  BY DEF TypeInv
<1> QED BY <1>1, <1>2, PTL

-----------------------------------------------------------------------------
(* Confinement.  A message is permitted when it is sent because its target *)
(* was found to be subscribed, and it was subscribed because a read grant  *)
(* covers the subscription; grants do not change once there are any.       *)

NewIsNobody == \A s \in Session : phase[s] = "new" => ident[s] = Nobody

SubsAdmitted == \A s \in Session : \A p \in subs[s] : MaySubscribe(s, p)

TargetsReadable ==
  \A x \in Actor : \A s \in Range(targets[x]) : Readable(s, job[x].topic)

ReadInv == TypeInv /\ NewIsNobody /\ SubsAdmitted /\ TargetsReadable /\ ReadConfined

LEMMA ReadInit == Init => ReadInv
<1> SUFFICES ASSUME Init PROVE ReadInv
  OBVIOUS
<1>1. \A q : q = <<>> => Range(q) = {}
  BY DEF Range
<1>2. NewIsNobody /\ SubsAdmitted
  BY DEF Init, NewIsNobody, SubsAdmitted
<1>3. TargetsReadable /\ ReadConfined
  BY <1>1 DEF Init, TargetsReadable, ReadConfined, Holds
<1> QED BY <1>2, <1>3, TypeInit DEF ReadInv

(* What lets a subscription in lets its messages in.                       *)
LEMMA AdmittedReadable ==
  ASSUME TypeInv, NEW s \in Session, NEW p \in Pat, NEW ch \in Chan,
         MaySubscribe(s, p), Matches(p, ch)
  PROVE  Readable(s, ch)
<1>1. CASE ident[s].admin
  BY <1>1 DEF Readable
<1>2. CASE ~ident[s].admin
  <2>1. PICK g \in ident[s].read : Covers(g, p)
    BY <1>2 DEF MaySubscribe
  <2>2. ident[s] \in Identity \cup {Nobody}
    BY DEF TypeInv, TypeOK, SessionType
  <2>3. ident[s].read \subseteq Pattern
    BY <2>2, BrokerAssumption DEF Nobody
  <2>4. g \in Pattern /\ p \in Pattern /\ ch \in Name
    BY <2>3, BrokerAssumption
  <2>5. Matches(g, ch) \/ (g.wildcard /\ g.prefix = ch)
    BY <2>1, <2>4, CoversSound
  <2> QED BY <2>1, <2>5 DEF Readable
<1> QED BY <1>1, <1>2

LEMMA NobodyReads ==
  ASSUME NEW s \in Session, ident[s] = Nobody
  PROVE  /\ \A ch : ~Readable(s, ch)
         /\ \A p : ~MaySubscribe(s, p)
BY DEF Nobody, Readable, MaySubscribe

(* What each kind of step leaves alone.                                    *)
LEMMA LifeFrame ==
  ASSUME NEW s \in Session, Life(s)
  PROVE  UNCHANGED <<subs, out, hand, targets, job>>
BY DEF Life, Authenticate, AuthFails, Register, Disconnect, CleanIndex, queueVars, routeVars

LEMMA RequestFrame ==
  ASSUME NEW s \in Session, Request(s)
  PROVE  UNCHANGED <<phase, ident, connections, queueVars, targets>>
BY DEF Request, Subscribe, Unsubscribe, SubscribeRefused, Publish, PublishRefused,
       YjsAwareness, YjsSyncRequest, Ping, StartRoute, sessionVars, queueVars, routeVars

LEMMA HandlerFrame ==
  /\ \A s \in Session : /\ IndexSubscription(s) => UNCHANGED <<phase, ident, subs, queueVars, targets, job>>
                        /\ SendReply(s) => UNCHANGED <<phase, ident, subs, hand, wire, targets, job>>
                        /\ Forward(s) => UNCHANGED <<phase, ident, subs, targets, job>>
  /\ \A k \in Caller, ch \in Chan :
       ApiPublish(k, ch) => UNCHANGED <<phase, ident, subs, queueVars, targets>>
  /\ \A x \in Actor : Route(x) => UNCHANGED <<phase, ident, subs, hand, wire>>
<1>1. \A s \in Session :
        /\ IndexSubscription(s) => UNCHANGED <<phase, ident, subs, queueVars, targets, job>>
        /\ SendReply(s) => UNCHANGED <<phase, ident, subs, hand, wire, targets, job>>
  BY DEF IndexSubscription, SendReply, sessionVars, routeVars
<1>2. \A s \in Session : Forward(s) => UNCHANGED <<phase, ident, subs, targets, job>>
  BY DEF Forward, Take, Write, WriteFails, Abort, sessionVars, routeVars
<1>3. \A k \in Caller, ch \in Chan :
        ApiPublish(k, ch) => UNCHANGED <<phase, ident, subs, queueVars, targets>>
  BY DEF ApiPublish, StartRoute, sessionVars
<1>4. \A x \in Actor : Route(x) => UNCHANGED <<phase, ident, subs, hand, wire>>
  BY DEF Route, Visit, ScanDone, SendNext, RouteDone, sessionVars, queueVars
<1> QED BY <1>1, <1>2, <1>3, <1>4

(* Grants are settled before anything depends on them.                     *)
LEMMA GrantsStep ==
  ASSUME TypeInv, NewIsNobody, [Next]_vars
  PROVE  /\ NewIsNobody'
         /\ \A s \in Session : ident'[s] = ident[s] \/ ident[s] = Nobody
<1>1. CASE UNCHANGED <<phase, ident>>
  BY <1>1 DEF NewIsNobody
<1>2. ASSUME NEW s \in Session, Life(s)
      PROVE  /\ NewIsNobody'
             /\ \A t \in Session : ident'[t] = ident[t] \/ ident[t] = Nobody
  <2>1. ASSUME NEW id \in Identity, Authenticate(s, id)
        PROVE  /\ NewIsNobody'
               /\ \A t \in Session : ident'[t] = ident[t] \/ ident[t] = Nobody
    BY <2>1 DEF Authenticate, NewIsNobody, TypeInv, TypeOK, SessionType
  <2>2. CASE AuthFails(s) \/ Register(s) \/ Disconnect(s) \/ CleanIndex(s)
    BY <2>2 DEF AuthFails, Register, Disconnect, CleanIndex, NewIsNobody,
                TypeInv, TypeOK, SessionType
  <2> QED BY <1>2, <2>1, <2>2 DEF Life
<1>3. CASE UNCHANGED vars
  BY <1>1, <1>3 DEF vars, sessionVars
<1> QED BY <1>1, <1>2, <1>3, RequestFrame, HandlerFrame DEF Next

LEMMA ReadableStable ==
  ASSUME NEW s \in Session, ident'[s] = ident[s] \/ ident[s] = Nobody
  PROVE  /\ \A ch : Readable(s, ch) => Readable(s, ch)'
         /\ \A p : MaySubscribe(s, p) => MaySubscribe(s, p)'
<1>1. CASE ident[s] = Nobody
  BY <1>1, NobodyReads
<1>2. CASE ident'[s] = ident[s]
  BY <1>2 DEF Readable, MaySubscribe
<1> QED BY <1>1, <1>2

(* Subscriptions stay within what the grants admit.                        *)
LEMMA SubsStep ==
  ASSUME ReadInv, [Next]_vars
  PROVE  SubsAdmitted'
<1> USE DEF ReadInv
<1>1. \A s \in Session : \A p : MaySubscribe(s, p) => MaySubscribe(s, p)'
  BY GrantsStep, ReadableStable
<1>2. CASE UNCHANGED subs
  BY <1>1, <1>2 DEF SubsAdmitted
<1>3. ASSUME NEW s \in Session, Request(s) PROVE SubsAdmitted'
  <2>1. ASSUME NEW p \in Pat, Subscribe(s, p) PROVE SubsAdmitted'
    <3>1. subs' = [subs EXCEPT ![s] = subs[s] \cup {p}] /\ MaySubscribe(s, p)
      BY <2>1 DEF Subscribe
    <3> QED BY <1>1, <3>1 DEF SubsAdmitted, TypeInv, TypeOK, SessionType
  <2>2. ASSUME NEW p \in Pat, Unsubscribe(s, p) PROVE SubsAdmitted'
    <3>1. subs' = [subs EXCEPT ![s] = subs[s] \ {p}]
      BY <2>2 DEF Unsubscribe
    <3> QED BY <1>1, <3>1 DEF SubsAdmitted, TypeInv, TypeOK, SessionType
  <2>3. \/ \E p \in Pat : Subscribe(s, p) \/ Unsubscribe(s, p)
        \/ UNCHANGED subs
    BY <1>3 DEF Request, SubscribeRefused, Publish, PublishRefused, YjsAwareness,
                YjsSyncRequest, Ping, StartRoute, sessionVars
  <2> QED BY <1>2, <2>1, <2>2, <2>3
<1>4. CASE UNCHANGED vars
  BY <1>2, <1>4 DEF vars, sessionVars
<1> QED BY <1>2, <1>3, <1>4, LifeFrame, HandlerFrame DEF Next

(* A route's targets may read what it carries.                             *)
LEMMA TargetsStep ==
  ASSUME ReadInv, [Next]_vars
  PROVE  TargetsReadable'
<1> USE DEF ReadInv
<1>1. \A s \in Session : \A ch : Readable(s, ch) => Readable(s, ch)'
  BY GrantsStep, ReadableStable
<1>2. \A x \in Actor : Range(targets[x]) \subseteq Session
  BY DEF TypeInv, TypeOK, RouteType, Range
<1>3. CASE UNCHANGED <<targets, job>>
  BY <1>1, <1>2, <1>3 DEF TargetsReadable
<1>4. ASSUME NEW x \in Actor, NEW kind, NEW ch, pc[x] = "idle", StartRoute(x, kind, ch)
      PROVE  TargetsReadable'
  <2>1. targets' = targets /\ \A y \in Actor \ {x} : job'[y] = job[y]
    BY <1>4 DEF StartRoute, TypeInv, TypeOK, RouteType
  <2>2. Range(targets[x]) = {}
    BY <1>4 DEF TypeInv, Control, Range
  <2> QED BY <1>1, <1>2, <2>1, <2>2 DEF TargetsReadable
<1>5. ASSUME NEW s \in Session, Request(s) PROVE TargetsReadable'
  <2>1. s \in Actor
    BY DEF Actor
  <2>2. \/ \E kind, ch : pc[s] = "idle" /\ StartRoute(s, kind, ch)
        \/ UNCHANGED <<targets, job>>
    BY <1>5 DEF Request, Subscribe, Unsubscribe, SubscribeRefused, Publish, PublishRefused,
                YjsAwareness, YjsSyncRequest, Ping, Ready, routeVars
  <2> QED BY <1>3, <1>4, <2>1, <2>2
<1>6. ASSUME NEW k \in Caller, NEW ch \in Chan, ApiPublish(k, ch) PROVE TargetsReadable'
  BY <1>4, <1>6 DEF ApiPublish, Actor
<1>7. ASSUME NEW x \in Actor, Route(x) PROVE TargetsReadable'
  <2>0. targets[x] \in Seq(Session)
    BY DEF TypeInv, TypeOK, RouteType
  <2>1. ASSUME NEW s \in Session, Visit(x, s) PROVE TargetsReadable'
    <3>1. CASE ShouldReceive(s, job[x].topic)
      <4>1. job' = job /\ targets' = [targets EXCEPT ![x] = Append(targets[x], s)]
        BY <2>1, <3>1 DEF Visit
      <4>2. Range(Append(targets[x], s)) = Range(targets[x]) \cup {s}
        BY <2>0, RangeAppend
      <4>3. PICK p \in subs[s] : Matches(p, job[x].topic)
        BY <3>1 DEF ShouldReceive, Allows
      <4>4. p \in Pat /\ MaySubscribe(s, p) /\ job[x].topic \in Chan
        BY <2>1 DEF Visit, SubsAdmitted, TypeInv, TypeOK, SessionType, Control, Routed
      <4>5. Readable(s, job[x].topic)
        BY <4>3, <4>4, AdmittedReadable
      <4> QED BY <1>1, <1>2, <4>1, <4>2, <4>5 DEF TargetsReadable, TypeInv, TypeOK, RouteType
    <3>2. CASE ~ShouldReceive(s, job[x].topic)
      BY <1>3, <2>1, <3>2 DEF Visit
    <3> QED BY <3>1, <3>2
  <2>2. CASE ScanDone(x)
    BY <1>3, <2>2 DEF ScanDone, routeVars
  <2>3. CASE SendNext(x)
    <3>1. job' = job /\ targets' = [targets EXCEPT ![x] = Tail(targets[x])] /\ targets[x] # <<>>
      BY <2>3 DEF SendNext
    <3>2. Range(Tail(targets[x])) \subseteq Range(targets[x])
      BY <2>0, <3>1, RangeHeadTail
    <3> QED BY <1>1, <1>2, <3>1, <3>2 DEF TargetsReadable, TypeInv, TypeOK, RouteType
  <2>4. CASE RouteDone(x)
    <3>1. targets' = targets /\ Range(targets[x]) = {}
      BY <2>4 DEF RouteDone, Range
    <3>2. \A y \in Actor \ {x} : job'[y] = job[y]
      BY <2>4 DEF RouteDone, TypeInv, TypeOK, RouteType
    <3> QED BY <1>1, <1>2, <3>1, <3>2 DEF TargetsReadable
  <2> QED BY <1>7, <2>1, <2>2, <2>3, <2>4 DEF Route
<1>8. CASE UNCHANGED vars
  BY <1>3, <1>8 DEF vars, routeVars
<1> QED BY <1>3, <1>5, <1>6, <1>7, <1>8, LifeFrame, HandlerFrame DEF Next

(* What is already accepted for a client is still readable, and what is    *)
(* accepted now is a reply, or comes from a route with this target.        *)
LEMMA QueuesStep ==
  ASSUME ReadInv, [Next]_vars
  PROVE  ReadConfined'
<1> USE DEF ReadInv
<1> DEFINE Permitted(s, m) == IsRouted(m) => Readable(s, m.topic)
<1>1. \A s \in Session : \A ch : Readable(s, ch) => Readable(s, ch)'
  BY GrantsStep, ReadableStable
<1>2. \A m \in Reply : ~IsRouted(m)
  BY DEF Reply, ReplyKind, IsRouted, RoutedKind
<1>3. SUFFICES \A s \in Session : \A m \in Holds(s)' : m \in Holds(s) \/ Permitted(s, m)
  BY <1>1 DEF ReadConfined, IsRouted
<1>4. CASE UNCHANGED queueVars
  BY <1>4 DEF Holds, queueVars
<1>5. ASSUME NEW s \in Session, NEW m \in Outbound, TrySend(s, m), Permitted(s, m),
             UNCHANGED <<hand, wire>>
      PROVE  \A t \in Session : \A n \in Holds(t)' : n \in Holds(t) \/ Permitted(t, n)
  <2>1. CASE Accepts(s)
    <3>1. out' = [out EXCEPT ![s] = Append(out[s], m)]
      BY <1>5, <2>1 DEF TrySend
    <3>2. Range(Append(out[s], m)) = Range(out[s]) \cup {m}
      BY RangeAppend DEF TypeInv, TypeOK, QueueType
    <3> QED BY <1>5, <3>1, <3>2 DEF Holds, TypeInv, TypeOK, QueueType
  <2>2. CASE ~Accepts(s)
    BY <1>5, <2>2 DEF TrySend, Holds
  <2> QED BY <2>1, <2>2
<1>6. ASSUME NEW s \in Session, Life(s)
      PROVE  \A t \in Session : \A n \in Holds(t)' : n \in Holds(t) \/ Permitted(t, n)
  <2>1. ASSUME NEW id \in Identity, Authenticate(s, id)
        PROVE \A t \in Session : \A n \in Holds(t)' : n \in Holds(t) \/ Permitted(t, n)
    <3> DEFINE hello == [kind |-> "AuthOk", topic |-> None, src |-> s, seq |-> 0]
    <3>1. hello \in Reply /\ hello \in Outbound
      BY BrokerAssumption DEF Outbound, Reply, ReplyKind
    <3> HIDE DEF hello
    <3>2. wire' = [wire EXCEPT ![s] = Append(wire[s], hello)] /\ UNCHANGED <<out, hand>>
      BY <2>1 DEF Authenticate, hello
    <3>3. Range(Append(wire[s], hello)) = Range(wire[s]) \cup {hello}
      BY <3>1, RangeAppend DEF TypeInv, TypeOK, QueueType
    <3> QED BY <1>2, <3>1, <3>2, <3>3 DEF Holds, TypeInv, TypeOK, QueueType
  <2>2. CASE AuthFails(s) \/ Register(s) \/ Disconnect(s) \/ CleanIndex(s)
    BY <2>2 DEF AuthFails, Register, Disconnect, CleanIndex, Holds, queueVars
  <2> QED BY <1>6, <2>1, <2>2 DEF Life
<1>7. ASSUME NEW s \in Session, SendReply(s)
      PROVE  \A t \in Session : \A n \in Holds(t)' : n \in Holds(t) \/ Permitted(t, n)
  <2>1. reply[s] \in Reply /\ reply[s] \in Outbound
    BY <1>7 DEF SendReply, TypeInv, Control, Actor, Outbound
  <2>2. Permitted(s, reply[s])
    BY <1>2, <2>1
  <2> QED BY <1>5, <1>7, <2>1, <2>2 DEF SendReply
<1>8. ASSUME NEW x \in Actor, Route(x)
      PROVE  \A t \in Session : \A n \in Holds(t)' : n \in Holds(t) \/ Permitted(t, n)
  <2>1. CASE SendNext(x)
    <3>1. targets[x] \in Seq(Session) /\ targets[x] # <<>>
      BY <2>1 DEF SendNext, TypeInv, TypeOK, RouteType
    <3>2. Head(targets[x]) \in Session /\ Head(targets[x]) \in Range(targets[x])
      BY <3>1, RangeHeadTail
    <3>3. job[x] \in Outbound
      BY <2>1 DEF SendNext, TypeInv, Control, Outbound
    <3>4. Permitted(Head(targets[x]), job[x])
      BY <3>2 DEF TargetsReadable
    <3> QED BY <1>5, <2>1, <3>2, <3>3, <3>4 DEF SendNext
  <2>2. CASE ~SendNext(x)
    <3>1. UNCHANGED queueVars
      BY <1>8, <2>2 DEF Route, Visit, ScanDone, RouteDone
    <3> QED BY <1>4, <3>1
  <2> QED BY <2>1, <2>2
<1>9. ASSUME NEW s \in Session, Forward(s)
      PROVE  \A t \in Session : \A n \in Holds(t)' : n \in Holds(t) \/ Permitted(t, n)
  <2>1. CASE Take(s)
    <3>1. out[s] \in Seq(Outbound) /\ out[s] # <<>>
      BY <2>1 DEF Take, TypeInv, TypeOK, QueueType
    <3>2. Head(out[s]) \in Range(out[s]) /\ Range(Tail(out[s])) \subseteq Range(out[s])
      BY <3>1, RangeHeadTail
    <3>3. \A e : Range(<<e>>) = {e}
      BY DEF Range
    <3>4. Holds(s)' \subseteq Holds(s)
      BY <2>1, <3>2, <3>3 DEF Take, Holds, TypeInv, TypeOK, QueueType
    <3>5. \A t \in Session \ {s} : Holds(t)' = Holds(t)
      BY <2>1 DEF Take, Holds, TypeInv, TypeOK, QueueType
    <3> QED BY <3>4, <3>5
  <2>2. CASE Write(s)
    <3>1. Range(wire[s] \o hand[s]) \subseteq Range(wire[s]) \cup Range(hand[s])
      BY RangeConcat DEF TypeInv, TypeOK, QueueType
    <3>2. Range(<<>>) = {}
      BY DEF Range
    <3>3. Holds(s)' \subseteq Holds(s)
      BY <2>2, <3>1, <3>2 DEF Write, Holds, TypeInv, TypeOK, QueueType
    <3>4. \A t \in Session \ {s} : Holds(t)' = Holds(t)
      BY <2>2 DEF Write, Holds, TypeInv, TypeOK, QueueType
    <3> QED BY <3>3, <3>4
  <2>3. CASE WriteFails(s) \/ Abort(s)
    BY <2>3 DEF WriteFails, Abort, Holds
  <2> QED BY <1>9, <2>1, <2>2, <2>3 DEF Forward
<1>10. CASE UNCHANGED vars
  BY <1>4, <1>10 DEF vars
<1> QED BY <1>4, <1>6, <1>7, <1>8, <1>9, <1>10, RequestFrame, HandlerFrame DEF Next

(* No client is ever sent a message of a channel it may not read, for any  *)
(* number of sessions that subscribe, unsubscribe, join and leave while    *)
(* others publish: the scan and the sends of a route may be far apart, but *)
(* what made a session a target cannot stop permitting it.                 *)
THEOREM Confinement == Spec => []ReadConfined
<1>1. Init => ReadInv
  BY ReadInit
<1>2. ReadInv /\ [Next]_vars => ReadInv'
  BY TypeNext, GrantsStep, SubsStep, TargetsStep, QueuesStep DEF ReadInv
<1>3. ReadInv => ReadConfined
  BY DEF ReadInv
<1> QED BY <1>1, <1>2, <1>3, PTL DEF Spec

-----------------------------------------------------------------------------
(* What RoutedIn is, by Induction. *)

(* f[i] is what is routed of the first i messages of q.                    *)
UpTo(q, f, n) == f = [i \in 0..n |->
  IF i = 0 THEN <<>>
  ELSE IF IsRouted(q[i]) THEN Append(f[i - 1], q[i]) ELSE f[i - 1]]

LEMMA UpToExists ==
  ASSUME NEW S, NEW q \in Seq(S), NEW n \in Nat
  PROVE  \E f : UpTo(q, f, n)
<1> DEFINE T == {k \in Nat : \E f : UpTo(q, f, k)}
<1>1. 0 \in T
  <2> DEFINE f == [i \in 0..0 |-> <<>>]
  <2>1. UpTo(q, f, 0)
    BY DEF UpTo
  <2> QED BY <2>1
<1>2. ASSUME NEW k \in T PROVE k + 1 \in T
  <2>1. PICK f : UpTo(q, f, k)
    OBVIOUS
  <2> DEFINE g == [i \in 0..(k + 1) |->
                IF i = k + 1
                THEN (IF IsRouted(q[i]) THEN Append(f[i - 1], q[i]) ELSE f[i - 1])
                ELSE f[i]]
             onward(h) == [i \in 0..(k + 1) |->
                IF i = 0 THEN <<>>
                ELSE IF IsRouted(q[i]) THEN Append(h[i - 1], q[i]) ELSE h[i - 1]]
  <2>2. ASSUME NEW i \in 0..(k + 1) PROVE g[i] = onward(g)[i]
    <3>1. \A j \in 0..k : g[j] = f[j]
      OBVIOUS
    <3>2. \A j \in 0..k : f[j] = IF j = 0 THEN <<>>
             ELSE IF IsRouted(q[j]) THEN Append(f[j - 1], q[j]) ELSE f[j - 1]
      BY <2>1 DEF UpTo
    <3>3. CASE i = k + 1
      BY <3>1, <3>3
    <3>4. CASE i # k + 1
      BY <3>1, <3>2, <3>4
    <3> QED BY <3>3, <3>4
  <2>3. g = onward(g)
    BY <2>2
  <2>4. UpTo(q, g, k + 1)
    BY <2>3 DEF UpTo
  <2> QED BY <2>4
<1>3. T = Nat
  <2> HIDE DEF T
  <2>1. T \in SUBSET Nat
    BY DEF T
  <2> QED BY <1>1, <1>2, <2>1, Induction
<1> QED BY <1>3

LEMMA RoutedInIs ==
  ASSUME NEW S, NEW q \in Seq(S)
  PROVE  \E f : UpTo(q, f, Len(q)) /\ RoutedIn(q) = f[Len(q)]
<1>1. \E f : UpTo(q, f, Len(q))
  BY UpToExists
<1> QED BY <1>1 DEF RoutedIn, UpTo

(* What comes later does not matter.                                       *)
Begins(r, q, n) == \A i \in 1..n : r[i] = q[i]

LEMMA UpToAgrees ==
  ASSUME NEW q, NEW r, NEW n \in Nat, NEW f, NEW g, Begins(r, q, n),
         UpTo(q, f, n), UpTo(r, g, n + 1)
  PROVE  f[n] = g[n]
<1> DEFINE T == {k \in Nat : k <= n => f[k] = g[k]}
<1>1. 0 \in T
  BY DEF UpTo
<1>2. ASSUME NEW k \in T PROVE k + 1 \in T
  <2> SUFFICES ASSUME k + 1 <= n PROVE f[k + 1] = g[k + 1]
    OBVIOUS
  <2>1. f[k] = g[k] /\ r[k + 1] = q[k + 1] /\ k + 1 # 0 /\ (k + 1) - 1 = k
    BY DEF Begins
  <2>2. f[k + 1] = IF IsRouted(q[k + 1]) THEN Append(f[k], q[k + 1]) ELSE f[k]
    <3>1. \A i \in 0..n : f[i] = IF i = 0 THEN <<>>
             ELSE IF IsRouted(q[i]) THEN Append(f[i - 1], q[i]) ELSE f[i - 1]
      BY DEF UpTo
    <3> QED BY <2>1, <3>1
  <2>3. g[k + 1] = IF IsRouted(r[k + 1]) THEN Append(g[k], r[k + 1]) ELSE g[k]
    <3>1. \A i \in 0..(n + 1) : g[i] = IF i = 0 THEN <<>>
             ELSE IF IsRouted(r[i]) THEN Append(g[i - 1], r[i]) ELSE g[i - 1]
      BY DEF UpTo
    <3> QED BY <2>1, <3>1
  <2> QED BY <2>1, <2>2, <2>3
<1>3. T = Nat
  <2>1. T \in SUBSET Nat
    OBVIOUS
  <2> HIDE DEF T
  <2> QED BY <1>1, <1>2, <2>1, Induction
<1> QED BY <1>3

LEMMA RoutedInAppend ==
  ASSUME NEW S, NEW q \in Seq(S), NEW m \in S
  PROVE  RoutedIn(Append(q, m)) = IF IsRouted(m) THEN Append(RoutedIn(q), m) ELSE RoutedIn(q)
<1>0. PICK r : r = Append(q, m)
  OBVIOUS
<1>1. /\ r \in Seq(S) /\ Len(q) \in Nat /\ Len(r) = Len(q) + 1
      /\ \A i \in 1..Len(q) : r[i] = q[i]
      /\ r[Len(q) + 1] = m
  BY <1>0
<1>2. PICK f : UpTo(q, f, Len(q)) /\ RoutedIn(q) = f[Len(q)]
  BY RoutedInIs
<1>3. PICK g : UpTo(r, g, Len(q) + 1) /\ RoutedIn(r) = g[Len(q) + 1]
  BY <1>1, RoutedInIs
<1>4. f[Len(q)] = g[Len(q)]
  <2>1. Begins(r, q, Len(q))
    BY <1>1 DEF Begins
  <2> QED BY <1>1, <1>2, <1>3, <2>1, UpToAgrees
<1>5. g[Len(q) + 1] = IF IsRouted(m) THEN Append(g[Len(q)], m) ELSE g[Len(q)]
  <2>1. Len(q) + 1 \in 0..(Len(q) + 1) /\ Len(q) + 1 # 0 /\ (Len(q) + 1) - 1 = Len(q)
    BY <1>1
  <2>2. \A i \in 0..(Len(q) + 1) : g[i] = IF i = 0 THEN <<>>
           ELSE IF IsRouted(r[i]) THEN Append(g[i - 1], r[i]) ELSE g[i - 1]
    BY <1>3 DEF UpTo
  <2> QED BY <1>1, <2>1, <2>2
<1> QED BY <1>0, <1>2, <1>3, <1>4, <1>5

LEMMA RoutedInEmpty == RoutedIn(<<>>) = <<>>
<1>1. <<>> \in Seq(Outbound) /\ Len(<<>>) = 0
  OBVIOUS
<1>2. PICK f : UpTo(<<>>, f, 0) /\ RoutedIn(<<>>) = f[0]
  BY <1>1, RoutedInIs
<1> QED BY <1>2 DEF UpTo

LEMMA RoutedInRange ==
  ASSUME NEW S, NEW q \in Seq(S)
  PROVE  \A m : m \in Range(RoutedIn(q)) <=> m \in Range(q) /\ IsRouted(m)
<1>1. PICK f : UpTo(q, f, Len(q)) /\ RoutedIn(q) = f[Len(q)]
  BY RoutedInIs
<1> DEFINE T == {k \in Nat : k <= Len(q) =>
                   /\ f[k] \in Seq(S)
                   /\ \A m : m \in Range(f[k]) <=> \E i \in 1..k : m = q[i] /\ IsRouted(m)}
<1>2. Len(q) \in Nat /\ DOMAIN q = 1..Len(q) /\ \A i \in 1..Len(q) : q[i] \in S
  OBVIOUS
<1>3. \A i \in 0..Len(q) : f[i] = IF i = 0 THEN <<>>
         ELSE IF IsRouted(q[i]) THEN Append(f[i - 1], q[i]) ELSE f[i - 1]
  BY <1>1 DEF UpTo
<1>4. 0 \in T
  <2>1. f[0] = <<>>
    BY <1>2, <1>3
  <2>2. \A r : r = <<>> => Range(r) = {}
    BY DEF Range
  <2>3. <<>> \in Seq(S) /\ 1..0 = {}
    OBVIOUS
  <2>4. \A m : m \in Range(f[0]) <=> \E i \in 1..0 : m = q[i] /\ IsRouted(m)
    BY <2>1, <2>2, <2>3
  <2> QED BY <2>1, <2>3, <2>4
<1>5. ASSUME NEW k \in T PROVE k + 1 \in T
  <2> SUFFICES ASSUME k + 1 <= Len(q)
               PROVE  /\ f[k + 1] \in Seq(S)
                      /\ \A m : m \in Range(f[k + 1])
                                <=> \E i \in 1..(k + 1) : m = q[i] /\ IsRouted(m)
    OBVIOUS
  <2>1. /\ f[k] \in Seq(S)
        /\ \A m : m \in Range(f[k]) <=> \E i \in 1..k : m = q[i] /\ IsRouted(m)
    BY <1>2
  <2>2. k + 1 # 0 /\ (k + 1) - 1 = k /\ k + 1 \in 1..Len(q) /\ q[k + 1] \in S
        /\ 1..(k + 1) = 1..k \cup {k + 1}
    BY <1>2
  <2>3. f[k + 1] = IF IsRouted(q[k + 1]) THEN Append(f[k], q[k + 1]) ELSE f[k]
    BY <1>3, <2>2
  <2>4. CASE IsRouted(q[k + 1])
    <3>1. /\ Append(f[k], q[k + 1]) \in Seq(S)
          /\ Range(Append(f[k], q[k + 1])) = Range(f[k]) \cup {q[k + 1]}
      BY <2>1, <2>2, RangeAppend
    <3>2. f[k + 1] = Append(f[k], q[k + 1])
      BY <2>3, <2>4
    <3> QED BY <2>1, <2>2, <2>4, <3>1, <3>2
  <2>5. CASE ~IsRouted(q[k + 1])
    <3>2. f[k + 1] = f[k]
      BY <2>3, <2>5
    <3> QED BY <2>1, <2>2, <2>5, <3>2
  <2> QED BY <2>4, <2>5
<1>6. T = Nat
  <2> HIDE DEF T
  <2>1. T \in SUBSET Nat
    BY DEF T
  <2> QED BY <1>4, <1>5, <2>1, Induction
<1>7. \A m : m \in Range(f[Len(q)]) <=> \E i \in 1..Len(q) : m = q[i] /\ IsRouted(m)
  <2>1. Len(q) \in T
    <3> HIDE DEF T
    <3> QED BY <1>2, <1>6
  <2> QED BY <1>2, <2>1
<1>8. \A m : m \in Range(q) <=> \E i \in 1..Len(q) : m = q[i]
  BY <1>2 DEF Range
<1>9. \A m : m \in Range(RoutedIn(q)) <=> \E i \in 1..Len(q) : m = q[i] /\ IsRouted(m)
  BY <1>1, <1>7
<1> QED BY <1>8, <1>9

-----------------------------------------------------------------------------
(* What has been accepted for a client grows by one message at a time, at  *)
(* its end; the forwarding task only moves messages along in it.           *)
LEMMA Regroup ==
  ASSUME NEW S, NEW u \in Seq(S), NEW v \in Seq(S), NEW w \in Seq(S)
  PROVE  /\ (u \o v) \o w \in Seq(S)
         /\ \A m \in S : u \o v \o Append(w, m) = Append(u \o v \o w, m)
         /\ (u \o v) \o <<>> \o w = u \o v \o w
<1>1. /\ Len(u) \in Nat /\ Len(v) \in Nat /\ Len(w) \in Nat
      /\ u \o v \in Seq(S) /\ u \o v \o w \in Seq(S)
  OBVIOUS
<1>2. ASSUME NEW m \in S PROVE u \o v \o Append(w, m) = Append(u \o v \o w, m)
  OBVIOUS
<1>3. (u \o v) \o <<>> \o w = u \o v \o w
  OBVIOUS
<1> QED BY <1>1, <1>2, <1>3

LEMMA HeadMoves ==
  ASSUME NEW S, NEW u \in Seq(S), NEW w \in Seq(S), w # <<>>
  PROVE  u \o <<Head(w)>> \o Tail(w) = u \o <<>> \o w
<1>1. /\ Head(w) = w[1] /\ Tail(w) \in Seq(S) /\ Len(Tail(w)) = Len(w) - 1 /\ Len(w) > 0
      /\ \A i \in 1..(Len(w) - 1) : Tail(w)[i] = w[i + 1]
      /\ Head(w) \in S
  OBVIOUS
<1>2. u \o <<>> = u
  OBVIOUS
<1> QED BY <1>1, <1>2

LEMMA SentType ==
  ASSUME QueueType, NEW s \in Session
  PROVE  Sent(s) \in Seq(Outbound)
BY Regroup DEF QueueType, Sent

LEMMA SentSame ==
  ASSUME UNCHANGED queueVars
  PROVE  \A t \in Session : Sent(t)' = Sent(t)
BY DEF queueVars, Sent

LEMMA SentTrySend ==
  ASSUME QueueType, NEW s \in Session, NEW m \in Outbound, TrySend(s, m),
         UNCHANGED <<hand, wire>>
  PROVE  \A t \in Session :
           Sent(t)' = IF t = s /\ Accepts(s) THEN Append(Sent(t), m) ELSE Sent(t)
<1>1. CASE Accepts(s)
  <2>1. out' = [out EXCEPT ![s] = Append(out[s], m)]
    BY <1>1 DEF TrySend
  <2>2. wire[s] \o hand[s] \o Append(out[s], m) = Append(wire[s] \o hand[s] \o out[s], m)
    BY Regroup DEF QueueType
  <2> QED BY <1>1, <2>1, <2>2 DEF Sent, QueueType
<1>2. CASE ~Accepts(s)
  BY <1>2 DEF TrySend, Sent
<1> QED BY <1>1, <1>2

LEMMA SentForward ==
  ASSUME QueueType, NEW s \in Session, Forward(s)
  PROVE  \A t \in Session : Sent(t)' = Sent(t)
<1>1. CASE Take(s)
  <2>1. /\ out[s] \in Seq(Outbound) /\ wire[s] \in Seq(Outbound) /\ out[s] # <<>>
        /\ hand[s] = <<>>
    BY <1>1 DEF Take, QueueType
  <2>2. wire[s] \o <<Head(out[s])>> \o Tail(out[s]) = wire[s] \o <<>> \o out[s]
    BY <2>1, HeadMoves
  <2> QED BY <1>1, <2>1, <2>2 DEF Take, Sent, QueueType
<1>2. CASE Write(s)
  <2>1. wire[s] \o hand[s] \o <<>> \o out[s] = wire[s] \o hand[s] \o out[s]
    BY Regroup DEF QueueType
  <2> QED BY <1>2, <2>1 DEF Write, Sent, QueueType
<1>3. CASE WriteFails(s) \/ Abort(s)
  BY <1>3 DEF WriteFails, Abort, Sent
<1> QED BY <1>1, <1>2, <1>3 DEF Forward

-----------------------------------------------------------------------------
(* A handler's own state: one that is not routing has no trace of a route; *)
(* what it routes or will answer bears its name and its request's number;  *)
(* its targets are distinct, and none of them was tried before.            *)
Routing(x) == pc[x] \in {"scan", "send"}

Rests ==
  \A x \in Actor :
    /\ pc[x] = "idle" => reply[x] = None
    /\ ~Routing(x) => /\ job[x] = None /\ targets[x] = <<>>
                      /\ todo[x] = {} /\ seen[x] = {}
                      /\ must[x] = {} /\ may[x] = {} /\ lost[x] = {}

Stamped ==
  \A x \in Actor :
    /\ Routing(x) => job[x].src = x /\ job[x].seq = reqs[x]
    /\ reply[x] # None => reply[x].src = x /\ reply[x].seq = reqs[x]

Distinct(q) == \A i, j \in 1..Len(q) : q[i] = q[j] => i = j

Aims ==
  \A x \in Actor :
    /\ Distinct(targets[x])
    /\ Range(targets[x]) \subseteq seen[x] \ lost[x]
    /\ lost[x] \subseteq seen[x]

Own == Rests /\ Stamped /\ Aims

LEMMA OwnInit == Init => Own
<1> SUFFICES ASSUME Init PROVE Own
  OBVIOUS
<1>1. \A q : q = <<>> => Range(q) = {} /\ Distinct(q)
  BY DEF Range, Distinct
<1> QED BY <1>1 DEF Init, Own, Rests, Stamped, Aims, Routing

LEMMA DistinctAppend ==
  ASSUME NEW S, NEW q \in Seq(S), NEW e \in S, Distinct(q), e \notin Range(q)
  PROVE  Distinct(Append(q, e))
<1>1. /\ Len(q) \in Nat /\ DOMAIN q = 1..Len(q) /\ Len(Append(q, e)) = Len(q) + 1
      /\ \A i \in 1..Len(q) : Append(q, e)[i] = q[i] /\ q[i] # e
      /\ Append(q, e)[Len(q) + 1] = e
  BY DEF Range
<1> QED BY <1>1 DEF Distinct

LEMMA DistinctTail ==
  ASSUME NEW S, NEW q \in Seq(S), q # <<>>, Distinct(q)
  PROVE  Distinct(Tail(q)) /\ Head(q) \notin Range(Tail(q))
<1>1. /\ Len(q) \in Nat \ {0} /\ Len(Tail(q)) = Len(q) - 1 /\ Head(q) = q[1]
      /\ DOMAIN Tail(q) = 1..(Len(q) - 1)
      /\ \A i \in 1..(Len(q) - 1) : Tail(q)[i] = q[i + 1]
  OBVIOUS
<1> QED BY <1>1 DEF Distinct, Range

(* Steps that only narrow must, or widen may for a route under way.        *)
LEMMA OwnFrame ==
  ASSUME Own, UNCHANGED <<pc, reply, reqs, routeVars, lost>>,
         \A x \in Actor : must'[x] \subseteq must[x],
         \A x \in Actor : job[x] = None => may'[x] = may[x]
  PROVE  Own'
<1>1. Rests'
  BY DEF Own, Rests, Routing, routeVars
<1>2. Stamped' /\ Aims'
  BY DEF Own, Stamped, Aims, Routing, routeVars
<1> QED BY <1>1, <1>2 DEF Own

(* A request that is answered without routing anything.                    *)
LEMMA OwnAnswer ==
  ASSUME TypeInv, Own, NEW s \in Session, NEW request, NEW kind, NEW topic,
         NEW label \in {"index", "reply"},
         Ready(s, request), WillReply(s, kind, topic), Goto(s, label),
         UNCHANGED <<routeVars, lost>>,
         \A x \in Actor : must'[x] \subseteq must[x],
         \A x \in Actor : job[x] = None => may'[x] = may[x]
  PROVE  Own'
<1> USE DEF Own, TypeInv, TypeOK, HandlerType
<1>0. s \in Actor /\ pc[s] = "idle" /\ ~Routing(s)
  BY DEF Actor, Ready, Routing
<1>1. /\ pc' = [pc EXCEPT ![s] = label] /\ reqs' = [reqs EXCEPT ![s] = reqs[s] + 1]
      /\ reply' = [reply EXCEPT ![s] = [kind |-> kind, topic |-> topic,
                                        src |-> s, seq |-> reqs[s] + 1]]
  BY DEF Ready, WillReply, Goto
<1>2. pc'[s] = label /\ reqs'[s] = reqs[s] + 1 /\ reply'[s].src = s /\ reply'[s].seq = reqs[s] + 1
  BY <1>0, <1>1
<1>3. \A x \in Actor \ {s} : pc'[x] = pc[x] /\ reqs'[x] = reqs[x] /\ reply'[x] = reply[x]
  BY <1>1
<1>4. Rests'
  BY <1>0, <1>2, <1>3 DEF Rests, Routing, routeVars
<1>5. Stamped'
  BY <1>0, <1>2, <1>3 DEF Stamped, Routing, routeVars
<1>6. Aims'
  BY DEF Aims, routeVars
<1> QED BY <1>4, <1>5, <1>6

LEMMA OwnStart ==
  ASSUME TypeInv, Own, NEW x \in Actor, NEW kind, NEW ch, pc[x] = "idle",
         StartRoute(x, kind, ch), reqs' = [reqs EXCEPT ![x] = @ + 1],
         reply'[x] = None \/ (reply'[x].src = x /\ reply'[x].seq = reqs[x] + 1),
         \A y \in Actor \ {x} : reply'[y] = reply[y]
  PROVE  Own'
<1> USE DEF Own, TypeInv, TypeOK, HandlerType, RouteType, HistoryType
<1>1. /\ pc'[x] = "scan" /\ reqs'[x] = reqs[x] + 1
      /\ job'[x].src = x /\ job'[x].seq = reqs[x] + 1
      /\ UNCHANGED <<seen, targets, lost>>
  BY DEF StartRoute, Goto
<1>2. \A y \in Actor \ {x} :
        /\ pc'[y] = pc[y] /\ reqs'[y] = reqs[y] /\ job'[y] = job[y] /\ todo'[y] = todo[y]
        /\ must'[y] = must[y] /\ may'[y] = may[y]
  BY DEF StartRoute, Goto
<1>3. Rests'
  <2>1. ASSUME NEW y \in Actor \ {x}
        PROVE  /\ pc'[y] = "idle" => reply'[y] = None
               /\ ~Routing(y)' => /\ job'[y] = None /\ targets'[y] = <<>>
                                  /\ todo'[y] = {} /\ seen'[y] = {}
                                  /\ must'[y] = {} /\ may'[y] = {} /\ lost'[y] = {}
    BY <1>1, <1>2 DEF Rests, Routing
  <2> QED BY <1>1, <2>1 DEF Rests, Routing
<1>4. Stamped'
  BY <1>1, <1>2 DEF Stamped, Routing
<1>5. Aims'
  BY <1>1 DEF Aims
<1> QED BY <1>3, <1>4, <1>5

LEMMA OwnRequest ==
  ASSUME TypeInv, Own, NEW s \in Session, Request(s)
  PROVE  Own'
<1>0. s \in Actor
  BY DEF Actor
<1>1. ASSUME NEW p \in Pat, Subscribe(s, p) PROVE Own'
  <2>1. \A x \in Actor : job[x] = None => may'[x] = may[x]
    BY <1>1 DEF Subscribe
  <2>2. /\ Ready(s, "Subscribe") /\ WillReply(s, "Subscribed", p) /\ Goto(s, "index")
        /\ UNCHANGED <<routeVars, lost, must>>
    BY <1>1 DEF Subscribe
  <2> QED BY <2>1, <2>2, OwnAnswer
<1>2. ASSUME NEW p \in Pat, Unsubscribe(s, p) PROVE Own'
  <2>1. \A x \in Actor : must'[x] \subseteq must[x]
    BY <1>2 DEF Unsubscribe
  <2>2. /\ Ready(s, "Unsubscribe") /\ WillReply(s, "Unsubscribed", p) /\ Goto(s, "reply")
        /\ UNCHANGED <<routeVars, lost, may>>
    BY <1>2 DEF Unsubscribe
  <2> QED BY <2>1, <2>2, OwnAnswer
<1>3. ASSUME NEW p, SubscribeRefused(s, p) PROVE Own'
  BY <1>3, OwnAnswer DEF SubscribeRefused, history
<1>4. ASSUME NEW kind, NEW ch, Publish(s, kind, ch) PROVE Own'
  <2>1. /\ pc[s] = "idle" /\ reqs' = [reqs EXCEPT ![s] = @ + 1]
        /\ reply' = [reply EXCEPT ![s] = [kind |-> "Published", topic |-> ch,
                                          src |-> s, seq |-> reqs[s] + 1]]
        /\ StartRoute(s, kind, ch)
    BY <1>4 DEF Publish, Ready, WillReply
  <2>2. /\ reply'[s].src = s /\ reply'[s].seq = reqs[s] + 1
        /\ \A y \in Actor \ {s} : reply'[y] = reply[y]
    BY <1>0, <2>1 DEF TypeInv, TypeOK, HandlerType
  <2> QED BY <1>0, <2>1, <2>2, OwnStart
<1>5. ASSUME NEW kind, NEW ch, PublishRefused(s, kind, ch) PROVE Own'
  BY <1>5, OwnAnswer DEF PublishRefused, history
<1>6. ASSUME NEW ch, YjsAwareness(s, ch) PROVE Own'
  <2>1. /\ pc[s] = "idle" /\ reqs' = [reqs EXCEPT ![s] = @ + 1] /\ reply' = reply
        /\ StartRoute(s, "YjsAwareness", ch)
    BY <1>6 DEF YjsAwareness, Ready
  <2>2. reply[s] = None
    BY <1>0, <2>1 DEF Own, Rests
  <2> QED BY <1>0, <2>1, <2>2, OwnStart
<1>7. ASSUME NEW ch, YjsSyncRequest(s, ch) PROVE Own'
  BY <1>7, OwnAnswer DEF YjsSyncRequest, history
<1>8. CASE Ping(s)
  BY <1>8, OwnAnswer DEF Ping, history
<1> QED BY <1>1, <1>2, <1>3, <1>4, <1>5, <1>6, <1>7, <1>8 DEF Request

LEMMA OwnRoute ==
  ASSUME TypeInv, Own, NEW x \in Actor, Route(x)
  PROVE  Own'
<1> USE DEF Own, TypeInv, TypeOK, HandlerType, RouteType, HistoryType
<1>0. targets[x] \in Seq(Session)
  OBVIOUS
<1>1. ASSUME NEW s \in Session, Visit(x, s) PROVE Own'
  <2>1. /\ Routing(x) /\ s \notin seen[x] /\ UNCHANGED <<pc, job, reply, reqs, todo, history>>
        /\ seen' = [seen EXCEPT ![x] = seen[x] \cup {s}]
        /\ targets'[x] = targets[x] \/ targets'[x] = Append(targets[x], s)
        /\ \A y \in Actor \ {x} : targets'[y] = targets[y] /\ seen'[y] = seen[y]
    BY <1>1 DEF Visit, Routing
  <2>2. s \notin Range(targets[x])
    BY <2>1 DEF Aims
  <2>3. /\ Range(Append(targets[x], s)) = Range(targets[x]) \cup {s}
        /\ Distinct(Append(targets[x], s))
    BY <1>0, <2>2, RangeAppend, DistinctAppend DEF Aims
  <2>4. seen'[x] = seen[x] \cup {s} /\ s \notin lost[x]
    BY <2>1 DEF Aims
  <2>5. Aims'
    BY <2>1, <2>3, <2>4 DEF Aims, history
  <2>6. Rests' /\ Stamped'
    BY <2>1 DEF Rests, Stamped, Routing, history
  <2> QED BY <2>5, <2>6
<1>2. CASE ScanDone(x)
  <2>1. /\ Routing(x) /\ UNCHANGED <<reply, reqs, routeVars, history>>
        /\ pc'[x] = "send" /\ \A y \in Actor \ {x} : pc'[y] = pc[y]
    BY <1>2 DEF ScanDone, Goto, Routing
  <2>2. \A y \in Actor : Routing(y)' = Routing(y)
    BY <2>1 DEF Routing
  <2>3. Rests'
    BY <2>1, <2>2 DEF Rests, Routing, routeVars, history
  <2>4. Stamped' /\ Aims'
    BY <2>1, <2>2 DEF Stamped, Aims, routeVars, history
  <2> QED BY <2>3, <2>4
<1>3. CASE SendNext(x)
  <2>1. /\ Routing(x) /\ targets[x] # <<>>
        /\ UNCHANGED <<pc, reply, reqs, job, todo, seen, must, may>>
        /\ targets'[x] = Tail(targets[x])
        /\ lost'[x] = lost[x] \/ lost'[x] = lost[x] \cup {Head(targets[x])}
        /\ \A y \in Actor \ {x} : targets'[y] = targets[y] /\ lost'[y] = lost[y]
    BY <1>3 DEF SendNext, Routing
  <2>2. /\ Head(targets[x]) \in Range(targets[x])
        /\ Range(Tail(targets[x])) \subseteq Range(targets[x])
    BY <1>0, <2>1, RangeHeadTail
  <2>3. Distinct(Tail(targets[x])) /\ Head(targets[x]) \notin Range(Tail(targets[x]))
    BY <1>0, <2>1, DistinctTail DEF Aims
  <2>4. Aims'
    BY <2>1, <2>2, <2>3 DEF Aims
  <2>5. Rests' /\ Stamped'
    BY <2>1 DEF Rests, Stamped, Routing
  <2> QED BY <2>4, <2>5
<1>4. CASE RouteDone(x)
  <2>1. /\ targets' = targets /\ targets[x] = <<>> /\ UNCHANGED <<reply, reqs>> /\ Routing(x)
        /\ pc'[x] = IF reply[x] = None THEN "idle" ELSE "reply"
        /\ job'[x] = None /\ todo'[x] = {} /\ seen'[x] = {}
        /\ must'[x] = {} /\ may'[x] = {} /\ lost'[x] = {}
    BY <1>4 DEF RouteDone, Goto, Routing
  <2>2. \A y \in Actor \ {x} :
          /\ pc'[y] = pc[y] /\ job'[y] = job[y] /\ todo'[y] = todo[y] /\ seen'[y] = seen[y]
          /\ must'[y] = must[y] /\ may'[y] = may[y] /\ lost'[y] = lost[y]
    BY <1>4 DEF RouteDone, Goto
  <2>3. \A q : q = <<>> => Range(q) = {}
    BY DEF Range
  <2>4. Aims'
    BY <2>1, <2>2, <2>3 DEF Aims
  <2>5. Rests'
    BY <2>1, <2>2 DEF Rests, Routing
  <2>6. Stamped'
    BY <2>1, <2>2 DEF Stamped, Routing
  <2> QED BY <2>4, <2>5, <2>6
<1> QED BY <1>1, <1>2, <1>3, <1>4 DEF Route

LEMMA OwnStep ==
  ASSUME TypeInv, Own, [Next]_vars
  PROVE  Own'
<1> USE DEF TypeInv, TypeOK, HandlerType
<1>1. ASSUME NEW s \in Session, Life(s) PROVE Own'
  <2>1. /\ UNCHANGED <<pc, reply, reqs, routeVars, lost, may>>
        /\ \A x \in Actor : must'[x] \subseteq must[x]
    BY <1>1 DEF Life, Authenticate, AuthFails, Register, Disconnect, CleanIndex, history
  <2> QED BY <2>1, OwnFrame
<1>2. ASSUME NEW s \in Session, IndexSubscription(s) PROVE Own'
  <2>1. /\ s \in Actor /\ pc[s] = "index" /\ pc'[s] = "reply"
        /\ \A x \in Actor \ {s} : pc'[x] = pc[x]
        /\ UNCHANGED <<reply, reqs, routeVars, history>>
    BY <1>2 DEF IndexSubscription, Goto, Actor
  <2>2. Rests' /\ Stamped'
    BY <2>1 DEF Own, Rests, Stamped, Routing, routeVars, history
  <2>3. Aims'
    BY <2>1 DEF Own, Aims, routeVars, history
  <2> QED BY <2>2, <2>3 DEF Own
<1>3. ASSUME NEW s \in Session, SendReply(s) PROVE Own'
  <2>1. /\ s \in Actor /\ pc[s] = "reply" /\ pc'[s] = "idle" /\ reply'[s] = None
        /\ \A x \in Actor \ {s} : pc'[x] = pc[x] /\ reply'[x] = reply[x]
        /\ UNCHANGED <<reqs, routeVars, history>>
    BY <1>3 DEF SendReply, Goto, Actor
  <2>2. Rests' /\ Stamped'
    BY <2>1 DEF Own, Rests, Stamped, Routing, routeVars, history
  <2>3. Aims'
    BY <2>1 DEF Own, Aims, routeVars, history
  <2> QED BY <2>2, <2>3 DEF Own
<1>4. ASSUME NEW s \in Session, Forward(s) PROVE Own'
  <2>1. UNCHANGED <<pc, reply, reqs, routeVars, history>>
    BY <1>4 DEF Forward, Take, Write, WriteFails, Abort
  <2> QED BY <2>1, OwnFrame DEF history
<1>5. ASSUME NEW k \in Caller, NEW ch \in Chan, ApiPublish(k, ch) PROVE Own'
  <2>1. /\ k \in Actor /\ pc[k] = "idle" /\ reqs' = [reqs EXCEPT ![k] = @ + 1]
        /\ reply' = reply /\ StartRoute(k, "Message", ch)
    BY <1>5 DEF ApiPublish, Actor
  <2>2. reply[k] = None
    BY <2>1 DEF Own, Rests
  <2> QED BY <2>1, <2>2, OwnStart
<1>6. CASE UNCHANGED vars
  <2>1. UNCHANGED <<pc, reply, reqs, routeVars, history>>
    BY <1>6 DEF vars
  <2> QED BY <2>1, OwnFrame DEF history
<1> QED BY <1>1, <1>2, <1>3, <1>4, <1>5, <1>6, OwnRequest, OwnRoute DEF Next

-----------------------------------------------------------------------------
(* The registry holds the sessions that are open, and a session that has   *)
(* not been registered yet has done nothing.                               *)
Registered == connections = {s \in Session : phase[s] = "open"}

Untouched ==
  \A s \in Session :
    /\ phase[s] \in {"new", "greeted"} => subs[s] = {} /\ pc[s] = "idle" /\ fwd[s] = "none"
    /\ phase[s] = "new" => wire[s] = <<>>
    /\ fwd[s] = "none" => hand[s] = <<>> /\ out[s] = <<>>

Lives == Registered /\ Untouched

LEMMA LivesInit == Init => Lives
<1> SUFFICES ASSUME Init PROVE Lives
  OBVIOUS
<1>1. Registered
  BY DEF Init, Registered
<1>2. Untouched
  BY DEF Init, Untouched, Actor
<1> QED BY <1>1, <1>2 DEF Lives

LEMMA LivesFrame ==
  ASSUME Lives, UNCHANGED <<phase, connections>>,
         \A s \in Session : phase[s] = "open" \/ (subs'[s] = subs[s] /\ pc'[s] = pc[s]),
         UNCHANGED <<fwd, hand, wire>>,
         \A s \in Session : fwd[s] = "none" => out'[s] = out[s]
  PROVE  Lives'
<1>1. Registered'
  BY DEF Lives, Registered
<1>2. Untouched'
  BY DEF Lives, Untouched
<1> QED BY <1>1, <1>2 DEF Lives

LEMMA LivesTrySend ==
  ASSUME TypeInv, NEW s \in Session, NEW m, TrySend(s, m)
  PROVE  \A t \in Session : fwd[t] = "none" => out'[t] = out[t]
BY DEF TrySend, Accepts, TypeInv, TypeOK, QueueType

LEMMA LivesLife ==
  ASSUME TypeInv, Lives, NEW s \in Session, Life(s)
  PROVE  Lives'
<1> USE DEF Lives, TypeInv, TypeOK, SessionType, QueueType
<1>1. ASSUME NEW id \in Identity, Authenticate(s, id) PROVE Lives'
  <2>1. /\ phase[s] = "new" /\ phase'[s] = "greeted"
        /\ \A t \in Session \ {s} : phase'[t] = phase[t] /\ wire'[t] = wire[t]
        /\ UNCHANGED <<subs, connections, out, fwd, hand, pc>>
    BY <1>1 DEF Authenticate
  <2> QED BY <2>1 DEF Registered, Untouched
<1>2. CASE AuthFails(s)
  <2>1. /\ phase[s] = "new" /\ phase'[s] = "closed"
        /\ \A t \in Session \ {s} : phase'[t] = phase[t]
        /\ UNCHANGED <<subs, connections, queueVars, pc>>
    BY <1>2 DEF AuthFails
  <2> QED BY <2>1 DEF Registered, Untouched, queueVars
<1>3. CASE Register(s)
  <2>1. /\ phase[s] = "greeted" /\ phase'[s] = "open" /\ fwd'[s] = "running"
        /\ \A t \in Session \ {s} : phase'[t] = phase[t] /\ fwd'[t] = fwd[t]
        /\ connections' = connections \cup {s}
        /\ UNCHANGED <<subs, out, hand, wire, pc>>
    BY <1>3 DEF Register
  <2> QED BY <2>1 DEF Registered, Untouched
<1>4. CASE Disconnect(s)
  <2>1. /\ phase[s] = "open" /\ phase'[s] = "removed"
        /\ \A t \in Session \ {s} : phase'[t] = phase[t]
        /\ connections' = connections \ {s}
        /\ UNCHANGED <<subs, queueVars, pc>>
    BY <1>4 DEF Disconnect
  <2> QED BY <2>1 DEF Registered, Untouched, queueVars
<1>5. CASE CleanIndex(s)
  <2>1. /\ phase[s] = "removed" /\ phase'[s] = "closed"
        /\ \A t \in Session \ {s} : phase'[t] = phase[t]
        /\ UNCHANGED <<subs, connections, queueVars, pc>>
    BY <1>5 DEF CleanIndex
  <2> QED BY <2>1 DEF Registered, Untouched, queueVars
<1> QED BY <1>1, <1>2, <1>3, <1>4, <1>5 DEF Life

LEMMA LivesStep ==
  ASSUME TypeInv, Lives, [Next]_vars
  PROVE  Lives'
<1> USE DEF TypeInv, TypeOK, HandlerType, SessionType
<1>1. ASSUME NEW s \in Session, Request(s) PROVE Lives'
  <2>1. /\ phase[s] = "open" /\ UNCHANGED <<phase, connections, queueVars>>
        /\ \A t \in Session \ {s} : subs'[t] = subs[t] /\ pc'[t] = pc[t]
    <3>1. phase[s] = "open" /\ UNCHANGED <<phase, connections, queueVars>>
      BY <1>1, RequestFrame DEF Request, Subscribe, Unsubscribe, SubscribeRefused, Publish,
                  PublishRefused, YjsAwareness, YjsSyncRequest, Ping, Ready
    <3>2. \A t \in Session \ {s} : subs'[t] = subs[t]
      BY <1>1 DEF Request, Subscribe, Unsubscribe, SubscribeRefused, Publish,
                  PublishRefused, YjsAwareness, YjsSyncRequest, Ping, StartRoute, sessionVars
    <3>3. \A t \in Session \ {s} : pc'[t] = pc[t]
      BY <1>1 DEF Request, Subscribe, Unsubscribe, SubscribeRefused, Publish,
                  PublishRefused, YjsAwareness, YjsSyncRequest, Ping, StartRoute, Goto, Actor
    <3> QED BY <3>1, <3>2, <3>3
  <2> QED BY <2>1, LivesFrame DEF queueVars
<1>2. ASSUME NEW s \in Session, IndexSubscription(s) PROVE Lives'
  <2>1. /\ pc[s] # "idle" /\ UNCHANGED <<phase, connections, subs, queueVars>>
        /\ \A t \in Session \ {s} : pc'[t] = pc[t]
    BY <1>2 DEF IndexSubscription, Goto
  <2>2. Registered'
    BY <2>1 DEF Lives, Registered
  <2>3. Untouched'
    BY <2>1 DEF Lives, Untouched, queueVars
  <2> QED BY <2>2, <2>3 DEF Lives
<1>3. ASSUME NEW s \in Session, SendReply(s) PROVE Lives'
  <2>1. /\ pc[s] # "idle" /\ UNCHANGED <<phase, connections, subs, fwd, hand, wire>>
        /\ \A t \in Session \ {s} : pc'[t] = pc[t]
        /\ TrySend(s, reply[s])
    BY <1>3 DEF SendReply, Goto, sessionVars
  <2>2. \A t \in Session : fwd[t] = "none" => out'[t] = out[t]
    BY <2>1, LivesTrySend
  <2>3. Registered'
    BY <2>1 DEF Lives, Registered
  <2>4. Untouched'
    BY <2>1, <2>2 DEF Lives, Untouched
  <2> QED BY <2>3, <2>4 DEF Lives
<1>4. ASSUME NEW s \in Session, Forward(s) PROVE Lives'
  <2>1. /\ fwd[s] = "running" /\ fwd'[s] # "none" /\ UNCHANGED <<sessionVars, pc>>
        /\ \A t \in Session \ {s} : /\ fwd'[t] = fwd[t] /\ out'[t] = out[t]
                                    /\ hand'[t] = hand[t] /\ wire'[t] = wire[t]
    BY <1>4 DEF Forward, Take, Write, WriteFails, Abort, QueueType
  <2>2. Registered'
    BY <2>1 DEF Lives, Registered, sessionVars
  <2>3. Untouched'
    BY <2>1 DEF Lives, Untouched, sessionVars
  <2> QED BY <2>2, <2>3 DEF Lives
<1>5. ASSUME NEW k \in Caller, NEW ch \in Chan, ApiPublish(k, ch) PROVE Lives'
  <2>1. /\ UNCHANGED <<sessionVars, queueVars>>
        /\ \A t \in Session : t # k /\ pc'[t] = pc[t]
    BY <1>5, BrokerAssumption DEF ApiPublish, StartRoute, Goto, Actor
  <2> QED BY <2>1, LivesFrame DEF sessionVars, queueVars
<1>6. ASSUME NEW x \in Actor, Route(x) PROVE Lives'
  <2>1. /\ pc[x] # "idle" /\ UNCHANGED <<sessionVars, fwd, hand, wire>>
        /\ \A t \in Session \ {x} : pc'[t] = pc[t]
    BY <1>6 DEF Route, Visit, ScanDone, SendNext, RouteDone, Goto, sessionVars, queueVars, Actor
  <2>2. \A t \in Session : fwd[t] = "none" => out'[t] = out[t]
    <3>1. CASE SendNext(x)
      <4>1. targets[x] \in Seq(Session) /\ targets[x] # <<>>
        BY <3>1 DEF SendNext, RouteType
      <4>2. Head(targets[x]) \in Session
        BY <4>1, RangeHeadTail
      <4> QED BY <3>1, <4>2, LivesTrySend DEF SendNext
    <3>2. CASE ~SendNext(x)
      BY <1>6, <3>2 DEF Route, Visit, ScanDone, RouteDone, queueVars
    <3> QED BY <3>1, <3>2
  <2>3. Registered'
    BY <2>1 DEF Lives, Registered, sessionVars
  <2>4. Untouched'
    BY <2>1, <2>2 DEF Lives, Untouched, sessionVars
  <2> QED BY <2>3, <2>4 DEF Lives
<1>7. CASE UNCHANGED vars
  BY <1>7, LivesFrame DEF vars, sessionVars, queueVars
<1> QED BY <1>1, <1>2, <1>3, <1>4, <1>5, <1>6, <1>7, LivesLife DEF Next

-----------------------------------------------------------------------------
(* The prefix index.                                                       *)
LEMMA IndexFrame ==
  ASSUME Registered, Registered', IndexComplete, TypeInv, UNCHANGED <<subs, index>>,
         \A s \in Session : phase'[s] = "open" => phase[s] = "open" \/ subs[s] = {},
         \A s \in Session : pc[s] = "index" => pc'[s] = "index" /\ reply'[s] = reply[s]
  PROVE  IndexComplete'
BY DEF IndexComplete, Registered, TypeInv, TypeOK, SessionType

LEMMA IndexStep ==
  ASSUME TypeInv, Lives, Lives', IndexComplete, [Next]_vars
  PROVE  IndexComplete'
<1> USE DEF TypeInv, TypeOK, SessionType, HandlerType
<1>0. Registered /\ Registered'
  BY DEF Lives
<1>1. ASSUME NEW s \in Session, Life(s) PROVE IndexComplete'
  <2>1. CASE CleanIndex(s)
    <3>1. /\ s \notin connections /\ UNCHANGED <<connections, subs, pc, reply>>
          /\ \A x \in Prefix : index[x] \subseteq index'[x] \cup {s}
      BY <1>0, <2>1 DEF CleanIndex, Registered
    <3>2. \A t \in Session : \A p \in subs[t] : p.prefix \in Prefix
      BY DEF Prefix
    <3> QED BY <3>1, <3>2 DEF IndexComplete
  <2>2. CASE ~CleanIndex(s)
    <3>1. /\ UNCHANGED <<subs, index, pc, reply>>
          /\ \A t \in Session : phase'[t] = "open" => phase[t] \in {"open", "greeted"}
      BY <1>1, <2>2 DEF Life, Authenticate, AuthFails, Register, Disconnect
    <3>2. \A t \in Session : phase'[t] = "open" => phase[t] = "open" \/ subs[t] = {}
      BY <3>1 DEF Lives, Untouched
    <3> QED BY <1>0, <3>1, <3>2, IndexFrame
  <2> QED BY <2>1, <2>2
<1>2. ASSUME NEW s \in Session, NEW p \in Pat, Subscribe(s, p) PROVE IndexComplete'
  <2>1. /\ pc[s] = "idle" /\ pc'[s] = "index" /\ reply'[s].topic = p
        /\ subs'[s] = subs[s] \cup {p} /\ UNCHANGED <<connections, index>>
        /\ \A t \in Session \ {s} : pc'[t] = pc[t] /\ reply'[t] = reply[t] /\ subs'[t] = subs[t]
    BY <1>2 DEF Subscribe, Ready, WillReply, Goto, Actor
  <2> QED BY <2>1 DEF IndexComplete
<1>3. ASSUME NEW s \in Session, NEW p \in Pat, Unsubscribe(s, p) PROVE IndexComplete'
  <2>1. /\ pc[s] = "idle" /\ subs'[s] = subs[s] \ {p} /\ UNCHANGED <<connections, index>>
        /\ \A t \in Session \ {s} : pc'[t] = pc[t] /\ reply'[t] = reply[t] /\ subs'[t] = subs[t]
    BY <1>3 DEF Unsubscribe, Ready, WillReply, Goto, Actor
  <2> QED BY <2>1 DEF IndexComplete
<1>4. ASSUME NEW s \in Session, Request(s),
             \A p \in Pat : ~Subscribe(s, p) /\ ~Unsubscribe(s, p)
      PROVE  IndexComplete'
  <2>1. /\ pc[s] = "idle" /\ UNCHANGED sessionVars
        /\ \A t \in Session \ {s} : pc'[t] = pc[t] /\ reply'[t] = reply[t]
    BY <1>4 DEF Request, SubscribeRefused, Publish, PublishRefused, YjsAwareness,
                YjsSyncRequest, Ping, StartRoute, Ready, WillReply, Goto, Actor
  <2> QED BY <1>0, <2>1, IndexFrame DEF sessionVars
<1>5. ASSUME NEW s \in Session, IndexSubscription(s) PROVE IndexComplete'
  <2> DEFINE x == reply[s].topic.prefix
  <2>1. /\ index' = [index EXCEPT ![x] = index[x] \cup {s}]
        /\ UNCHANGED <<connections, subs, reply>> /\ pc[s] = "index"
        /\ \A t \in Session \ {s} : pc'[t] = pc[t]
    BY <1>5 DEF IndexSubscription, Goto, Actor
  <2> SUFFICES ASSUME NEW t \in connections, NEW p \in subs[t]
               PROVE  t \in index'[p.prefix] \/ (pc'[t] = "index" /\ reply'[t].topic = p)
    BY <2>1 DEF IndexComplete
  <2>2. p.prefix \in Prefix /\ index[p.prefix] \subseteq index'[p.prefix]
    <3>1. p.prefix \in Prefix
      BY DEF Prefix
    <3> QED BY <2>1, <3>1
  <2>3. CASE t \in index[p.prefix]
    BY <2>2, <2>3
  <2>4. CASE t # s /\ t \notin index[p.prefix]
    BY <2>1, <2>4 DEF IndexComplete
  <2>5. CASE t = s /\ t \notin index[p.prefix]
    <3>1. x = p.prefix
      BY <2>5 DEF IndexComplete
    <3> QED BY <2>1, <2>2, <2>5, <3>1
  <2> QED BY <2>3, <2>4, <2>5
<1>6. ASSUME NEW s \in Session, SendReply(s) PROVE IndexComplete'
  <2>1. /\ UNCHANGED sessionVars /\ pc[s] = "reply"
        /\ \A t \in Session \ {s} : pc'[t] = pc[t] /\ reply'[t] = reply[t]
    BY <1>6 DEF SendReply, Goto, Actor
  <2> QED BY <1>0, <2>1, IndexFrame DEF sessionVars
<1>7. ASSUME NEW s \in Session, Forward(s) PROVE IndexComplete'
  <2>1. UNCHANGED <<sessionVars, pc, reply>>
    BY <1>7 DEF Forward, Take, Write, WriteFails, Abort
  <2> QED BY <1>0, <2>1, IndexFrame DEF sessionVars
<1>8. ASSUME NEW k \in Caller, NEW ch \in Chan, ApiPublish(k, ch) PROVE IndexComplete'
  <2>1. UNCHANGED <<sessionVars, reply>> /\ \A t \in Session : pc'[t] = pc[t]
    BY <1>8, BrokerAssumption DEF ApiPublish, StartRoute, Goto, Actor
  <2> QED BY <1>0, <2>1, IndexFrame DEF sessionVars
<1>9. ASSUME NEW x \in Actor, Route(x) PROVE IndexComplete'
  <2>1. /\ UNCHANGED <<sessionVars, reply>> /\ pc[x] # "index"
        /\ \A t \in Session \ {x} : pc'[t] = pc[t]
    BY <1>9 DEF Route, Visit, ScanDone, SendNext, RouteDone, Goto, Actor
  <2> QED BY <1>0, <2>1, IndexFrame DEF sessionVars
<1>10. CASE UNCHANGED vars
  BY <1>0, <1>10, IndexFrame DEF vars, sessionVars
<1>11. ASSUME NEW s \in Session, Request(s) PROVE IndexComplete'
  BY <1>2, <1>3, <1>4, <1>11
<1> QED BY <1>1, <1>5, <1>6, <1>7, <1>8, <1>9, <1>10, <1>11 DEF Next

(* The prefix index never misses a live subscription, but for the step     *)
(* between storing it and indexing it, whatever sessions share a prefix,   *)
(* unsubscribe, leave and come.                                            *)
THEOREM IndexNeverMisses == Spec => []IndexComplete
<1>1. Init => TypeInv /\ Lives /\ IndexComplete
  BY TypeInit, LivesInit DEF Init, IndexComplete
<1>2. TypeInv /\ Lives /\ IndexComplete /\ [Next]_vars => (TypeInv /\ Lives /\ IndexComplete)'
  BY TypeNext, LivesStep, IndexStep
<1> QED BY <1>1, <1>2, PTL DEF Spec

-----------------------------------------------------------------------------
(* The order in which one source's messages reach a queue.  A message's    *)
(* number never exceeds its source's; while the source is busy only routed *)
(* messages bear its present number; and a session that its route has yet  *)
(* to visit, or to send to, has nothing of that number.                    *)
Dated(s, m) ==
  /\ m.seq <= reqs[m.src]
  /\ pc[m.src] # "idle" /\ m.seq = reqs[m.src] => IsRouted(m)
  /\ Routing(m.src) /\ (s \notin seen[m.src] \/ s \in Range(targets[m.src])) =>
       m.seq < reqs[m.src]

Numbered == \A s \in Session : \A m \in Range(Sent(s)) : Dated(s, m)

Precedes(m, n) ==
  m.src = n.src => \/ m.seq < n.seq
                   \/ m.seq = n.seq /\ IsRouted(m) /\ ~IsRouted(n)

(* What a step may do to a handler so that what was sent stays in order.   *)
Continues(x) ==
  /\ reqs'[x] = reqs[x]
  /\ pc[x] = "idle" => pc'[x] = "idle"
  /\ Routing(x)' =>
       /\ Routing(x)
       /\ \A s \in Session : s \notin seen'[x] \/ s \in Range(targets'[x]) =>
                             s \notin seen[x] \/ s \in Range(targets[x])

Restarts(x) == reqs'[x] = reqs[x] + 1 /\ pc[x] = "idle"

LEMMA SentMessage ==
  ASSUME TypeInv, NEW s \in Session, NEW m \in Range(Sent(s))
  PROVE  m \in Outbound /\ m.src \in Actor /\ m.seq \in Nat
<1>1. Sent(s) \in Seq(Outbound)
  BY SentType DEF TypeInv, TypeOK
<1>2. m \in Outbound
  BY <1>1 DEF Range
<1> QED BY <1>2, BrokerAssumption DEF Outbound, Routed, Reply, Actor

LEMMA DatedKept ==
  ASSUME TypeInv, NEW s \in Session, NEW m, m.src \in Actor, m.seq \in Nat, Dated(s, m),
         Continues(m.src) \/ Restarts(m.src)
  PROVE  Dated(s, m)'
<1>1. reqs[m.src] \in Nat
  BY BrokerAssumption DEF TypeInv, TypeOK, HandlerType
<1>2. CASE Continues(m.src)
  BY <1>1, <1>2 DEF Dated, Continues, IsRouted
<1>3. CASE Restarts(m.src)
  BY <1>1, <1>3 DEF Dated, Restarts, IsRouted
<1> QED BY <1>2, <1>3

LEMMA HandlersGoOn ==
  ASSUME TypeInv, Own, [Next]_vars
  PROVE  \A x \in Actor : Continues(x) \/ Restarts(x)
<1> USE DEF TypeInv, TypeOK, HandlerType
<1>1. ASSUME NEW x \in Actor,
             pc'[x] = pc[x], reqs'[x] = reqs[x], seen'[x] = seen[x], targets'[x] = targets[x]
      PROVE  Continues(x)
  BY <1>1 DEF Continues, Routing
<1>2. CASE UNCHANGED <<pc, reqs, routeVars>>
  BY <1>1, <1>2 DEF routeVars
<1>3. ASSUME NEW s \in Session, Request(s) PROVE \A x \in Actor : Continues(x) \/ Restarts(x)
  <2>1. s \in Actor /\ pc[s] = "idle" /\ reqs' = [reqs EXCEPT ![s] = reqs[s] + 1]
    BY <1>3 DEF Request, Subscribe, Unsubscribe, SubscribeRefused, Publish, PublishRefused,
                YjsAwareness, YjsSyncRequest, Ping, Ready, Actor
  <2>2. UNCHANGED <<seen, targets>>
    BY <1>3 DEF Request, Subscribe, Unsubscribe, SubscribeRefused, Publish, PublishRefused,
                YjsAwareness, YjsSyncRequest, Ping, StartRoute, routeVars
  <2>3. \A x \in Actor \ {s} : pc'[x] = pc[x]
    BY <1>3 DEF Request, Subscribe, Unsubscribe, SubscribeRefused, Publish, PublishRefused,
                YjsAwareness, YjsSyncRequest, Ping, StartRoute, Goto
  <2> QED BY <1>1, <2>1, <2>2, <2>3 DEF Restarts
<1>4. ASSUME NEW k \in Caller, NEW ch \in Chan, ApiPublish(k, ch)
      PROVE  \A x \in Actor : Continues(x) \/ Restarts(x)
  <2>1. /\ k \in Actor /\ pc[k] = "idle" /\ reqs' = [reqs EXCEPT ![k] = reqs[k] + 1]
        /\ UNCHANGED <<seen, targets>> /\ \A x \in Actor \ {k} : pc'[x] = pc[x]
    BY <1>4 DEF ApiPublish, StartRoute, Goto, Actor
  <2> QED BY <1>1, <2>1 DEF Restarts
<1>5. ASSUME NEW s \in Session, IndexSubscription(s) \/ SendReply(s)
      PROVE  \A x \in Actor : Continues(x) \/ Restarts(x)
  <2>1. /\ s \in Actor /\ UNCHANGED <<reqs, routeVars>> /\ pc[s] # "idle" /\ ~Routing(s)'
        /\ \A x \in Actor \ {s} : pc'[x] = pc[x]
    BY <1>5 DEF IndexSubscription, SendReply, Goto, Actor, Routing
  <2>2. Continues(s)
    BY <2>1 DEF Continues
  <2> QED BY <1>1, <2>1, <2>2 DEF routeVars
<1>6. ASSUME NEW y \in Actor, Route(y) PROVE \A x \in Actor : Continues(x) \/ Restarts(x)
  <2>0. targets[y] \in Seq(Session) /\ pc[y] # "idle"
    BY <1>6 DEF RouteType, Route, Visit, ScanDone, SendNext, RouteDone
  <2>1. \A x \in Actor \ {y} : /\ pc'[x] = pc[x] /\ reqs'[x] = reqs[x]
                               /\ seen'[x] = seen[x] /\ targets'[x] = targets[x]
    BY <1>6 DEF Route, Visit, ScanDone, SendNext, RouteDone, Goto, routeVars, RouteType
  <2>2. ASSUME NEW s \in Session, Visit(y, s) PROVE Continues(y)
    <3>1. /\ UNCHANGED <<pc, reqs>> /\ s \notin seen[y] /\ seen'[y] = seen[y] \cup {s}
          /\ targets'[y] = targets[y] \/ targets'[y] = Append(targets[y], s)
      BY <2>2 DEF Visit, RouteType
    <3>2. Range(Append(targets[y], s)) = Range(targets[y]) \cup {s}
      BY <2>0, RangeAppend
    <3> QED BY <2>0, <3>1, <3>2 DEF Continues, Routing
  <2>3. ASSUME ScanDone(y) PROVE Continues(y)
    BY <2>0, <2>3 DEF Continues, Routing, ScanDone, Goto, routeVars
  <2>4. ASSUME SendNext(y) PROVE Continues(y)
    <3>1. /\ UNCHANGED <<pc, reqs, seen>> /\ targets[y] # <<>> /\ targets'[y] = Tail(targets[y])
      BY <2>4 DEF SendNext, RouteType
    <3>2. Range(Tail(targets[y])) \subseteq Range(targets[y])
      BY <2>0, <3>1, RangeHeadTail
    <3>3. /\ pc'[y] = pc[y] /\ reqs'[y] = reqs[y] /\ seen'[y] = seen[y]
          /\ Range(targets'[y]) \subseteq Range(targets[y])
      BY <3>1, <3>2
    <3> QED BY <3>3 DEF Continues, Routing
  <2>5. ASSUME RouteDone(y) PROVE Continues(y)
    <3>1. reqs' = reqs /\ ~Routing(y)'
      BY <2>5 DEF RouteDone, Goto, Routing
    <3> QED BY <2>0, <3>1 DEF Continues
  <2>6. Continues(y)
    BY <1>6, <2>2, <2>3, <2>4, <2>5 DEF Route
  <2> QED BY <1>1, <2>1, <2>6
<1>7. ASSUME NEW s \in Session, Life(s) PROVE UNCHANGED <<pc, reqs, routeVars>>
  BY <1>7 DEF Life, Authenticate, AuthFails, Register, Disconnect, CleanIndex
<1>8. ASSUME NEW s \in Session, Forward(s) PROVE UNCHANGED <<pc, reqs, routeVars>>
  BY <1>8 DEF Forward, Take, Write, WriteFails, Abort
<1>9. CASE UNCHANGED vars
  BY <1>2, <1>9 DEF vars
<1> QED BY <1>2, <1>3, <1>4, <1>5, <1>6, <1>7, <1>8, <1>9 DEF Next

(* What is newly sent to a session is dated, and follows what its source   *)
(* sent there before.                                                      *)
Follows(s, m) ==
  /\ m \in Outbound
  /\ Sent(s)' = Append(Sent(s), m)
  /\ Dated(s, m)'
  /\ \A n \in Range(Sent(s)) : Precedes(n, m)

SendsInOrder == \A s \in Session : Sent(s)' = Sent(s) \/ \E m : Follows(s, m)

LEMMA LifeSends ==
  ASSUME TypeInv, Lives, NEW s \in Session, Life(s)
  PROVE  SendsInOrder
<1>1. ASSUME NEW id \in Identity, Authenticate(s, id) PROVE SendsInOrder
  <2> DEFINE m == [kind |-> "AuthOk", topic |-> None, src |-> s, seq |-> 0]
  <2>1. m \in Outbound /\ m.src = s /\ m.seq = 0 /\ ~IsRouted(m)
    BY BrokerAssumption DEF Outbound, Reply, ReplyKind, IsRouted, RoutedKind
  <2> HIDE DEF m
  <2>2. /\ wire[s] = <<>> /\ hand[s] = <<>> /\ out[s] = <<>> /\ pc[s] = "idle"
        /\ wire' = [wire EXCEPT ![s] = Append(wire[s], m)] /\ UNCHANGED <<out, hand, pc, reqs>>
    BY <1>1 DEF Authenticate, Lives, Untouched, m
  <2>3. Sent(s) = <<>> /\ wire'[s] = <<m>>
    BY <2>2 DEF Sent, TypeInv, TypeOK, QueueType
  <2>4. Sent(s)' = <<m>>
    <3>1. hand'[s] = <<>> /\ out'[s] = <<>>
      BY <2>2
    <3>2. <<m>> \o <<>> \o <<>> = <<m>>
      OBVIOUS
    <3> QED BY <2>3, <3>1, <3>2 DEF Sent
  <2>5. Sent(s)' = Append(Sent(s), m)
    BY <2>3, <2>4
  <2>6. s \in Actor /\ reqs[s] \in Nat
    BY BrokerAssumption DEF TypeInv, TypeOK, HandlerType, Actor
  <2>7. Dated(s, m)'
    BY <2>1, <2>2, <2>6 DEF Dated, Routing
  <2>8. \A n \in Range(Sent(s)) : Precedes(n, m)
    BY <2>3 DEF Range
  <2>9. \A t \in Session \ {s} : Sent(t)' = Sent(t)
    BY <2>2 DEF Sent, TypeInv, TypeOK, QueueType
  <2> QED BY <2>1, <2>5, <2>7, <2>8, <2>9 DEF SendsInOrder, Follows
<1>2. CASE AuthFails(s) \/ Register(s) \/ Disconnect(s) \/ CleanIndex(s)
  <2>1. UNCHANGED <<out, hand, wire>>
    BY <1>2 DEF AuthFails, Register, Disconnect, CleanIndex, queueVars
  <2> QED BY <2>1 DEF Sent, SendsInOrder
<1> QED BY <1>1, <1>2 DEF Life

LEMMA ReplySends ==
  ASSUME TypeInv, Own, Numbered, NEW s \in Session, SendReply(s)
  PROVE  SendsInOrder
<1>0. s \in Actor /\ pc[s] = "reply"
  BY DEF Actor, SendReply
<1>1. PICK m : m = reply[s]
  OBVIOUS
<1>2. /\ m \in Reply /\ m \in Outbound /\ m.src = s /\ m.seq = reqs[s] /\ reqs[s] \in Nat
  BY <1>0, <1>1, NoneAssumption, BrokerAssumption
     DEF TypeInv, TypeOK, HandlerType, Control, Own, Stamped, Outbound
<1>3. ~IsRouted(m)
  BY <1>2 DEF Reply, ReplyKind, IsRouted, RoutedKind
<1>4. \A t \in Session : Sent(t)' = IF t = s /\ Accepts(s) THEN Append(Sent(t), m) ELSE Sent(t)
  <2>1. TrySend(s, m) /\ UNCHANGED <<hand, wire>>
    BY <1>1 DEF SendReply
  <2> QED BY <1>2, <2>1, SentTrySend DEF TypeInv, TypeOK
<1>5. Dated(s, m)'
  <2>1. pc'[s] = "idle" /\ reqs' = reqs
    BY <1>0 DEF SendReply, Goto, TypeInv, TypeOK, HandlerType
  <2> QED BY <1>2, <2>1 DEF Dated, Routing
<1>6. ASSUME NEW n \in Range(Sent(s)) PROVE Precedes(n, m)
  <2>1. n.seq \in Nat /\ Dated(s, n)
    BY SentMessage DEF Numbered
  <2> QED BY <1>0, <1>2, <1>3, <2>1 DEF Dated, Precedes
<1> QED BY <1>2, <1>4, <1>5, <1>6 DEF SendsInOrder, Follows

LEMMA RouteSends ==
  ASSUME TypeInv, Own, Numbered, NEW x \in Actor, SendNext(x)
  PROVE  SendsInOrder
<1>1. PICK s : s = Head(targets[x])
  OBVIOUS
<1>2. PICK m : m = job[x]
  OBVIOUS
<1>3. pc[x] = "send" /\ Routing(x) /\ targets[x] \in Seq(Session) /\ targets[x] # <<>>
  BY DEF SendNext, Routing, TypeInv, TypeOK, RouteType
<1>4. s \in Session /\ s \in Range(targets[x])
  BY <1>1, <1>3, RangeHeadTail
<1>5. /\ m \in Routed /\ m \in Outbound /\ m.src = x /\ m.seq = reqs[x] /\ reqs[x] \in Nat
  BY <1>2, <1>3, BrokerAssumption
     DEF TypeInv, TypeOK, HandlerType, Control, Own, Stamped, Outbound
<1>6. IsRouted(m)
  BY <1>5 DEF Routed, IsRouted
<1>7. \A t \in Session : Sent(t)' = IF t = s /\ Accepts(s) THEN Append(Sent(t), m) ELSE Sent(t)
  <2>1. TrySend(s, m) /\ UNCHANGED <<hand, wire>>
    BY <1>1, <1>2 DEF SendNext
  <2> QED BY <1>4, <1>5, <2>1, SentTrySend DEF TypeInv, TypeOK
<1>8. Dated(s, m)'
  <2>1. /\ UNCHANGED <<pc, reqs, seen>> /\ targets'[x] = Tail(targets[x])
    BY DEF SendNext, TypeInv, TypeOK, RouteType
  <2>2. s \in seen[x] /\ s \notin Range(targets'[x])
    BY <1>1, <1>3, <1>4, <2>1, DistinctTail DEF Own, Aims
  <2>3. IsRouted(m)'
    BY <1>6 DEF IsRouted
  <2> QED BY <1>5, <2>1, <2>2, <2>3 DEF Dated
<1>9. ASSUME NEW n \in Range(Sent(s)) PROVE Precedes(n, m)
  <2>1. n.seq \in Nat /\ Dated(s, n)
    BY <1>4, SentMessage DEF Numbered
  <2> QED BY <1>3, <1>4, <1>5, <2>1 DEF Dated, Precedes
<1> QED BY <1>5, <1>7, <1>8, <1>9 DEF SendsInOrder, Follows

LEMMA StepSends ==
  ASSUME TypeInv, Own, Lives, Numbered, [Next]_vars
  PROVE  SendsInOrder
<1>1. CASE UNCHANGED queueVars
  BY <1>1, SentSame DEF SendsInOrder
<1>2. ASSUME NEW s \in Session, Forward(s) PROVE SendsInOrder
  BY <1>2, SentForward DEF SendsInOrder, TypeInv, TypeOK
<1>3. ASSUME NEW x \in Actor, Route(x), ~SendNext(x) PROVE UNCHANGED queueVars
  BY <1>3 DEF Route, Visit, ScanDone, RouteDone
<1>4. CASE UNCHANGED vars
  BY <1>1, <1>4 DEF vars
<1> QED BY <1>1, <1>2, <1>3, <1>4, LifeSends, ReplySends, RouteSends, RequestFrame,
           HandlerFrame DEF Next

LEMMA NumberedStep ==
  ASSUME TypeInv, Own, Lives, Numbered, [Next]_vars
  PROVE  Numbered'
<1>1. SUFFICES ASSUME NEW s \in Session, NEW m \in Range(Sent(s)') PROVE Dated(s, m)'
  BY DEF Numbered
<1>2. Sent(s) \in Seq(Outbound)
  BY SentType DEF TypeInv, TypeOK
<1>3. CASE m \in Range(Sent(s))
  <2>1. m.src \in Actor /\ m.seq \in Nat /\ Dated(s, m)
    BY <1>3, SentMessage DEF Numbered
  <2> QED BY <2>1, HandlersGoOn, DatedKept
<1>4. CASE m \notin Range(Sent(s))
  <2>1. PICK n : Follows(s, n)
    BY <1>4, StepSends DEF SendsInOrder
  <2>2. Range(Append(Sent(s), n)) = Range(Sent(s)) \cup {n}
    BY <1>2, <2>1, RangeAppend DEF Follows
  <2> QED BY <1>4, <2>1, <2>2 DEF Follows
<1> QED BY <1>3, <1>4

LEMMA OrderStep ==
  ASSUME TypeInv, Own, Lives, Numbered, SourceOrder, [Next]_vars
  PROVE  SourceOrder'
<1> DEFINE Ordered(q) == \A i, j \in 1..Len(q) : i < j => Precedes(q[i], q[j])
<1>1. SourceOrder <=> \A s \in Session : Ordered(Sent(s))
  BY DEF SourceOrder, Precedes
<1>2. SourceOrder' <=> \A s \in Session : Ordered(Sent(s)')
  BY DEF SourceOrder, Precedes, IsRouted
<1>3. SUFFICES ASSUME NEW s \in Session PROVE Ordered(Sent(s)')
  BY <1>2
<1>4. Sent(s) \in Seq(Outbound) /\ Ordered(Sent(s))
  BY <1>1, SentType DEF TypeInv, TypeOK
<1>5. CASE Sent(s)' = Sent(s)
  BY <1>4, <1>5
<1>6. ASSUME NEW m, Follows(s, m) PROVE Ordered(Sent(s)')
  <2>1. PICK q : q = Sent(s)
    OBVIOUS
  <2>2. q \in Seq(Outbound) /\ m \in Outbound /\ Sent(s)' = Append(q, m)
    BY <1>4, <1>6, <2>1 DEF Follows
  <2>3. /\ Len(q) \in Nat /\ DOMAIN q = 1..Len(q) /\ Len(Append(q, m)) = Len(q) + 1
        /\ \A i \in 1..Len(q) : Append(q, m)[i] = q[i]
        /\ Append(q, m)[Len(q) + 1] = m
    BY <2>2
  <2>4. \A i \in 1..Len(q) : Precedes(q[i], m)
    BY <1>6, <2>1, <2>3 DEF Follows, Range
  <2>5. \A i, j \in 1..Len(q) : i < j => Precedes(q[i], q[j])
    BY <1>4, <2>1
  <2>6. ASSUME NEW i \in 1..(Len(q) + 1), NEW j \in 1..(Len(q) + 1), i < j
        PROVE  Precedes(Append(q, m)[i], Append(q, m)[j])
    <3>1. i \in 1..Len(q)
      BY <2>3, <2>6
    <3>2. CASE j \in 1..Len(q)
      BY <2>3, <2>5, <2>6, <3>1, <3>2
    <3>3. CASE j = Len(q) + 1
      BY <2>3, <2>4, <3>1, <3>3
    <3> QED BY <2>3, <3>2, <3>3
  <2> QED BY <2>2, <2>3, <2>6
<1> QED BY <1>5, <1>6, StepSends DEF SendsInOrder

(* A client sees one publisher's messages in the order it sent them, each  *)
(* once, and its own requests answered in order, its copy of a message     *)
(* before the Published that confirms it: for any number of sessions and   *)
(* callers whose routes interleave in any way through queues of any size.  *)
THEOREM OneSourceInOrder == Spec => []SourceOrder
<1> DEFINE OrderInv == TypeInv /\ Own /\ Lives /\ Numbered /\ SourceOrder
<1>1. Init => OrderInv
  <2> SUFFICES ASSUME Init PROVE OrderInv
    OBVIOUS
  <2>1. \A s \in Session : Sent(s) = <<>>
    BY DEF Init, Sent
  <2>2. Numbered /\ SourceOrder
    BY <2>1 DEF Numbered, SourceOrder, Range
  <2> QED BY <2>2, TypeInit, OwnInit, LivesInit
<1>2. OrderInv /\ [Next]_vars => OrderInv'
  BY TypeNext, OwnStep, LivesStep, NumberedStep, OrderStep
<1> QED BY <1>1, <1>2, PTL DEF Spec

-----------------------------------------------------------------------------
(* Who is owed a message.  must and may enclose those interested now; the  *)
(* scan collects all of must; and whoever was collected is then reached,   *)
(* or known to have missed the message.                                    *)
Encloses(x) ==
  /\ must[x] \subseteq Interested(job[x].topic)
  /\ Interested(job[x].topic) \subseteq may[x]
  /\ Range(targets[x]) \subseteq may[x]

Owed(x) ==
  /\ pc[x] = "scan" => must[x] \subseteq todo[x] /\ must[x] \cap seen[x] \subseteq Range(targets[x])
  /\ pc[x] = "send" => \A s \in must[x] : \/ s \in Range(targets[x]) \cup lost[x]
                                          \/ job[x] \in Range(Sent(s))

Interests == \A x \in Actor : Routing(x) => Encloses(x) /\ Owed(x)

FanInv == TypeInv /\ Own /\ Lives /\ Numbered /\ Interests

(* How each step that changes who is interested changes it.                *)
LEMMA InterestedIs ==
  \A ch : Interested(ch) = {s \in connections : \E g \in subs[s] : Matches(g, ch)}
BY DEF Interested, ShouldReceive, Allows

LEMMA InterestedSame ==
  ASSUME UNCHANGED <<connections, subs>>
  PROVE  \A ch : Interested(ch)' = Interested(ch)
BY InterestedIs DEF Interested, ShouldReceive, Allows

LEMMA InterestedRegister ==
  ASSUME TypeInv, Lives, NEW s \in Session, Register(s)
  PROVE  \A ch : Interested(ch)' = Interested(ch)
<1>1. subs' = subs /\ subs[s] = {} /\ connections' = connections \cup {s}
  BY DEF Register, Lives, Untouched
<1> QED BY <1>1 DEF Interested, ShouldReceive, Allows

LEMMA InterestedDisconnect ==
  ASSUME NEW s \in Session, Disconnect(s)
  PROVE  \A ch : Interested(ch)' = Interested(ch) \ {s}
<1>1. subs' = subs /\ connections' = connections \ {s}
  BY DEF Disconnect
<1> QED BY <1>1 DEF Interested, ShouldReceive, Allows

LEMMA InterestedSubscribe ==
  ASSUME TypeInv, Lives, NEW s \in Session, NEW p \in Pat, Subscribe(s, p)
  PROVE  /\ s \in connections /\ connections' = connections
         /\ subs' = [subs EXCEPT ![s] = subs[s] \cup {p}]
         /\ \A ch : Interested(ch)' = IF Matches(p, ch) THEN Interested(ch) \cup {s}
                                      ELSE Interested(ch)
<1>1. /\ subs' = [subs EXCEPT ![s] = subs[s] \cup {p}] /\ connections' = connections
      /\ s \in connections
  BY DEF Subscribe, Ready, Lives, Registered
<1>2. /\ subs'[s] = subs[s] \cup {p} /\ \A t \in Session \ {s} : subs'[t] = subs[t]
      /\ connections \subseteq Session
  BY <1>1 DEF TypeInv, TypeOK, SessionType
<1>3. ASSUME NEW ch
      PROVE  Interested(ch)' = IF Matches(p, ch) THEN Interested(ch) \cup {s} ELSE Interested(ch)
  <2>1. \A t \in Session : ShouldReceive(t, ch)' <=> ShouldReceive(t, ch) \/ (t = s /\ Matches(p, ch))
    BY <1>2 DEF ShouldReceive, Allows
  <2> QED BY <1>1, <1>2, <2>1 DEF Interested
<1> QED BY <1>1, <1>3

LEMMA InterestedUnsubscribe ==
  ASSUME TypeInv, Lives, NEW s \in Session, NEW p \in Pat, Unsubscribe(s, p)
  PROVE  /\ s \in connections /\ connections' = connections
         /\ subs' = [subs EXCEPT ![s] = subs[s] \ {p}]
         /\ \A ch : Allows(subs[s] \ {p}, ch) => Allows(subs[s], ch)
         /\ \A ch : Interested(ch)' = IF Allows(subs[s] \ {p}, ch) THEN Interested(ch)
                                      ELSE Interested(ch) \ {s}
<1>1. /\ subs' = [subs EXCEPT ![s] = subs[s] \ {p}] /\ connections' = connections
      /\ s \in connections
  BY DEF Unsubscribe, Ready, Lives, Registered
<1>2. /\ subs'[s] = subs[s] \ {p} /\ \A t \in Session \ {s} : subs'[t] = subs[t]
      /\ connections \subseteq Session
  BY <1>1 DEF TypeInv, TypeOK, SessionType
<1>3. \A ch : Allows(subs[s] \ {p}, ch) => Allows(subs[s], ch)
  BY DEF Allows
<1>4. ASSUME NEW ch
      PROVE  Interested(ch)' = IF Allows(subs[s] \ {p}, ch) THEN Interested(ch)
                               ELSE Interested(ch) \ {s}
  <2>1. ShouldReceive(s, ch)' <=> Allows(subs[s] \ {p}, ch)
    BY <1>2 DEF ShouldReceive, Allows
  <2>2. \A t \in Session \ {s} : ShouldReceive(t, ch)' <=> ShouldReceive(t, ch)
    BY <1>2 DEF ShouldReceive, Allows
  <2>3. ShouldReceive(s, ch) <=> Allows(subs[s], ch)
    BY DEF ShouldReceive
  <2> QED BY <1>1, <1>2, <1>3, <2>1, <2>2, <2>3 DEF Interested
<1> QED BY <1>1, <1>3, <1>4

LEMMA SentRangeGrows ==
  ASSUME TypeInv, SendsInOrder, NEW s \in Session
  PROVE  Range(Sent(s)) \subseteq Range(Sent(s)')
<1>1. Sent(s) \in Seq(Outbound)
  BY SentType DEF TypeInv, TypeOK
<1>2. CASE Sent(s)' = Sent(s)
  BY <1>2
<1>3. ASSUME NEW m, Follows(s, m) PROVE Range(Sent(s)) \subseteq Range(Sent(s)')
  BY <1>1, <1>3, RangeAppend DEF Follows
<1> QED BY <1>2, <1>3 DEF SendsInOrder

(* A route that a step does not advance.                                   *)
LEMMA EnclosesKept ==
  ASSUME NEW x \in Actor, Encloses(x), job'[x] = job[x], targets'[x] = targets[x],
         NEW ch, ch = job[x].topic,
         must'[x] \subseteq Interested(ch)', Interested(ch)' \subseteq may'[x],
         may[x] \subseteq may'[x]
  PROVE  Encloses(x)'
<1>1. job'[x].topic = ch
  OBVIOUS
<1>2. must'[x] \subseteq Interested(job[x].topic)' /\ Interested(job[x].topic)' \subseteq may'[x]
  BY <1>1
<1>3. Range(targets'[x]) \subseteq may'[x]
  BY DEF Encloses
<1> QED BY <1>2, <1>3 DEF Encloses

LEMMA OwedKept ==
  ASSUME TypeInv, SendsInOrder, NEW x \in Actor, Owed(x), pc'[x] = pc[x], job'[x] = job[x],
         todo'[x] = todo[x], seen'[x] = seen[x], targets'[x] = targets[x],
         lost'[x] = lost[x], must'[x] \subseteq must[x]
  PROVE  Owed(x)'
<1>1. \A s \in must[x] : s \in Session
  BY DEF TypeInv, TypeOK, HistoryType
<1>2. \A s \in Session : Range(Sent(s)) \subseteq Range(Sent(s)')
  BY SentRangeGrows
<1>3. pc'[x] = "scan" => /\ must'[x] \subseteq todo'[x]
                         /\ must'[x] \cap seen'[x] \subseteq Range(targets'[x])
  BY DEF Owed
<1>4. pc'[x] = "send" => \A s \in must'[x] : \/ s \in Range(targets'[x]) \cup lost'[x]
                                             \/ job'[x] \in Range(Sent(s)')
  BY <1>1, <1>2 DEF Owed
<1> QED BY <1>3, <1>4 DEF Owed

LEMMA InterestsKept ==
  ASSUME TypeInv, Interests, SendsInOrder, \A ch : Interested(ch)' = Interested(ch),
         NEW x \in Actor, Routing(x)', pc'[x] = pc[x],
         job'[x] = job[x], todo'[x] = todo[x], seen'[x] = seen[x], targets'[x] = targets[x],
         must'[x] = must[x], may'[x] = may[x], lost'[x] = lost[x]
  PROVE  Encloses(x)' /\ Owed(x)'
<1>1. Encloses(x) /\ Owed(x)
  BY DEF Interests, Routing
<1>2. PICK ch : ch = job[x].topic
  OBVIOUS
<1>3. must'[x] \subseteq Interested(ch)' /\ Interested(ch)' \subseteq may'[x]
  BY <1>1, <1>2 DEF Encloses
<1>4. Encloses(x)'
  BY <1>1, <1>2, <1>3, EnclosesKept
<1> QED BY <1>1, <1>4, OwedKept

LEMMA InterestsStart ==
  ASSUME TypeInv, Own, Interests, SendsInOrder, NEW a1 \in Actor, NEW kind, NEW ch1,
         pc[a1] = "idle", StartRoute(a1, kind, ch1)
  PROVE  Interests'
<1> USE DEF TypeInv, TypeOK, HandlerType, RouteType, HistoryType
<1>1. \A ch : Interested(ch)' = Interested(ch)
  BY InterestedSame DEF StartRoute, sessionVars
<1>2. SUFFICES ASSUME NEW x \in Actor, Routing(x)' PROVE Encloses(x)' /\ Owed(x)'
  BY DEF Interests
<1>3. CASE x # a1
  <2>1. /\ pc'[x] = pc[x] /\ job'[x] = job[x] /\ todo'[x] = todo[x] /\ seen'[x] = seen[x]
        /\ targets'[x] = targets[x] /\ must'[x] = must[x] /\ may'[x] = may[x]
        /\ lost'[x] = lost[x]
    BY <1>3 DEF StartRoute, Goto
  <2> QED BY <1>1, <1>2, <2>1, InterestsKept
<1>4. CASE x = a1
  <2>1. /\ pc'[x] = "scan" /\ job'[x].topic = ch1 /\ todo'[x] = connections
        /\ must'[x] = Interested(ch1) /\ may'[x] = Interested(ch1)
        /\ seen'[x] = {} /\ targets'[x] = <<>>
    BY <1>4 DEF StartRoute, Goto, Own, Rests, Routing
  <2>2. Interested(ch1)' = Interested(ch1)
    BY <1>1
  <2>3. Interested(job[x].topic)' = Interested(ch1)'
    BY <2>1
  <2>4. \A q : q = <<>> => Range(q) = {}
    BY DEF Range
  <2>5. Encloses(x)'
    BY <2>1, <2>2, <2>3, <2>4 DEF Encloses
  <2>6. Interested(ch1) \subseteq connections
    BY DEF Interested
  <2>7. Owed(x)'
    BY <2>1, <2>6 DEF Owed
  <2> QED BY <2>5, <2>7
<1> QED BY <1>3, <1>4

LEMMA InterestsLife ==
  ASSUME FanInv, SendsInOrder, NEW s \in Session, Life(s)
  PROVE  Interests'
<1> USE DEF FanInv
<1>1. UNCHANGED <<pc, routeVars, may, lost>>
  BY DEF Life, Authenticate, AuthFails, Register, Disconnect, CleanIndex, history
<1>2. SUFFICES ASSUME NEW x \in Actor, Routing(x)' PROVE Encloses(x)' /\ Owed(x)'
  BY DEF Interests
<1>3. Routing(x) /\ Encloses(x) /\ Owed(x)
  BY <1>1, <1>2 DEF Interests, Routing
<1>4. CASE Disconnect(s)
  <2>1. must'[x] = must[x] \ {s}
    BY <1>4 DEF Disconnect
  <2>2. PICK ch : ch = job[x].topic
    OBVIOUS
  <2>3. Interested(ch)' = Interested(ch) \ {s}
    BY <1>4, InterestedDisconnect
  <2>4. Encloses(x)'
    <3>1. must'[x] \subseteq Interested(ch)' /\ Interested(ch)' \subseteq may'[x]
      BY <1>1, <1>3, <2>1, <2>2, <2>3 DEF Encloses
    <3> QED BY <1>1, <1>3, <2>2, <3>1, EnclosesKept DEF routeVars
  <2>5. Owed(x)'
    BY <1>1, <1>3, <2>1, OwedKept DEF routeVars
  <2> QED BY <2>4, <2>5
<1>5. CASE ~Disconnect(s)
  <2>1. \A ch : Interested(ch)' = Interested(ch)
    <3>1. CASE Register(s)
      BY <3>1, InterestedRegister
    <3>2. CASE ~Register(s)
      <4>1. UNCHANGED <<connections, subs>>
        BY <1>5, <3>2 DEF Life, Authenticate, AuthFails, CleanIndex
      <4> QED BY <4>1, InterestedSame
    <3> QED BY <3>1, <3>2
  <2>2. must' = must
    BY <1>5 DEF Life, Authenticate, AuthFails, Register, CleanIndex, history
  <2> QED BY <1>1, <1>2, <2>1, <2>2, InterestsKept DEF routeVars
<1> QED BY <1>4, <1>5

LEMMA InterestsSubscribe ==
  ASSUME FanInv, SendsInOrder, NEW s \in Session, NEW p \in Pat,
         Subscribe(s, p) \/ Unsubscribe(s, p)
  PROVE  Interests'
<1> USE DEF FanInv
<1>1. SUFFICES ASSUME NEW x \in Actor, Routing(x)' PROVE Encloses(x)' /\ Owed(x)'
  BY DEF Interests
<1>2. /\ x # s /\ pc'[x] = pc[x] /\ UNCHANGED <<routeVars, lost>>
  BY <1>1 DEF Subscribe, Unsubscribe, Goto, Routing, TypeInv, TypeOK, HandlerType, Actor
<1>3. Routing(x) /\ Encloses(x) /\ Owed(x) /\ job[x] # None
  BY <1>1, <1>2, NoneAssumption DEF Interests, Routing, TypeInv, Control, Outbound
<1>4. PICK ch : ch = job[x].topic
  OBVIOUS
<1>5. CASE Subscribe(s, p)
  <2>1. /\ must' = must
        /\ may'[x] = IF Matches(p, ch) THEN may[x] \cup {s} ELSE may[x]
    BY <1>3, <1>4, <1>5 DEF Subscribe
  <2>2. Interested(ch)' = IF Matches(p, ch) THEN Interested(ch) \cup {s} ELSE Interested(ch)
    BY <1>5, InterestedSubscribe
  <2>3. must'[x] \subseteq Interested(ch)' /\ Interested(ch)' \subseteq may'[x] /\ may[x] \subseteq may'[x]
    BY <1>3, <1>4, <2>1, <2>2 DEF Encloses
  <2>4. Encloses(x)'
    BY <1>2, <1>3, <1>4, <2>3, EnclosesKept DEF routeVars
  <2>5. Owed(x)'
    BY <1>2, <1>3, <2>1, OwedKept DEF routeVars
  <2> QED BY <2>4, <2>5
<1>6. CASE Unsubscribe(s, p)
  <2>1. /\ may' = may
        /\ must'[x] = IF ~Allows(subs[s] \ {p}, ch) THEN must[x] \ {s} ELSE must[x]
    BY <1>3, <1>4, <1>6 DEF Unsubscribe
  <2>2. Interested(ch)' = IF Allows(subs[s] \ {p}, ch) THEN Interested(ch) ELSE Interested(ch) \ {s}
    BY <1>6, InterestedUnsubscribe
  <2>3. /\ must'[x] \subseteq Interested(ch)' /\ Interested(ch)' \subseteq may'[x]
        /\ must'[x] \subseteq must[x] /\ may[x] \subseteq may'[x]
    BY <1>3, <1>4, <2>1, <2>2 DEF Encloses
  <2>4. Encloses(x)'
    BY <1>2, <1>3, <1>4, <2>3, EnclosesKept DEF routeVars
  <2>5. Owed(x)'
    BY <1>2, <1>3, <2>3, OwedKept DEF routeVars
  <2> QED BY <2>4, <2>5
<1> QED BY <1>5, <1>6

LEMMA InterestsRoute ==
  ASSUME FanInv, SendsInOrder, NEW y \in Actor, Route(y)
  PROVE  Interests'
<1> USE DEF FanInv, TypeInv, TypeOK, HandlerType, RouteType, HistoryType
<1>1. UNCHANGED <<connections, subs>>
  BY DEF Route, Visit, ScanDone, SendNext, RouteDone, sessionVars
<1>2. \A ch : Interested(ch)' = Interested(ch)
  BY <1>1, InterestedSame
<1>3. SUFFICES ASSUME NEW x \in Actor, Routing(x)' PROVE Encloses(x)' /\ Owed(x)'
  BY DEF Interests
<1>4. CASE x # y
  <2>1. /\ pc'[x] = pc[x] /\ job'[x] = job[x] /\ todo'[x] = todo[x] /\ seen'[x] = seen[x]
        /\ targets'[x] = targets[x]
    BY <1>4 DEF Route, Visit, ScanDone, SendNext, RouteDone, Goto, routeVars
  <2>2. must'[x] = must[x] /\ may'[x] = may[x] /\ lost'[x] = lost[x]
    BY <1>4 DEF Route, Visit, ScanDone, SendNext, RouteDone, history
  <2> QED BY <1>2, <1>3, <2>1, <2>2, InterestsKept
<1>5. CASE x = y
  <2>0. Routing(x) /\ Encloses(x) /\ Owed(x) /\ targets[x] \in Seq(Session)
    BY <1>5 DEF Route, Visit, ScanDone, SendNext, RouteDone, Routing, Interests
  <2>1. PICK ch : ch = job[x].topic
    OBVIOUS
  <2>2. must[x] \subseteq Interested(ch)' /\ Interested(ch)' \subseteq may[x]
    BY <1>2, <2>0, <2>1 DEF Encloses
  <2>3. ASSUME NEW s \in Session, Visit(x, s) PROVE Encloses(x)' /\ Owed(x)'
    <3>1. /\ pc[x] = "scan" /\ UNCHANGED <<pc, job, todo, must, may, lost>> /\ s \in connections
          /\ seen'[x] = seen[x] \cup {s}
          /\ targets'[x] = IF ShouldReceive(s, ch) THEN Append(targets[x], s) ELSE targets[x]
      BY <2>1, <2>3 DEF Visit, history
    <3>2. ShouldReceive(s, ch) <=> s \in Interested(ch)
      BY <3>1 DEF Interested
    <3>3. Range(targets'[x]) = IF ShouldReceive(s, ch) THEN Range(targets[x]) \cup {s}
                               ELSE Range(targets[x])
      <4>1. Range(Append(targets[x], s)) = Range(targets[x]) \cup {s}
        BY <2>0, RangeAppend
      <4> QED BY <3>1, <4>1
    <3>4. Interested(job[x].topic)' = Interested(ch)'
      BY <2>1, <3>1
    <3>5. Encloses(x)'
      BY <1>2, <2>0, <2>1, <2>2, <3>1, <3>2, <3>3, <3>4 DEF Encloses
    <3>6. Owed(x)'
      BY <2>0, <2>1, <3>1, <3>2, <3>3 DEF Owed, Encloses
    <3> QED BY <3>5, <3>6
  <2>4. ASSUME ScanDone(x) PROVE Encloses(x)' /\ Owed(x)'
    <3>1. /\ pc[x] = "scan" /\ pc'[x] = "send" /\ todo[x] \cap connections \subseteq seen[x]
          /\ UNCHANGED <<routeVars, must, may, lost>>
      BY <2>4 DEF ScanDone, Goto, history
    <3>2. Encloses(x)'
      BY <2>0, <2>1, <2>2, <3>1, EnclosesKept DEF routeVars
    <3>3. must[x] \subseteq Range(targets[x])
      <4>1. must[x] \subseteq connections /\ must[x] \subseteq todo[x]
        BY <2>0, <3>1 DEF Encloses, Owed, Interested
      <4> QED BY <2>0, <3>1, <4>1 DEF Owed
    <3>4. Owed(x)'
      BY <3>1, <3>3 DEF Owed, routeVars
    <3> QED BY <3>2, <3>4
  <2>5. ASSUME SendNext(x) PROVE Encloses(x)' /\ Owed(x)'
    <3>1. PICK t : t = Head(targets[x])
      OBVIOUS
    <3>2. /\ pc[x] = "send" /\ UNCHANGED <<pc, job, must, may, hand, wire>> /\ targets[x] # <<>>
          /\ TrySend(t, job[x]) /\ targets'[x] = Tail(targets[x])
          /\ lost'[x] = IF Accepts(t) THEN lost[x] ELSE lost[x] \cup {t}
      BY <2>5, <3>1 DEF SendNext
    <3>3. /\ t \in Session /\ Range(Tail(targets[x])) \subseteq Range(targets[x])
          /\ \A u \in Range(targets[x]) : u = t \/ u \in Range(Tail(targets[x]))
      <4>1. /\ Len(targets[x]) \in Nat \ {0} /\ DOMAIN targets[x] = 1..Len(targets[x])
            /\ DOMAIN Tail(targets[x]) = 1..(Len(targets[x]) - 1) /\ t = targets[x][1]
            /\ \A i \in 1..(Len(targets[x]) - 1) : Tail(targets[x])[i] = targets[x][i + 1]
        BY <2>0, <3>1, <3>2
      <4>2. ASSUME NEW u \in Range(targets[x]), u # t PROVE u \in Range(Tail(targets[x]))
        <5>1. PICK i \in 1..Len(targets[x]) : targets[x][i] = u
          BY <4>1 DEF Range
        <5>2. i - 1 \in 1..(Len(targets[x]) - 1) /\ Tail(targets[x])[i - 1] = u
          BY <4>1, <4>2, <5>1
        <5> QED BY <4>1, <5>2 DEF Range
      <4> QED BY <2>0, <3>1, <3>2, <4>2, RangeHeadTail
    <3>4. job[x] \in Outbound
      BY <2>0 DEF Control, Routing, Outbound
    <3>5. Accepts(t) => job[x] \in Range(Sent(t)')
      <4>1. Accepts(t) => Sent(t)' = Append(Sent(t), job[x])
        BY <3>2, <3>3, <3>4, SentTrySend
      <4>2. Sent(t) \in Seq(Outbound)
        BY <3>3, SentType
      <4>3. Range(Append(Sent(t), job[x])) = Range(Sent(t)) \cup {job[x]}
        BY <3>4, <4>2, RangeAppend
      <4> QED BY <4>1, <4>3
    <3>6. \A s \in Session : Range(Sent(s)) \subseteq Range(Sent(s)')
      BY SentRangeGrows
    <3>7. Encloses(x)'
      <4>1. Interested(job[x].topic)' = Interested(ch)'
        BY <2>1, <3>2
      <4> QED BY <2>0, <2>2, <3>2, <3>3, <4>1 DEF Encloses
    <3>8. Owed(x)'
      <4>1. ASSUME NEW s \in must[x]
            PROVE  s \in Range(targets'[x]) \cup lost'[x] \/ job'[x] \in Range(Sent(s)')
        <5>1. s \in Session /\ (s \in Range(targets[x]) \cup lost[x] \/ job[x] \in Range(Sent(s)))
          BY <2>0, <3>2 DEF Owed
        <5> QED BY <3>2, <3>3, <3>5, <3>6, <5>1
      <4> QED BY <3>2, <4>1 DEF Owed
    <3> QED BY <3>7, <3>8
  <2>6. ~RouteDone(x)
    BY <1>3 DEF RouteDone, Goto, Routing
  <2> QED BY <1>5, <2>3, <2>4, <2>5, <2>6 DEF Route
<1> QED BY <1>4, <1>5

LEMMA InterestsStep ==
  ASSUME FanInv, [Next]_vars
  PROVE  Interests'
<1> USE DEF FanInv
<1>1. SendsInOrder
  BY StepSends
<1>2. ASSUME UNCHANGED <<connections, subs, routeVars, history>>,
             \A x \in Actor : Routing(x)' => pc'[x] = pc[x]
      PROVE  Interests'
  <2>1. \A ch : Interested(ch)' = Interested(ch)
    BY <1>2, InterestedSame
  <2>2. SUFFICES ASSUME NEW x \in Actor, Routing(x)' PROVE Encloses(x)' /\ Owed(x)'
    BY DEF Interests
  <2> QED BY <1>1, <1>2, <2>1, <2>2, InterestsKept DEF routeVars, history
<1>3. ASSUME NEW s \in Session, Request(s) PROVE Interests'
  <2>0. s \in Actor
    BY DEF Actor
  <2>1. ASSUME NEW p \in Pat, Subscribe(s, p) \/ Unsubscribe(s, p) PROVE Interests'
    BY <1>1, <2>1, InterestsSubscribe
  <2>2. ASSUME NEW kind, NEW ch, pc[s] = "idle", StartRoute(s, kind, ch) PROVE Interests'
    BY <1>1, <2>0, <2>2, InterestsStart
  <2>3. ASSUME UNCHANGED <<connections, subs, routeVars, history>>, Goto(s, "reply") PROVE Interests'
    <3>1. \A x \in Actor : Routing(x)' => pc'[x] = pc[x]
      BY <2>0, <2>3 DEF Goto, Routing, TypeInv, TypeOK, HandlerType
    <3> QED BY <1>2, <2>3, <3>1
  <2>4. \/ \E p \in Pat : Subscribe(s, p) \/ Unsubscribe(s, p)
        \/ \E kind, ch : pc[s] = "idle" /\ StartRoute(s, kind, ch)
        \/ UNCHANGED <<connections, subs, routeVars, history>> /\ Goto(s, "reply")
    BY <1>3 DEF Request, SubscribeRefused, Publish, PublishRefused, YjsAwareness,
                YjsSyncRequest, Ping, Ready, sessionVars
  <2> QED BY <2>1, <2>2, <2>3, <2>4
<1>4. ASSUME NEW s \in Session, IndexSubscription(s) \/ SendReply(s) PROVE Interests'
  <2>1. UNCHANGED <<connections, subs, routeVars, history>>
    BY <1>4 DEF IndexSubscription, SendReply, sessionVars
  <2>2. \A x \in Actor : Routing(x)' => pc'[x] = pc[x]
    BY <1>4 DEF IndexSubscription, SendReply, Goto, Routing, TypeInv, TypeOK, HandlerType, Actor
  <2> QED BY <1>2, <2>1, <2>2
<1>5. ASSUME NEW s \in Session, Forward(s) PROVE Interests'
  <2>1. UNCHANGED <<sessionVars, routeVars, history, pc>>
    BY <1>5 DEF Forward, Take, Write, WriteFails, Abort
  <2> QED BY <1>2, <2>1 DEF sessionVars
<1>6. ASSUME NEW k \in Caller, NEW ch \in Chan, ApiPublish(k, ch) PROVE Interests'
  <2>1. k \in Actor /\ pc[k] = "idle" /\ StartRoute(k, "Message", ch)
    BY <1>6 DEF ApiPublish, Actor
  <2> QED BY <1>1, <2>1, InterestsStart
<1>7. CASE UNCHANGED vars
  BY <1>2, <1>7 DEF vars, sessionVars
<1> QED BY <1>1, <1>3, <1>4, <1>5, <1>6, <1>7, InterestsLife, InterestsRoute DEF Next

-----------------------------------------------------------------------------
(* Refinement.  interest and inbox of FanOut, as functions of this state.  *)
Wanted(s) == IF s \in connections THEN {ch \in Chan : ShouldReceive(s, ch)} ELSE {}
Wants == [s \in Session |-> Wanted(s)]
Inbox == [s \in Session |-> RoutedIn(Sent(s))]

LEMMA FanInit == Init => FO!Init
<1> SUFFICES ASSUME Init PROVE FO!Init
  OBVIOUS
<1>1. \A s \in Session : RoutedIn(Sent(s)) = <<>>
  <2>1. \A s \in Session : Sent(s) = <<>>
    BY DEF Init, Sent
  <2> QED BY <2>1, RoutedInEmpty
<1>2. connections = {}
  BY DEF Init
<1>3. \A s \in Session : Accepts(s) \in BOOLEAN
  BY DEF Accepts
<1> QED BY <1>1, <1>2, <1>3 DEF FO!Init, Init

LEMMA RoomType == [s \in Session |-> Accepts(s)]' \in [Session -> BOOLEAN]
<1>1. \A s \in Session : Accepts(s)' \in BOOLEAN
  BY DEF Accepts
<1> QED BY <1>1

LEMMA WantsAre ==
  ASSUME TypeInv, Lives
  PROVE  /\ Wants \in [Session -> SUBSET Chan]
         /\ \A s \in Session, ch \in Chan : ch \in Wants[s] <=> s \in Interested(ch)
         /\ \A ch \in Chan : FO!Interested(ch) = Interested(ch)
<1>1. \A s \in Session, ch \in Chan : ch \in Wants[s] <=> s \in Interested(ch)
  BY DEF Wants, Wanted, Interested
<1>2. ASSUME NEW ch \in Chan PROVE FO!Interested(ch) = Interested(ch)
  <2>1. FO!Interested(ch) = {s \in Session : ch \in Wants[s]}
    BY DEF FO!Interested, Wants, Wanted
  <2>2. Interested(ch) \subseteq Session
    BY DEF Interested, TypeInv, TypeOK, SessionType
  <2> QED BY <1>1, <2>1, <2>2
<1> QED BY <1>1, <1>2 DEF Wants, Wanted

LEMMA GivenIs ==
  ASSUME TypeInv, NEW m, IsRouted(m)
  PROVE  FO!Given(m) = {s \in Session : m \in Range(Sent(s))}
<1>1. FO!Given(m) = {s \in Session : m \in Range(Inbox[s])}
  BY DEF FO!Given, Inbox, FO!Range, Range
<1>2. ASSUME NEW s \in Session PROVE m \in Range(Inbox[s]) <=> m \in Range(Sent(s))
  <2>1. Sent(s) \in Seq(Outbound)
    BY SentType DEF TypeInv, TypeOK
  <2> QED BY <2>1, RoutedInRange DEF Inbox
<1> QED BY <1>1, <1>2

LEMMA InboxSame ==
  ASSUME \A s \in Session : Sent(s)' = Sent(s)
  PROVE  Inbox' = Inbox
<1>1. \A s \in Session : RoutedIn(Sent(s))' = RoutedIn(Sent(s))
  BY DEF RoutedIn, IsRouted
<1> QED BY <1>1 DEF Inbox

LEMMA InboxAppend ==
  ASSUME TypeInv, NEW s \in Session, NEW m \in Outbound,
         \A t \in Session : Sent(t)' = IF t = s THEN Append(Sent(t), m) ELSE Sent(t)
  PROVE  Inbox' = IF IsRouted(m) THEN [Inbox EXCEPT ![s] = Append(@, m)] ELSE Inbox
<1>1. RoutedIn(Append(Sent(s), m)) = IF IsRouted(m) THEN Append(RoutedIn(Sent(s)), m)
                                     ELSE RoutedIn(Sent(s))
  BY SentType, RoutedInAppend DEF TypeInv, TypeOK
<1>2. RoutedIn(Sent(s))' = RoutedIn(Append(Sent(s), m))
  BY DEF RoutedIn, IsRouted
<1>3. \A t \in Session \ {s} : RoutedIn(Sent(t))' = RoutedIn(Sent(t))
  BY DEF RoutedIn, IsRouted
<1> QED BY <1>1, <1>2, <1>3 DEF Inbox

(* The steps of FanOut, on this state.                                     *)
LEMMA FanChange ==
  ASSUME NEW s \in Session, NEW C \in SUBSET Chan, Wants' = [Wants EXCEPT ![s] = C],
         must' = [x \in Actor |-> IF job[x] # None /\ job[x].topic \notin C
                                  THEN must[x] \ {s} ELSE must[x]],
         may'  = [x \in Actor |-> IF job[x] # None /\ job[x].topic \in C
                                  THEN may[x] \cup {s} ELSE may[x]],
         job' = job, lost' = lost, Inbox' = Inbox
  PROVE  FO!Next
<1>1. FO!ChangeInterest(s, C)
  BY DEF FO!ChangeInterest, Wants, Wanted, Inbox
<1> QED BY <1>1, RoomType DEF FO!Next

LEMMA FanStart ==
  ASSUME NEW x \in Actor, NEW m \in Routed, job[x] = None, m.src = x, FO!Given(m) = {},
         job' = [job EXCEPT ![x] = m],
         must' = [must EXCEPT ![x] = FO!Interested(m.topic)],
         may'  = [may EXCEPT ![x] = FO!Interested(m.topic)],
         Wants' = Wants, lost' = lost, Inbox' = Inbox
  PROVE  FO!Next
<1>1. FO!Start(x, m)
  BY DEF FO!Start, Wants, Wanted, Inbox
<1> QED BY <1>1, RoomType DEF FO!Next

LEMMA FanDeliver ==
  ASSUME NEW x \in Actor, NEW s \in Session, job[x] # None,
         s \in may[x] \ (FO!Given(job[x]) \cup lost[x]),
         \/ /\ Accepts(s) /\ Inbox' = [Inbox EXCEPT ![s] = Append(@, job[x])] /\ lost' = lost
         \/ /\ ~Accepts(s) /\ Inbox' = Inbox /\ lost' = [lost EXCEPT ![x] = @ \cup {s}],
         Wants' = Wants, UNCHANGED <<job, must, may>>
  PROVE  FO!Next
<1>1. FO!Deliver(x, s) \/ FO!Lose(x, s)
  BY DEF FO!Deliver, FO!Lose, Wants, Wanted, Inbox
<1> QED BY <1>1, RoomType DEF FO!Next

LEMMA FanFinish ==
  ASSUME NEW x \in Actor, job[x] # None, must[x] \subseteq FO!Given(job[x]) \cup lost[x],
         job' = [job EXCEPT ![x] = None], must' = [must EXCEPT ![x] = {}],
         may' = [may EXCEPT ![x] = {}], lost' = [lost EXCEPT ![x] = {}],
         Wants' = Wants, Inbox' = Inbox
  PROVE  FO!Next
<1>1. FO!Finish(x)
  BY DEF FO!Finish, Wants, Wanted, Inbox
<1> QED BY <1>1, RoomType DEF FO!Next

LEMMA FanStutter ==
  ASSUME Wants' = Wants, Inbox' = Inbox, UNCHANGED <<job, history>>
  PROVE  FO!Next
<1>1. UNCHANGED FO!others
  BY DEF FO!others, history, Wants, Wanted, Inbox
<1> QED BY <1>1, RoomType DEF FO!Next

LEMMA WantsSame ==
  ASSUME UNCHANGED <<connections, subs>>
  PROVE  Wants' = Wants
BY DEF Wants, Wanted, ShouldReceive, Allows

LEMMA FanLife ==
  ASSUME FanInv, NEW s \in Session, Life(s)
  PROVE  FO!Next
<1> USE DEF FanInv, TypeInv, TypeOK
<1>1. UNCHANGED <<job, may, lost>>
  BY DEF Life, Authenticate, AuthFails, Register, Disconnect, CleanIndex, history, routeVars
<1>2. CASE Disconnect(s)
  <2>0. PICK C \in SUBSET Chan : C = {}
    OBVIOUS
  <2>1. Wants' = [Wants EXCEPT ![s] = C]
    <3>1. connections' = connections \ {s} /\ subs' = subs
      BY <1>2 DEF Disconnect
    <3> QED BY <2>0, <3>1 DEF Wants, Wanted, ShouldReceive, Allows
  <2>2. must' = [x \in Actor |-> IF job[x] # None /\ job[x].topic \notin C
                                 THEN must[x] \ {s} ELSE must[x]]
    <3>1. must' = [x \in Actor |-> must[x] \ {s}]
      BY <1>2 DEF Disconnect
    <3>2. \A x \in Actor : job[x] = None => must[x] = {}
      BY NoneAssumption DEF Control, Own, Rests, Routing, Outbound
    <3> QED BY <2>0, <3>1, <3>2
  <2>3. may' = [x \in Actor |-> IF job[x] # None /\ job[x].topic \in C
                                THEN may[x] \cup {s} ELSE may[x]]
    BY <1>1, <2>0 DEF HistoryType
  <2>4. Inbox' = Inbox
    BY <1>2, SentSame, InboxSame DEF Disconnect
  <2> QED BY <1>1, <2>1, <2>2, <2>3, <2>4, FanChange
<1>3. CASE ~Disconnect(s)
  <2>1. Wants' = Wants
    <3>1. CASE Register(s)
      <4>1. connections' = connections \cup {s} /\ subs' = subs /\ subs[s] = {}
        BY <3>1 DEF Register, Lives, Untouched
      <4>2. \A t \in Session : Wanted(t)' = Wanted(t)
        BY <4>1 DEF Wanted, ShouldReceive, Allows
      <4> QED BY <4>2 DEF Wants
    <3>2. CASE ~Register(s)
      BY <1>3, <3>2, WantsSame DEF Life, Authenticate, AuthFails, CleanIndex
    <3> QED BY <3>1, <3>2
  <2>2. must' = must
    BY <1>3 DEF Life, Authenticate, AuthFails, Register, CleanIndex, history
  <2>3. Inbox' = Inbox
    <3>1. ASSUME NEW id \in Identity, Authenticate(s, id) PROVE Inbox' = Inbox
      <4> DEFINE m == [kind |-> "AuthOk", topic |-> None, src |-> s, seq |-> 0]
      <4>1. m \in Outbound /\ ~IsRouted(m)
        BY BrokerAssumption DEF Outbound, Reply, ReplyKind, IsRouted, RoutedKind
      <4> HIDE DEF m
      <4>2. /\ wire[s] = <<>> /\ hand[s] = <<>> /\ out[s] = <<>>
            /\ wire' = [wire EXCEPT ![s] = Append(wire[s], m)] /\ UNCHANGED <<out, hand>>
        BY <3>1 DEF Authenticate, Lives, Untouched, m
      <4>3. Sent(s) = <<>> /\ Sent(s)' = <<m>>
        <5>1. wire'[s] = <<m>> /\ hand'[s] = <<>> /\ out'[s] = <<>>
          BY <4>2 DEF QueueType
        <5>2. <<m>> \o <<>> \o <<>> = <<m>> /\ <<>> \o <<>> \o <<>> = <<>>
          OBVIOUS
        <5> QED BY <4>2, <5>1, <5>2 DEF Sent
      <4>4. \A t \in Session \ {s} : Sent(t)' = Sent(t)
        BY <4>2 DEF Sent, QueueType
      <4>5. \A t \in Session : Sent(t)' = IF t = s THEN Append(Sent(t), m) ELSE Sent(t)
        <5>1. Append(<<>>, m) = <<m>>
          OBVIOUS
        <5> QED BY <4>3, <4>4, <5>1
      <4> QED BY <4>1, <4>5, InboxAppend
    <3>2. CASE AuthFails(s) \/ Register(s) \/ CleanIndex(s)
      <4>1. UNCHANGED <<out, hand, wire>>
        BY <3>2 DEF AuthFails, Register, CleanIndex, queueVars
      <4>2. \A t \in Session : Sent(t)' = Sent(t)
        BY <4>1 DEF Sent
      <4> QED BY <4>2, InboxSame
    <3> QED BY <1>3, <3>1, <3>2 DEF Life
  <2> QED BY <1>1, <2>1, <2>2, <2>3, FanStutter DEF history
<1> QED BY <1>2, <1>3

LEMMA FanSubscribe ==
  ASSUME FanInv, NEW s \in Session, NEW p \in Pat, Subscribe(s, p) \/ Unsubscribe(s, p)
  PROVE  FO!Next
<1> USE DEF FanInv
<1>1. UNCHANGED <<job, lost, queueVars, connections>>
  BY DEF Subscribe, Unsubscribe, routeVars
<1>2. Inbox' = Inbox
  BY <1>1, SentSame, InboxSame
<1>3. ASSUME NEW x \in Actor
      PROVE  /\ job[x] = None => must[x] = {} /\ may[x] = {}
             /\ job[x] # None => /\ job[x].topic \in Chan
                                 /\ must[x] \subseteq Interested(job[x].topic)
                                 /\ Interested(job[x].topic) \subseteq may[x]
  <2>1. CASE Routing(x)
    <3>1. job[x] \in Routed /\ Encloses(x)
      BY <2>1 DEF Interests, TypeInv, Control, Routing
    <3> QED BY <3>1, NoneAssumption DEF Encloses, Routed, Outbound
  <2>2. CASE ~Routing(x)
    BY <2>2 DEF Own, Rests
  <2> QED BY <2>1, <2>2
<1>4. PICK C : C = Wanted(s)'
  OBVIOUS
<1>5. Wants' = [Wants EXCEPT ![s] = C] /\ C \in SUBSET Chan
  <2>1. \A t \in Session \ {s} : subs'[t] = subs[t]
    BY DEF Subscribe, Unsubscribe, TypeInv, TypeOK, SessionType
  <2>2. \A t \in Session \ {s} : Wanted(t)' = Wanted(t)
    BY <1>1, <2>1 DEF Wanted, ShouldReceive
  <2> QED BY <1>4, <2>2 DEF Wants, Wanted
<1>6. CASE Subscribe(s, p)
  <2>1. \A ch \in Chan : ch \in C <=> s \in Interested(ch) \/ Matches(p, ch)
    <3>1. /\ s \in connections'
          /\ \A ch : Interested(ch)' = IF Matches(p, ch) THEN Interested(ch) \cup {s}
                                       ELSE Interested(ch)
      BY <1>6, InterestedSubscribe
    <3>2. \A ch \in Chan : ch \in C <=> s \in Interested(ch)'
      BY <1>4, <3>1 DEF Wanted, Interested
    <3> QED BY <3>1, <3>2
  <2>2. must' = [x \in Actor |-> IF job[x] # None /\ job[x].topic \notin C
                                 THEN must[x] \ {s} ELSE must[x]]
    <3>1. must' = must /\ must = [x \in Actor |-> must[x]]
      BY <1>6 DEF Subscribe, TypeInv, TypeOK, HistoryType
    <3>2. \A x \in Actor : job[x] # None /\ job[x].topic \notin C => must[x] \ {s} = must[x]
      BY <1>3, <2>1
    <3> QED BY <3>1, <3>2
  <2>3. may' = [x \in Actor |-> IF job[x] # None /\ job[x].topic \in C
                                THEN may[x] \cup {s} ELSE may[x]]
    <3>1. may' = [x \in Actor |-> IF job[x] # None /\ Matches(p, job[x].topic)
                                  THEN may[x] \cup {s} ELSE may[x]]
      BY <1>6 DEF Subscribe
    <3>2. ASSUME NEW x \in Actor, job[x] # None, ~Matches(p, job[x].topic), job[x].topic \in C
          PROVE  may[x] \cup {s} = may[x]
      BY <1>3, <2>1, <3>2
    <3>3. ASSUME NEW x \in Actor, job[x] # None, Matches(p, job[x].topic)
          PROVE  job[x].topic \in C
      BY <1>3, <2>1, <3>3
    <3>4. \A x \in Actor : (IF job[x] # None /\ Matches(p, job[x].topic)
                            THEN may[x] \cup {s} ELSE may[x])
                         = (IF job[x] # None /\ job[x].topic \in C
                            THEN may[x] \cup {s} ELSE may[x])
      BY <3>2, <3>3
    <3> QED BY <3>1, <3>4
  <2> QED BY <1>1, <1>2, <1>5, <2>2, <2>3, FanChange
<1>7. CASE Unsubscribe(s, p)
  <2>1. \A ch \in Chan : /\ ch \in C <=> Allows(subs[s] \ {p}, ch)
                         /\ ch \in C => s \in Interested(ch)
    <3>1. /\ s \in connections' /\ s \in connections
          /\ subs'[s] = subs[s] \ {p}
          /\ \A ch : Allows(subs[s] \ {p}, ch) => Allows(subs[s], ch)
      <4>1. subs' = [subs EXCEPT ![s] = subs[s] \ {p}]
        BY <1>7, InterestedUnsubscribe
      <4>2. subs'[s] = subs[s] \ {p}
        BY <4>1 DEF TypeInv, TypeOK, SessionType
      <4> QED BY <1>7, <4>2, InterestedUnsubscribe
    <3>2. \A ch \in Chan : ch \in C <=> Allows(subs[s] \ {p}, ch)
      BY <1>4, <3>1 DEF Wanted, ShouldReceive, Allows
    <3> QED BY <3>1, <3>2 DEF Interested, ShouldReceive
  <2>2. must' = [x \in Actor |-> IF job[x] # None /\ job[x].topic \notin C
                                 THEN must[x] \ {s} ELSE must[x]]
    <3>1. must' = [x \in Actor |-> IF job[x] # None /\ ~Allows(subs[s] \ {p}, job[x].topic)
                                   THEN must[x] \ {s} ELSE must[x]]
      BY <1>7 DEF Unsubscribe
    <3>2. \A x \in Actor : job[x] # None =>
            (~Allows(subs[s] \ {p}, job[x].topic) <=> job[x].topic \notin C)
      BY <1>3, <2>1
    <3> QED BY <3>1, <3>2
  <2>3. may' = [x \in Actor |-> IF job[x] # None /\ job[x].topic \in C
                                THEN may[x] \cup {s} ELSE may[x]]
    <3>1. may' = may /\ may = [x \in Actor |-> may[x]]
      BY <1>7 DEF Unsubscribe, TypeInv, TypeOK, HistoryType
    <3>2. \A x \in Actor : job[x] # None /\ job[x].topic \in C => may[x] \cup {s} = may[x]
      BY <1>3, <2>1
    <3> QED BY <3>1, <3>2
  <2> QED BY <1>1, <1>2, <1>5, <2>2, <2>3, FanChange
<1> QED BY <1>6, <1>7

LEMMA FanRouteStarts ==
  ASSUME FanInv, NEW x \in Actor, NEW kind \in RoutedKind, NEW ch \in Chan,
         pc[x] = "idle", reqs[x] + 1 \in 1..MaxReq, StartRoute(x, kind, ch)
  PROVE  FO!Next
<1> USE DEF FanInv
<1>1. PICK m : m = [kind |-> kind, topic |-> ch, src |-> x, seq |-> reqs[x] + 1]
  OBVIOUS
<1>2. m \in Routed /\ m.src = x /\ m.topic = ch /\ m.seq = reqs[x] + 1 /\ IsRouted(m)
  BY <1>1 DEF Routed, IsRouted
<1>3. job[x] = None
  BY DEF Own, Rests, Routing
<1>4. FO!Given(m) = {}
  <2>1. reqs[x] \in Nat
    BY BrokerAssumption DEF TypeInv, TypeOK, HandlerType
  <2>2. \A s \in Session : m \notin Range(Sent(s))
    BY <1>2, <2>1 DEF Numbered, Dated
  <2> QED BY <1>2, <2>2, GivenIs
<1>5. FO!Interested(m.topic) = Interested(ch)
  BY <1>2, WantsAre
<1>6. /\ job' = [job EXCEPT ![x] = m] /\ must' = [must EXCEPT ![x] = Interested(ch)]
      /\ may' = [may EXCEPT ![x] = Interested(ch)] /\ lost' = lost
  BY <1>1 DEF StartRoute
<1>7. Wants' = Wants /\ Inbox' = Inbox
  BY WantsSame, SentSame, InboxSame DEF StartRoute, sessionVars
<1> QED BY <1>2, <1>3, <1>4, <1>5, <1>6, <1>7, FanStart

LEMMA FanRequest ==
  ASSUME FanInv, NEW s \in Session, Request(s)
  PROVE  FO!Next
<1> USE DEF FanInv
<1>0. s \in Actor
  BY DEF Actor
<1>1. ASSUME NEW p \in Pat, Subscribe(s, p) \/ Unsubscribe(s, p) PROVE FO!Next
  BY <1>1, FanSubscribe
<1>2. ASSUME NEW kind \in RoutedKind, NEW ch \in Chan, NEW request,
             Ready(s, request), StartRoute(s, kind, ch)
      PROVE  FO!Next
  <2>1. reqs[s] + 1 \in 1..MaxReq /\ pc[s] = "idle"
    BY <1>2, ReadyType
  <2> QED BY <1>0, <1>2, <2>1, FanRouteStarts
<1>3. ASSUME UNCHANGED <<connections, subs, queueVars, job, history>> PROVE FO!Next
  BY <1>3, WantsSame, SentSame, InboxSame, FanStutter
<1>4. \/ \E p \in Pat : Subscribe(s, p) \/ Unsubscribe(s, p)
      \/ \E kind \in RoutedKind, ch \in Chan : \E request :
           Ready(s, request) /\ StartRoute(s, kind, ch)
      \/ UNCHANGED <<connections, subs, queueVars, job, history>>
  <2>1. "YjsAwareness" \in RoutedKind
    BY DEF RoutedKind
  <2> QED BY <2>1 DEF Request, SubscribeRefused, Publish, PublishRefused, YjsAwareness,
                      YjsSyncRequest, Ping, sessionVars, routeVars
<1> QED BY <1>1, <1>2, <1>3, <1>4

LEMMA FanReply ==
  ASSUME FanInv, NEW s \in Session, SendReply(s)
  PROVE  FO!Next
<1> USE DEF FanInv
<1>1. PICK m : m = reply[s]
  OBVIOUS
<1>2. m \in Outbound /\ ~IsRouted(m)
  <2>1. m \in Reply
    BY <1>1 DEF SendReply, TypeInv, Control, Actor
  <2> QED BY <2>1 DEF Outbound, Reply, ReplyKind, IsRouted, RoutedKind
<1>3. \A t \in Session : Sent(t)' = IF t = s /\ Accepts(s) THEN Append(Sent(t), m) ELSE Sent(t)
  BY <1>1, <1>2, SentTrySend DEF SendReply, TypeInv, TypeOK
<1>4. Inbox' = Inbox
  <2>1. CASE Accepts(s)
    BY <1>2, <1>3, <2>1, InboxAppend
  <2>2. CASE ~Accepts(s)
    BY <1>3, <2>2, InboxSame
  <2> QED BY <2>1, <2>2
<1> QED BY <1>4, WantsSame, FanStutter DEF SendReply, sessionVars, routeVars

LEMMA FanSend ==
  ASSUME FanInv, NEW x \in Actor, SendNext(x)
  PROVE  FO!Next
<1> USE DEF FanInv
<1>1. PICK s : s = Head(targets[x])
  OBVIOUS
<1>2. PICK m : m = job[x]
  OBVIOUS
<1>3. Routing(x) /\ targets[x] \in Seq(Session) /\ targets[x] # <<>>
  BY DEF SendNext, Routing, TypeInv, TypeOK, RouteType
<1>4. s \in Session /\ s \in Range(targets[x])
  BY <1>1, <1>3, RangeHeadTail
<1>5. /\ m \in Routed /\ m \in Outbound /\ m.src = x /\ m.seq = reqs[x] /\ reqs[x] \in Nat
  BY <1>2, <1>3, BrokerAssumption
     DEF Routing, TypeInv, TypeOK, HandlerType, Control, Own, Stamped, Outbound
<1>6. IsRouted(m) /\ m # None
  BY <1>5, NoneAssumption DEF Routed, IsRouted
<1>7. s \in may[x] \ (FO!Given(m) \cup lost[x])
  <2>1. s \in may[x] /\ s \notin lost[x]
    BY <1>3, <1>4 DEF Interests, Encloses, Own, Aims
  <2>2. m \notin Range(Sent(s))
    BY <1>3, <1>4, <1>5 DEF Numbered, Dated
  <2>3. s \notin FO!Given(m)
    BY <1>6, <2>2, GivenIs
  <2> QED BY <2>1, <2>3
<1>8. \A t \in Session : Sent(t)' = IF t = s /\ Accepts(s) THEN Append(Sent(t), m) ELSE Sent(t)
  <2>1. TrySend(s, m) /\ UNCHANGED <<hand, wire>>
    BY <1>1, <1>2 DEF SendNext
  <2> QED BY <1>4, <1>5, <2>1, SentTrySend DEF TypeInv, TypeOK
<1>9. \/ /\ Accepts(s) /\ Inbox' = [Inbox EXCEPT ![s] = Append(@, m)] /\ lost' = lost
      \/ /\ ~Accepts(s) /\ Inbox' = Inbox /\ lost' = [lost EXCEPT ![x] = @ \cup {s}]
  <2>1. CASE Accepts(s)
    <3>1. Inbox' = [Inbox EXCEPT ![s] = Append(@, m)]
      BY <1>4, <1>5, <1>6, <1>8, <2>1, InboxAppend
    <3> QED BY <1>1, <2>1, <3>1 DEF SendNext
  <2>2. CASE ~Accepts(s)
    <3>1. Inbox' = Inbox
      BY <1>8, <2>2, InboxSame
    <3> QED BY <1>1, <2>2, <3>1 DEF SendNext
  <2> QED BY <2>1, <2>2
<1>10. Wants' = Wants /\ UNCHANGED <<job, must, may>>
  BY WantsSame DEF SendNext, sessionVars
<1> QED BY <1>2, <1>4, <1>6, <1>7, <1>9, <1>10, FanDeliver

LEMMA FanDone ==
  ASSUME FanInv, NEW x \in Actor, RouteDone(x)
  PROVE  FO!Next
<1> USE DEF FanInv
<1>1. /\ Routing(x) /\ pc[x] = "send" /\ targets[x] = <<>>
  BY DEF RouteDone, Routing
<1>2. job[x] \in Routed /\ job[x] # None /\ IsRouted(job[x])
  BY <1>1, NoneAssumption DEF Routing, TypeInv, Control, Outbound, Routed, IsRouted
<1>3. must[x] \subseteq FO!Given(job[x]) \cup lost[x]
  <2>1. must[x] \subseteq Session
    BY DEF TypeInv, TypeOK, HistoryType
  <2>2. Range(targets[x]) = {}
    BY <1>1 DEF Range
  <2>3. \A s \in must[x] : s \in lost[x] \/ job[x] \in Range(Sent(s))
    BY <1>1, <2>2 DEF Interests, Owed
  <2>4. FO!Given(job[x]) = {s \in Session : job[x] \in Range(Sent(s))}
    BY <1>2, GivenIs
  <2> QED BY <2>1, <2>3, <2>4
<1>4. /\ job' = [job EXCEPT ![x] = None] /\ must' = [must EXCEPT ![x] = {}]
      /\ may' = [may EXCEPT ![x] = {}] /\ lost' = [lost EXCEPT ![x] = {}]
  BY DEF RouteDone
<1>5. Wants' = Wants /\ Inbox' = Inbox
  BY WantsSame, SentSame, InboxSame DEF RouteDone, sessionVars
<1> QED BY <1>2, <1>3, <1>4, <1>5, FanFinish

LEMMA FanNext ==
  ASSUME FanInv, [Next]_vars
  PROVE  FO!Next
<1> USE DEF FanInv
<1>1. ASSUME UNCHANGED <<connections, subs, queueVars, job, history>> PROVE FO!Next
  BY <1>1, WantsSame, SentSame, InboxSame, FanStutter
<1>2. ASSUME NEW s \in Session, IndexSubscription(s) PROVE FO!Next
  BY <1>1, <1>2 DEF IndexSubscription, routeVars
<1>3. ASSUME NEW s \in Session, Forward(s) PROVE FO!Next
  <2>1. UNCHANGED <<connections, subs, job, history>>
    BY <1>3 DEF Forward, Take, Write, WriteFails, Abort, sessionVars, routeVars
  <2>2. Inbox' = Inbox
    BY <1>3, SentForward, InboxSame DEF TypeInv, TypeOK
  <2> QED BY <2>1, <2>2, WantsSame, FanStutter
<1>4. ASSUME NEW k \in Caller, NEW ch \in Chan, ApiPublish(k, ch) PROVE FO!Next
  <2>1. k \in Actor /\ pc[k] = "idle" /\ StartRoute(k, "Message", ch) /\ reqs[k] < MaxApi
    BY <1>4 DEF ApiPublish, Actor
  <2>2. reqs[k] + 1 \in 1..MaxReq /\ "Message" \in RoutedKind
    BY <2>1, BrokerAssumption DEF TypeInv, TypeOK, HandlerType, RoutedKind
  <2> QED BY <2>1, <2>2, FanRouteStarts
<1>5. ASSUME NEW x \in Actor, Route(x) PROVE FO!Next
  <2>1. CASE (\E s \in Session : Visit(x, s)) \/ ScanDone(x)
    <3>1. UNCHANGED <<connections, subs, queueVars, job, history>>
      BY <2>1 DEF Visit, ScanDone, sessionVars, routeVars
    <3> QED BY <1>1, <3>1
  <2> QED BY <1>5, <2>1, FanSend, FanDone DEF Route
<1>6. CASE UNCHANGED vars
  BY <1>1, <1>6 DEF vars, sessionVars, routeVars
<1> QED BY <1>2, <1>3, <1>4, <1>5, <1>6, FanLife, FanRequest, FanReply DEF Next

(* Registry, scan and queues keep the promise made to a publisher: its     *)
(* message goes at most once to each subscriber, to none that was at no    *)
(* time interested, and the route ends only when everyone interested all   *)
(* along has it or had no room; whoever subscribes, leaves or publishes    *)
(* between any two of its steps.                                           *)
THEOREM Implements == Spec => FanOutSpec
<1>1. Init => FanInv
  <2> SUFFICES ASSUME Init PROVE FanInv
    OBVIOUS
  <2>1. \A s \in Session : Sent(s) = <<>>
    BY DEF Init, Sent
  <2>2. Numbered
    BY <2>1 DEF Numbered, Range
  <2>3. Interests
    BY DEF Init, Interests, Routing
  <2> QED BY <2>2, <2>3, TypeInit, OwnInit, LivesInit DEF FanInv
<1>2. FanInv /\ [Next]_vars => FanInv'
  BY TypeNext, OwnStep, LivesStep, NumberedStep, InterestsStep DEF FanInv
<1>3. FanInv /\ [Next]_vars => [FO!Next]_(FO!vars)
  BY FanNext
<1> QED BY <1>1, <1>2, <1>3, FanInit, PTL DEF Spec, FanOutSpec, FO!Spec
=============================================================================

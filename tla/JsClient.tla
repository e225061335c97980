------------------------------ MODULE JsClient ------------------------------
(***************************************************************************)
(* The JavaScript client (client-js/src/client.ts): connections, publishes *)
(* and the offline queue.                                                  *)
(*                                                                         *)
(* One thread runs it.  What comes from outside (a write taken, an answer, *)
(* a timer, the end of a dial) comes when nothing that was started is left *)
(* to run (Calm); what the code awaits and is told at once goes on before  *)
(* that, and callers may be among it.  The table of waiting publishes is   *)
(* keyed by channel, and a timer is never cleared.  Subscriptions appear   *)
(* as the time connect() spends on them, pings as what they do when a      *)
(* connection ends.                                                        *)
(***************************************************************************)
EXTENDS Integers, Sequences, FiniteSetsExt, SequencesExt

CONSTANTS
  Channel,
  ChannelOf,     \* the channel of each message, in the order they are published
  Refused,       \* the messages that the server answers with an error
  MaxQueue,      \* config.maxQueueSize
  MaxConnects,   \* bound: calls of connect()
  MaxLosses      \* bound: connections lost

Message == DOMAIN ChannelOf

ASSUME ClientAssumption ==
  /\ ChannelOf \in Seq(Channel) /\ Refused \subseteq Message
  /\ MaxQueue \in Nat \ {0} /\ MaxConnects \in Nat /\ MaxLosses \in Nat

VARIABLES
  state,      \* "connecting" stands for "authenticating" too
  auto,       \* config.autoReconnect
  timer,      \* is the reconnect timer armed?
  byTimer,    \* is the connect() under way the timer's?
  resubbing,  \* is connect() still in resubscribe()?
  leftover,   \* what a cleanup interrupted and is yet to notice
  queue,      \* offlineQueue
  promise,    \* per message, what publish() returned
  flush,      \* calls of flushOfflineQueue(): what is left, and where it is
  writes,     \* writes begun and not yet taken by the stream
  pending,    \* pendingPublishes: per channel, the one who waits, if any
  timeouts,   \* timers of publishes, the first to fire first
  wire,       \* publishes on their way to the server
  inbox,      \* answers on their way back
  log,        \* history: messages the server has published, in order
  offline,    \* history: messages that went through the queue, in order
  robbed,     \* history: messages whose entry was replaced or timed out for another
  connects,
  losses

connVars == <<state, auto, timer, byTimer, resubbing, leftover>>
pubVars == <<queue, promise, flush, writes, pending, timeouts>>
netVars == <<wire, inbox, log>>
history == <<offline, robbed, connects, losses>>
vars == <<connVars, pubVars, netVars, history>>

(* Who waits: a caller of publish (by = 0), or a flush.                    *)
Waiter == [m : Message, by : Nat]
Waiters == UNION Range(pending)
ChannelFor(w) == ChannelOf[w.m]

Init ==
  /\ state = "disconnected" /\ auto = TRUE
  /\ timer = FALSE /\ byTimer = FALSE /\ resubbing = FALSE /\ leftover = <<>>
  /\ queue = <<>> /\ promise = [m \in Message |-> "none"]
  /\ flush = <<>> /\ writes = <<>> /\ pending = [c \in Channel |-> {}]
  /\ timeouts = <<>> /\ wire = <<>> /\ inbox = <<>>
  /\ log = <<>> /\ offline = <<>> /\ robbed = {} /\ connects = 0 /\ losses = 0

(* Everything that can go on at once has done so.                          *)
Calm ==
  /\ leftover = <<>>
  /\ \A f \in DOMAIN flush : flush[f].at \notin {"next", "rejected"}

-----------------------------------------------------------------------------
(* What the one who waits is told.  A promise changes once.                *)

Settled(ms, outcome) ==
  [m \in Message |->
     IF m \in ms /\ promise[m] = "waiting" THEN outcome ELSE promise[m]]

(* A flush that waits in ws goes on at the given place; "next" is past the *)
(* message it was at.  One that has gone on since does not hear of it.     *)
Resumed(ws, at) ==
  [f \in DOMAIN flush |->
     LET q == flush[f].rest
     IN  IF flush[f].at \in {"sending", "waiting"} /\ [m |-> Head(q), by |-> f] \in ws
         THEN [rest |-> IF at = "next" THEN Tail(q) ELSE q, at |-> at]
         ELSE flush[f]]

Resolve(ws) ==
  /\ promise' = Settled({w.m : w \in ws}, "resolved")
  /\ flush' = Resumed(ws, "next")
Reject(ws) ==
  /\ promise' = Settled({w.m : w \in ws}, "rejected")
  /\ flush' = Resumed(ws, "rejected")

-----------------------------------------------------------------------------
(* What the server publishes of the messages it receives: a SelectSeq,     *)
(* written as a function on the lengths of q's prefixes for the sake of    *)
(* the proofs.                                                             *)
Accepted(q) ==
  LET upTo[n \in 0..Len(q)] ==
        IF n = 0 THEN <<>>
        ELSE IF q[n] \in Refused THEN upTo[n - 1] ELSE Append(upTo[n - 1], q[n])
  IN  upTo[Len(q)]

(* What cleanup() interrupts: a dial, resubscribe(), an interval ping.     *)
Interrupted ==
  CASE state = "connecting" -> {<<"connect">>}
    [] state = "connected" ->
         LET resub == IF resubbing THEN <<"resubscribe">> ELSE <<>>
         IN  {resub, resub \o <<"ping">>}
    [] OTHER -> {<<>>}

(* cleanup(), with the value autoReconnect has by then; armed says whether *)
(* a timer is set right after it.  Writes fail with the stream: publish()  *)
(* rejects, a flush catches it.  The server may have had some of what was  *)
(* on its way.                                                             *)
Cleanup(keep, armed) ==
  LET dropped == IF keep THEN {} ELSE Range(queue)
      direct == {w \in Range(writes) : w.by = 0}
  IN  /\ timer' = armed /\ resubbing' = FALSE
      /\ promise' = Settled({w.m : w \in Waiters \cup direct} \cup dropped, "rejected")
      /\ flush' = Resumed(Waiters \cup Range(writes), "rejected")
      /\ queue' = IF keep THEN queue ELSE <<>>
      /\ pending' = [c \in Channel |-> {}]
      /\ \E arrived \in 0..Len(wire) :
           log' = log \o Accepted(SubSeq(wire, 1, arrived))
      /\ writes' = <<>> /\ wire' = <<>> /\ inbox' = <<>>
      /\ UNCHANGED <<timeouts, offline, robbed>>

-----------------------------------------------------------------------------
(* connect(), disconnect() and the reconnect timer.                        *)

Connect(timed) ==
  /\ state \in {"disconnected", "reconnecting"}
  /\ connects < MaxConnects /\ connects' = connects + 1
  /\ state' = "connecting" /\ byTimer' = timed
  /\ UNCHANGED <<auto, resubbing, leftover, pubVars, netVars, offline, robbed, losses>>

(* A caller's connect() leaves the timer armed.                            *)
UserConnects == Connect(FALSE) /\ UNCHANGED timer

(* In any other state connect() throws and the timer is set again, which   *)
(* changes nothing here.                                                   *)
TimerConnects == Calm /\ timer /\ Connect(TRUE) /\ timer' = FALSE

Connected ==
  /\ Calm /\ state = "connecting"
  /\ state' = "connected" /\ resubbing' = TRUE
  /\ UNCHANGED <<auto, timer, byTimer, leftover, pubVars, netVars, history>>

(* connect()'s catch, and the timer's, which tries again.                  *)
ConnectFails ==
  /\ Calm /\ state = "connecting"
  /\ state' = "disconnected"
  /\ Cleanup(auto, byTimer /\ auto)
  /\ UNCHANGED <<auto, byTimer, leftover, connects, losses>>

Disconnect ==
  /\ auto' = FALSE /\ state' = "disconnected"
  /\ Cleanup(FALSE, FALSE)
  /\ \E cut \in Interrupted : leftover' = leftover \o cut
  /\ UNCHANGED <<byTimer, connects, losses>>

(* A fault: the timer is set before cleanup() clears it.                   *)
HandleDisconnectTimerFirst ==
  /\ state' = IF auto THEN "reconnecting" ELSE "disconnected"
  /\ Cleanup(auto, FALSE)
  /\ UNCHANGED <<auto, byTimer, connects>>

HandleDisconnect ==
  /\ state' = IF auto THEN "reconnecting" ELSE "disconnected"
  /\ Cleanup(auto, auto)
  /\ UNCHANGED <<auto, byTimer, connects>>

(* The stream ends, or a ping is not answered.                             *)
Lost ==
  /\ Calm /\ state = "connected" /\ losses < MaxLosses
  /\ HandleDisconnect
  /\ losses' = losses + 1
  /\ \E cut \in Interrupted : leftover' = leftover \o cut

-----------------------------------------------------------------------------
(* What a cleanup interrupted goes on, after whatever callers have done.   *)

(* The timer's attempt ends here only after disconnect(): no new timer.    *)
ConnectNotices(i) ==
  /\ leftover[i] = "connect"
  /\ state' = "disconnected"
  /\ Cleanup(auto, FALSE)
  /\ \E cut \in Interrupted : leftover' = RemoveAt(leftover, i) \o cut
  /\ UNCHANGED <<auto, byTimer, connects, losses>>

PingNotices(i) ==
  /\ leftover[i] = "ping"
  /\ HandleDisconnect
  /\ \E cut \in Interrupted : leftover' = RemoveAt(leftover, i) \o cut
  /\ UNCHANGED losses

(* A fault: what is being sent stays in the queue.                         *)
StartFlushOfCopy ==
  /\ queue' = queue
  /\ flush' = IF queue = <<>> THEN flush
              ELSE Append(flush, [rest |-> queue, at |-> "next"])

StartFlush ==
  /\ queue' = <<>>
  /\ flush' = IF queue = <<>> THEN flush
              ELSE Append(flush, [rest |-> queue, at |-> "next"])

ResubscribeNotices(i) ==
  /\ leftover[i] = "resubscribe"
  /\ StartFlush
  /\ leftover' = RemoveAt(leftover, i)
  /\ UNCHANGED <<state, auto, timer, byTimer, resubbing, promise, writes, pending,
                 timeouts, netVars, history>>

Resubscribed ==
  /\ Calm /\ resubbing
  /\ resubbing' = FALSE
  /\ StartFlush
  /\ UNCHANGED <<state, auto, timer, byTimer, leftover, promise, writes, pending,
                 timeouts, netVars, history>>

-----------------------------------------------------------------------------
(* publish() and the queue.                                                *)

(* The bound may have been passed before, by a flush that put back what it *)
(* had: the oldest go until there is room.                                 *)
Overflow == SubSeq(queue, 1, Len(queue) + 1 - MaxQueue)
Room == SubSeq(queue, Len(Overflow) + 1, Len(queue))

PublishQueues(m) ==
  /\ state # "connected"
  /\ queue' = Append(Room, m)
  /\ promise' = [Settled(Range(Overflow), "rejected") EXCEPT ![m] = "waiting"]
  /\ offline' = Append(offline, m)
  /\ UNCHANGED writes

PublishSends(m) ==
  /\ state = "connected"
  /\ writes' = Append(writes, [m |-> m, by |-> 0])
  /\ promise' = [promise EXCEPT ![m] = "waiting"]
  /\ UNCHANGED <<queue, offline>>

Publish ==
  \E m \in Message :
    /\ promise[m] = "none" /\ \A k \in 1..(m - 1) : promise[k] # "none"
    /\ PublishQueues(m) \/ PublishSends(m)
    /\ UNCHANGED <<connVars, flush, pending, timeouts, netVars, robbed, connects, losses>>

(* The next message of a flush, or its end.                                *)
FlushSends(f) ==
  /\ flush[f].at = "next"
  /\ LET q == flush[f].rest
     IN  \/ /\ q = <<>>
            /\ flush' = [flush EXCEPT ![f].at = "over"] /\ UNCHANGED writes
         \/ /\ q # <<>> /\ state # "connected"
            /\ flush' = [flush EXCEPT ![f].at = "rejected"] /\ UNCHANGED writes
         \/ /\ q # <<>> /\ state = "connected"
            /\ flush' = [flush EXCEPT ![f].at = "sending"]
            /\ writes' = Append(writes, [m |-> Head(q), by |-> f])
  /\ UNCHANGED <<connVars, queue, promise, pending, timeouts, netVars, history>>

(* A flush that ends leaves the queue it puts back, one that is connected  *)
(* goes on with the next message.                                          *)
CatchWith(f, putBack) ==
  /\ flush[f].at = "rejected"
  /\ IF state = "connected"
     THEN /\ flush' = [flush EXCEPT ![f] = [rest |-> Tail(@.rest), at |-> "next"]]
          /\ UNCHANGED queue
     ELSE /\ flush' = [flush EXCEPT ![f] = [rest |-> <<>>, at |-> "over"]]
          /\ queue' = putBack
  /\ UNCHANGED <<connVars, promise, writes, pending, timeouts, netVars, history>>

(* Two faults: the message that failed is not put back; what is put back   *)
(* goes behind what has come since.                                        *)
FlushCatchesAfter(f) == CatchWith(f, Tail(flush[f].rest) \o queue)
FlushCatchesBehind(f) == CatchWith(f, queue \o flush[f].rest)

(* What is left goes ahead of what has come since.                         *)
FlushCatches(f) == CatchWith(f, flush[f].rest \o queue)

(* The stream takes a write: its message is on its way, and its sender     *)
(* waits under the channel, whoever did before.                            *)
Written ==
  /\ Calm /\ writes # <<>>
  /\ LET w == Head(writes)
     IN  /\ pending' = [pending EXCEPT ![ChannelFor(w)] = {w}]
         /\ robbed' = robbed \cup {v.m : v \in pending[ChannelFor(w)]}
         /\ timeouts' = Append(timeouts, w)
         /\ wire' = Append(wire, w.m)
         /\ flush' = Resumed({w}, "waiting")
  /\ writes' = Tail(writes)
  /\ UNCHANGED <<connVars, queue, promise, inbox, log, offline, connects, losses>>

(* A fault: an answer is an answer.                                        *)
ReceiveAny ==
  /\ Calm /\ inbox # <<>>
  /\ pending' = [pending EXCEPT ![ChannelOf[Head(inbox)]] = {}]
  /\ Resolve(pending[ChannelOf[Head(inbox)]])
  /\ inbox' = Tail(inbox)
  /\ UNCHANGED <<connVars, queue, writes, timeouts, wire, log, history>>

(* "published" or "publish_error", which name the channel only.            *)
Receive ==
  /\ Calm /\ inbox # <<>>
  /\ LET m == Head(inbox)
         ws == pending[ChannelOf[m]]
     IN  /\ pending' = [pending EXCEPT ![ChannelOf[m]] = {}]
         /\ IF m \in Refused THEN Reject(ws) ELSE Resolve(ws)
  /\ inbox' = Tail(inbox)
  /\ UNCHANGED <<connVars, queue, writes, timeouts, wire, log, history>>

(* A timer looks for any entry under its channel, and rejects its own.     *)
Expire ==
  /\ Calm /\ timeouts # <<>>
  /\ LET w == Head(timeouts)
         ws == pending[ChannelFor(w)]
     IN  IF ws = {} THEN UNCHANGED <<pending, robbed, promise, flush>>
         ELSE /\ pending' = [pending EXCEPT ![ChannelFor(w)] = {}]
              /\ robbed' = robbed \cup {v.m : v \in ws \ {w}}
              /\ Reject({w})
  /\ timeouts' = Tail(timeouts)
  /\ UNCHANGED <<connVars, queue, writes, netVars, offline, connects, losses>>

(* The server: it handles the requests of a session in order, and drops an *)
(* answer when the session's queue is full.                                *)
Serve ==
  /\ wire # <<>>
  /\ log' = IF Head(wire) \in Refused THEN log ELSE Append(log, Head(wire))
  /\ inbox' \in {inbox, Append(inbox, Head(wire))}
  /\ wire' = Tail(wire)
  /\ UNCHANGED <<connVars, pubVars, history>>

(* Nothing frames what the client writes (client.ts:365-372), and the      *)
(* server takes what one read returns for one message: a read that holds   *)
(* several, or a part of one, is lost.  Each lost request is one step.     *)
GarbleRequests ==
  /\ wire # <<>>
  /\ wire' = Tail(wire)
  /\ UNCHANGED <<connVars, pubVars, inbox, log, history>>

Next ==
  \/ UserConnects
  \/ TimerConnects
  \/ Connected
  \/ ConnectFails
  \/ Disconnect
  \/ Lost
  \/ \E i \in DOMAIN leftover :
       ConnectNotices(i) \/ PingNotices(i) \/ ResubscribeNotices(i)
  \/ Resubscribed
  \/ Publish
  \/ \E f \in DOMAIN flush : FlushSends(f) \/ FlushCatches(f)
  \/ Written
  \/ Receive
  \/ Expire
  \/ Serve
  \/ GarbleRequests

Spec == Init /\ [][Next]_vars

-----------------------------------------------------------------------------
Place == {"next", "sending", "waiting", "rejected", "over"}

TypeOK ==
  /\ state \in {"disconnected", "connecting", "connected", "reconnecting"}
  /\ auto \in BOOLEAN /\ timer \in BOOLEAN /\ byTimer \in BOOLEAN /\ resubbing \in BOOLEAN
  /\ leftover \in Seq({"connect", "ping", "resubscribe"})
  /\ queue \in Seq(Message) /\ offline \in Seq(Message) /\ log \in Seq(Message)
  /\ promise \in [Message -> {"none", "waiting", "resolved", "rejected"}]
  /\ flush \in Seq([rest : Seq(Message), at : Place])
  /\ writes \in Seq(Waiter) /\ timeouts \in Seq(Waiter)
  /\ pending \in [Channel -> SUBSET Waiter]
  /\ \A c \in Channel : \A v, w \in pending[c] : v = w
  /\ wire \in Seq(Message) /\ inbox \in Seq(Message)
  /\ robbed \subseteq Message
  /\ connects \in 0..MaxConnects /\ losses \in 0..MaxLosses

(* A client that says it reconnects has a timer that will, and one that    *)
(* was told to disconnect has none, whatever was under way.                *)
RetryArmed ==
  /\ state = "reconnecting" => timer
  /\ timer => auto

(* Somebody will settle the promise of w: a write, an entry.               *)
Heard(w) == w \in Range(writes) \/ w \in Waiters

(* A flush that will go on: it has its turn, or somebody it will hear of.  *)
Moving(f) ==
  /\ flush[f].at # "over"
  /\ flush[f].at \in {"sending", "waiting"} => Heard([m |-> Head(flush[f].rest), by |-> f])

(* No publish is forgotten: while its promise is open, the message is in   *)
(* the queue, or left to a flush that goes on, or waits itself - unless an *)
(* entry was taken from it, or from the message its flush is stuck with.   *)
NoneForgotten ==
  \A m \in Message : promise[m] = "waiting" =>
    \/ m \in Range(queue)
    \/ Heard([m |-> m, by |-> 0])
    \/ m \in robbed
    \/ \E f \in DOMAIN flush :
         /\ m \in Range(flush[f].rest)
         /\ Moving(f) \/ Head(flush[f].rest) \in robbed

(* A publish that returned without an error was published, where messages  *)
(* do not share a channel: across losses, requeues and second attempts no  *)
(* answer is taken for another.                                            *)
ResolvedIsPublished ==
  \A m \in Message :
    promise[m] = "resolved" /\ (\A k \in Message \ {m} : ChannelOf[k] # ChannelOf[m]) =>
      m \in Range(log)

(* What waited in the queue reaches the server in the order it was queued, *)
(* whatever is put back and sent again, as long as no entry is taken from  *)
(* another: a flush that is stuck may be woken by a timer much later.      *)
OfflineInOrder ==
  LET first(m) == SelectInSeq(log, LAMBDA k : k = m)
  IN  robbed = {} => \A i, j \in DOMAIN offline :
        i < j /\ first(offline[j]) # 0 => first(offline[i]) <= first(offline[j])

(* A message that was confirmed is not sent again.                         *)
ConfirmedNotResent ==
  [][\A m \in Message : promise[m] = "resolved" =>
       \A w \in Range(writes') \ Range(writes) : w.m # m]_vars

-----------------------------------------------------------------------------
(* A claim that the code does not keep.                                    *)

(* Still to be written: in the queue, or behind the message a flush is at. *)
Unwritten(m) ==
  \/ m \in Range(queue)
  \/ \E f \in DOMAIN flush : flush[f].rest # <<>> /\ m \in Range(Tail(flush[f].rest))

(* client.ts:218 "If disconnected and offlineQueue is enabled, messages    *)
(* are buffered and sent when the connection is restored": on a connection *)
(* where nothing is left to happen, no message that was queued, and that   *)
(* its caller still waits for, has never been sent.                        *)
SentWhenRestored ==
  state = "connected" /\ ~resubbing /\ Calm /\ writes = <<>> /\ wire = <<>>
    /\ inbox = <<>> /\ timeouts = <<>> =>
      \A m \in Range(offline) :
        promise[m] = "waiting" /\ Unwritten(m) => m \in Range(log)
=============================================================================

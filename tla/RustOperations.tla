--------------------------- MODULE RustOperations ---------------------------
(***************************************************************************)
(* The operations of a Rust client (client-rs/src/client.rs): subscribe,    *)
(* unsubscribe, publish, ping and request, called by several tasks at a     *)
(* time, the tables of those that wait, and the resubscription after a loss.*)
(*                                                                          *)
(* An operation waits under the name it is about, and an answer carries no  *)
(* more than that name; a ping has its number, a request its ID.  Tables    *)
(* and fields are read and written under locks held for a statement: a step *)
(* ends wherever another task can come between two of them.  One read of    *)
(* the stream is taken for one message: what it has more or less is lost.   *)
(* One connection at a time is modelled; RustClient shows how several come  *)
(* to be.                                                                   *)
(***************************************************************************)
EXTENDS Naturals, Sequences, FiniteSetsExt

CONSTANTS
    Callers,    \* tasks that use the client, each with one call at a time
    Task,       \* connection_task, which calls do_subscribe too
    Nobody,     \* no entry in a table of waiting operations
    Gone,       \* an entry whose caller no longer waits
    Pattern,    \* patterns, to subscribe to
    Channel,    \* channels, to publish on
    Does,       \* the operations each caller uses
    Uses,       \* the patterns each caller subscribes to, and has replies on
    Covers,     \* per pattern, the channels that match it
    Granted,    \* the patterns and channels the server's grants allow
    Capacity,   \* places in the channel to connection_task (100)
    MaxCalls,   \* bound: calls made
    MaxFaults   \* bound: connections lost, and reads that are not one message

Tasks == Callers \cup {Task}
Number == 1 .. MaxCalls
Key == ({"subscribe", "unsubscribe"} \X Pattern) \cup ({"publish"} \X Channel) \cup ({"ping"} \X Number)

ASSUME OperationsAssumption ==
    /\ IsFiniteSet(Callers)
    /\ Task \notin Callers /\ Nobody \notin Tasks /\ Gone \notin Tasks /\ Nobody # Gone
    /\ Does \in [Callers -> SUBSET {"subscribe", "publish", "ping", "request"}]
    /\ Uses \in [Callers -> SUBSET Pattern] /\ Covers \in [Pattern -> SUBSET Channel]
    /\ Capacity \in Nat \ {0} /\ MaxCalls \in Nat /\ MaxFaults \in Nat

VARIABLES
    phase,      \* of the connection and of the state that callers see
    todo,       \* patterns that resubscribe() has yet to send
    handlers,   \* how many handlers each pattern has in `subscriptions`
    held,       \* per caller, the patterns it holds a Subscription for
    pending,    \* the tables of waiting operations
    call,       \* per task, the operation under way and where it is
    answer,     \* per task, what its oneshot channel brought
    request,    \* per task, the request() under way and what its own channel brought
    wire,       \* what is queued for connection_task to send, in order
    inbox,      \* answers on their way back, in order
    events,     \* messages with the ID of a request on their way
    server,     \* the patterns the server has subscribed this session to
    excused,    \* history: patterns whose last subscribe was garbled, or sent
                \* before an unsubscribe that had been called earlier
    confirmed,  \* history: operations the server has carried out, per key
    succeeded,  \* history: operations that returned Ok after an answer, per key
    calls,
    faults

clientVars == <<phase, todo, handlers, held>>
callVars == <<pending, call, answer, request>>
netVars == <<wire, inbox, events, server, excused>>
history == <<confirmed, succeeded, calls, faults>>
vars == <<clientVars, callVars, netVars, history>>

Phases == {"down", "greeted", "connected", "resubscribe", "main", "lost", "cleared", "drained"}
Places == {"idle", "asked", "register", "send", "wait"}
Answers == {"none", "ok", "denied", "not_connected", "dropped"}
Stages == {"none", "subscribing", "publishing", "awaiting", "leaving"}
Replies == {"none", "echo", "reply", "null"}

\* Mutant: the state is set when resubscribe() has returned.
ConnectedLate == phase \in {"main", "lost", "cleared", "drained"}

\* What callers see: ConnectionState::Connected is set after the sender is
\* stored, and taken back after the sender is dropped.
Connected == phase \in {"connected", "resubscribe", "main", "lost", "cleared", "drained"}
HasSender == phase \in {"greeted", "connected", "resubscribe", "main", "lost"}

NoCall == [key |-> <<"none">>, at |-> "idle"]
NoRequest == [at |-> "none", id |-> 0, on |-> Nobody, got |-> "none"]

Init ==
    /\ phase = "down" /\ todo = {}
    /\ handlers = [p \in Pattern |-> 0]
    /\ held = [c \in Callers |-> {}]
    /\ pending = [k \in Key |-> Nobody]
    /\ call = [t \in Tasks |-> NoCall]
    /\ answer = [t \in Tasks |-> "none"]
    /\ request = [t \in Tasks |-> NoRequest]
    /\ wire = <<>> /\ inbox = <<>> /\ events = {}
    /\ server = {} /\ excused = {}
    /\ confirmed = [k \in Key |-> 0] /\ succeeded = [k \in Key |-> 0]
    /\ calls = 0 /\ faults = 0

-----------------------------------------------------------------------------
(* A call's steps                                                            *)

At(t, place) == call[t].at = place
Goes(t, place) == call' = [call EXCEPT ![t].at = place]
Begins(t, key, place) == call' = [call EXCEPT ![t] = [key |-> key, at |-> place]]

\* The operation is over.  One that request() called is followed by its next
\* step, or by its return with the error: what it has entered then stays.
Ends(t, ok) ==
    IF ok /\ request[t].at = "subscribing"
    THEN \E ch \in Channel :
            /\ call' = [call EXCEPT ![t] = [key |-> <<"publish", ch>>, at |-> "register"]]
            /\ request' = [request EXCEPT ![t].at = "publishing"]
    ELSE /\ call' = [call EXCEPT ![t] = NoCall]
         /\ request' = [request EXCEPT ![t] =
                IF ok /\ @.at = "publishing" THEN [@ EXCEPT !.at = "awaiting"] ELSE NoRequest]

\* Each call of a caller counts towards the bound.
Calls(c, operation) ==
    /\ operation \in Does[c] /\ At(c, "idle") /\ request[c] = NoRequest
    /\ calls < MaxCalls /\ calls' = calls + 1
    /\ UNCHANGED <<confirmed, succeeded, faults>>

\* Who waits under key, if anybody does, is told so.
Told(key, what) ==
    IF pending[key] \in Tasks THEN [answer EXCEPT ![pending[key]] = what] ELSE answer

\* subscribe(): the handler is in the table before anything else.  Unless it is
\* the pattern's first, or the client is not connected, that was all.
SubscribeCalled(c, p) ==
    /\ Calls(c, "subscribe") /\ p \notin held[c]
    /\ handlers' = [handlers EXCEPT ![p] = @ + 1]
    /\ IF handlers[p] = 0
       THEN Begins(c, <<"subscribe", p>>, "asked") /\ UNCHANGED held
       ELSE held' = [held EXCEPT ![c] = @ \cup {p}] /\ UNCHANGED call
    /\ UNCHANGED <<phase, todo, pending, answer, request, netVars>>

\* unsubscribe(): the handler leaves the table, and the last one takes the entry along.
UnsubscribeCalled(c, p) ==
    /\ p \in held[c] /\ Calls(c, "subscribe")
    /\ handlers' = [handlers EXCEPT ![p] = @ - 1]
    /\ held' = [held EXCEPT ![c] = @ \ {p}]
    /\ IF handlers[p] = 1
       THEN Begins(c, <<"unsubscribe", p>>, "asked")
       ELSE UNCHANGED call
    /\ UNCHANGED <<phase, todo, pending, answer, request, netVars>>

\* publish() and ping(): nothing happens unless the client is connected.
PublishCalled(c, ch) ==
    /\ Connected /\ Calls(c, "publish")
    /\ Begins(c, <<"publish", ch>>, "register")
    /\ UNCHANGED <<clientVars, pending, answer, request, netVars>>

PingCalled(c) ==
    /\ Connected /\ Calls(c, "ping")
    /\ Begins(c, <<"ping", calls'>>, "register")
    /\ UNCHANGED <<clientVars, pending, answer, request, netVars>>

\* request(): an entry under a new ID, then subscribe() on the reply channel,
\* then do_publish.  Unless the handler is the first, the subscription is taken
\* to be there.
RequestCalled(c, p, ch) ==
    /\ Connected /\ Calls(c, "request")
    /\ handlers' = [handlers EXCEPT ![p] = @ + 1]
    /\ request' = [request EXCEPT ![c] =
           [at |-> IF handlers[p] = 0 THEN "subscribing" ELSE "publishing",
            id |-> calls', on |-> p, got |-> "none"]]
    /\ IF handlers[p] = 0
       THEN Begins(c, <<"subscribe", p>>, "asked")
       ELSE Begins(c, <<"publish", ch>>, "register")
    /\ UNCHANGED <<phase, todo, held, pending, answer, netVars>>

\* subscribe() and remove_handler() look at the state after the table.
StateChecked(c) ==
    /\ At(c, "asked")
    /\ IF Connected
       THEN Goes(c, "register") /\ UNCHANGED <<held, request>>
       ELSE /\ Ends(c, TRUE)
            /\ held' = IF call[c].key[1] = "subscribe" /\ request[c] = NoRequest
                       THEN [held EXCEPT ![c] = @ \cup {call[c].key[2]}] ELSE held
    /\ UNCHANGED <<phase, todo, handlers, pending, answer, netVars, history>>

\* A reply, or the end of its patience: request() removes its handler, as
\* unsubscribe() does, and ignores what comes of that.
RequestReturns(c) ==
    LET p == request[c].on IN
    /\ request[c].at = "awaiting"
    /\ handlers' = [handlers EXCEPT ![p] = @ - 1]
    /\ IF handlers[p] = 1
       THEN /\ Begins(c, <<"unsubscribe", p>>, "asked")
            /\ request' = [request EXCEPT ![c].at = "leaving"]
       ELSE /\ request' = [request EXCEPT ![c] = NoRequest]
            /\ UNCHANGED call
    /\ UNCHANGED <<phase, todo, held, pending, answer, netVars, history>>

-----------------------------------------------------------------------------
(* do_subscribe, do_unsubscribe, do_publish, and the middle of ping()        *)

\* The entry under the same name, if there is one, is replaced and its sender dropped.
Register(t) ==
    /\ At(t, "register")
    /\ pending' = [pending EXCEPT ![call[t].key] = t]
    /\ answer' = [Told(call[t].key, "dropped") EXCEPT ![t] = "none"]
    /\ Goes(t, "send")
    /\ UNCHANGED <<clientVars, request, netVars, history>>

Leaving(t, p) ==
    \E c \in Callers \ {t} : call[c].key = <<"unsubscribe", p>> /\ call[c].at \in {"asked", "register", "send"}

Excused(t) ==
    LET p == call[t].key[2] IN
    IF call[t].key[1] # "subscribe" THEN excused
    ELSE IF Leaving(t, p) THEN excused \cup {p} ELSE excused \ {p}

\* The request is queued, when there is room, or there is no sender: the entry
\* then stays behind.
Send(t) ==
    /\ At(t, "send")
    /\ HasSender => Len(wire) < Capacity
    /\ IF HasSender
       THEN /\ wire' = Append(wire, [key |-> call[t].key, id |-> request[t].id])
            /\ excused' = Excused(t)
            /\ Goes(t, "wait")
            /\ UNCHANGED <<pending, answer, request>>
       ELSE /\ pending' = IF pending[call[t].key] = t
                          THEN [pending EXCEPT ![call[t].key] = Gone] ELSE pending
            /\ answer' = [answer EXCEPT ![t] = "none"]
            /\ Ends(t, FALSE)
            /\ UNCHANGED <<wire, excused>>
    /\ UNCHANGED <<clientVars, inbox, events, server, history>>

\* The oneshot channel brings an answer, or is closed: the call returns.
Return(t) ==
    /\ At(t, "wait") /\ answer[t] # "none"
    /\ LET key == call[t].key IN
          /\ held' = IF t \in Callers /\ key[1] = "subscribe" /\ answer[t] = "ok" /\ request[t] = NoRequest
                     THEN [held EXCEPT ![t] = @ \cup {key[2]}] ELSE held
          /\ succeeded' = IF answer[t] = "ok"
                          THEN [succeeded EXCEPT ![key] = @ + 1] ELSE succeeded
    /\ answer' = [answer EXCEPT ![t] = "none"]
    /\ Ends(t, answer[t] = "ok")
    /\ UNCHANGED <<phase, todo, handlers, pending, netVars, confirmed, calls, faults>>

\* Mutant: the entry is left in the table.
TimeoutLeaves(t) ==
    /\ At(t, "wait") /\ answer[t] = "none"
    /\ Ends(t, FALSE)
    /\ UNCHANGED <<clientVars, pending, answer, netVars, history>>

\* No answer in time: whatever entry is under the name is removed.
Timeout(t) ==
    /\ At(t, "wait") /\ answer[t] = "none"
    /\ pending' = [pending EXCEPT ![call[t].key] = Nobody]
    /\ answer' = [Told(call[t].key, "dropped") EXCEPT ![t] = "none"]
    /\ Ends(t, FALSE)
    /\ UNCHANGED <<clientVars, netVars, history>>

-----------------------------------------------------------------------------
(* The server, the stream and the main loop                                  *)

\* A message with a request's ID comes back when this session has a
\* subscription that matches: the request itself.
Echoes(name, id) ==
    IF id # 0 /\ \E p \in server : name \in Covers[p]
    THEN {[id |-> id, what |-> "echo"]} ELSE {}

\* Only the main loop takes requests from the queue; the server carries them
\* out one at a time and in order.
Serve ==
    /\ phase = "main" /\ wire # <<>>
    /\ LET key == Head(wire).key
           kind == key[1]
           name == key[2]
           ok == kind \in {"unsubscribe", "ping"} \/ name \in Granted
       IN  /\ server' = CASE kind = "subscribe" /\ ok -> server \cup {name}
                          [] kind = "unsubscribe" -> server \ {name}
                          [] OTHER -> server
           /\ inbox' = Append(inbox, [key |-> key, ok |-> ok])
           /\ events' = IF kind = "publish" /\ ok
                        THEN events \cup Echoes(name, Head(wire).id) ELSE events
           /\ confirmed' = IF ok THEN [confirmed EXCEPT ![key] = @ + 1] ELSE confirmed
    /\ wire' = Tail(wire)
    /\ UNCHANGED <<clientVars, callVars, excused, succeeded, calls, faults>>

\* Some other client, having had the request, publishes a reply.
Reply(c) ==
    /\ phase = "main" /\ request[c].at \in {"publishing", "awaiting"}
    /\ \A i \in DOMAIN wire : wire[i].id # request[c].id
    /\ ~(At(c, "register") \/ At(c, "send"))
    /\ request[c].on \in server
    /\ events' = events \cup {[id |-> request[c].id, what |-> "reply"]}
    /\ UNCHANGED <<clientVars, callVars, wire, inbox, server, excused, history>>

\* handle_message: an answer goes to whoever waits under its name by now.
Receive ==
    /\ phase = "main" /\ inbox # <<>>
    /\ LET key == Head(inbox).key IN
          /\ answer' = Told(key, IF Head(inbox).ok THEN "ok" ELSE "denied")
          /\ pending' = [pending EXCEPT ![key] = Nobody]
    /\ inbox' = Tail(inbox)
    /\ UNCHANGED <<clientVars, call, request, wire, events, server, excused, history>>

\* dispatch_message: whatever has the ID of a request that waits is its reply.
Dispatch(e) ==
    /\ phase = "main"
    /\ request' = [t \in Tasks |->
           IF request[t].id = e.id /\ request[t].got = "none"
           THEN [request[t] EXCEPT !.got = e.what] ELSE request[t]]
    /\ events' = events \ {e}
    /\ UNCHANGED <<clientVars, pending, call, answer, wire, inbox, server, excused, history>>

\* A read that takes two messages for one, or less than one: it is no JSON.
Garbled(queue) == \E n \in 1 .. Min({2, Len(queue)}) : queue' = SubSeq(queue, n + 1, Len(queue))

GarbleRequests ==
    /\ phase = "main" /\ faults < MaxFaults /\ faults' = faults + 1
    /\ Garbled(wire)
    /\ excused' = excused \cup
           {p \in Pattern : \E i \in 1 .. (Len(wire) - Len(wire')) : wire[i].key = <<"subscribe", p>>}
    /\ UNCHANGED <<clientVars, callVars, inbox, events, server, confirmed, succeeded, calls>>

\* An answer that finds the session's queue on the server full goes the same way.
GarbleAnswers ==
    /\ phase = "main" /\ faults < MaxFaults /\ faults' = faults + 1
    /\ Garbled(inbox)
    /\ UNCHANGED <<clientVars, callVars, wire, events, server, excused, confirmed, succeeded, calls>>

-----------------------------------------------------------------------------
(* connection_task                                                           *)

\* It logs in and stores a sender; then it sets the state; then it lists the
\* patterns that have handlers.
Greet ==
    /\ phase = "down" /\ phase' = "greeted"
    /\ UNCHANGED <<todo, handlers, held, callVars, netVars, history>>

SetConnected ==
    /\ phase = "greeted" /\ phase' = "connected"
    /\ UNCHANGED <<todo, handlers, held, callVars, netVars, history>>

ListPatterns ==
    /\ phase = "connected" /\ phase' = "resubscribe"
    /\ todo' = {p \in Pattern : handlers[p] > 0}
    /\ UNCHANGED <<handlers, held, callVars, netVars, history>>

\* resubscribe() calls do_subscribe for one after the other, whatever comes of it.
Resubscribe(p) ==
    /\ phase = "resubscribe" /\ p \in todo /\ At(Task, "idle")
    /\ todo' = todo \ {p}
    /\ Begins(Task, <<"subscribe", p>>, "register")
    /\ UNCHANGED <<phase, handlers, held, pending, answer, request, netVars, history>>

StartMain ==
    /\ phase = "resubscribe" /\ todo = {} /\ At(Task, "idle")
    /\ phase' = "main"
    /\ UNCHANGED <<todo, handlers, held, callVars, netVars, history>>

\* The main loop finds the connection lost, with what was on its way, and the
\* server forgets the session.
Lose ==
    /\ phase = "main" /\ faults < MaxFaults
    /\ phase' = "lost"
    /\ server' = {} /\ inbox' = <<>> /\ events' = {}
    /\ faults' = faults + 1
    /\ UNCHANGED <<todo, handlers, held, callVars, wire, excused, confirmed, succeeded, calls>>

\* Its end of the queue goes, and with it what nobody sent, and the stored sender.
Cleanup ==
    /\ phase = "lost" /\ phase' = "cleared"
    /\ wire' = <<>>
    /\ UNCHANGED <<todo, handlers, held, callVars, inbox, events, server, excused, history>>

Waits(t) == \E k \in Key : pending[k] = t

\* Those who await a reply are told too: Null.
Unblocked == [t \in Tasks |->
    IF request[t] # NoRequest /\ request[t].got = "none"
    THEN [request[t] EXCEPT !.got = "null"] ELSE request[t]]

\* Mutant: all who wait are told what those who ping are told.
DrainAsOk ==
    /\ phase = "cleared" /\ phase' = "drained"
    /\ answer' = [t \in Tasks |-> IF Waits(t) THEN "ok" ELSE answer[t]]
    /\ pending' = [k \in Key |-> Nobody]
    /\ request' = Unblocked
    /\ UNCHANGED <<todo, handlers, held, call, netVars, history>>

\* handle_disconnect empties the tables, no operation being in two of them.
\* Those who ping are told that all is well.
Drain ==
    /\ phase = "cleared" /\ phase' = "drained"
    /\ answer' = [t \in Tasks |->
           IF ~Waits(t) THEN answer[t]
           ELSE IF call[t].key[1] = "ping" THEN "ok" ELSE "not_connected"]
    /\ pending' = [k \in Key |-> Nobody]
    /\ request' = Unblocked
    /\ UNCHANGED <<todo, handlers, held, call, netVars, history>>

SetReconnecting ==
    /\ phase = "drained" /\ phase' = "down"
    /\ UNCHANGED <<todo, handlers, held, callVars, netVars, history>>

-----------------------------------------------------------------------------
Operates(t) == Register(t) \/ Send(t) \/ Return(t) \/ Timeout(t)

Asks(c) ==
    \/ \E p \in Uses[c] : SubscribeCalled(c, p) \/ UnsubscribeCalled(c, p)
    \/ \E p \in Uses[c], ch \in Channel : RequestCalled(c, p, ch)
    \/ \E ch \in Channel : PublishCalled(c, ch)
    \/ PingCalled(c) \/ StateChecked(c) \/ RequestReturns(c)

Next ==
    \/ \E t \in Tasks : Operates(t)
    \/ \E c \in Callers : Asks(c) \/ Reply(c)
    \/ \E p \in Pattern : Resubscribe(p)
    \/ Serve \/ Receive \/ \E e \in events : Dispatch(e)
    \/ GarbleRequests \/ GarbleAnswers
    \/ Greet \/ SetConnected \/ ListPatterns \/ StartMain
    \/ Lose \/ Cleanup \/ Drain \/ SetReconnecting

Spec == Init /\ [][Next]_vars

-----------------------------------------------------------------------------
(* Properties                                                                *)

\* Every field has its type.
ClientType ==
    /\ phase \in Phases /\ todo \in SUBSET Pattern
    /\ handlers \in [Pattern -> Nat] /\ held \in [Callers -> SUBSET Pattern]

CallType ==
    /\ pending \in [Key -> Tasks \cup {Nobody, Gone}]
    /\ call \in [Tasks -> [key : Key \cup {<<"none">>}, at : Places]]
    /\ answer \in [Tasks -> Answers]
    /\ request \in [Tasks -> [at : Stages, id : 0 .. MaxCalls, on : Pattern \cup {Nobody}, got : Replies]]

NetType ==
    /\ wire \in Seq([key : Key, id : 0 .. MaxCalls]) /\ Len(wire) <= Capacity
    /\ inbox \in Seq([key : Key, ok : BOOLEAN]) /\ server \in SUBSET Pattern
    /\ events \in SUBSET [id : Number, what : {"echo", "reply"}] /\ excused \in SUBSET Pattern

HistoryType ==
    /\ confirmed \in [Key -> Nat] /\ succeeded \in [Key -> Nat]
    /\ calls \in 0 .. MaxCalls /\ faults \in 0 .. MaxFaults

\* An entry of a table is that of a call that waits or is about to.
EntriesWait ==
    \A k \in Key, t \in Tasks :
        pending[k] = t => call[t].key = k /\ call[t].at \in {"send", "wait"} /\ answer[t] = "none"

\* A Subscription, and a request that waits, stand for a handler in the table.
Handled ==
    \A c \in Callers :
        /\ \A p \in held[c] : handlers[p] > 0
        /\ request[c].at \in {"subscribing", "publishing", "awaiting"} => handlers[request[c].on] > 0

\* Fields, tables and handlers are what the code takes them to be.
TypeOK == ClientType /\ CallType /\ NetType /\ HistoryType /\ EntriesWait /\ Handled

\* Under no name do more operations return Ok after an answer than the server
\* carried out, pings apart, although answers come late, meet entries of later
\* calls, and a loss answers all that wait (client.rs:453-487, 574-576).  It is a
\* count: an answer carries no more than the name, so that a late one may complete
\* a later call whose own request the server never read.
OkIsConfirmed == \A k \in Key : k[1] # "ping" => succeeded[k] <= confirmed[k]

Requests(p) == {i \in DOMAIN wire : wire[i].key \in {<<"subscribe", p>>, <<"unsubscribe", p>>}}

\* The server subscribes, or has subscribed, this session to p, once it has
\* carried out what is queued.
WillBeServed(p) ==
    IF Requests(p) = {} THEN p \in server ELSE wire[Max(Requests(p))].key[1] = "subscribe"

Busy(p) == \E c \in Callers : call[c].key \in {<<"subscribe", p>>, <<"unsubscribe", p>>}

\* A pattern with handlers, of subscribers and of requests that wait for a reply,
\* is subscribed to on the server, whatever timeouts, losses, resubscriptions and
\* others' comings and goings there were: unless its last subscribe was garbled,
\* or went out before an unsubscribe that had been called earlier, or calls about
\* it are under way (client.rs:198-224, 430-451, 545-558).
HandlersServed ==
    \A p \in Pattern \cap Granted :
        (phase = "main" /\ handlers[p] > 0 /\ ~Busy(p) /\ p \notin excused) => WillBeServed(p)

\* "waits for a response on `reply_channel`" (client.rs:238-239): what completes a
\* request is a message that another client published for it, or the loss.
AnsweredByReply == \A c \in Callers : request[c].got # "echo"

=============================================================================

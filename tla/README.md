# Catbus in TLA+

Catbus is a publish/subscribe message bus: a server (`src/src`, Rust) that
speaks WebTransport and WebSocket, and clients for Rust (`src/client-rs`) and
JavaScript (`src/client-js`). This directory models its behaviour in TLA+,
checks it with TLC on small instances, and proves the results that matter most
with TLAPS for every instance. Paths below are relative to the repository, whose
root is `src/`: its server is in `src/src`, its tests in `src/tests`.

## 1. The system

| Component | State it keeps | Operations | Hard behaviour |
|---|---|---|---|
| Channels and patterns (`channels/mod.rs`) | none | parse, segment, matches, print | byte offsets, partial segments, empty first segment |
| Grants (`auth/grants.rs`) | a list of (type, pattern) | allows, patterns_for, add, remove | text comparison of a grant with a subscription |
| Tokens (`auth/tokens.rs`) | none | parse, sign | sub tokens carry their grants, role tokens name a row that may change or go |
| Registry (`server/connections.rs`) | map of connections, prefix index; per connection its grants, subscriptions, queue | add, remove, subscribe, unsubscribe, index_subscription, find_subscribers, send | concurrent scan and update, bounded queues, stale index entries |
| Router (`server/router.rs`) | none | route | collects subscribers, then sends one by one |
| Sessions (`server/transport.rs`, `server/websocket.rs`) | where the handler is; a forwarding task | authentication, eight requests, cleanup | two tasks per client, abort in the middle of a write |
| Ring buffer (`storage/ringbuf.rs`) | queue, counter | push, get_after, get_after_for_channel, clear | number taken before the lock |
| Role store (`storage/postgres.rs`) | roles and their grants in a table | create, delete, get, add and remove grants | read-modify-write in two statements, a default that cannot be read |
| Command line (`bin/catbus.rs`) | none | grant, revoke, role create, show and delete | several at a time, each may die between two statements |
| Daemon (`bin/catbusd.rs`) | secret, admin key, the sessions | start, stop | a restart under another secret ends and refuses what was valid |
| Rust client (`client-rs/src/client.rs`) | state, sender, subscriptions, pending operations | connect, disconnect, subscribe, publish, request, ping | reconnect loops, pending maps keyed by name, timeouts |
| JavaScript client (`client-js/src/client.ts`) | state, handlers, pending promises, offline queue | the same, and an offline queue | timers of replaced entries, partial flush, a loop over a table that changes |
| React hooks (`client-js/src/react.ts`) | a subscription per component | mount, unmount | a component that goes before its subscribe resolves |
| Deployment | none | | none |

How they interact: a transport task accepts a connection and runs one session
task for it. The session authenticates the client (asking the role store for a
role's grants), puts a connection into the shared registry and then handles the
client's requests one at a time. A publish goes to the router, which asks the
registry for the subscribers and puts the message into each one's queue. A
second task per session takes messages out of the queue and writes them to the
client. Nothing is locked from one access of the registry to the next. The ring
buffer is a library part: only the tests use it, to let a client that comes back
catch up.

What makes each part correct:

- channels: a pattern matches by whole segments; printing and parsing are
  inverse; a grant admits exactly the subscriptions inside it;
- broker: a message reaches everyone subscribed throughout the route, except
  where a queue is full; at most once; nobody who was not subscribed at some
  moment of the route; never somebody who may not read the channel; in order
  per publisher; routes always end; sessions clean up behind them;
- ring buffer: the queue is the newest end of what was pushed; a search returns
  what comes after the number; a reader that goes on from the last number
  fetched misses nothing;
- role store: what a command reported is so, but for another command that had
  read the row before; a deleted role is refused, and does not come back; a
  session does not outlive its title by more than the daemon;
- clients: an operation ends with its own answer; one connection at a time; a
  subscription survives a reconnect; what was queued offline is sent once.

`PROJECT.json` lists the hazards behind these, each at its line, and what covers
it.

## 2. Modules

| Module | Models | How |
|---|---|---|
| `Channels` | `channels/mod.rs`, the grant test of `connections.rs:59-76`, the matching of `client.rs:634-649` and `client.ts:484-497` | operators on sequences of symbols |
| `ChannelTexts` | | types every text symbol by symbol; the properties compare with definitions by whole segments |
| `MCChannels` | | two characters, a foreign one, texts of five symbols |
| `ChannelsProofs` | | all six properties of `ChannelTexts`, for texts of any length |
| `FanOut` | the promise of a publish | abstract: interests, a flight per publisher, an inbox per session |
| `Broker` | `transport.rs`, `websocket.rs`, `connections.rs`, `router.rs` | one action per access to shared state; extends `Channels`, implements `FanOut` |
| `MCBroker` | | instances: two channels, patterns, three kinds of token, which client sends what |
| `BrokerProofs` | | types, confinement, the index, the order per source, and the refinement of `FanOut`, for every instance |
| `RingBuffer` | `ringbuf.rs`, the reader of `tests/resilience.rs` | push in two steps, reader with `last_seen` |
| `MCRingBuffer` | | three writers, one reader |
| `RingBufferProofs` | | the queue, its order, the searches and the catch-up, for every instance |
| `RustClient` | `client-rs/src/client.rs`: connect, disconnect, `connection_task`, `handle_disconnect`, the reconnect loop | tasks that race for the state, the sender and the shutdown signal |
| `MCRustClient` | | two attempts, four loops |
| `RustClientProofs` | | types and the three safety properties, for every instance |
| `RustOperations` | the same file: subscribe, unsubscribe, publish, ping, request, `do_*`, `handle_message`, `dispatch_message`, `resubscribe` | the tables of waiting calls, the request queue, the server's answers, reads that are not one message |
| `MCRustOperations` | | a subscriber and a caller that does the rest, with replies on the same pattern |
| `RustOperationsProofs` | | types and both safety properties, for every instance |
| `JsClient` | `client-js/src/client.ts`: connect, disconnect, reconnection, publish, the offline queue | one thread: outside events come when nothing started is left to run |
| `MCJsClient` | | four messages, two of them on one channel; three messages on two channels |
| `JsClientProofs` | | types and all five properties of the run, for every instance |
| `JsSubscriptions` | the same file: subscribe, unsubscribe, `resubscribe`, their answers and timers; `useSubscription` and `useLatestMessage` of `react.ts` | handlers per pattern, calls of `doSubscribe` and `doUnsubscribe`, the loops of `resubscribe` |
| `JsSubscriptionsProofs` | | `NoneForgotten`, `ResolvedIsConfirmed`, `HandlersServed`, `IdleNotServed` for every instance |
| `MCJsSubscriptions` | | a caller and a component, a pattern granted and one refused |
| `Access` | `auth/tokens.rs`, `auth/grants.rs`, the roles of `storage/postgres.rs`, `bin/catbus.rs`, the logins of `transport.rs` and `websocket.rs`, the start and stop of `bin/catbusd.rs` | a statement of the database is a step; commands that interleave and die |
| `MCAccess` | | one role, two commands at a time, one client, two secrets |
| `AccessProofs` | | types and both properties of the run, for every instance |

### Channels

A name is a sequence of symbols: allowed characters (`Char`), others
(`Foreign`), the dot and the star. The code compares bytes, and what can go
wrong is where one prefix ends inside another name, so symbols are the coarsest
abstraction that keeps the algorithm. `ChannelError`/`PatternError` are the
verdicts of the two parsers, `PatternOf` the value the second one returns,
`SegmentStarts`/`Segment` the precomputed offsets and their use, `Matches` and
`Covers` the two comparisons. The splitting and the offsets are recursive
functions (over the length of what has been split, and over the parts), so that
they can be proved about. `RustMatches` and `JsMatches` are the
clients' tests of a message's channel against their own patterns, on the text
itself; `ClientsAgree` holds them against the server's.

### Broker

`phase` is where `handle_session` is: new, greeted (AuthOk written, not yet
registered), open, removed (out of the registry, index not yet cleaned), closed.
`pc` is where the handler of the current request is: `index` (subscribed, not
yet indexed), `scan` (in `find_subscribers`), `send` (in the loop of `route`),
`reply`, idle. `job`, `todo`, `seen` and `targets` are the locals of a route.
`out`, `fwd`, `hand` and `wire` are a connection's queue, its forwarding task,
the message this task holds, and what the client has been sent. A `Caller` is a
task that uses `WebTransportServer::publish`, which routes without a session.

| Action | Code |
|---|---|
| `Authenticate`, `AuthFails`, `Register` | `transport.rs:229-302`, `websocket.rs:54-118` |
| `Disconnect`, `CleanIndex`, `Abort` | end of the read loop, `ConnectionManager::remove`, `send_task.abort()` |
| `Subscribe`, `IndexSubscription`, `SubscribeRefused`, `Unsubscribe` | the request, `ClientConnection::subscribe`, `index_subscription` |
| `Publish`, `PublishRefused`, `YjsAwareness`, `YjsSyncRequest`, `Ping`, `ApiPublish` | the other requests and the API |
| `Visit`, `ScanDone`, `SendNext`, `RouteDone`, `SendReply` | `find_subscribers`, `route`, the reply |
| `Take`, `Write`, `WriteFails` | the forwarding task |

Abstractions: a payload is the actor and the number of the request it stems
from; a token is the `Identity` that it authenticates as (admin, or sets of read
and write patterns), whether it is a sub token or a role's grants read at
authentication; requests without effect (a second Auth, a name that does not
parse where the code ignores it, bytes that are not a message) are stuttering
steps. Iteration over the sharded map while others change it visits what stays
registered exactly once and the rest at most once, which is what the map
guarantees (`Visit`, `ScanDone`). `remove` takes an ID out of one index entry
after the other; the model does it in one step, as only the session itself
writes its own ID.

### RingBuffer

`TakeNumber` is the `fetch_add` before the lock, `Insert` the part under the
write lock. `CatchUp` is the loop of `tests/resilience.rs:722-727`: fetch with
`get_after_for_channel`, store each number fetched. `log`, `cleared` and
`earlier` are history, for the properties only. `Wanted` stands for the
channels under a reader's prefix. Capacity 0 is excluded by assumption: `push`
would pop an empty queue for ever, and nothing builds such a buffer.

### RustClient

A runner is a spawned task that runs `connection_task`: an `Attempts` identity
is one that `connect()` spawned, a `Loops` identity a reconnect loop. `at` is
where it is; `state`, `tx` and `shutdown` are the fields of `ClientInner` that
all of them write.

| Action | Code |
|---|---|
| `ConnectChecks`, `ConnectSpawns`, `ConnectReturns` | `client.rs:141-177`; a refused connect() changes nothing and is a stuttering step |
| `DisconnectTakesSender`, `DisconnectSignals`, `DisconnectReturns` | `client.rs:181-192` |
| `DialOk`, `AttemptFails`, `AuthOk`, `Greet`, `Resubscribed` | `connection_task` up to its loop, `client.rs:652-732` |
| `LinkDrops`, `EndOk`, `EndErr`, `Cleanup` | the loop's ends and the cleanup, `client.rs:763-807` |
| `ClearSender`, `ScheduleReconnect`, `GiveUp` | `handle_disconnect`, run once in `connection_task` and once more by the task of connect() |
| `Wake`, `Redial`, `LoopRetries` | `schedule_reconnect`, `client.rs:594-617` |

The main loop notices that its sender was replaced or taken because the last
`mpsc` sender is dropped, and that its signal was replaced because the `oneshot`
sender is dropped; both end it without an error (`EndOk`). Delays are left out:
a sleeping loop may wake at any time. A watch channel shows the last value only,
so `ConnectReturns` may miss a state that comes and goes. Keepalive pings change
no field here and are left out. When no identity of a pool is free the action
that would spawn is not possible; in the instances, n faults leave at most
2n loops, so the pools never run out.

### RustOperations

One connection, whose `phase` also says what callers see as `Connected` and
whether a sender is stored. `handlers` counts the handlers of a pattern, `held`
says which caller has a `Subscription`: a subscribe that fails leaves the first
without the second. `pending` is the tables of waiting calls; an entry is the
task whose oneshot sender it holds, or `Gone` when that task gave up sending and
left it. `Register` replaces an entry, `Timeout` removes whatever is under its
name, `Receive` completes whoever is there: `Told` is what dropping or using a
sender does to the one who waits. `connection_task` is itself a caller (`Task`),
since `resubscribe` uses `do_subscribe` before the main loop takes requests or
answers; `Serve` and `Receive` therefore need the phase `main`. A link that
breaks earlier is noticed there (`Lose`). The tables are emptied in one step
(`Drain`), as no operation is in two: those who ping are told Ok, those who wait
for a reply get Null. Several connections at a time are `RustClient`'s subject,
and not repeated here.

`request()` is a sequence of the others, and `request` says how far it is: an
entry under a fresh ID, a subscribe on the reply channel (skipped when the
pattern has handlers), a publish, the wait, an unsubscribe. A step that fails
ends it there, with its handler in the table. `Dispatch` is the last part of
`dispatch_message`: any message with the ID completes the entry. `Serve` sends a
request back to its own session when a subscription covers the channel
(`Covers`). `GarbleRequests` and `GarbleAnswers` are reads of the stream
(`transport.rs:307-314`, `client.rs:771-777`) that hold part of a message, which
is lost, or two, which both are; an answer for which the session's queue on the
server has no room goes the same way.

`OkIsConfirmed` is a count per name. Names are all that the tables go by, so a
late answer may complete a later call of the same name whose own request the
server never read: such a call returns Ok, and no call too many does.

`HandlersServed` excuses a pattern whose last subscribe was garbled, and one
whose subscribe went out while an unsubscribe that had been called earlier had
yet to: both leave a handler without a subscription, and `excused` records them.

### JsClient

JavaScript runs one piece of code at a time, so a step ends at an `await`. What
the code is told while it awaits (a rejected promise, a resolved one) goes on
before the next event from outside: a stream that takes a write, an answer, a
timer, a dial. `Calm` says that nothing is left to go on. Callers may act in
between (their code awaits too), so `Publish`, `UserConnects` and `Disconnect`
do not wait for it.

| State | Code |
|---|---|
| `state`, `auto`, `timer`, `queue` | `state` (authenticating counted as connecting), `config.autoReconnect`, `reconnectTimer`, `offlineQueue` |
| `pending` | `pendingPublishes`: who waits under a channel, a caller (`by = 0`) or the flush numbered `by` |
| `timeouts` | the `setTimeout` closures of publishes, which are never cleared and fire in the order they were set |
| `flush` | each call of `flushOfflineQueue`: what is left of its list, and where it is |
| `writes` | writes awaited; `Written` is the moment the stream takes one |
| `leftover` | connect() in a dial or in `resubscribe`, and an interval ping, that a cleanup has failed and that have yet to notice |

`Cleanup` is `cleanup()` as a whole; its callers are `ConnectFails`,
`ConnectNotices` (the catch of connect()), `Disconnect` and `HandleDisconnect`
(`Lost` and the failed ping). `log`, `offline` and `robbed` are history; `robbed`
collects the messages whose entry another publish replaced or another's timer
removed. The server is the `Publish` request of `Broker`, seen by one client: `Serve`
carries one out and answers if the session's queue has room, `GarbleRequests`
is a read that is not one message (`transport.rs:305-315`), whose requests are
lost. An answer the client cannot parse ends its connection, which is `Lost`.
Not modelled: `offlineQueue: false` (publish throws) and a caller that acts
inside a state handler.

### JsSubscriptions

The same thread as `JsClient`, and the same `Calm`. A user is a caller of
subscribe(), or a component whose hook calls it; `stage` says where it is with
which pattern: off, mounted without a subscription (the hook found the client not
connected, or its subscribe failed), asking, held. `left` counts handlers that
nobody can remove any more: those of a subscribe that was rejected, and of a
component that unmounted before its subscribe resolved. `requests` are the calls
of `doSubscribe` and `doUnsubscribe`: sending, waiting under the pattern's name,
resolved or rejected, and whether their timer is still to fire.

| Action | Code |
|---|---|
| `CallerSubscribes`, `Mount`, `Unsubscribe`, `UnmountEarly` | `client.ts:181-213`, `react.ts:106-132` and `158-176` |
| `Written`, `TimerFires` | the two halves of `doSubscribe` and `doUnsubscribe`; a timer is never cleared |
| `Serve`, `Receive` | the server's requests (`Broker`), answered if the queue has room, `handleMessage` |
| `GarbleRequests` | a read that is not one message, `transport.rs:305-315` |
| `Connect`, `LoopAsks`, `LoopEnds` | a new connection and its `resubscribe()` |
| `Lose` | `cleanup()`, whoever calls it |

`resubscribe()` iterates over the keys of a live Map, so `Subscribe` adds an entry
to what a loop has yet to visit and the last `Unsubscribe` takes it away
(`Visits`, `Skips`). `robbed` is history: the requests whose entry another one
replaced, or another's timer removed. `unread` is history too: the patterns about
which the server could not read a request and has carried out none since, on
this connection. The client writes JSON without framing (`client.ts:365-372`), so
requests written close together can arrive in one read, and all be lost: the
timer rejects the promise of a subscribe, whose handler stays, and nobody sends
the request again before the next connection. Each user has one subscription at a time,
with a handler of its own. Dialling and the offline queue are `JsClient`'s.

### Access

`row` is the `grants` column of a role, `Blank` its default `'[]'`, which is no
`GrantSet`. A `command` is a run of `catbus grant --to` or `catbus revoke`:
`ReadGrants` is its SELECT, after which it holds the changed value in memory,
`WriteGrants` its UPDATE, which touches no row, and succeeds, when the role has
been deleted. `CommandFails` is a command that dies or whose statement fails, with
or without its effect. `Overtaken` marks the others that have read the row
before a write. The other commands are one statement each.

A token is an admin key, a sub token (its grants and the secret it was signed
with), or a role's ID. `Login` is `Token::parse` and what `handle_session` does
with it: a role's grants are read here and never again. `Restart` ends every
session and may bring another secret or key. `WriteWithSql` is not the program:
it is the operator who repairs a row by hand, and the only way a role comes to
be readable at all (section 3). `reported` and `goneAtStart` are
history. What a
session may do with its grants is `Broker`'s subject: its `Identity` is what
`Brings` returns.

## 3. Runs

| Run | Question | Bounds | States |
|---|---|---|---|
| `channels` | do parsing, offsets, printing, matching, the grant test and the clients' matching agree with their definitions by segments? | every text of up to 5 of 5 symbols, channels up to 6, grants up to 4 | 4 k |
| `broker_routes` | does the broker implement `FanOut`, do routes end, do ended sessions stop? | 2 sessions of 2 requests, one that publishes and subscribes, one that subscribes and leaves, queues of 1, clients that stop reading | 390 k |
| `broker_requests` | queue bounds, confinement, order per source, index; `FanOut`, with unsubscribing in the middle of a route | 1 session with 3 requests of any kind, 1 caller, two patterns with one prefix, 3 kinds of token | 2.1 M |
| `ring` | tail, real-time order, exactness of the search; completeness and order of catch-up while pushes do not overlap | 3 writers, 5 pushes, capacity 3, a reader that stops fetching after 3 messages | 2.3 M |
| `rust_client` | live sender, armed retry, a disconnect that holds, an answered connect, one connection in the end | 1 caller, 2 calls, 2 faults, with and without auto-reconnect | 450 k |
| `rust_client_ready` | has a client that says Connected a connection? | violated: see below | |
| `rust_operations` | are there no more successes than the server carried out, is every pattern with handlers served? | 2 callers, 3 calls, 1 fault, one pattern, a channel granted and one refused, 3 places | 2.1 M |
| `rust_request_echo` | is a request answered by a reply? | violated: see below | |
| `js_client` | is every open promise settled by someone, does success mean published, does the queue keep its order, is a confirmed message sent once, is a retry armed? | 4 messages, two on one channel, one refused, queue of 2, 2 connects, 2 losses | 2.3 M |
| `js_client_stranded` | is what was queued sent once connected? | violated: see below | |
| `js_subscriptions` | is the server subscribed to what has handlers and to nothing else, but for what it could not read, does every promise have someone to settle it, does success mean confirmed? | 1 caller, 1 component, a pattern granted and one refused, 3 requests, 3 connections, 2 losses | 1.0 M |
| `access` | does what was reported hold, does every session have a title? | 1 role, 2 commands at a time, 2 command lines, 1 client, 2 secrets, 1 admin key | 1.1 M |

Why the bounds are enough. Channel texts of five symbols hold two dots and a
wildcard, every boundary case of the parsers, and a prefix that is a proper part
of another segment. For the broker, the interesting interleavings are between
one route and one other session: with two sessions a scan meets a session that
joins, leaves and subscribes at every point, the publisher's own queue may be full
before the other's turn, queues of one place are full after one message, and two
requests per session let a second route follow the first; `broker_requests` adds
every other request, unsubscribing among them, against a route of the API.
The code's capacity of 100 only makes filling longer. Five
pushes into a ring buffer of three evict twice, and three writers in flight
misplace a number by more than one place. `MaxFetch` is there because
a reader of an unsorted queue may fetch the same messages for ever, which would
make `received` unbounded.

For the client, one lost link doubles the reconnect loops; two faults reach a
loop that fails and one whose connection is superseded while another dials. Two
callers at a time are beyond the liveness run's bounds; the three safety
properties are proved for any number. Three calls let a late answer, a replaced
entry and a resubscription meet: subscribe, unsubscribe, subscribe again, or a
request that shares its reply pattern with a subscriber that comes and goes, with
a loss or a garbled read at any point. A request alone is four operations long.

For the JavaScript client, two connects give a first attempt that is put back
and a second one that its old timer disturbs, or a connect() that another's
remains end; a queue of two with four messages overflows, also after a flush put
back what it had; the two messages on one channel are published in every
combination of queued and direct. For its subscriptions, three requests are
two that rob one another's entry or are lost in one read, and one that a
resubscription sends or that comes in the middle of its loop; the two patterns
let the loop wait for one while the other's handler goes, and with two losses older
connections' loops go on beside the newest one's. All four properties are proved for any
number.

For access, two commands at a time already lose an update, and one role meets
its deletion, its repair and a restart in every order. Sessions do not interact,
so one client is enough; both properties are proved for any number.

`CHECK_DEADLOCK FALSE` is set because the bounds on requests and pushes stop
every instance: clients that have made their requests and left are the normal
end of a behaviour, and so is a client with a healthy link and no more calls.

### Fairness

`Broker!FairSpec` (run `broker_routes`) assumes that the runtime goes on with a handler that can run (weak
fairness of `Handle`), with the cleanup of an ended session, and with an abort.
Handlers never wait for another task: `try_send` returns at once, and this is
exactly what `RouteReturns` rests on. Nothing makes a client send, read, or
leave, and a write to a client that does not read may never complete, so `Take`,
`Write`, `Disconnect` and the requests have no fairness.

`RustClient!FairSpec` assumes that tokio polls each task that can go on (`Runs`
of each runner, `Continues` of each call under way). A dial or login may fail
while faults are left and succeeds otherwise, so the liveness properties speak
of a client whose faults and calls come to an end. Nothing makes a caller call
or a link fail.

### What does not hold

- `rust_client_ready`. A lost link runs `handle_disconnect` inside
  `connection_task` and again in the task of connect(), so two loops dial. The
  second connection's sender replaces the first's, the first ends and clears the
  second's, the second ends: state `Connected`, no task, no retry, and connect()
  refuses. `SenderLive` and `OneConnectionRemains` hold throughout: at most one
  connection remains, and here it is none. Leaving the second call out for every
  error is no cure: the mutant `ClearSenderOnLoss` of `ConnectAnswers` does that,
  and a failed first dial then leaves connect() waiting for ever.
- `rust_request_echo`. A client asks on a channel that one of its own
  subscriptions covers, such as `a.*` for the replies and `a.b` for the request.
  The server sends it the request back, which carries the correlation ID, and
  `dispatch_message` completes the request with it.
- `js_client_stranded`. Two messages are queued, on two channels, and the client
  connects. Its flush sends the first and waits for the answer under the channel's
  name. A publish on that channel takes the entry and the answer; the flush's timer
  finds no entry and rejects nothing. The flush never goes on: the connection is
  healthy, nothing is left to happen, and the second message is never written,
  though `client.ts:218` says that what is buffered is "sent when the connection is
  restored" and its caller still waits. `NoneForgotten` shows
  that an entry that is taken is the only way to lose a promise; it is taken by
  a second publish on the channel, or by the timer of a message's first attempt
  while a flush waits for its second.

Seen while modelling, and without a run of their own:

- Server. A grant on `a.*` admits a subscription to the bare `a`, which it does
  not match (`connections.rs:71`, against line 63); `CoversUpToNamespace` and
  `CoversSound` show that this is the only exception. `remove` cleans the prefix
  index under the patterns still subscribed, and `unsubscribe` leaves the index
  alone, so IDs of closed connections stay in it; routing does not use it today.
  The pattern parser accepts an empty first segment (`.*` parses, and matches
  everything), and a token with a read grant on `*` may subscribe to `*`, which
  `channels/mod.rs:9` calls admin only.
- Ring buffer. With two writers a number may be queued after a larger one has
  been fetched, and is then skipped for good, or the same messages are fetched
  again and again; the comment at `tests/resilience.rs:543` promises
  at-least-once delivery, and `ringbuf.rs:60` an order by number. What does hold
  is `RealTimeOrder`, the catch-up while pushes do not overlap (`Serial`), and
  `OneWriterSorted`, which is proved (`LoneWriter`).
- Roles. `src/README.md:147-148` creates a role with `catbus role create`, and
  `src/README.md:138-139` and `catbus.rs:27-32` add grants to an existing role
  with `catbus grant --to`. That does not work for a role that was just created:
  its grants are the column's default `'[]'` (`postgres.rs:110`), which is not
  what a `GrantSet` is read from (`postgres.rs:339`), and `add_grants` reads
  before it writes. The command fails, as does a login with that role, until its
  row is written by hand: in `Access`, `CreateRole` leaves `Blank`, which
  `ReadGrants` and `Accepted` refuse. Of two changes at a time one may be lost
  after both were reported; a change of a role deleted meanwhile updates no row
  and reports success. Deleting a role "immediately invalidates the token"
  (`catbus.rs:99`) for new logins; sessions that are open keep their grants for
  as long as they last. `listen` and `notify`, and the message store with them,
  are called by nobody, so daemons that share a database do not share messages.
- Rust client. A disconnect() while `connection_task` is still connecting does
  not stop it. `resubscribe` waits out a timeout per pattern, as nobody reads the
  answers before it returns. Of two publishes on one channel at a time the second
  drops the first one's sender, which returns `Shutdown`. A subscribe that is
  refused or times out leaves its handler, so the next one on the pattern is told
  Ok without asking; a request whose subscribe or publish fails leaves its
  handler and its entry. A loss tells a ping Ok and a request Null.
- JavaScript client. What a flush puts back may exceed `maxQueueSize`; a message
  whose promise was rejected by a lost link is sent again; disconnect() leaves the
  rest of an interrupted flush unsettled in the queue; a connect() right after a
  disconnect() is ended by what the old connection left behind (`ConnectNotices`,
  `PingNotices`). `resubscribe()` can lose its entry to a subscribe on the same
  pattern, or to an old timer: its promise then never settles, connect() does
  not return, and the offline queue is not flushed. A handler on `*` never gets
  a message, and one on `.*` in either client (`ClientsAgree` leaves them out).
- Both clients. What the server cannot read is not sent again. A lost subscribe
  leaves its handler without a subscription, a lost unsubscribe the server with
  a subscription that has no handler, until the next request about that pattern
  or the next connection; `HandlersServed` and `IdleNotServed` name the case.
- React hooks. A component that mounts before the client is connected never
  subscribes, as the connection's state is not among the effect's dependencies,
  though `react.ts:70` says "Automatically subscribes when the component mounts";
  one that unmounts before its subscribe resolves leaves handler and
  subscription behind (`left`).

## 4. Proofs

All proofs are for arbitrary constants, under the assumptions named in the
modules: `SymbolsAssumption` (dot and star are no ordinary characters),
`CharAssumption` (there are two characters), `LengthAssumption` (bounds on texts
are numbers),
`BrokerAssumption` (names and patterns are well-formed, capacity at least 1),
`NoneAssumption`, `RingAssumption` (capacity at least 1), `AccessAssumption` (a
command line names types and patterns; no row and no key is a value of its own).

- `ChannelsProofs!ParseExact`: `ParseAcceptsWellFormed`. A further symbol changes
  no part but the last, and that one at its end (`GrowsInto`), so whatever has been
  split stays (`Stable`), and each symbol is found again in the parts of the whole
  (`NextDot`, `NextSymbol`). That gives both directions: a name with good parts
  is well-formed, and a well-formed one has no other parts. For the offsets,
  `Cuts` says of each prefix of the text where its last part begins.
- `ChannelsProofs!DisplayReparsed`: `DisplayRoundTrip`. An accepted part
  has no star in it, so the printed prefix cannot end as a wildcard does, nor be
  the lone star (`PatternPrefix`, `LoneStar`); `PatternIs` lists what is accepted.
- `ChannelsProofs!MatchesWhole`: `MatchesIsSegmentwise`. The parts determine the
  text (`PartsDetermine`): if those of one begin those of another, then so do
  the texts, and a dot follows. That a text which a dot follows is split as if
  nothing followed (`PrefixParts`) is the other direction.
- `ChannelsProofs!ClientsRouteAlike`: `ClientsAgree`. An accepted pattern's text up
  to its star is its prefix and a dot (`PrefixMatchesIs`); no channel has a star.
- `ChannelsProofs!CoversSound` and `CoversNoMore`: what a grant admits matches only
  channels the grant matches, or the bare namespace (`CoversUpToNamespace`).
  Wildcard and exact grants are separate lemmas; the step that matters is that an
  accepted prefix is followed by a dot, so that it cannot stop inside a segment.
- `ChannelsProofs!CoversNoLess`: `CoversComplete`. Below a wildcard that matches some
  channel there is a name for each of two characters, no longer than that channel
  (`NamesBelow`), so the bound on channels does not matter; a grant that matches
  both is a wildcard and ends at a dot (`BroaderIs`). With a single character it
  would be false: among channels of one symbol, `*` and the name of that
  character match the same.
- `BrokerProofs!TypeCorrect`: `TypeOK`, with the capacity of the queues. The
  invariant is `TypeOK` and `Control` (what a handler holds at each `pc`);
  without `Control` a route without a message could send one.
- `BrokerProofs!Confinement`: `ReadConfined`. A delivery is two steps away from
  the permission: subscribe checks the grant, the scan checks the subscription,
  the send checks nothing. The invariant carries the permission along:
  subscriptions are admitted by a grant (`SubsAdmitted`), so whatever a scan
  collected is readable (`TargetsReadable`), and stays so because grants never
  change after authentication (`NewIsNobody`: nothing happens before it).
- `BrokerProofs!IndexNeverMisses`: `IndexComplete`, with `Lives` (the registry
  holds the open sessions, and a session that is not registered has done
  nothing): between a subscription and its index entry the handler stands at
  `index`, and the entry is taken out only by the session's own cleanup.
- `BrokerProofs!OneSourceInOrder`: `SourceOrder`. The order is read off
  `Sent(s)`, all that was ever put into a session's queue and got in. The
  invariant dates it (`Numbered`): nothing there is newer than its source's
  present request, and a session that a route has yet to visit or send to has
  nothing of that request. What a step sends then comes after what the same
  source sent there before (`SendsInOrder`).
- `BrokerProofs!Implements`: the refinement. The mapping is in `Broker`: an
  interest is a channel that some subscription of an open session matches, an
  inbox is what was routed of `Sent(s)` (`RoutedIn`), a flight is a route with
  its message, and `must`, `may` and `lost` of the route are `FanOut`'s. The
  invariant `FanInv` says who is owed a message at each point of a route
  (`Encloses`, `Owed`): all who stayed interested since it began are still to be
  visited, or are targets, or have the message, or were full. Each action is one
  step of `FanOut` (a change of interests, start, deliver, lose, finish) or a stutter.
- `RingBufferProofs!PushOrder` and `LoneWriter`: `RealTimeOrder` and
  `OneWriterSorted`. The invariant says which numbers are in hand and which are
  queued (`Numbered`, `Queued`), so that a number that was queued before another
  was taken is smaller and cannot be inserted after it.
- `RingBufferProofs!NewestKept`: `BufferIsTail`. `TailInv` says from which entry
  of `log` the queue begins: the last clear, or `Capacity` entries from its end,
  whichever is later.
- `RingBufferProofs!SearchExact`: `GetAfterExact`, from a lemma about the binary
  search on any queue in order: it returns the cut, or the end of its span that
  is nearest to it (`Nearest`), by induction on the length of the span.
- `RingBufferProofs!NothingMissed` and `FetchedInOrder`: `CatchUpComplete` and
  `CatchUpInOrder`. While pushes do not overlap (`Serial`), the message in hand
  is the newest of all (`Fresh`), the queue is sorted, and the search exact; a
  reader that has gone as far as `last_seen` has fetched what is queued up to it
  (`Caught`).
- `RustClientProofs`: `TypeCorrect`, `SenderStaysLive`, `RetryStaysArmed`,
  `DisconnectHolds`, under `RunnersAssumption` (attempts and loops are distinct
  numbers) and `BoundsAssumption`. `SenderLive` and `RetryArmed` are inductive
  with `TypeOK`, which carries the fact that only a client told to reconnect has
  loops. For the sender, the argument is that a runner stores only its own and
  never leaves the connection without clearing the field; for the retry, that
  whoever writes `Reconnecting` is about to sleep in a loop, and a loop leaves its
  sleep only by writing another state or on reading `Disconnected`.
- `RustOperationsProofs!TypeCorrect`: `TypeOK`, under `OperationsAssumption`
  (finitely many callers, as handlers are counted by them). The invariant also
  says what a task is doing at each place (`InStep`), that an entry's task waits
  (`EntriesWait`), and that the counter of a pattern is no less than the callers
  that hold or await it (`Counted`): without it an unsubscribe could count below
  zero.
- `RustOperationsProofs!OksAreCounted`: `OkIsConfirmed`, which is a count. `Accounts` counts, per
  name, the Oks returned, told and still on their way back: each comes from one
  request that the server carried out, and an answer tells one task at most.
- `RustOperationsProofs!EveryHandlerServed`: `HandlersServed`. `Serving` holds
  from the beginning of the resubscription on: a pattern with handlers is still
  to be asked for, or asked for by somebody (`Coming`), or served with no later
  request to undo it (`Served`); and if an unsubscribe is on its way to the
  queue, a subscribe comes after it.
- `JsClientProofs!RetryStaysArmed`: `RetryArmed`. It is inductive as it stands
  but for the type of `auto`: whoever writes `reconnecting` sets the timer, and
  everyone else who runs `cleanup()` leaves that state.
- `JsClientProofs!TypeCorrect`: `TypeOK`. `TypeInv` adds that a flush that is at
  a message has one (`AtMessage`).
- `JsClientProofs!ResolvedWasPublished`: `ResolvedIsPublished`, with `Answered`
  (an answer that is no error is to a message in the log) and `ByChannel` (an
  entry is under the channel of its message).
- `JsClientProofs!NoPublishForgotten`: `NoneForgotten`. `ForgetInv` says of each
  flush (`Sure`) that one that waits will hear of the message it waits for or was
  robbed of it, that one that was rejected while connected gives up a message
  that is settled, and that one that is over has nothing left; and of each open
  promise that the queue, a flush, a write or an entry has it.
- `JsClientProofs!NeverResent`: `ConfirmedNotResent`. `OnceInv` says that a
  message is in one place (`Lots`: once in the queue or in one flush, and then
  not confirmed), that an entry made by a flush is for its head and one at a time
  (`Owns`, `Timed`: a timer outlives both), and that what is sent directly was
  never queued (`Direct`). So whoever confirms a message takes it out of the only
  place that could send it again. It uses `ByChannel`: an answer to another
  message of the channel confirms whoever waits, but only one who waits.
- `JsClientProofs!OfflineKeepsOrder`: `OfflineInOrder`, the longest argument, of
  two invariants. `TurnsInv`: at most one `resubscribe()` is still to end, and
  while it is no flush goes on; so, as long as nobody was robbed, one flush at
  most goes on at a time (`Alone`). `OrderInv`: messages are numbered in the
  order of `publish()`; the queue and what is left to a flush are increasing, and
  the second before the first (`Lines`); what is further on its way to the log
  has the smaller number (`Flight`, of the four places log, wire, writes, and
  queue or flush). A flush that sends its head sends the smallest of what is left
  anywhere, because no other flush goes on.
- `JsSubscriptionsProofs!NoRequestForgotten`: `NoneForgotten`, under
  `SubscriptionsAssumption` (finitely many callers, that are no numbers: loops
  are). `TalkInv` says that an entry is a request that waits under its name
  (`Entries`), that only a written request has a timer (`Untimed`), and that a
  caller who is asking has one open request, for its own pattern (`Asks`).
- `JsSubscriptionsProofs!ResolvedWasConfirmed`: `ResolvedIsConfirmed`. `Accounts`
  counts, per name, what has resolved and the answers without an error that are
  on their way back: an answer resolves one request at most, and takes it out of
  the table.
- `JsSubscriptionsProofs!EveryHandlerServed` and `NoneServedInVain`:
  `HandlersServed` and `IdleNotServed`. `ServeInv` holds on every connection,
  not only after its loop: what has no handlers will not be served; what has
  some will be, or the server could not read the last request about it
  (`Assured`, `Spared`), or it is before the connection's own loop (`ToCome`);
  and no loop, an older connection's neither, has anything before it without
  handlers (`Todo`), which is what the live iterator gives. A request that fails
  moves a handler from its caller to `left`, so that the count stays
  (`RejectDoes`); what is written was the first to be and is then the last on
  the wire, so that the last request about a pattern is the same
  (`WrittenServed`).

- `AccessProofs`: `TypeCorrect`, `Sessions` and `Reports`.
  `SessionsEntitled` needs to know that a role that was gone when the daemon
  started is still gone, also while commands that had read its row are about to
  write (`GoneStaysGone`): an UPDATE brings no row back, and an ID is generated
  once. `ReportsHold` needs, of every command under way
  whose reading nobody has overtaken, that the value it holds is the row changed
  by its own grants (`Reporting`, `Sound`), so that writing it disturbs no
  other grant's record.

Every proof is by invariants of the next-state relation. What the library's
induction theorems would be for, the modules do with `Least` and `Induction`,
which speak of sets of numbers instead of predicates. For them `Parts`
and `SegmentStarts` (splitting and offsets of a text), `RoutedIn`, `Under`
(the filter of `get_after_for_channel`), `Skip` (the binary search) and `Accepted`
(what the server publishes of the requests it reads) are recursive functions over
lengths or spans, and the proofs show first that such a function exists.

Only model-checked: the liveness properties (`RouteReturns`, `EndedSessionsStop`,
`ConnectAnswers`, `OneConnectionRemains`), as fairness and ENABLED are out of the
prover's reach. Every other property of the passing runs is proved.

## 5. Not modelled

Not modelled for good: token encoding and signatures (a sub token is what was
signed), TLS and QUIC, JSON encoding (a message is a record), the daemon's
forking and pidfile, packaging; `send_async`, `find_by_client_id`,
`route_to_client`, and the store's `store_message`, `get_recent_messages`,
`cleanup_messages`, `listen` and `notify`, which nothing calls. Left out of what
is modelled: the Rust client's keepalive task (it queues pings nobody waits
for), the JavaScript client's ping() for its own sake, and the hooks that only
pass on what the client says (`useCatbus`, `usePublish`, `useConnectionState`).
Liveness of the clients' operations is not stated: each ends by its own timeout,
or does not for the reasons listed above.

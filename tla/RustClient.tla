----------------------------- MODULE RustClient -----------------------------
(***************************************************************************)
(* The life of a Rust client's connection (client-rs/src/client.rs): the    *)
(* state its callers watch, the sender and the shutdown signal of the       *)
(* connection in use, and the tasks that race for them.                     *)
(*                                                                          *)
(* A runner is a spawned tokio task that runs connection_task: an attempt   *)
(* that connect() spawned, or a reconnect loop of handle_disconnect's.      *)
(* A runner runs at most one connection at a time, so "the connection of    *)
(* r" needs no name of its own.  Tasks run on several threads, and a step   *)
(* ends wherever another task can see a field of ClientInner change.        *)
(*                                                                          *)
(* The messages on a connection and the tables of waiting operations are    *)
(* the subject of RustOperations; the delays are left out: a sleeping loop  *)
(* may wake at any moment.                                                  *)
(***************************************************************************)
EXTENDS Naturals, FiniteSets

CONSTANTS
    Attempts,   \* identities of the tasks connect() spawns
    Loops,      \* identities of reconnect loops; an ended one is used again
    Callers,    \* holders of clones of the client, each with one call at a time
    NoRunner,   \* no sender, or no shutdown signal, is stored
    MaxCalls,   \* bound: calls of connect() and disconnect() together
    MaxFaults   \* bound: failed dials, failed logins and lost links together

Runners == Attempts \cup Loops

ASSUME RunnersAssumption ==
    /\ Runners \subseteq Nat /\ NoRunner \notin Runners
    /\ Attempts \cap Loops = {}
ASSUME BoundsAssumption == MaxCalls \in Nat /\ MaxFaults \in Nat

VARIABLES
    auto,       \* config.auto_reconnect
    state,      \* the watched ConnectionState
    tx,         \* whose sender of outbound messages is stored
    shutdown,   \* whose shutdown signal is stored
    at,         \* where each runner is
    link,       \* whether the connection of a runner is up
    call,       \* where each caller is
    calls,      \* calls made
    faults      \* faults so far

vars == <<auto, state, tx, shutdown, at, link, call, calls, faults>>

States == {"Disconnected", "Connecting", "Authenticating", "Connected", "Reconnecting"}

\* Places of a runner: "sleep" and "woken" belong to a reconnect loop, "dial"
\* to "failed" to connection_task, and the last to the task that ran it.
Places == {"none", "sleep", "woken", "dial", "auth", "greeted", "resubscribe", "main",
           "stopping", "failing", "lost", "cleared", "failed", "failed_cleared"}

CallPlaces == {"idle", "checked", "waiting", "sender_taken", "signalled"}

Unchanged == UNCHANGED <<auto, link, call, calls, faults>>

\* Runner r goes from one place to another.
Moves(r, from, to) == at[r] = from /\ at' = [at EXCEPT ![r] = to]

-----------------------------------------------------------------------------
Init ==
    /\ auto \in BOOLEAN
    /\ state = "Disconnected"
    /\ tx = NoRunner
    /\ shutdown = NoRunner
    /\ at = [r \in Runners |-> "none"]
    /\ link = [r \in Runners |-> FALSE]
    /\ call = [c \in Callers |-> "idle"]
    /\ calls = 0
    /\ faults = 0

\* A new task gets the lowest identity that is free.
Fresh(pool) == {new \in pool : at[new] = "none" /\ \A r \in pool : r < new => at[r] # "none"}

-----------------------------------------------------------------------------
(* What callers do                                                           *)

\* connect() reads the state and goes on only from these two.
ConnectChecks(c) ==
    /\ call[c] = "idle" /\ calls < MaxCalls
    /\ state \in {"Disconnected", "Reconnecting"}
    /\ call' = [call EXCEPT ![c] = "checked"]
    /\ calls' = calls + 1
    /\ UNCHANGED <<auto, state, tx, shutdown, at, link, faults>>

\* It then announces the attempt and spawns the task, whatever happened since.
ConnectSpawns(c) ==
    /\ call[c] = "checked"
    /\ call' = [call EXCEPT ![c] = "waiting"]
    /\ state' = "Connecting"
    /\ \E new \in Fresh(Attempts) : at' = [at EXCEPT ![new] = "dial"]
    /\ UNCHANGED <<auto, tx, shutdown, link, calls, faults>>

\* It returns when it happens to see one of the two final states.
ConnectReturns(c) ==
    /\ call[c] = "waiting"
    /\ state \in {"Connected", "Disconnected"}
    /\ call' = [call EXCEPT ![c] = "idle"]
    /\ UNCHANGED <<auto, state, tx, shutdown, at, link, calls, faults>>

\* disconnect() takes the sender (what it sends, a Shutdown, and the loss of
\* the sender have one effect: see EndOk), then the signal, then sets the state.
DisconnectTakesSender(c) ==
    /\ call[c] = "idle" /\ calls < MaxCalls
    /\ call' = [call EXCEPT ![c] = "sender_taken"]
    /\ calls' = calls + 1
    /\ tx' = NoRunner
    /\ UNCHANGED <<auto, state, shutdown, at, link, faults>>

DisconnectSignals(c) ==
    /\ call[c] = "sender_taken"
    /\ call' = [call EXCEPT ![c] = "signalled"]
    /\ shutdown' = NoRunner
    /\ UNCHANGED <<auto, state, tx, at, link, calls, faults>>

DisconnectReturns(c) ==
    /\ call[c] = "signalled"
    /\ call' = [call EXCEPT ![c] = "idle"]
    /\ state' = "Disconnected"
    /\ UNCHANGED <<auto, tx, shutdown, at, link, calls, faults>>

-----------------------------------------------------------------------------
(* connection_task                                                           *)

\* The connection and its stream open, and the login is sent.
DialOk(r) ==
    /\ Moves(r, "dial", "auth")
    /\ link' = [link EXCEPT ![r] = TRUE]
    /\ state' = "Authenticating"
    /\ UNCHANGED <<auto, tx, shutdown, call, calls, faults>>

\* An early return: the endpoint, the dial, the stream or the login fails.
AttemptFails(r) ==
    /\ faults < MaxFaults
    /\ Moves(r, "dial", "failed") \/ Moves(r, "auth", "failed")
    /\ link' = [link EXCEPT ![r] = FALSE]
    /\ faults' = faults + 1
    /\ UNCHANGED <<auto, state, tx, shutdown, call, calls>>

\* AuthOk arrives: this connection's sender replaces the one stored.
AuthOk(r) ==
    /\ Moves(r, "auth", "greeted")
    /\ tx' = r
    /\ Unchanged /\ UNCHANGED <<state, shutdown>>

Greet(r) ==
    /\ Moves(r, "greeted", "resubscribe")
    /\ state' = "Connected"
    /\ Unchanged /\ UNCHANGED <<tx, shutdown>>

\* resubscribe() is over, with or without errors: the main loop begins.
Resubscribed(r) ==
    /\ Moves(r, "resubscribe", "main")
    /\ shutdown' = r
    /\ Unchanged /\ UNCHANGED <<state, tx>>

LinkDrops(r) ==
    /\ faults < MaxFaults
    /\ link[r] /\ at[r] \in {"greeted", "resubscribe", "main"}
    /\ link' = [link EXCEPT ![r] = FALSE]
    /\ faults' = faults + 1
    /\ UNCHANGED <<auto, state, tx, shutdown, at, call, calls>>

\* Mutant: the loop does not notice that its last sender is gone.
EndOkBySignal(r) ==
    /\ shutdown = NoRunner
    /\ Moves(r, "main", "stopping")
    /\ Unchanged /\ UNCHANGED <<state, tx, shutdown>>

\* The main loop ends well: its last sender is gone (or a Shutdown came first),
\* or its signal was sent or dropped with the one that replaced it.
EndOk(r) ==
    /\ tx # r \/ shutdown # r
    /\ Moves(r, "main", "stopping")
    /\ Unchanged /\ UNCHANGED <<state, tx, shutdown>>

\* Reading or writing fails.
EndErr(r) ==
    /\ ~link[r]
    /\ Moves(r, "main", "failing")
    /\ Unchanged /\ UNCHANGED <<state, tx, shutdown>>

\* Mutant: the sender is left for a successor to replace.
CleanupKeepsSender(r) ==
    /\ Moves(r, "stopping", "none") \/ Moves(r, "failing", "lost")
    /\ link' = [link EXCEPT ![r] = FALSE]
    /\ UNCHANGED <<auto, state, tx, shutdown, call, calls, faults>>

\* The stored sender is dropped, whosever it is.  After a clean end the
\* task is over, a loop's too: it breaks on Ok.
Cleanup(r) ==
    /\ Moves(r, "stopping", "none") \/ Moves(r, "failing", "lost")
    /\ tx' = NoRunner
    /\ link' = [link EXCEPT ![r] = FALSE]
    /\ UNCHANGED <<auto, state, shutdown, call, calls, faults>>

-----------------------------------------------------------------------------
(* handle_disconnect, in two steps.  A lost connection runs it before        *)
(* connection_task returns its error; the task that connect() spawned runs   *)
(* it for every error connection_task returns.                               *)

\* Mutant: the task connect() spawned leaves errors to connection_task, which
\* has handled the loss of a connection but not the failure to make one.
ClearSenderOnLoss(r) ==
    /\ Moves(r, "lost", "cleared")
    /\ tx' = NoRunner
    /\ Unchanged /\ UNCHANGED <<state, shutdown>>

ClearSender(r) ==
    /\ \/ Moves(r, "lost", "cleared")
       \/ r \in Attempts /\ Moves(r, "failed", "failed_cleared")
    /\ tx' = NoRunner
    /\ Unchanged /\ UNCHANGED <<state, shutdown>>

After(place) == IF place = "cleared" THEN "failed" ELSE "none"

\* Mutant: the configuration is not asked.
ScheduleUninvited(r) ==
    /\ at[r] \in {"cleared", "failed_cleared"}
    /\ state' = "Reconnecting"
    /\ \E new \in Fresh(Loops) : at' = [at EXCEPT ![r] = After(at[r]), ![new] = "sleep"]
    /\ UNCHANGED <<auto, tx, shutdown, link, call, calls, faults>>

ScheduleReconnect(r) ==
    /\ auto /\ at[r] \in {"cleared", "failed_cleared"}
    /\ state' = "Reconnecting"
    /\ \E new \in Fresh(Loops) : at' = [at EXCEPT ![r] = After(at[r]), ![new] = "sleep"]
    /\ UNCHANGED <<auto, tx, shutdown, link, call, calls, faults>>

GiveUp(r) ==
    /\ ~auto
    /\ Moves(r, "cleared", "failed") \/ Moves(r, "failed_cleared", "none")
    /\ state' = "Disconnected"
    /\ Unchanged /\ UNCHANGED <<tx, shutdown>>

-----------------------------------------------------------------------------
(* The reconnect loop                                                        *)

\* Mutant: the loop does not look at the state after its sleep.
WakeUnchecked(r) ==
    /\ Moves(r, "sleep", "woken")
    /\ Unchanged /\ UNCHANGED <<state, tx, shutdown>>

\* The delay is over: a loop stops if the client is disconnected by now.
Wake(r) ==
    /\ IF state = "Disconnected" THEN Moves(r, "sleep", "none") ELSE Moves(r, "sleep", "woken")
    /\ Unchanged /\ UNCHANGED <<state, tx, shutdown>>

Redial(r) ==
    /\ Moves(r, "woken", "dial")
    /\ state' = "Connecting"
    /\ Unchanged /\ UNCHANGED <<tx, shutdown>>

\* Mutant: the loop gives up after one error.
LoopRetriesNever(r) ==
    /\ r \in Loops
    /\ Moves(r, "failed", "none")
    /\ state' = "Reconnecting"
    /\ Unchanged /\ UNCHANGED <<tx, shutdown>>

\* connection_task returned an error, of whatever kind: once more.
LoopRetries(r) ==
    /\ r \in Loops
    /\ Moves(r, "failed", "sleep")
    /\ state' = "Reconnecting"
    /\ Unchanged /\ UNCHANGED <<tx, shutdown>>

-----------------------------------------------------------------------------
Runs(r) ==
    \/ DialOk(r) \/ AuthOk(r) \/ Greet(r) \/ Resubscribed(r)
    \/ EndOk(r) \/ EndErr(r) \/ Cleanup(r)
    \/ ClearSender(r) \/ ScheduleReconnect(r) \/ GiveUp(r)
    \/ Wake(r) \/ Redial(r) \/ LoopRetries(r)

Continues(c) ==
    ConnectSpawns(c) \/ ConnectReturns(c) \/ DisconnectSignals(c) \/ DisconnectReturns(c)

Next ==
    \/ \E r \in Runners : Runs(r) \/ AttemptFails(r) \/ LinkDrops(r)
    \/ \E c \in Callers : Continues(c) \/ ConnectChecks(c) \/ DisconnectTakesSender(c)

\* Tokio polls every task that can go on; nothing makes a call or a fault happen.
Fairness ==
    /\ \A r \in Runners : WF_vars(Runs(r))
    /\ \A c \in Callers : WF_vars(Continues(c))

Spec == Init /\ [][Next]_vars
FairSpec == Spec /\ Fairness

-----------------------------------------------------------------------------
(* Properties                                                                *)

\* Every field has its type, and a client told not to reconnect has no loop.
TypeOK ==
    /\ auto \in BOOLEAN
    /\ state \in States
    /\ tx \in Runners \cup {NoRunner}
    /\ shutdown \in Runners \cup {NoRunner}
    /\ at \in [Runners -> Places]
    /\ link \in [Runners -> BOOLEAN]
    /\ call \in [Callers -> CallPlaces]
    /\ calls \in 0 .. MaxCalls
    /\ faults \in 0 .. MaxFaults
    /\ \A l \in Loops : at[l] # "none" => auto
    /\ \A r \in Runners : at[r] \in {"sleep", "woken"} => r \in Loops

\* A message a caller hands over reaches a task that still holds the other
\* end: the sender stored is never that of a connection already cleaned up,
\* although connections replace and clear one another's (client.rs:720, 798).
SenderLive ==
    tx # NoRunner => at[tx] \in {"greeted", "resubscribe", "main", "stopping", "failing"}

\* A client that says it is reconnecting has a loop that will try: whichever
\* of several loops wrote the state last, one of them sleeps (client.rs:581-617).
RetryArmed ==
    state = "Reconnecting" => \E l \in Loops : at[l] \in {"sleep", "woken"}

\* No attempt is under way that began before the client was disconnected.
Quiet ==
    /\ state = "Disconnected"
    /\ \A c \in Callers : call[c] # "checked"
    /\ \A r \in Runners : \/ at[r] \in {"none", "sleep", "stopping"}
                          \/ at[r] = "main" /\ link[r]

\* Once an application's disconnect() has caught a client between attempts, no
\* loop left asleep brings it back: only connect() does, or a link lost at that
\* very moment (client.rs:603-606, "Manual disconnect, stop reconnecting").
ManualDisconnectHolds ==
    [][Quiet => \/ Quiet'
                \/ \E c \in Callers : call'[c] = "checked"
                \/ faults' > faults]_vars

\* connect() returns to its caller, also when its attempt fails, its connection
\* is superseded, or reconnect loops of earlier losses interfere (client.rs:164-177).
ConnectAnswers == \A c \in Callers : call[c] = "waiting" ~> call[c] = "idle"

Holders == {r \in Runners : at[r] \notin {"none", "sleep", "woken", "dial"}}

\* Faults and calls over, at most one connection is left: every superseded one
\* ends, however many loops dialled (client.rs:764-792).
OneConnectionRemains == <>[](Cardinality(Holders) <= 1)

\* "Connected and ready" (client.rs:28-29): a client that says Connected, and
\* that nobody is disconnecting, has a task that holds its connection.
ConnectedIsReady ==
    (state = "Connected" /\ \A c \in Callers : call[c] = "idle")
        => \E r \in Runners : at[r] # "none"
=============================================================================

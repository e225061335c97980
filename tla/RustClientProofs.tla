-------------------------- MODULE RustClientProofs --------------------------
(***************************************************************************)
(* RustClient, for any number of callers, tasks, calls and faults: types,   *)
(* the stored sender, the armed retry, and the rest after a disconnect.     *)
(***************************************************************************)
EXTENDS RustClient, TLAPS

-----------------------------------------------------------------------------
(* A step moves at most two runners.                                         *)

LEMMA MovesType ==
  ASSUME TypeOK, NEW r \in Runners, NEW from, NEW to \in Places, Moves(r, from, to)
  PROVE  /\ at' \in [Runners -> Places] /\ at'[r] = to
         /\ \A s \in Runners : s # r => at'[s] = at[s]
BY DEF TypeOK, Moves

LEMMA SpawnType ==
  ASSUME TypeOK, NEW r \in Runners, auto, at[r] \in {"cleared", "failed_cleared"},
         NEW new \in Fresh(Loops),
         at' = [at EXCEPT ![r] = After(at[r]), ![new] = "sleep"]
  PROVE  /\ new \in Loops /\ new \in Runners /\ new # r
         /\ at' \in [Runners -> Places]
         /\ at'[new] = "sleep" /\ at'[r] \in {"failed", "none"}
         /\ \A s \in Runners : s # r /\ s # new => at'[s] = at[s]
BY DEF TypeOK, Fresh, After, Places, Runners

\* Every field keeps its type, and only a client told to reconnect has loops
\* asleep (client.rs:581-586).
THEOREM TypeCorrect == Spec => []TypeOK
<1>1. Init => TypeOK
  BY BoundsAssumption DEF Init, TypeOK, States, Places, CallPlaces, Runners
<1>2. TypeOK /\ [Next]_vars => TypeOK'
  <2> SUFFICES ASSUME TypeOK, [Next]_vars PROVE TypeOK'
    OBVIOUS
  <2> USE BoundsAssumption DEF Runners
  <2>1. CASE UNCHANGED vars
    BY <2>1 DEF TypeOK, vars
  <2>2. ASSUME NEW c \in Callers, Continues(c) \/ ConnectChecks(c) \/ DisconnectTakesSender(c)
        PROVE  TypeOK'
    <3>1. CASE ConnectChecks(c)
      BY <3>1 DEF ConnectChecks, TypeOK, CallPlaces
    <3>2. CASE ConnectSpawns(c)
      BY <3>2, RunnersAssumption DEF ConnectSpawns, TypeOK, CallPlaces, Fresh, Runners, Places, States
    <3>3. CASE ConnectReturns(c)
      BY <3>3 DEF ConnectReturns, TypeOK, CallPlaces
    <3>4. CASE DisconnectTakesSender(c)
      BY <3>4 DEF DisconnectTakesSender, TypeOK, CallPlaces
    <3>5. CASE DisconnectSignals(c)
      BY <3>5 DEF DisconnectSignals, TypeOK, CallPlaces
    <3>6. CASE DisconnectReturns(c)
      BY <3>6 DEF DisconnectReturns, TypeOK, CallPlaces, States
    <3> QED BY <2>2, <3>1, <3>2, <3>3, <3>4, <3>5, <3>6 DEF Continues
  <2>3. ASSUME NEW r \in Runners, Runs(r) \/ AttemptFails(r) \/ LinkDrops(r)
        PROVE  TypeOK'
    <3>1. CASE DialOk(r)
      BY <3>1 DEF DialOk, Moves, TypeOK, States, Places
    <3>2. CASE AttemptFails(r)
      BY <3>2 DEF AttemptFails, Moves, TypeOK, Places
    <3>3. CASE AuthOk(r)
      BY <3>3 DEF AuthOk, Moves, Unchanged, TypeOK, Places
    <3>4. CASE Greet(r)
      BY <3>4 DEF Greet, Moves, Unchanged, TypeOK, States, Places
    <3>5. CASE Resubscribed(r)
      BY <3>5 DEF Resubscribed, Moves, Unchanged, TypeOK, Places
    <3>6. CASE LinkDrops(r)
      BY <3>6 DEF LinkDrops, TypeOK
    <3>7. CASE EndOk(r) \/ EndErr(r)
      BY <3>7 DEF EndOk, EndErr, Moves, Unchanged, TypeOK, Places
    <3>8. CASE Cleanup(r)
      BY <3>8 DEF Cleanup, Moves, TypeOK, Places
    <3>9. CASE ClearSender(r)
      BY <3>9 DEF ClearSender, Moves, Unchanged, TypeOK, Places
    <3>10. CASE ScheduleReconnect(r)
      BY <3>10, SpawnType DEF ScheduleReconnect, TypeOK, States
    <3>11. CASE GiveUp(r)
      BY <3>11 DEF GiveUp, Moves, Unchanged, TypeOK, States, Places
    <3>12. CASE Wake(r)
      BY <3>12 DEF Wake, Moves, Unchanged, TypeOK, Places
    <3>13. CASE Redial(r)
      BY <3>13 DEF Redial, Moves, Unchanged, TypeOK, States, Places
    <3>14. CASE LoopRetries(r)
      BY <3>14 DEF LoopRetries, Moves, Unchanged, TypeOK, States, Places
    <3> QED BY <2>3, <3>1, <3>2, <3>3, <3>4, <3>5, <3>6, <3>7, <3>8, <3>9, <3>10,
               <3>11, <3>12, <3>13, <3>14 DEF Runs
  <2> QED BY <2>1, <2>2, <2>3 DEF Next
<1> QED BY <1>1, <1>2, PTL DEF Spec

-----------------------------------------------------------------------------
(* The sender stored.                                                        *)

Holding == {"greeted", "resubscribe", "main", "stopping", "failing"}

\* A runner that is not told to store or drop a sender keeps the stored one alive.
LEMMA SenderKept ==
  ASSUME TypeOK, SenderLive, NEW r \in Runners, NEW from, NEW to \in Places,
         Moves(r, from, to), from \in Holding => to \in Holding, tx' = tx
  PROVE  SenderLive'
<1>1. /\ at' \in [Runners -> Places] /\ at'[r] = to /\ at[r] = from
      /\ \A s \in Runners : s # r => at'[s] = at[s]
  BY MovesType DEF Moves
<1>2. tx # NoRunner => tx \in Runners /\ at[tx] \in Holding
  BY DEF TypeOK, SenderLive, Holding
<1> QED BY <1>1, <1>2 DEF SenderLive, Holding

\* The sender stored is never that of a connection already cleaned up
\* (client.rs:720, 798), for any number of connections racing for the field.
THEOREM SenderStaysLive == Spec => []SenderLive
<1>1. Init => SenderLive
  BY DEF Init, SenderLive
<1>2. TypeOK /\ SenderLive /\ [Next]_vars => SenderLive'
  <2> SUFFICES ASSUME TypeOK, SenderLive, [Next]_vars PROVE SenderLive'
    OBVIOUS
  <2>1. CASE UNCHANGED vars
    BY <2>1 DEF SenderLive, vars
  <2>2. ASSUME NEW c \in Callers, Continues(c) \/ ConnectChecks(c) \/ DisconnectTakesSender(c)
        PROVE  SenderLive'
    <3>1. CASE ConnectSpawns(c)
      <4>1. PICK new \in Fresh(Attempts) : at' = [at EXCEPT ![new] = "dial"]
        BY <3>1 DEF ConnectSpawns
      <4>2. at[new] = "none" /\ new \in Runners
        BY <4>1 DEF Fresh, Runners
      <4>3. tx' = tx /\ (tx # NoRunner => at[tx] # "none" /\ tx \in Runners)
        BY <3>1 DEF ConnectSpawns, SenderLive, TypeOK
      <4> QED BY <4>1, <4>2, <4>3 DEF SenderLive, TypeOK
    <3>2. CASE ConnectChecks(c) \/ ConnectReturns(c) \/ DisconnectSignals(c) \/ DisconnectReturns(c)
      BY <3>2 DEF ConnectChecks, ConnectReturns, DisconnectSignals, DisconnectReturns, SenderLive
    <3>3. CASE DisconnectTakesSender(c)
      BY <3>3 DEF DisconnectTakesSender, SenderLive
    <3> QED BY <2>2, <3>1, <3>2, <3>3 DEF Continues
  <2>3. ASSUME NEW r \in Runners, Runs(r) \/ AttemptFails(r) \/ LinkDrops(r)
        PROVE  SenderLive'
    <3>1. CASE AuthOk(r)
      BY <3>1 DEF AuthOk, Moves, SenderLive, TypeOK
    <3>2. CASE Cleanup(r) \/ ClearSender(r)
      BY <3>2 DEF Cleanup, ClearSender, SenderLive
    <3>3. CASE LinkDrops(r)
      BY <3>3 DEF LinkDrops, SenderLive
    <3>4. CASE ScheduleReconnect(r)
      <4>1. PICK new \in Fresh(Loops) : at' = [at EXCEPT ![r] = After(at[r]), ![new] = "sleep"]
        BY <3>4 DEF ScheduleReconnect
      <4>2. /\ new \in Runners /\ at[new] = "none"
            /\ \A s \in Runners : s # r /\ s # new => at'[s] = at[s]
        BY <3>4, <4>1, SpawnType DEF ScheduleReconnect, Fresh
      <4>3. at[r] \in {"cleared", "failed_cleared"} /\ tx' = tx
        BY <3>4 DEF ScheduleReconnect
      <4>4. tx # NoRunner => tx \in Runners /\ tx # r /\ tx # new
        BY <4>2, <4>3 DEF SenderLive, TypeOK
      <4> QED BY <4>2, <4>3, <4>4 DEF SenderLive
    <3>5. CASE DialOk(r) \/ AttemptFails(r) \/ LoopRetries(r) \/ GiveUp(r) \/ Wake(r) \/ Redial(r)
      <4>1. /\ tx' = tx
            /\ \E from \in Places \ Holding, to \in Places : Moves(r, from, to)
        BY <3>5 DEF DialOk, AttemptFails, LoopRetries, GiveUp, Wake, Redial, Places, Holding
      <4> QED BY <4>1, SenderKept
    <3>6. CASE Greet(r) \/ Resubscribed(r) \/ EndOk(r) \/ EndErr(r)
      <4>1. /\ tx' = tx
            /\ \E from \in Places, to \in Holding : to \in Places /\ Moves(r, from, to)
        BY <3>6 DEF Greet, Resubscribed, EndOk, EndErr, Places, Holding
      <4> QED BY <4>1, SenderKept
    <3> QED BY <2>3, <3>1, <3>2, <3>3, <3>4, <3>5, <3>6 DEF Runs
  <2> QED BY <2>1, <2>2, <2>3 DEF Next
<1> QED BY <1>1, <1>2, TypeCorrect, PTL DEF Spec

-----------------------------------------------------------------------------
(* The retry that is armed.                                                  *)

\* A step that wakes no loop and leaves the state alone keeps the retry armed.
LEMMA RetryKept ==
  ASSUME TypeOK, RetryArmed, NEW r \in Runners, NEW from, NEW to \in Places,
         Moves(r, from, to), from \notin {"sleep", "woken"}, state' = state
  PROVE  RetryArmed'
<1>1. /\ at[r] = from
      /\ \A s \in Runners : s # r => at'[s] = at[s]
  BY MovesType DEF Moves
<1> QED BY <1>1 DEF RetryArmed, Runners

\* A client that says Reconnecting has a loop that will dial again
\* (client.rs:581-617), for any number of loops and of callers that interfere.
THEOREM RetryStaysArmed == Spec => []RetryArmed
<1>1. Init => RetryArmed
  BY DEF Init, RetryArmed
<1>2. TypeOK /\ RetryArmed /\ [Next]_vars => RetryArmed'
  <2> SUFFICES ASSUME TypeOK, RetryArmed, [Next]_vars PROVE RetryArmed'
    OBVIOUS
  <2>1. CASE UNCHANGED vars
    BY <2>1 DEF RetryArmed, vars
  <2>2. ASSUME NEW c \in Callers, Continues(c) \/ ConnectChecks(c) \/ DisconnectTakesSender(c)
        PROVE  RetryArmed'
    <3>1. CASE ConnectSpawns(c) \/ DisconnectReturns(c)
      BY <3>1 DEF ConnectSpawns, DisconnectReturns, RetryArmed
    <3>2. CASE ConnectChecks(c) \/ ConnectReturns(c) \/ DisconnectSignals(c)
               \/ DisconnectTakesSender(c)
      BY <3>2 DEF ConnectChecks, ConnectReturns, DisconnectSignals, DisconnectTakesSender,
                  RetryArmed
    <3> QED BY <2>2, <3>1, <3>2 DEF Continues
  <2>3. ASSUME NEW r \in Runners, Runs(r) \/ AttemptFails(r) \/ LinkDrops(r)
        PROVE  RetryArmed'
    <3>1. CASE DialOk(r) \/ Greet(r) \/ GiveUp(r) \/ Redial(r)
      BY <3>1 DEF DialOk, Greet, GiveUp, Redial, RetryArmed
    <3>2. CASE LinkDrops(r)
      BY <3>2 DEF LinkDrops, RetryArmed
    <3>3. CASE ScheduleReconnect(r)
      BY <3>3, SpawnType DEF ScheduleReconnect, RetryArmed
    <3>4. CASE LoopRetries(r)
      BY <3>4 DEF LoopRetries, Moves, TypeOK, RetryArmed, Runners
    <3>5. CASE Wake(r)
      <4>1. state' = state
        BY <3>5 DEF Wake
      <4>2. state = "Reconnecting" => r \in Loops /\ at'[r] = "woken"
        BY <3>5 DEF Wake, Moves, TypeOK
      <4> QED BY <4>1, <4>2 DEF RetryArmed
    <3>6. CASE AttemptFails(r) \/ AuthOk(r) \/ Resubscribed(r) \/ EndOk(r) \/ EndErr(r)
               \/ Cleanup(r) \/ ClearSender(r)
      <4>1. /\ state' = state
            /\ \E from \in Places \ {"sleep", "woken"}, to \in Places : Moves(r, from, to)
        BY <3>6 DEF AttemptFails, AuthOk, Resubscribed, EndOk, EndErr, Cleanup, ClearSender,
                    Places
      <4> QED BY <4>1, RetryKept
    <3> QED BY <2>3, <3>1, <3>2, <3>3, <3>4, <3>5, <3>6 DEF Runs
  <2> QED BY <2>1, <2>2, <2>3 DEF Next
<1> QED BY <1>1, <1>2, TypeCorrect, PTL DEF Spec

-----------------------------------------------------------------------------
(* The rest after a disconnect.                                              *)

Resting == {"none", "sleep", "stopping"}

\* A runner that goes from rest to rest leaves a quiet client quiet.
LEMMA RestKept ==
  ASSUME TypeOK, Quiet, NEW r \in Runners, NEW from, NEW to \in Resting,
         Moves(r, from, to), state' = state, call' = call,
         \A s \in Runners : s # r => link'[s] = link[s]
  PROVE  Quiet'
<1>1. /\ at'[r] = to /\ \A s \in Runners : s # r => at'[s] = at[s]
  BY MovesType DEF Resting, Places
<1> QED BY <1>1 DEF Quiet, Resting

\* A client disconnected between attempts stays so until connect() is called or
\* a link is lost at that very moment (client.rs:603-606).
THEOREM DisconnectHolds == Spec => ManualDisconnectHolds
<1> DEFINE Excused == (\E c \in Callers : call'[c] = "checked") \/ faults' > faults
<1>1. TypeOK /\ Quiet /\ [Next]_vars => Quiet' \/ Excused
  <2> SUFFICES ASSUME TypeOK, Quiet, [Next]_vars PROVE Quiet' \/ Excused
    OBVIOUS
  <2>1. CASE UNCHANGED vars
    BY <2>1 DEF Quiet, vars
  <2>2. ASSUME NEW c \in Callers, Continues(c) \/ ConnectChecks(c) \/ DisconnectTakesSender(c)
        PROVE  Quiet' \/ Excused
    <3>1. CASE ConnectChecks(c)
      BY <3>1 DEF ConnectChecks, TypeOK
    <3>2. CASE ConnectSpawns(c)
      BY <3>2 DEF ConnectSpawns, Quiet
    <3>3. CASE ConnectReturns(c) \/ DisconnectTakesSender(c) \/ DisconnectSignals(c)
               \/ DisconnectReturns(c)
      <4>1. /\ state' = "Disconnected" /\ at' = at /\ link' = link
            /\ \A k \in Callers : call'[k] # "checked"
        BY <3>3 DEF ConnectReturns, DisconnectTakesSender, DisconnectSignals,
                    DisconnectReturns, Quiet, TypeOK
      <4> QED BY <4>1 DEF Quiet
    <3> QED BY <2>2, <3>1, <3>2, <3>3 DEF Continues
  <2>3. ASSUME NEW r \in Runners, Runs(r) \/ AttemptFails(r) \/ LinkDrops(r)
        PROVE  Quiet' \/ Excused
    <3>1. at[r] \in Resting \/ (at[r] = "main" /\ link[r])
      BY DEF Quiet, Resting
    <3>2. CASE AttemptFails(r) \/ LinkDrops(r)
      BY <3>2 DEF AttemptFails, LinkDrops, TypeOK
    <3>3. CASE EndOk(r) \/ Cleanup(r) \/ Wake(r)
      <4>1. /\ state' = state /\ call' = call
            /\ \A s \in Runners : s # r => link'[s] = link[s]
        BY <3>3 DEF EndOk, Cleanup, Wake, Unchanged, TypeOK
      <4>2. \E from \in Places, to \in Resting : Moves(r, from, to)
        <5>1. state = "Disconnected" /\ at[r] # "failing"
          BY <3>1 DEF Quiet, Resting
        <5> QED BY <3>3, <5>1 DEF EndOk, Cleanup, Wake, Moves, Resting, Places
      <4> QED BY <4>1, <4>2, RestKept
    <3>4. CASE EndErr(r) \/ DialOk(r) \/ AuthOk(r) \/ Greet(r) \/ Resubscribed(r)
               \/ ClearSender(r) \/ ScheduleReconnect(r) \/ GiveUp(r) \/ Redial(r)
               \/ LoopRetries(r)
      BY <3>1, <3>4 DEF EndErr, DialOk, AuthOk, Greet, Resubscribed, ClearSender,
                        ScheduleReconnect, GiveUp, Redial, LoopRetries, Moves, Resting
    <3> QED BY <2>3, <3>2, <3>3, <3>4 DEF Runs
  <2> QED BY <2>1, <2>2, <2>3 DEF Next
<1>2. TypeOK /\ [Next]_vars => [Quiet => Quiet' \/ (\E c \in Callers : call'[c] = "checked")
                                          \/ faults' > faults]_vars
  BY <1>1
<1> QED BY <1>2, TypeCorrect, PTL DEF Spec, ManualDisconnectHolds
=============================================================================

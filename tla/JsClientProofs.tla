--------------------------- MODULE JsClientProofs ---------------------------
(***************************************************************************)
(* What JsClient says of the reconnect timer, of its publishes and of the  *)
(* offline queue, for every instance: any number of messages, channels,    *)
(* connections and losses, and any size of the queue.                      *)
(*                                                                         *)
(* After the lemmas on sequences come those that say what each action does,*)
(* in terms of indices and ranges, and keep the types; the invariants are  *)
(* then proved from them one after the other, each resting on the ones     *)
(* before: ResolvedInv, ForgetInv, OnceInv, TurnsInv, OrderInv.            *)
(***************************************************************************)
EXTENDS JsClient, WellFoundedInduction, TLAPS

(* Whoever writes "reconnecting" arms the timer in the same breath, and a  *)
(* timer that fires leaves that state.                                     *)
TimerInv == RetryArmed /\ auto \in BOOLEAN

LEMMA InitTimer == Init => TimerInv
BY DEF Init, TimerInv, RetryArmed

(* A cleanup takes the timer away, or its caller sets it right after.      *)
LEMMA StepTimer == TimerInv /\ [Next]_vars => TimerInv'
<1> SUFFICES ASSUME TimerInv, [Next]_vars PROVE TimerInv'
  OBVIOUS
<1> USE DEF TimerInv, RetryArmed, connVars
<1>1. CASE UserConnects
  BY <1>1 DEF UserConnects, Connect
<1>2. CASE TimerConnects
  BY <1>2 DEF TimerConnects, Connect
<1>3. CASE Connected
  BY <1>3 DEF Connected
<1>4. CASE ConnectFails
  BY <1>4 DEF ConnectFails, Cleanup
<1>5. CASE Disconnect
  BY <1>5 DEF Disconnect, Cleanup
<1>6. CASE Lost
  BY <1>6 DEF Lost, HandleDisconnect, Cleanup
<1>7. ASSUME NEW i \in DOMAIN leftover,
             ConnectNotices(i) \/ PingNotices(i) \/ ResubscribeNotices(i)
      PROVE  TimerInv'
  <2>1. CASE ConnectNotices(i)
    BY <2>1 DEF ConnectNotices, Cleanup
  <2>2. CASE PingNotices(i)
    BY <2>2 DEF PingNotices, HandleDisconnect, Cleanup
  <2>3. CASE ResubscribeNotices(i)
    BY <2>3 DEF ResubscribeNotices
  <2> QED
    BY <1>7, <2>1, <2>2, <2>3
<1>8. CASE Resubscribed
  BY <1>8 DEF Resubscribed
<1>9. CASE Publish
  BY <1>9 DEF Publish
<1>10. ASSUME NEW f \in DOMAIN flush, FlushSends(f) \/ FlushCatches(f)
       PROVE  TimerInv'
  BY <1>10 DEF FlushSends, FlushCatches, CatchWith
<1>11. CASE Written
  BY <1>11 DEF Written
<1>12. CASE Receive
  BY <1>12 DEF Receive
<1>13. CASE Expire
  BY <1>13 DEF Expire
<1>14. CASE Serve \/ GarbleRequests
  BY <1>14 DEF Serve, GarbleRequests
<1>15. CASE UNCHANGED vars
  BY <1>15 DEF vars
<1> QED
  BY <1>1, <1>2, <1>3, <1>4, <1>5, <1>6, <1>7, <1>8, <1>9, <1>10, <1>11, <1>12,
     <1>13, <1>14, <1>15 DEF Next

(* RetryArmed (client.ts:499-534, cleanup's clearTimeout): a client that   *)
(* says "reconnecting" has a timer armed, and after disconnect() none is,  *)
(* in every interleaving of callers, timers and interrupted calls.         *)
THEOREM RetryStaysArmed == Spec => []RetryArmed
<1>1. TimerInv => RetryArmed
  BY DEF TimerInv
<1> QED
  BY InitTimer, StepTimer, <1>1, PTL DEF Spec

-----------------------------------------------------------------------------
(* Sequences.                                                              *)

LEMMA InRange ==
  ASSUME NEW S, NEW q \in Seq(S)
  PROVE  /\ \A m : m \in Range(q) <=> \E i \in 1..Len(q) : m = q[i]
         /\ Len(q) \in Nat /\ DOMAIN q = 1..Len(q)
         /\ \A i \in 1..Len(q) : q[i] \in S
         /\ Range(q) \subseteq S
<1>1. DOMAIN q = 1..Len(q) /\ Len(q) \in Nat /\ \A i \in 1..Len(q) : q[i] \in S
  OBVIOUS
<1> QED BY <1>1 DEF Range

LEMMA Joined ==
  ASSUME NEW S, NEW u \in Seq(S), NEW v \in Seq(S)
  PROVE  /\ u \o v \in Seq(S) /\ Len(u \o v) = Len(u) + Len(v)
         /\ Len(u) \in Nat /\ Len(v) \in Nat
         /\ \A i \in 1..Len(u) : (u \o v)[i] = u[i]
         /\ \A i \in 1..Len(v) : (u \o v)[Len(u) + i] = v[i]
         /\ Range(u \o v) = Range(u) \cup Range(v)
<1>1. /\ u \o v \in Seq(S) /\ Len(u \o v) = Len(u) + Len(v)
      /\ Len(u) \in Nat /\ Len(v) \in Nat
  OBVIOUS
<1>2. ASSUME NEW i \in 1..Len(u) PROVE (u \o v)[i] = u[i]
  BY <1>1
<1>3. ASSUME NEW i \in 1..Len(v) PROVE (u \o v)[Len(u) + i] = v[i]
  BY <1>1
<1>4. PICK w : w = u \o v
  OBVIOUS
<1>5. /\ w \in Seq(S) /\ Len(w) = Len(u) + Len(v)
      /\ \A i \in 1..Len(u) : w[i] = u[i]
      /\ \A i \in 1..Len(v) : w[Len(u) + i] = v[i]
  BY <1>1, <1>2, <1>3, <1>4
<1>6. ASSUME NEW m, m \in Range(w) PROVE m \in Range(u) \cup Range(v)
  <2>1. PICK i \in 1..Len(w) : m = w[i]
    BY <1>5, <1>6, InRange
  <2>2. CASE i <= Len(u)
    <3>1. i \in 1..Len(u) /\ m = u[i]
      BY <1>1, <1>5, <2>1, <2>2
    <3> QED BY <3>1, InRange
  <2>3. CASE ~(i <= Len(u))
    <3>1. i - Len(u) \in 1..Len(v) /\ Len(u) + (i - Len(u)) = i
      BY <1>1, <1>5, <2>3
    <3>2. m = v[i - Len(u)]
      BY <1>5, <2>1, <3>1
    <3> QED BY <3>1, <3>2, InRange
  <2> QED BY <2>2, <2>3
<1>7. ASSUME NEW m, m \in Range(u) \cup Range(v) PROVE m \in Range(w)
  <2>1. CASE m \in Range(u)
    <3>1. PICK i \in 1..Len(u) : m = u[i]
      BY <2>1, InRange
    <3>2. i \in 1..Len(w) /\ m = w[i]
      BY <1>1, <1>5, <3>1
    <3> QED BY <1>5, <3>2, InRange
  <2>2. CASE m \in Range(v)
    <3>1. PICK i \in 1..Len(v) : m = v[i]
      BY <2>2, InRange
    <3>2. Len(u) + i \in 1..Len(w) /\ m = w[Len(u) + i]
      BY <1>1, <1>5, <3>1
    <3> QED BY <1>5, <3>2, InRange
  <2> QED BY <1>7, <2>1, <2>2
<1>8. Range(w) = Range(u) \cup Range(v)
  BY <1>6, <1>7
<1> QED BY <1>1, <1>2, <1>3, <1>4, <1>8

LEMMA Appended ==
  ASSUME NEW S, NEW q \in Seq(S), NEW m \in S
  PROVE  /\ Append(q, m) \in Seq(S) /\ Len(Append(q, m)) = Len(q) + 1
         /\ Len(q) \in Nat
         /\ \A i \in 1..Len(q) : Append(q, m)[i] = q[i]
         /\ Append(q, m)[Len(q) + 1] = m
         /\ Range(Append(q, m)) = Range(q) \cup {m}
<1>1. PICK w : w = Append(q, m)
  OBVIOUS
<1>2. /\ w \in Seq(S) /\ Len(w) = Len(q) + 1 /\ Len(q) \in Nat
      /\ \A i \in 1..Len(q) : w[i] = q[i]
      /\ w[Len(q) + 1] = m
      /\ DOMAIN w = 1..(Len(q) + 1) /\ DOMAIN q = 1..Len(q)
  BY <1>1
<1>3. Range(w) = Range(q) \cup {m}
  BY <1>2 DEF Range
<1> QED BY <1>1, <1>2, <1>3

LEMMA HeadAndTail ==
  ASSUME NEW S, NEW q \in Seq(S), q # <<>>
  PROVE  /\ Head(q) \in S /\ Tail(q) \in Seq(S) /\ Head(q) = q[1]
         /\ Len(q) \in Nat \ {0} /\ Len(Tail(q)) = Len(q) - 1
         /\ \A i \in 1..Len(Tail(q)) : i + 1 \in 1..Len(q) /\ Tail(q)[i] = q[i + 1]
         /\ Range(q) = {Head(q)} \cup Range(Tail(q))
<1>1. PICK h, t : h = Head(q) /\ t = Tail(q)
  OBVIOUS
<1>2. /\ h \in S /\ t \in Seq(S) /\ h = q[1]
      /\ Len(q) \in Nat /\ Len(q) # 0 /\ Len(t) = Len(q) - 1
      /\ \A i \in 1..Len(t) : t[i] = q[i + 1]
      /\ DOMAIN q = 1..Len(q) /\ DOMAIN t = 1..(Len(q) - 1)
  BY <1>1
<1>3. Range(q) = {h} \cup Range(t)
  <2>1. ASSUME NEW i \in 1..Len(q) PROVE q[i] = h \/ q[i] \in Range(t)
    <3>1. i # 1 => i - 1 \in 1..Len(t) /\ t[i - 1] = q[i]
      BY <1>2
    <3> QED BY <1>2, <3>1 DEF Range
  <2>2. \A i \in 1..Len(t) : i + 1 \in 1..Len(q) /\ t[i] \in Range(q)
    BY <1>2 DEF Range
  <2>3. h \in Range(q)
    BY <1>2 DEF Range
  <2>4. \A m : m \in Range(q) => m = h \/ m \in Range(t)
    BY <1>2, <2>1 DEF Range
  <2>5. \A m : m \in Range(t) => m \in Range(q)
    BY <1>2, <2>2 DEF Range
  <2> QED BY <2>3, <2>4, <2>5
<1>4. \A i \in 1..Len(t) : i + 1 \in 1..Len(q)
  BY <1>2
<1> QED BY <1>1, <1>2, <1>3, <1>4

LEMMA NoneInEmpty == \A q : q = <<>> => Range(q) = {}
BY DEF Range

(* An element taken out of a sequence.                                     *)
LEMMA TakenOut ==
  ASSUME NEW S, NEW q \in Seq(S), NEW i \in 1..Len(q)
  PROVE  /\ RemoveAt(q, i) \in Seq(S) /\ Len(RemoveAt(q, i)) = Len(q) - 1
         /\ \A j \in 1..(Len(q) - 1) : RemoveAt(q, i)[j] = IF j < i THEN q[j] ELSE q[j + 1]
<1>1. PICK u, v : u = SubSeq(q, 1, i - 1) /\ v = SubSeq(q, i + 1, Len(q))
  OBVIOUS
<1>2. Len(q) \in Nat
  OBVIOUS
<1>3. /\ u \in Seq(S) /\ Len(u) = i - 1
      /\ \A j \in 1..(i - 1) : u[j] = q[j]
  BY <1>1, <1>2
<1>4. /\ v \in Seq(S) /\ Len(v) = Len(q) - i
      /\ \A j \in 1..(Len(q) - i) : v[j] = q[i + j]
  BY <1>1, <1>2
<1>5. RemoveAt(q, i) = u \o v
  BY <1>1 DEF RemoveAt
<1>6. /\ u \o v \in Seq(S) /\ Len(u \o v) = Len(u) + Len(v)
      /\ \A j \in 1..Len(u) : (u \o v)[j] = u[j]
      /\ \A j \in 1..Len(v) : (u \o v)[Len(u) + j] = v[j]
  <2>1. u \in Seq(S) /\ v \in Seq(S)
    BY <1>3, <1>4
  <2> QED BY <2>1, Joined
<1>7. ASSUME NEW j \in 1..(Len(q) - 1)
      PROVE  (u \o v)[j] = IF j < i THEN q[j] ELSE q[j + 1]
  <2>1. CASE j < i
    <3>1. j \in 1..Len(u) /\ j \in 1..(i - 1)
      BY <1>2, <1>3, <2>1
    <3> QED BY <1>3, <1>6, <2>1, <3>1
  <2>2. CASE ~(j < i)
    <3>1. j - (i - 1) \in 1..Len(v) /\ Len(u) + (j - (i - 1)) = j /\ i + (j - (i - 1)) = j + 1
      BY <1>2, <1>3, <1>4, <2>2
    <3>2. (u \o v)[j] = v[j - (i - 1)] /\ v[j - (i - 1)] = q[j + 1]
      BY <1>4, <1>6, <3>1
    <3> QED BY <2>2, <3>2
  <2> QED BY <2>1, <2>2
<1> QED BY <1>2, <1>3, <1>4, <1>5, <1>6, <1>7

-----------------------------------------------------------------------------
(* Induction on the natural numbers, without a predicate as a parameter.   *)

LEMMA Least ==
  ASSUME NEW T \in SUBSET Nat, T # {}
  PROVE  \E m \in T : \A k \in T : m <= k
<1> DEFINE R == {ss \in Nat \X Nat : ss[1] < ss[2]}
<1>1. OpToRel(<, Nat) = R
  BY Zenon DEF OpToRel
<1>2. IsWellFoundedOn(R, Nat)
  BY <1>1, NatLessThanWellFounded
<1>3. \E m \in T : \A k \in T : ~ (<<k, m>> \in R)
  <2> HIDE DEF R
  <2> QED BY <1>2, WFMin, Zenon
<1>4. PICK m \in T : \A k \in T : ~ (<<k, m>> \in R)
  BY <1>3
<1>5. ASSUME NEW k \in T PROVE m <= k
  <2>1. <<k, m>> \notin R
    BY <1>4
  <2>2. <<k, m>> \in Nat \X Nat /\ <<k, m>>[1] = k /\ <<k, m>>[2] = m
    OBVIOUS
  <2>3. ~(k < m)
    BY <2>1, <2>2
  <2> QED BY <2>3
<1> QED BY <1>5

LEMMA Induction ==
  ASSUME NEW T \in SUBSET Nat, 0 \in T, \A n \in T : n + 1 \in T
  PROVE  T = Nat
<1> SUFFICES ASSUME Nat \ T # {} PROVE FALSE
  OBVIOUS
<1>1. PICK m \in Nat \ T : \A k \in Nat \ T : m <= k
  BY Least
<1>2. m - 1 \in Nat /\ m - 1 \in T
  BY <1>1
<1> QED BY <1>1, <1>2

-----------------------------------------------------------------------------
(* Types.                                                                  *)

Flush == [rest : Seq(Message), at : Place]
Open == {"sending", "waiting"}

(* A flush that is at a message has one.                                   *)
AtMessage(f) == flush[f].at \in Open \cup {"rejected"} => flush[f].rest # <<>>

ConnType ==
  /\ state \in {"disconnected", "connecting", "connected", "reconnecting"}
  /\ auto \in BOOLEAN /\ timer \in BOOLEAN /\ byTimer \in BOOLEAN /\ resubbing \in BOOLEAN
  /\ leftover \in Seq({"connect", "ping", "resubscribe"})
  /\ connects \in 0..MaxConnects /\ losses \in 0..MaxLosses

PubType ==
  /\ queue \in Seq(Message) /\ offline \in Seq(Message)
  /\ promise \in [Message -> {"none", "waiting", "resolved", "rejected"}]
  /\ flush \in Seq(Flush) /\ \A f \in 1..Len(flush) : AtMessage(f)
  /\ writes \in Seq(Waiter) /\ timeouts \in Seq(Waiter)
  /\ pending \in [Channel -> SUBSET Waiter]
  /\ \A c \in Channel : \A v, w \in pending[c] : v = w
  /\ robbed \subseteq Message

NetType == wire \in Seq(Message) /\ inbox \in Seq(Message) /\ log \in Seq(Message)

TypeInv == ConnType /\ PubType /\ NetType

LEMMA Messages ==
  /\ Message = 1..Len(ChannelOf) /\ Len(ChannelOf) \in Nat /\ Message \subseteq Nat
  /\ \A m \in Message : ChannelOf[m] \in Channel
<1>1. ChannelOf \in Seq(Channel)
  BY ClientAssumption
<1> QED BY <1>1 DEF Message

LEMMA FlushIs ==
  ASSUME flush \in Seq(Flush)
  PROVE  /\ DOMAIN flush = 1..Len(flush) /\ Len(flush) \in Nat
         /\ \A f \in 1..Len(flush) :
              flush[f] \in Flush /\ flush[f].rest \in Seq(Message) /\ flush[f].at \in Place
<1>1. /\ DOMAIN flush = 1..Len(flush) /\ Len(flush) \in Nat
      /\ \A f \in 1..Len(flush) : flush[f] \in Flush
  OBVIOUS
<1>2. \A r \in Flush : r.rest \in Seq(Message) /\ r.at \in Place
  BY DEF Flush
<1> QED BY <1>1, <1>2

LEMMA WaitersIs ==
  ASSUME pending \in [Channel -> SUBSET Waiter]
  PROVE  /\ \A w : w \in Waiters <=> \E c \in Channel : w \in pending[c]
         /\ Waiters \subseteq Waiter
BY DEF Waiters, Range

LEMMA SettledIs ==
  ASSUME promise \in [Message -> {"none", "waiting", "resolved", "rejected"}],
         NEW ms, NEW outcome \in {"resolved", "rejected"}
  PROVE  /\ Settled(ms, outcome) \in [Message -> {"none", "waiting", "resolved", "rejected"}]
         /\ \A m \in Message :
              Settled(ms, outcome)[m] =
                IF m \in ms /\ promise[m] = "waiting" THEN outcome ELSE promise[m]
BY DEF Settled

(* Whom a flush has heard of.                                              *)
Woken(f, ws) == flush[f].at \in Open /\ [m |-> Head(flush[f].rest), by |-> f] \in ws

LEMMA ResumedIs ==
  ASSUME flush \in Seq(Flush), \A f \in 1..Len(flush) : AtMessage(f), NEW ws,
         NEW at \in {"next", "waiting", "rejected"}
  PROVE  /\ Resumed(ws, at) \in Seq(Flush) /\ Len(Resumed(ws, at)) = Len(flush)
         /\ \A f \in 1..Len(flush) :
              /\ ~Woken(f, ws) => Resumed(ws, at)[f] = flush[f]
              /\ Woken(f, ws) =>
                   /\ flush[f].rest # <<>> /\ flush[f].at \in Open
                   /\ Resumed(ws, at)[f] \in Flush /\ Resumed(ws, at)[f].at = at
                   /\ at # "next" => Resumed(ws, at)[f].rest = flush[f].rest
                   /\ at = "next" => Resumed(ws, at)[f].rest = Tail(flush[f].rest)
<1>1. PICK g : g = Resumed(ws, at)
  OBVIOUS
<1>2. /\ DOMAIN flush = 1..Len(flush) /\ Len(flush) \in Nat
      /\ \A f \in 1..Len(flush) :
           flush[f] \in Flush /\ flush[f].rest \in Seq(Message) /\ flush[f].at \in Place
  BY FlushIs
<1>3. g = [f \in 1..Len(flush) |->
             IF Woken(f, ws)
             THEN [rest |-> IF at = "next" THEN Tail(flush[f].rest) ELSE flush[f].rest, at |-> at]
             ELSE flush[f]]
  BY <1>1, <1>2 DEF Resumed, Woken, Open
<1>4. ASSUME NEW f \in 1..Len(flush), Woken(f, ws)
      PROVE  /\ flush[f].rest # <<>> /\ flush[f].at \in Open
             /\ g[f] \in Flush /\ g[f].at = at
             /\ at # "next" => g[f].rest = flush[f].rest
             /\ at = "next" => g[f].rest = Tail(flush[f].rest)
  <2>1. flush[f].rest # <<>> /\ flush[f].at \in Open
    BY <1>4 DEF Woken, AtMessage
  <2>2. PICK r : r = IF at = "next" THEN Tail(flush[f].rest) ELSE flush[f].rest
    OBVIOUS
  <2>3. r \in Seq(Message)
    BY <1>2, <2>1, <2>2, HeadAndTail
  <2>4. g[f] = [rest |-> r, at |-> at]
    BY <1>3, <1>4, <2>2
  <2>5. at \in Place
    BY DEF Place
  <2> QED BY <2>1, <2>2, <2>3, <2>4, <2>5 DEF Flush
<1>5. \A f \in 1..Len(flush) : ~Woken(f, ws) => g[f] = flush[f]
  BY <1>3
<1>6. g \in Seq(Flush) /\ Len(g) = Len(flush)
  <2>1. \A f \in 1..Len(flush) : g[f] \in Flush
    BY <1>2, <1>4, <1>5
  <2>2. g = [f \in 1..Len(flush) |-> g[f]]
    BY <1>3
  <2> QED BY <1>2, <2>1, <2>2
<1> QED BY <1>1, <1>4, <1>5, <1>6

(* f[i] is what is accepted of the first i messages of q.                  *)
UpTo(q, f, n) == f = [i \in 0..n |->
  IF i = 0 THEN <<>>
  ELSE IF q[i] \in Refused THEN f[i - 1] ELSE Append(f[i - 1], q[i])]

LEMMA UpToExists ==
  ASSUME NEW q \in Seq(Message), NEW n \in Nat
  PROVE  \E f : UpTo(q, f, n)
<1> DEFINE T == {k \in Nat : \E f : UpTo(q, f, k)}
<1>1. 0 \in T
  <2> DEFINE f == [i \in 0..0 |-> <<>>]
  <2>1. UpTo(q, f, 0)
    BY DEF UpTo
  <2> QED BY <2>1
<1>2. ASSUME NEW k \in T PROVE k + 1 \in T
  <2>1. PICK f : UpTo(q, f, k)
    OBVIOUS
  <2> DEFINE g == [i \in 0..(k + 1) |->
                IF i = k + 1
                THEN (IF q[i] \in Refused THEN f[i - 1] ELSE Append(f[i - 1], q[i]))
                ELSE f[i]]
             onward(h) == [i \in 0..(k + 1) |->
                IF i = 0 THEN <<>>
                ELSE IF q[i] \in Refused THEN h[i - 1] ELSE Append(h[i - 1], q[i])]
  <2>2. ASSUME NEW i \in 0..(k + 1) PROVE g[i] = onward(g)[i]
    <3>1. \A j \in 0..k : g[j] = f[j]
      OBVIOUS
    <3>2. \A j \in 0..k : f[j] = IF j = 0 THEN <<>>
             ELSE IF q[j] \in Refused THEN f[j - 1] ELSE Append(f[j - 1], q[j])
      BY <2>1 DEF UpTo
    <3>3. CASE i = k + 1
      BY <3>1, <3>3
    <3>4. CASE i # k + 1
      BY <3>1, <3>2, <3>4
    <3> QED BY <3>3, <3>4
  <2>3. g = onward(g)
    BY <2>2
  <2>4. UpTo(q, g, k + 1)
    BY <2>3 DEF UpTo
  <2> QED BY <2>4
<1>3. T = Nat
  <2> HIDE DEF T
  <2>1. T \in SUBSET Nat
    BY DEF T
  <2> QED BY <1>1, <1>2, <2>1, Induction
<1> QED BY <1>3

(* What it keeps keeps its order: in terms of any set of messages.         *)
Rising(q, S) == \A i, j \in 1..Len(q) : i < j /\ q[i] \in S /\ q[j] \in S => q[i] <= q[j]

LEMMA AcceptedIs ==
  ASSUME NEW q \in Seq(Message)
  PROVE  /\ Accepted(q) \in Seq(Message)
         /\ Range(Accepted(q)) \subseteq Range(q)
         /\ \A S : Rising(q, S) => Rising(Accepted(q), S)
<1>0. Len(q) \in Nat /\ \A i \in 1..Len(q) : q[i] \in Message
  OBVIOUS
<1>1. PICK f : UpTo(q, f, Len(q)) /\ Accepted(q) = f[Len(q)]
  <2>1. \E f : UpTo(q, f, Len(q))
    BY <1>0, UpToExists
  <2> QED BY <2>1 DEF Accepted, UpTo
<1> DEFINE Fine(k) == /\ f[k] \in Seq(Message)
                      /\ \A m : m \in Range(f[k]) => \E i \in 1..k : m = q[i]
                      /\ \A S : Rising(q, S) => Rising(f[k], S)
           T == {k \in Nat : k <= Len(q) => Fine(k)}
<1>2. \A i \in 0..Len(q) : f[i] = IF i = 0 THEN <<>>
         ELSE IF q[i] \in Refused THEN f[i - 1] ELSE Append(f[i - 1], q[i])
  BY <1>1 DEF UpTo
<1>3. 0 \in T
  <2>1. f[0] = <<>>
    BY <1>0, <1>2
  <2>2. \A S : Rising(f[0], S)
    BY <2>1 DEF Rising
  <2>3. \A m : m \notin Range(f[0])
    BY <2>1, NoneInEmpty
  <2>4. f[0] \in Seq(Message)
    BY <2>1
  <2> QED BY <2>2, <2>3, <2>4
<1>4. ASSUME NEW k \in T PROVE k + 1 \in T
  <2> SUFFICES ASSUME k + 1 <= Len(q) PROVE Fine(k + 1)
    OBVIOUS
  <2>1. Fine(k)
    BY <1>0
  <2>2. k + 1 # 0 /\ (k + 1) - 1 = k /\ k + 1 \in 1..Len(q) /\ q[k + 1] \in Message
        /\ k \in Nat /\ \A i \in 1..k : i \in 1..(k + 1) /\ i \in 1..Len(q) /\ i < k + 1
    BY <1>0
  <2>3. f[k + 1] = IF q[k + 1] \in Refused THEN f[k] ELSE Append(f[k], q[k + 1])
    BY <1>2, <2>2
  <2>4. CASE q[k + 1] \notin Refused
    <3>1. PICK old \in Seq(Message) : old = f[k]
      BY <2>1
    <3>2. PICK new : new = Append(old, q[k + 1])
      OBVIOUS
    <3>3. /\ new \in Seq(Message) /\ Len(old) \in Nat /\ Len(new) = Len(old) + 1
          /\ \A i \in 1..Len(old) : new[i] = old[i]
          /\ new[Len(old) + 1] = q[k + 1]
          /\ Range(new) = Range(old) \cup {q[k + 1]}
      BY <2>2, <3>2, Appended
    <3>4. f[k + 1] = new
      BY <2>3, <2>4, <3>1, <3>2
    <3>5. \A m : m \in Range(new) => \E i \in 1..(k + 1) : m = q[i]
      BY <2>1, <2>2, <3>1, <3>3
    <3>6. ASSUME NEW S, Rising(q, S) PROVE Rising(new, S)
      <4>1. Rising(old, S)
        BY <2>1, <3>1, <3>6
      <4>2. SUFFICES ASSUME NEW i \in 1..Len(new), NEW j \in 1..Len(new), i < j,
                            new[i] \in S, new[j] \in S
                     PROVE  new[i] <= new[j]
        BY DEF Rising
      <4>3. i \in 1..Len(old) /\ new[i] = old[i] /\ old[i] \in Range(old)
        BY <3>3, <4>2, InRange
      <4>4. CASE j = Len(old) + 1
        <5>1. PICK l \in 1..k : old[i] = q[l]
          BY <2>1, <3>1, <4>3
        <5> QED BY <2>2, <3>3, <3>6, <4>2, <4>3, <4>4, <5>1 DEF Rising
      <4>5. CASE j # Len(old) + 1
        <5>1. j \in 1..Len(old) /\ new[j] = old[j]
          BY <3>3, <4>5
        <5> QED BY <4>1, <4>2, <4>3, <5>1 DEF Rising
      <4> QED BY <4>4, <4>5
    <3> QED BY <3>3, <3>4, <3>5, <3>6
  <2>5. CASE q[k + 1] \in Refused
    <3>1. f[k + 1] = f[k]
      BY <2>3, <2>5
    <3> QED BY <2>1, <2>2, <3>1
  <2> QED BY <2>4, <2>5
<1>5. T = Nat
  <2> HIDE DEF T
  <2>1. T \in SUBSET Nat
    BY DEF T
  <2> QED BY <1>3, <1>4, <2>1, Induction
<1>6. Fine(Len(q))
  <2>1. Len(q) \in T
    <3> HIDE DEF T
    <3> QED BY <1>0, <1>5
  <2> QED BY <1>0, <2>1
<1>7. \A m : m \in Range(q) <=> \E i \in 1..Len(q) : m = q[i]
  BY InRange
<1> QED BY <1>1, <1>6, <1>7

LEMMA InterruptedIs ==
  ASSUME ConnType, NEW cut \in Interrupted
  PROVE  cut \in Seq({"connect", "ping", "resubscribe"})
<1>1. /\ <<"connect">> \in Seq({"connect", "ping", "resubscribe"})
      /\ <<"resubscribe">> \in Seq({"connect", "ping", "resubscribe"})
      /\ <<"ping">> \in Seq({"connect", "ping", "resubscribe"})
      /\ <<>> \in Seq({"connect", "ping", "resubscribe"})
  OBVIOUS
<1>2. \A u, v \in Seq({"connect", "ping", "resubscribe"}) :
        u \o v \in Seq({"connect", "ping", "resubscribe"})
  BY Joined
<1>3. CASE state = "connecting"
  BY <1>1, <1>3 DEF Interrupted
<1>4. CASE state = "connected"
  BY <1>1, <1>2, <1>4 DEF Interrupted
<1>5. CASE state # "connecting" /\ state # "connected"
  BY <1>1, <1>5 DEF Interrupted
<1> QED BY <1>3, <1>4, <1>5

(* A cleanup: what it makes of each part.                                  *)
LEMMA CleanupDoes ==
  ASSUME TypeInv, NEW keep \in BOOLEAN, NEW armed \in BOOLEAN, Cleanup(keep, armed)
  PROVE  /\ timer' \in BOOLEAN /\ resubbing' = FALSE
         /\ \A m \in Message :
              promise'[m] =
                IF /\ promise[m] = "waiting"
                   /\ \/ m \in {w.m : w \in Waiters}
                      \/ \E w \in Range(writes) : w.by = 0 /\ w.m = m
                      \/ ~keep /\ m \in Range(queue)
                THEN "rejected" ELSE promise[m]
         /\ flush' = Resumed(Waiters \cup Range(writes), "rejected")
         /\ queue' = IF keep THEN queue ELSE <<>>
         /\ \A c \in Channel : pending'[c] = {}
         /\ \E arrived \in 0..Len(wire) : log' = log \o Accepted(SubSeq(wire, 1, arrived))
         /\ writes' = <<>> /\ wire' = <<>> /\ inbox' = <<>>
         /\ UNCHANGED <<timeouts, offline, robbed>>
         /\ PubType' /\ NetType'
<1> USE DEF TypeInv, PubType, NetType
<1> DEFINE ms == {w.m : w \in Waiters \cup {w \in Range(writes) : w.by = 0}}
                   \cup (IF keep THEN {} ELSE Range(queue))
<1>1. /\ timer' = armed /\ resubbing' = FALSE
      /\ promise' = Settled(ms, "rejected")
      /\ flush' = Resumed(Waiters \cup Range(writes), "rejected")
      /\ queue' = IF keep THEN queue ELSE <<>>
      /\ pending' = [c \in Channel |-> {}]
      /\ \E arrived \in 0..Len(wire) : log' = log \o Accepted(SubSeq(wire, 1, arrived))
      /\ writes' = <<>> /\ wire' = <<>> /\ inbox' = <<>>
      /\ UNCHANGED <<timeouts, offline, robbed>>
  BY DEF Cleanup
<1>2. \A m : m \in ms <=> \/ m \in {w.m : w \in Waiters}
                          \/ \E w \in Range(writes) : w.by = 0 /\ w.m = m
                          \/ ~keep /\ m \in Range(queue)
  OBVIOUS
<1>3. /\ promise' \in [Message -> {"none", "waiting", "resolved", "rejected"}]
      /\ \A m \in Message : promise'[m] =
           IF m \in ms /\ promise[m] = "waiting" THEN "rejected" ELSE promise[m]
  <2> HIDE DEF ms
  <2> QED BY <1>1, SettledIs
<1>4. \A m \in Message :
              promise'[m] =
                IF /\ promise[m] = "waiting"
                   /\ \/ m \in {w.m : w \in Waiters}
                      \/ \E w \in Range(writes) : w.by = 0 /\ w.m = m
                      \/ ~keep /\ m \in Range(queue)
                THEN "rejected" ELSE promise[m]
  <2> HIDE DEF ms
  <2> QED BY <1>2, <1>3
<1>5. PICK ws : ws = Waiters \cup Range(writes)
  OBVIOUS
<1>6. flush' \in Seq(Flush) /\ \A f \in 1..Len(flush') : AtMessage(f)'
  <2>1. flush' = Resumed(ws, "rejected")
    BY <1>1, <1>5
  <2>2. /\ flush' \in Seq(Flush) /\ Len(flush') = Len(flush)
        /\ \A f \in 1..Len(flush) :
             /\ ~Woken(f, ws) => flush'[f] = flush[f]
             /\ Woken(f, ws) => flush[f].rest # <<>> /\ flush'[f].rest = flush[f].rest
    <3>1. /\ Resumed(ws, "rejected") \in Seq(Flush) /\ Len(Resumed(ws, "rejected")) = Len(flush)
          /\ \A f \in 1..Len(flush) :
               /\ ~Woken(f, ws) => Resumed(ws, "rejected")[f] = flush[f]
               /\ Woken(f, ws) => /\ flush[f].rest # <<>>
                                  /\ Resumed(ws, "rejected")[f].rest = flush[f].rest
      BY ResumedIs
    <3> QED BY <2>1, <3>1
  <2> QED BY <2>2 DEF AtMessage
<1>7. log' \in Seq(Message)
  <2>1. PICK arrived \in 0..Len(wire) : log' = log \o Accepted(SubSeq(wire, 1, arrived))
    BY <1>1
  <2>2. SubSeq(wire, 1, arrived) \in Seq(Message)
    OBVIOUS
  <2>3. Accepted(SubSeq(wire, 1, arrived)) \in Seq(Message)
    BY <2>2, AcceptedIs
  <2> QED BY <2>1, <2>3, Joined
<1>8. NetType'
  BY <1>1, <1>7
<1>9. PubType'
  <2>1. queue' \in Seq(Message) /\ writes' \in Seq(Waiter)
    BY <1>1
  <2>2. pending' \in [Channel -> SUBSET Waiter] /\ \A c \in Channel : pending'[c] = {}
    BY <1>1
  <2> QED BY <1>1, <1>3, <1>6, <2>1, <2>2
<1> HIDE DEF TypeInv, PubType, NetType
<1>10. \A c \in Channel : pending'[c] = {}
  BY <1>1
<1> QED BY <1>1, <1>4, <1>8, <1>9, <1>10

(* The five actions that clean up.                                         *)
CleansUp ==
  /\ \E keep, armed \in BOOLEAN : Cleanup(keep, armed)
  /\ state' # "connected"

LEMMA WhoCleansUp ==
  ASSUME TypeInv,
         \/ ConnectFails \/ Disconnect \/ Lost
         \/ \E i \in DOMAIN leftover : ConnectNotices(i) \/ PingNotices(i)
  PROVE  CleansUp /\ ConnType'
<1> USE DEF TypeInv, ConnType
<1>1. CASE ConnectFails
  BY <1>1 DEF ConnectFails, CleansUp, Cleanup
<1>2. CASE Disconnect
  <2>1. PICK cut \in Interrupted : leftover' = leftover \o cut
    BY <1>2 DEF Disconnect
  <2>2. cut \in Seq({"connect", "ping", "resubscribe"})
    BY InterruptedIs
  <2>3. leftover' \in Seq({"connect", "ping", "resubscribe"})
    BY <2>1, <2>2, Joined
  <2> QED BY <1>2, <2>3 DEF Disconnect, CleansUp, Cleanup
<1>3. CASE Lost
  <2>1. PICK cut \in Interrupted : leftover' = leftover \o cut
    BY <1>3 DEF Lost
  <2>2. cut \in Seq({"connect", "ping", "resubscribe"})
    BY InterruptedIs
  <2>3. leftover' \in Seq({"connect", "ping", "resubscribe"})
    BY <2>1, <2>2, Joined
  <2>4. losses' \in 0..MaxLosses
    BY <1>3, ClientAssumption DEF Lost
  <2> QED BY <1>3, <2>3, <2>4 DEF Lost, HandleDisconnect, CleansUp, Cleanup
<1>4. ASSUME NEW i \in DOMAIN leftover, ConnectNotices(i) \/ PingNotices(i)
      PROVE  CleansUp /\ ConnType'
  <2>1. PICK cut \in Interrupted : leftover' = RemoveAt(leftover, i) \o cut
    BY <1>4 DEF ConnectNotices, PingNotices
  <2>2. cut \in Seq({"connect", "ping", "resubscribe"})
    BY InterruptedIs
  <2>3. leftover' \in Seq({"connect", "ping", "resubscribe"})
    <3>1. i \in 1..Len(leftover)
      OBVIOUS
    <3>2. RemoveAt(leftover, i) \in Seq({"connect", "ping", "resubscribe"})
      BY <3>1, TakenOut
    <3> QED BY <2>1, <2>2, <3>2, Joined
  <2>4. CASE ConnectNotices(i)
    BY <2>3, <2>4 DEF ConnectNotices, CleansUp, Cleanup
  <2>5. CASE PingNotices(i)
    BY <2>3, <2>5 DEF PingNotices, HandleDisconnect, CleansUp, Cleanup
  <2> QED BY <1>4, <2>4, <2>5
<1> QED BY <1>1, <1>2, <1>3, <1>4

(* A flush that starts has all of the queue.                               *)
Starts == (\E i \in DOMAIN leftover : ResubscribeNotices(i)) \/ Resubscribed

LEMMA StartsDoes ==
  ASSUME TypeInv, Starts
  PROVE  /\ queue' = <<>>
         /\ UNCHANGED <<state, promise, writes, pending, timeouts, wire, inbox, log, offline, robbed>>
         /\ \/ queue = <<>> /\ flush' = flush
            \/ \E new \in Flush : /\ flush' = Append(flush, new)
                                  /\ new.rest = queue /\ new.at = "next"
         /\ TypeInv'
<1> USE DEF TypeInv, ConnType, PubType, NetType
<1>1. /\ StartFlush
      /\ UNCHANGED <<state, auto, timer, byTimer, promise, writes, pending, timeouts,
                     wire, inbox, log, offline, robbed, connects, losses>>
      /\ \/ leftover' = leftover /\ resubbing' = FALSE
         \/ (\E i \in DOMAIN leftover : leftover' = RemoveAt(leftover, i)) /\ resubbing' = resubbing
  BY DEF Starts, ResubscribeNotices, Resubscribed, netVars, history
<1>2. leftover' \in Seq({"connect", "ping", "resubscribe"})
  <2>1. ASSUME NEW i \in DOMAIN leftover
        PROVE  RemoveAt(leftover, i) \in Seq({"connect", "ping", "resubscribe"})
    <3>1. i \in 1..Len(leftover)
      OBVIOUS
    <3> QED BY <3>1, TakenOut
  <2> QED BY <1>1, <2>1
<1>3. queue' = <<>>
  BY <1>1 DEF StartFlush
<1>4. PICK new : new = [rest |-> queue, at |-> "next"]
  OBVIOUS
<1>5. new \in Flush /\ new.rest = queue /\ new.at = "next"
  BY <1>4 DEF Flush, Place
<1>6. (queue = <<>> /\ flush' = flush) \/ flush' = Append(flush, new)
  BY <1>1, <1>4 DEF StartFlush
<1>7. flush' \in Seq(Flush) /\ \A f \in 1..Len(flush') : AtMessage(f)'
  <2>1. CASE flush' = Append(flush, new)
    <3>1. /\ flush' \in Seq(Flush) /\ Len(flush') = Len(flush) + 1 /\ Len(flush) \in Nat
          /\ \A i \in 1..Len(flush) : flush'[i] = flush[i]
          /\ flush'[Len(flush) + 1] = new
      BY <1>5, <2>1, Appended
    <3>2. ASSUME NEW f \in 1..Len(flush') PROVE AtMessage(f)'
      <4>1. f \in 1..Len(flush) \/ f = Len(flush) + 1
        BY <3>1
      <4> QED BY <1>5, <3>1, <4>1 DEF AtMessage, Open
    <3> QED BY <3>1, <3>2
  <2>2. CASE flush' = flush
    BY <2>2 DEF AtMessage
  <2> QED BY <1>6, <2>1, <2>2
<1>8. TypeInv'
  <2>1. ConnType'
    BY <1>1, <1>2
  <2>2. PubType'
    BY <1>1, <1>3, <1>7
  <2>3. NetType'
    BY <1>1
  <2> QED BY <2>1, <2>2, <2>3
<1> HIDE DEF TypeInv, ConnType, PubType, NetType
<1> QED BY <1>1, <1>3, <1>5, <1>6, <1>8

(* One flush moves.                                                        *)
LEMMA OneMoves ==
  ASSUME PubType, NEW f \in DOMAIN flush, NEW r \in Flush,
         flush' = [flush EXCEPT ![f] = r], r.at \in Open \cup {"rejected"} => r.rest # <<>>
  PROVE  /\ flush' \in Seq(Flush) /\ Len(flush') = Len(flush) /\ f \in 1..Len(flush)
         /\ flush'[f] = r /\ \A g \in 1..Len(flush) : g # f => flush'[g] = flush[g]
         /\ \A g \in 1..Len(flush') : AtMessage(g)'
<1>1. flush \in Seq(Flush) /\ f \in 1..Len(flush) /\ DOMAIN flush = 1..Len(flush)
  BY DEF PubType
<1>2. /\ flush' \in Seq(Flush) /\ Len(flush') = Len(flush) /\ f \in 1..Len(flush)
      /\ flush'[f] = r /\ \A g \in 1..Len(flush) : g # f => flush'[g] = flush[g]
  BY <1>1
<1>3. ASSUME NEW g \in 1..Len(flush') PROVE AtMessage(g)'
  <2>1. CASE g = f
    BY <1>2, <2>1 DEF AtMessage
  <2>2. CASE g # f
    <3>1. flush'[g] = flush[g] /\ g \in 1..Len(flush)
      BY <1>2, <2>2
    <3> QED BY <3>1 DEF PubType, AtMessage
  <2> QED BY <2>1, <2>2
<1> QED BY <1>2, <1>3

(* The queue with room made at its front.                                  *)
QueuedFrom(k, room, m) ==
  /\ k \in 0..Len(queue) /\ room \in Seq(Message) /\ Len(room) = Len(queue) - k
  /\ \A i \in 1..Len(room) : room[i] = queue[k + i]
  /\ queue' = Append(room, m)
  /\ \A n \in Message :
       promise'[n] = IF n = m THEN "waiting"
                     ELSE IF promise[n] = "waiting" /\ \E i \in 1..k : n = queue[i] THEN "rejected"
                     ELSE promise[n]

LEMMA PublishDoes ==
  ASSUME TypeInv, Publish
  PROVE  /\ \E m \in Message :
              /\ promise[m] = "none" /\ \A k \in 1..(m - 1) : promise[k] # "none"
              /\ \/ /\ state # "connected"
                    /\ \E k, room : QueuedFrom(k, room, m)
                    /\ offline' = Append(offline, m) /\ writes' = writes
                 \/ /\ state = "connected"
                    /\ writes' = Append(writes, [m |-> m, by |-> 0])
                    /\ \A n \in Message : promise'[n] = IF n = m THEN "waiting" ELSE promise[n]
                    /\ UNCHANGED <<queue, offline>>
         /\ UNCHANGED <<connVars, flush, pending, timeouts, netVars, robbed, connects, losses>>
         /\ TypeInv'
<1> USE DEF TypeInv, PubType
<1>1. PICK m \in Message :
        /\ promise[m] = "none" /\ \A k \in 1..(m - 1) : promise[k] # "none"
        /\ PublishQueues(m) \/ PublishSends(m)
  BY DEF Publish
<1>2. UNCHANGED <<connVars, flush, pending, timeouts, netVars, robbed, connects, losses>>
  BY DEF Publish
<1>3. CASE PublishQueues(m)
  <2>1. PICK over : over = Overflow
    OBVIOUS
  <2>2. PICK room : room = Room
    OBVIOUS
  <2>3. Len(queue) \in Nat /\ MaxQueue \in Nat \ {0}
    BY ClientAssumption
  <2>4. PICK k \in 0..Len(queue) :
          /\ over \in Seq(Message) /\ Len(over) = k /\ \A i \in 1..k : over[i] = queue[i]
    <3>1. CASE Len(queue) + 1 - MaxQueue >= 1
      <4>1. over = SubSeq(queue, 1, Len(queue) + 1 - MaxQueue)
        BY <2>1 DEF Overflow
      <4>2. Len(queue) + 1 - MaxQueue \in 0..Len(queue)
        BY <2>3, <3>1
      <4>3. /\ over \in Seq(Message) /\ Len(over) = Len(queue) + 1 - MaxQueue
            /\ \A i \in 1..(Len(queue) + 1 - MaxQueue) : over[i] = queue[i]
        BY <2>3, <3>1, <4>1, <4>2
      <4> QED BY <4>2, <4>3
    <3>2. CASE ~(Len(queue) + 1 - MaxQueue >= 1)
      <4>1. over = SubSeq(queue, 1, Len(queue) + 1 - MaxQueue)
        BY <2>1 DEF Overflow
      <4>2. over = <<>>
        BY <2>3, <3>2, <4>1
      <4>3. 0 \in 0..Len(queue) /\ over \in Seq(Message) /\ Len(over) = 0
        BY <2>3, <4>2
      <4> QED BY <4>3
    <3> QED BY <3>1, <3>2
  <2>5. /\ room \in Seq(Message) /\ Len(room) = Len(queue) - k
        /\ \A i \in 1..Len(room) : room[i] = queue[k + i]
    <3>1. room = SubSeq(queue, k + 1, Len(queue))
      BY <2>1, <2>2, <2>4 DEF Room
    <3> QED BY <2>3, <2>4, <3>1
  <2>6. \A n : n \in Range(over) <=> \E i \in 1..k : n = queue[i]
    <3>1. \A n : n \in Range(over) <=> \E i \in 1..Len(over) : n = over[i]
      BY <2>4, InRange
    <3> QED BY <2>4, <3>1
  <2>7. /\ queue' = Append(room, m) /\ state # "connected"
        /\ promise' = [Settled(Range(over), "rejected") EXCEPT ![m] = "waiting"]
        /\ offline' = Append(offline, m) /\ writes' = writes
    BY <1>3, <2>1, <2>2 DEF PublishQueues
  <2>8. /\ Settled(Range(over), "rejected") \in
             [Message -> {"none", "waiting", "resolved", "rejected"}]
        /\ \A n \in Message :
              Settled(Range(over), "rejected")[n] =
                IF n \in Range(over) /\ promise[n] = "waiting" THEN "rejected" ELSE promise[n]
    BY SettledIs
  <2>9. \A n \in Message :
          promise'[n] = IF n = m THEN "waiting"
                     ELSE IF promise[n] = "waiting" /\ \E i \in 1..k : n = queue[i] THEN "rejected"
                     ELSE promise[n]
    BY <2>6, <2>7, <2>8
  <2>10. promise' \in [Message -> {"none", "waiting", "resolved", "rejected"}]
    BY <2>7, <2>8
  <2>11. queue' \in Seq(Message) /\ offline' \in Seq(Message)
    BY <2>5, <2>7
  <2>12. TypeInv'
    <3>1. ConnType' /\ NetType'
      BY <1>2 DEF ConnType, NetType, connVars, netVars
    <3>2. PubType'
      BY <1>2, <2>7, <2>10, <2>11 DEF AtMessage
    <3> QED BY <3>1, <3>2
  <2>13. QueuedFrom(k, room, m)
    BY <2>4, <2>5, <2>7, <2>9 DEF QueuedFrom
  <2> HIDE DEF TypeInv, PubType
  <2> QED BY <1>1, <1>2, <2>7, <2>12, <2>13
<1>4. CASE PublishSends(m)
  <2>1. PICK w : w = [m |-> m, by |-> 0]
    OBVIOUS
  <2>2. /\ state = "connected" /\ writes' = Append(writes, w)
        /\ promise' = [promise EXCEPT ![m] = "waiting"]
        /\ UNCHANGED <<queue, offline>>
    BY <1>4, <2>1 DEF PublishSends
  <2>3. w \in Waiter
    BY <2>1 DEF Waiter
  <2>4. TypeInv'
    <3>1. ConnType' /\ NetType'
      BY <1>2 DEF ConnType, NetType, connVars, netVars
    <3>2. writes' \in Seq(Waiter)
      BY <2>2, <2>3
    <3>3. promise' \in [Message -> {"none", "waiting", "resolved", "rejected"}]
      BY <2>2
    <3>4. PubType'
      BY <1>2, <2>2, <3>2, <3>3 DEF AtMessage
    <3> QED BY <3>1, <3>4
  <2>5. \A n \in Message : promise'[n] = IF n = m THEN "waiting" ELSE promise[n]
    BY <2>2
  <2> HIDE DEF TypeInv, PubType
  <2> QED BY <1>1, <1>2, <2>1, <2>2, <2>4, <2>5
<1> QED BY <1>1, <1>3, <1>4

(* A flush at its next message.                                            *)
Ended(f) == flush[f].rest = <<>> /\ flush'[f].at = "over" /\ writes' = writes
Stopped(f) == /\ flush[f].rest # <<>> /\ state # "connected"
              /\ flush'[f].at = "rejected" /\ writes' = writes
SendsHead(f) == /\ flush[f].rest # <<>> /\ state = "connected"
                /\ flush'[f].at = "sending"
                /\ \E w \in Waiter : /\ w.m = Head(flush[f].rest) /\ w.by = f
                                     /\ w = [m |-> Head(flush[f].rest), by |-> f]
                                     /\ writes' = Append(writes, w)

LEMMA FlushSendsDoes ==
  ASSUME TypeInv, NEW f \in DOMAIN flush, FlushSends(f)
  PROVE  /\ f \in 1..Len(flush) /\ flush[f].at = "next"
         /\ Len(flush') = Len(flush) /\ \A g \in 1..Len(flush) : g # f => flush'[g] = flush[g]
         /\ flush'[f].rest = flush[f].rest
         /\ Ended(f) \/ Stopped(f) \/ SendsHead(f)
         /\ UNCHANGED <<connVars, queue, promise, pending, timeouts, netVars, history>>
         /\ TypeInv'
<1> USE DEF TypeInv, PubType
<1>1. PICK q : q = flush[f].rest
  OBVIOUS
<1>2. f \in 1..Len(flush) /\ flush[f] \in Flush /\ q \in Seq(Message)
  BY <1>1, FlushIs
<1>3. /\ flush[f].at = "next"
      /\ UNCHANGED <<connVars, queue, promise, pending, timeouts, netVars, history>>
  BY DEF FlushSends
<1>4. PICK at \in {"over", "rejected", "sending"} :
        /\ flush' = [flush EXCEPT ![f].at = at]
        /\ \/ at = "over" /\ q = <<>> /\ writes' = writes
           \/ at = "rejected" /\ q # <<>> /\ state # "connected" /\ writes' = writes
           \/ /\ at = "sending" /\ q # <<>> /\ state = "connected"
              /\ writes' = Append(writes, [m |-> Head(q), by |-> f])
  BY <1>1 DEF FlushSends
<1>5. PICK r : r = [flush[f] EXCEPT !.at = at]
  OBVIOUS
<1>6. r \in Flush /\ r.at = at /\ r.rest = q
  BY <1>1, <1>2, <1>5 DEF Flush, Place
<1>7. flush' = [flush EXCEPT ![f] = r]
  BY <1>2, <1>4, <1>5
<1>8. /\ flush' \in Seq(Flush) /\ Len(flush') = Len(flush)
      /\ flush'[f] = r /\ \A g \in 1..Len(flush) : g # f => flush'[g] = flush[g]
      /\ \A g \in 1..Len(flush') : AtMessage(g)'
  <2>1. r.at \in Open \cup {"rejected"} => r.rest # <<>>
    BY <1>4, <1>6 DEF Open
  <2> QED BY <1>6, <1>7, <2>1, OneMoves
<1>9. ConnType' /\ NetType'
  BY <1>3 DEF ConnType, NetType, connVars, netVars, history
<1>10. CASE at = "sending"
  <2>1. PICK w : w = [m |-> Head(q), by |-> f]
    OBVIOUS
  <2>2. Head(q) \in Message
    BY <1>2, <1>4, <1>10, HeadAndTail
  <2>3. w \in Waiter /\ w.m = Head(q) /\ w.by = f
    BY <1>2, <2>1, <2>2 DEF Waiter
  <2>4. writes' = Append(writes, w) /\ q # <<>> /\ state = "connected"
    BY <1>4, <1>10, <2>1
  <2>5. writes' \in Seq(Waiter)
    BY <2>3, <2>4
  <2>6. PubType'
    BY <1>3, <1>8, <2>5 DEF history
  <2>7. SendsHead(f)
    BY <1>1, <1>6, <1>8, <1>10, <2>1, <2>3, <2>4 DEF SendsHead
  <2>8. TypeInv'
    BY <1>9, <2>6
  <2> HIDE DEF TypeInv, PubType
  <2> QED BY <1>1, <1>2, <1>3, <1>6, <1>8, <2>7, <2>8
<1>11. CASE at # "sending"
  <2>1. Ended(f) \/ Stopped(f)
    BY <1>1, <1>4, <1>6, <1>8, <1>11 DEF Ended, Stopped
  <2>2. PubType'
    BY <1>3, <1>4, <1>8, <1>11 DEF history
  <2>3. TypeInv'
    BY <1>9, <2>2
  <2> HIDE DEF TypeInv, PubType
  <2> QED BY <1>1, <1>2, <1>3, <1>6, <1>8, <2>1, <2>3
<1> QED BY <1>10, <1>11

(* A flush whose message failed.                                           *)
Passes(f) == /\ state = "connected" /\ queue' = queue
             /\ flush'[f].rest = Tail(flush[f].rest) /\ flush'[f].at = "next"
PutsBack(f) == /\ state # "connected" /\ queue' = flush[f].rest \o queue
               /\ flush'[f].rest = <<>> /\ flush'[f].at = "over"

LEMMA FlushCatchesDoes ==
  ASSUME TypeInv, NEW f \in DOMAIN flush, FlushCatches(f)
  PROVE  /\ f \in 1..Len(flush) /\ flush[f].at = "rejected" /\ flush[f].rest # <<>>
         /\ Len(flush') = Len(flush) /\ \A g \in 1..Len(flush) : g # f => flush'[g] = flush[g]
         /\ Passes(f) \/ PutsBack(f)
         /\ UNCHANGED <<connVars, promise, writes, pending, timeouts, netVars, history>>
         /\ TypeInv'
<1> USE DEF TypeInv, PubType
<1>1. PICK q : q = flush[f].rest
  OBVIOUS
<1>2. f \in 1..Len(flush) /\ flush[f] \in Flush /\ q \in Seq(Message)
  BY <1>1, FlushIs
<1>3. /\ flush[f].at = "rejected"
      /\ UNCHANGED <<connVars, promise, writes, pending, timeouts, netVars, history>>
  BY DEF FlushCatches, CatchWith
<1>4. q # <<>>
  BY <1>1, <1>2, <1>3 DEF AtMessage
<1>5. PICK r : r = IF state = "connected" THEN [rest |-> Tail(q), at |-> "next"]
                   ELSE [rest |-> <<>>, at |-> "over"]
  OBVIOUS
<1>6. /\ r \in Flush
      /\ state = "connected" => r.rest = Tail(q) /\ r.at = "next"
      /\ state # "connected" => r.rest = <<>> /\ r.at = "over"
  <2>1. Tail(q) \in Seq(Message) /\ <<>> \in Seq(Message)
    BY <1>2, <1>4, HeadAndTail
  <2> QED BY <1>5, <2>1 DEF Flush, Place
<1>7. /\ flush' = [flush EXCEPT ![f] = r]
      /\ queue' = IF state = "connected" THEN queue ELSE q \o queue
  BY <1>1, <1>5 DEF FlushCatches, CatchWith
<1>8. /\ flush' \in Seq(Flush) /\ Len(flush') = Len(flush)
      /\ flush'[f] = r /\ \A g \in 1..Len(flush) : g # f => flush'[g] = flush[g]
      /\ \A g \in 1..Len(flush') : AtMessage(g)'
  <2>1. r.at \in Open \cup {"rejected"} => r.rest # <<>>
    BY <1>6 DEF Open
  <2> QED BY <1>6, <1>7, <2>1, OneMoves
<1>9. ConnType' /\ NetType'
  BY <1>3 DEF ConnType, NetType, connVars, netVars, history
<1>10. queue' \in Seq(Message)
  <2>1. q \o queue \in Seq(Message)
    BY <1>2, Joined
  <2> QED BY <1>7, <2>1
<1>11. PubType'
  BY <1>3, <1>8, <1>10 DEF history
<1>12. Passes(f) \/ PutsBack(f)
  BY <1>1, <1>6, <1>7, <1>8 DEF Passes, PutsBack
<1>13. TypeInv'
  BY <1>9, <1>11
<1> HIDE DEF TypeInv, PubType
<1> QED BY <1>1, <1>2, <1>3, <1>4, <1>8, <1>12, <1>13

(* What a write that is taken, an answer and a timer do to the flushes.    *)
Wakes(ws, at) ==
  /\ Len(flush') = Len(flush)
  /\ \A f \in 1..Len(flush) :
       /\ ~Woken(f, ws) => flush'[f] = flush[f]
       /\ Woken(f, ws) =>
            /\ flush[f].rest # <<>> /\ flush[f].at \in Open /\ flush'[f].at = at
            /\ at # "next" => flush'[f].rest = flush[f].rest
            /\ at = "next" => flush'[f].rest = Tail(flush[f].rest)

LEMMA ResumedWakes ==
  ASSUME PubType, NEW ws, NEW at \in {"next", "waiting", "rejected"}, flush' = Resumed(ws, at)
  PROVE  /\ Wakes(ws, at) /\ flush' \in Seq(Flush)
         /\ \A f \in 1..Len(flush') : at = "next" \/ AtMessage(f)'
<1>0. flush \in Seq(Flush) /\ \A f \in 1..Len(flush) : AtMessage(f)
  BY DEF PubType
<1>1. /\ Resumed(ws, at) \in Seq(Flush) /\ Len(Resumed(ws, at)) = Len(flush)
      /\ \A f \in 1..Len(flush) :
              /\ ~Woken(f, ws) => Resumed(ws, at)[f] = flush[f]
              /\ Woken(f, ws) =>
                   /\ flush[f].rest # <<>> /\ flush[f].at \in Open
                   /\ Resumed(ws, at)[f] \in Flush /\ Resumed(ws, at)[f].at = at
                   /\ at # "next" => Resumed(ws, at)[f].rest = flush[f].rest
                   /\ at = "next" => Resumed(ws, at)[f].rest = Tail(flush[f].rest)
  BY <1>0, ResumedIs
<1>2. Wakes(ws, at) /\ flush' \in Seq(Flush)
  BY <1>1 DEF Wakes
<1>3. ASSUME NEW f \in 1..Len(flush'), at # "next" PROVE AtMessage(f)'
  BY <1>0, <1>2, <1>3 DEF Wakes, AtMessage
<1> QED BY <1>2, <1>3

LEMMA WakesNext ==
  ASSUME PubType, NEW ws, Wakes(ws, "next")
  PROVE  \A f \in 1..Len(flush') : AtMessage(f)'
BY DEF PubType, Wakes, AtMessage, Open

LEMMA WrittenDoes ==
  ASSUME TypeInv, Written
  PROVE  \E w \in Waiter :
           /\ Calm /\ writes # <<>> /\ w = Head(writes) /\ writes' = Tail(writes)
           /\ ChannelFor(w) \in Channel /\ pending'[ChannelFor(w)] = {w}
           /\ \A c \in Channel \ {ChannelFor(w)} : pending'[c] = pending[c]
           /\ robbed' = robbed \cup {v.m : v \in pending[ChannelFor(w)]}
           /\ timeouts' = Append(timeouts, w)
           /\ wire' = Append(wire, w.m)
           /\ Wakes({w}, "waiting")
           /\ UNCHANGED <<connVars, queue, promise, inbox, log, offline, connects, losses>>
           /\ TypeInv'
<1> USE DEF TypeInv, PubType, NetType
<1>1. PICK w : w = Head(writes)
  OBVIOUS
<1>2. /\ Calm /\ writes # <<>> /\ writes' = Tail(writes)
      /\ pending' = [pending EXCEPT ![ChannelFor(w)] = {w}]
      /\ robbed' = robbed \cup {v.m : v \in pending[ChannelFor(w)]}
      /\ timeouts' = Append(timeouts, w)
      /\ wire' = Append(wire, w.m)
      /\ flush' = Resumed({w}, "waiting")
      /\ UNCHANGED <<connVars, queue, promise, inbox, log, offline, connects, losses>>
  BY <1>1 DEF Written
<1>3. w \in Waiter /\ w.m \in Message /\ writes' \in Seq(Waiter)
  <2>1. Head(writes) \in Waiter /\ Tail(writes) \in Seq(Waiter)
    BY <1>2, HeadAndTail
  <2> QED BY <1>1, <1>2, <2>1 DEF Waiter
<1>4. ChannelFor(w) \in Channel
  BY <1>3, Messages DEF ChannelFor
<1>5. /\ pending' \in [Channel -> SUBSET Waiter] /\ pending'[ChannelFor(w)] = {w}
      /\ \A c \in Channel \ {ChannelFor(w)} : pending'[c] = pending[c]
  BY <1>2, <1>3, <1>4
<1>6. Wakes({w}, "waiting") /\ flush' \in Seq(Flush) /\ \A f \in 1..Len(flush') : AtMessage(f)'
  BY <1>2, ResumedWakes
<1>7. robbed' \subseteq Message
  <2>1. \A v \in pending[ChannelFor(w)] : v.m \in Message
    BY <1>4 DEF Waiter
  <2> QED BY <1>2, <2>1
<1>8. timeouts' \in Seq(Waiter) /\ wire' \in Seq(Message)
  BY <1>2, <1>3
<1>9. TypeInv'
  <2>1. ConnType'
    BY <1>2 DEF ConnType, connVars
  <2>2. NetType'
    BY <1>2, <1>8
  <2>3. \A c \in Channel : \A u, v \in pending'[c] : u = v
    BY <1>5
  <2>4. PubType'
    BY <1>2, <1>3, <1>5, <1>6, <1>7, <1>8, <2>3
  <2> QED BY <2>1, <2>2, <2>4
<1> HIDE DEF TypeInv, PubType, NetType
<1> QED BY <1>1, <1>2, <1>3, <1>4, <1>5, <1>6, <1>9

(* What those who wait are told.                                           *)
Tells(ws, outcome) ==
  \A m \in Message :
    promise'[m] = IF promise[m] = "waiting" /\ (\E w \in ws : w.m = m) THEN outcome ELSE promise[m]

LEMMA SettledTells ==
  ASSUME PubType, NEW ws, NEW outcome \in {"resolved", "rejected"},
         promise' = Settled({w.m : w \in ws}, outcome)
  PROVE  /\ Tells(ws, outcome)
         /\ promise' \in [Message -> {"none", "waiting", "resolved", "rejected"}]
<1>1. PICK ms : ms = {w.m : w \in ws}
  OBVIOUS
<1>2. promise \in [Message -> {"none", "waiting", "resolved", "rejected"}]
  BY DEF PubType
<1>3. /\ Settled(ms, outcome) \in [Message -> {"none", "waiting", "resolved", "rejected"}]
      /\ \A m \in Message :
           Settled(ms, outcome)[m] =
             IF m \in ms /\ promise[m] = "waiting" THEN outcome ELSE promise[m]
  BY <1>2, SettledIs
<1>4. /\ promise' \in [Message -> {"none", "waiting", "resolved", "rejected"}]
      /\ \A m \in Message :
           promise'[m] = IF m \in ms /\ promise[m] = "waiting" THEN outcome ELSE promise[m]
  <2>1. promise' = Settled(ms, outcome)
    BY <1>1
  <2> QED BY <1>3, <2>1
<1>5. \A m : m \in ms <=> \E w \in ws : w.m = m
  BY <1>1
<1> QED BY <1>4, <1>5 DEF Tells

LEMMA ReceiveDoes ==
  ASSUME TypeInv, Receive
  PROVE  \E m \in Message :
           /\ Calm /\ inbox # <<>> /\ m = Head(inbox) /\ inbox' = Tail(inbox)
           /\ ChannelOf[m] \in Channel /\ pending'[ChannelOf[m]] = {}
           /\ \A c \in Channel \ {ChannelOf[m]} : pending'[c] = pending[c]
           /\ \/ /\ m \in Refused
                 /\ Tells(pending[ChannelOf[m]], "rejected")
                 /\ Wakes(pending[ChannelOf[m]], "rejected")
              \/ /\ m \notin Refused
                 /\ Tells(pending[ChannelOf[m]], "resolved")
                 /\ Wakes(pending[ChannelOf[m]], "next")
           /\ UNCHANGED <<connVars, queue, writes, timeouts, wire, log, history>>
           /\ TypeInv'
<1> USE DEF TypeInv, PubType, NetType
<1>1. PICK m : m = Head(inbox)
  OBVIOUS
<1>2. PICK ws : ws = pending[ChannelOf[m]]
  OBVIOUS
<1>3. /\ Calm /\ inbox # <<>> /\ inbox' = Tail(inbox)
      /\ pending' = [pending EXCEPT ![ChannelOf[m]] = {}]
      /\ IF m \in Refused THEN Reject(ws) ELSE Resolve(ws)
      /\ UNCHANGED <<connVars, queue, writes, timeouts, wire, log, history>>
  BY <1>1, <1>2 DEF Receive
<1>4. m \in Message /\ inbox' \in Seq(Message)
  <2>1. Head(inbox) \in Message /\ Tail(inbox) \in Seq(Message)
    BY <1>3, HeadAndTail
  <2> QED BY <1>1, <1>3, <2>1
<1>5. ChannelOf[m] \in Channel
  BY <1>4, Messages
<1>6. /\ pending' \in [Channel -> SUBSET Waiter] /\ pending'[ChannelOf[m]] = {}
      /\ \A c \in Channel \ {ChannelOf[m]} : pending'[c] = pending[c]
  BY <1>3, <1>5
<1>7. /\ \/ m \in Refused /\ Tells(ws, "rejected") /\ Wakes(ws, "rejected")
         \/ m \notin Refused /\ Tells(ws, "resolved") /\ Wakes(ws, "next")
      /\ promise' \in [Message -> {"none", "waiting", "resolved", "rejected"}]
      /\ flush' \in Seq(Flush) /\ \A f \in 1..Len(flush') : AtMessage(f)'
  <2>1. CASE m \in Refused
    <3>1. promise' = Settled({w.m : w \in ws}, "rejected") /\ flush' = Resumed(ws, "rejected")
      BY <1>3, <2>1 DEF Reject
    <3>2. /\ Tells(ws, "rejected")
          /\ promise' \in [Message -> {"none", "waiting", "resolved", "rejected"}]
      BY <3>1, SettledTells
    <3>3. Wakes(ws, "rejected") /\ flush' \in Seq(Flush) /\ \A f \in 1..Len(flush') : AtMessage(f)'
      BY <3>1, ResumedWakes
    <3> QED BY <2>1, <3>2, <3>3
  <2>2. CASE m \notin Refused
    <3>1. promise' = Settled({w.m : w \in ws}, "resolved") /\ flush' = Resumed(ws, "next")
      BY <1>3, <2>2 DEF Resolve
    <3>2. /\ Tells(ws, "resolved")
          /\ promise' \in [Message -> {"none", "waiting", "resolved", "rejected"}]
      BY <3>1, SettledTells
    <3>3. Wakes(ws, "next") /\ flush' \in Seq(Flush)
      BY <3>1, ResumedWakes
    <3>4. \A f \in 1..Len(flush') : AtMessage(f)'
      <4>1. PubType
        OBVIOUS
      <4> HIDE DEF TypeInv, PubType, NetType
      <4> QED BY <3>3, <4>1, WakesNext
    <3> QED BY <2>2, <3>2, <3>3, <3>4
  <2> QED BY <2>1, <2>2
<1>8. TypeInv'
  <2>1. ConnType'
    BY <1>3 DEF ConnType, connVars, history
  <2>2. NetType'
    BY <1>3, <1>4
  <2>3. \A c \in Channel : \A u, v \in pending'[c] : u = v
    BY <1>6
  <2>4. PubType'
    BY <1>3, <1>6, <1>7, <2>3 DEF history
  <2> QED BY <2>1, <2>2, <2>4
<1> HIDE DEF TypeInv, PubType, NetType
<1> QED BY <1>1, <1>2, <1>3, <1>4, <1>5, <1>6, <1>7, <1>8

LEMMA ExpireDoes ==
  ASSUME TypeInv, Expire
  PROVE  \E w \in Waiter :
           /\ Calm /\ timeouts # <<>> /\ w = Head(timeouts) /\ timeouts' = Tail(timeouts)
           /\ ChannelFor(w) \in Channel
           /\ \/ /\ pending[ChannelFor(w)] = {}
                 /\ UNCHANGED <<pending, robbed, promise, flush>>
              \/ /\ pending[ChannelFor(w)] # {} /\ pending'[ChannelFor(w)] = {}
                 /\ \A c \in Channel \ {ChannelFor(w)} : pending'[c] = pending[c]
                 /\ robbed' = robbed \cup {v.m : v \in pending[ChannelFor(w)] \ {w}}
                 /\ Tells({w}, "rejected") /\ Wakes({w}, "rejected")
           /\ UNCHANGED <<connVars, queue, writes, netVars, offline, connects, losses>>
           /\ TypeInv'
<1> USE DEF TypeInv, PubType, NetType
<1>1. PICK w : w = Head(timeouts)
  OBVIOUS
<1>2. /\ Calm /\ timeouts # <<>> /\ timeouts' = Tail(timeouts)
      /\ UNCHANGED <<connVars, queue, writes, netVars, offline, connects, losses>>
  BY DEF Expire
<1>3. w \in Waiter /\ w.m \in Message /\ timeouts' \in Seq(Waiter)
  <2>1. Head(timeouts) \in Waiter /\ Tail(timeouts) \in Seq(Waiter)
    BY <1>2, HeadAndTail
  <2> QED BY <1>1, <1>2, <2>1 DEF Waiter
<1>4. ChannelFor(w) \in Channel
  BY <1>3, Messages DEF ChannelFor
<1>5. ConnType' /\ NetType'
  BY <1>2 DEF ConnType, connVars, netVars
<1>6. CASE pending[ChannelFor(w)] = {}
  <2>1. UNCHANGED <<pending, robbed, promise, flush>>
    BY <1>1, <1>6 DEF Expire
  <2>2. PubType'
    BY <1>2, <1>3, <2>1 DEF AtMessage
  <2>3. TypeInv'
    BY <1>5, <2>2
  <2> HIDE DEF TypeInv, PubType, NetType
  <2> QED BY <1>1, <1>2, <1>3, <1>4, <1>6, <2>1, <2>3
<1>7. CASE pending[ChannelFor(w)] # {}
  <2>1. /\ pending' = [pending EXCEPT ![ChannelFor(w)] = {}]
        /\ robbed' = robbed \cup {v.m : v \in pending[ChannelFor(w)] \ {w}}
        /\ Reject({w})
    BY <1>1, <1>7 DEF Expire
  <2>2. PICK ws : ws = {w}
    OBVIOUS
  <2>3. promise' = Settled({v.m : v \in ws}, "rejected") /\ flush' = Resumed(ws, "rejected")
    BY <2>1, <2>2 DEF Reject
  <2>4. /\ Tells(ws, "rejected")
        /\ promise' \in [Message -> {"none", "waiting", "resolved", "rejected"}]
    BY <2>3, SettledTells
  <2>5. Wakes(ws, "rejected") /\ flush' \in Seq(Flush) /\ \A f \in 1..Len(flush') : AtMessage(f)'
    BY <2>3, ResumedWakes
  <2>6. /\ pending' \in [Channel -> SUBSET Waiter] /\ pending'[ChannelFor(w)] = {}
        /\ \A c \in Channel \ {ChannelFor(w)} : pending'[c] = pending[c]
    BY <1>4, <2>1
  <2>7. robbed' \subseteq Message
    <3>1. \A v \in pending[ChannelFor(w)] : v.m \in Message
      BY <1>4 DEF Waiter
    <3> QED BY <2>1, <3>1
  <2>8. \A c \in Channel : \A u, v \in pending'[c] : u = v
    BY <2>6
  <2>9. PubType'
    BY <1>2, <1>3, <2>4, <2>5, <2>6, <2>7, <2>8
  <2>10. TypeInv'
    BY <1>5, <2>9
  <2> HIDE DEF TypeInv, PubType, NetType
  <2> QED BY <1>1, <1>2, <1>3, <1>4, <1>7, <2>1, <2>2, <2>4, <2>5, <2>6, <2>10
<1> QED BY <1>6, <1>7

(* The server reads a request, and carries it out or loses it.             *)
Reads == Serve \/ GarbleRequests

LEMMA ReadsDoes ==
  ASSUME TypeInv, Reads
  PROVE  \E m \in Message :
           /\ wire # <<>> /\ m = Head(wire) /\ wire' = Tail(wire)
           /\ \/ (m \in Refused \/ inbox' = inbox) /\ log' = log
              \/ m \notin Refused /\ log' = Append(log, m)
           /\ inbox' = inbox \/ inbox' = Append(inbox, m)
           /\ UNCHANGED <<connVars, pubVars, history>>
           /\ TypeInv'
<1> USE DEF TypeInv, NetType
<1>1. PICK m : m = Head(wire)
  OBVIOUS
<1>2. /\ wire # <<>> /\ wire' = Tail(wire)
      /\ \/ (m \in Refused \/ inbox' = inbox) /\ log' = log
         \/ m \notin Refused /\ log' = Append(log, m)
      /\ inbox' = inbox \/ inbox' = Append(inbox, m)
      /\ UNCHANGED <<connVars, pubVars, history>>
  BY <1>1 DEF Reads, Serve, GarbleRequests
<1>3. m \in Message /\ wire' \in Seq(Message)
  <2>1. Head(wire) \in Message /\ Tail(wire) \in Seq(Message)
    BY <1>2, HeadAndTail
  <2> QED BY <1>1, <1>2, <2>1
<1>4. log' \in Seq(Message) /\ inbox' \in Seq(Message)
  <2>1. Append(log, m) \in Seq(Message) /\ Append(inbox, m) \in Seq(Message)
    BY <1>3
  <2>2. log' = log \/ log' = Append(log, m)
    BY <1>2
  <2> QED BY <1>2, <2>1, <2>2
<1>5. ConnType' /\ PubType' /\ NetType'
  <2>1. NetType'
    BY <1>3, <1>4
  <2>2. ConnType'
    BY <1>2 DEF ConnType, connVars, history
  <2>3. PubType'
    BY <1>2 DEF PubType, pubVars, history, AtMessage
  <2> QED BY <2>1, <2>2, <2>3
<1>6. TypeInv'
  BY <1>5
<1> HIDE DEF TypeInv, NetType
<1> QED BY <1>1, <1>2, <1>3, <1>6

(* A connection is tried, or made.                                         *)
Dials == UserConnects \/ TimerConnects \/ Connected

LEMMA DialsDoes ==
  ASSUME TypeInv, Dials
  PROVE  /\ UNCHANGED <<leftover, pubVars, netVars, offline, robbed>>
         /\ \/ state # "connected" /\ state' = "connecting" /\ resubbing' = resubbing
            \/ /\ state = "connecting" /\ state' = "connected" /\ resubbing' = TRUE
               /\ Calm
         /\ TypeInv'
<1> USE DEF TypeInv
<1>1. ConnType' /\ UNCHANGED <<leftover, pubVars, netVars, offline, robbed>>
  <2>1. /\ UNCHANGED <<leftover, auto, pubVars, netVars, offline, robbed, losses>>
        /\ state' \in {"connecting", "connected"}
        /\ timer' \in BOOLEAN /\ byTimer' \in BOOLEAN /\ resubbing' \in BOOLEAN
    BY DEF Dials, UserConnects, TimerConnects, Connected, Connect, ConnType, history
  <2>2. connects' = connects \/ (connects < MaxConnects /\ connects' = connects + 1)
    <3>1. CASE UserConnects \/ TimerConnects
      BY <3>1 DEF UserConnects, TimerConnects, Connect
    <3>2. CASE Connected
      BY <3>2 DEF Connected, history
    <3> QED BY <3>1, <3>2 DEF Dials
  <2>3. connects' \in 0..MaxConnects
    <3>1. connects \in 0..MaxConnects /\ MaxConnects \in Nat
      BY ClientAssumption DEF ConnType
    <3> QED BY ONLY <2>2, <3>1
  <2> QED BY <2>1, <2>3 DEF ConnType
<1>2. \/ state # "connected" /\ state' = "connecting" /\ resubbing' = resubbing
      \/ state = "connecting" /\ state' = "connected" /\ resubbing' = TRUE /\ Calm
  BY DEF Dials, UserConnects, TimerConnects, Connected, Connect
<1>3. PubType' /\ NetType'
  BY <1>1 DEF PubType, NetType, AtMessage, pubVars, netVars
<1>4. TypeInv'
  BY <1>1, <1>3
<1> HIDE DEF TypeInv
<1> QED BY <1>1, <1>2, <1>4

(* What a cleanup leaves, in one view.                                     *)
Settles == \A m \in Message :
  promise'[m] = IF /\ promise[m] = "waiting"
                   /\ \/ m \in {w.m : w \in Waiters}
                      \/ \E w \in Range(writes) : w.by = 0 /\ w.m = m
                      \/ queue' = <<>> /\ m \in Range(queue)
                THEN "rejected" ELSE promise[m]

LEMMA CleansUpDoes ==
  ASSUME TypeInv, CleansUp
  PROVE  /\ state' # "connected" /\ resubbing' = FALSE
         /\ Settles /\ queue' \in {queue, <<>>}
         /\ Wakes(Waiters \cup Range(writes), "rejected")
         /\ \A c \in Channel : pending'[c] = {}
         /\ \E sent \in Seq(Message) :
              /\ log' = log \o sent /\ Range(sent) \subseteq Range(wire)
              /\ \A S : Rising(wire, S) => Rising(sent, S)
         /\ writes' = <<>> /\ wire' = <<>> /\ inbox' = <<>>
         /\ UNCHANGED <<timeouts, offline, robbed>>
         /\ PubType' /\ NetType'
<1>1. PICK keep \in BOOLEAN, armed \in BOOLEAN : Cleanup(keep, armed)
  BY DEF CleansUp
<1>2. /\ state' # "connected" /\ resubbing' = FALSE
      /\ \A m \in Message :
              promise'[m] =
                IF /\ promise[m] = "waiting"
                   /\ \/ m \in {w.m : w \in Waiters}
                      \/ \E w \in Range(writes) : w.by = 0 /\ w.m = m
                      \/ ~keep /\ m \in Range(queue)
                THEN "rejected" ELSE promise[m]
      /\ flush' = Resumed(Waiters \cup Range(writes), "rejected")
      /\ queue' = IF keep THEN queue ELSE <<>>
      /\ \A c \in Channel : pending'[c] = {}
      /\ \E arrived \in 0..Len(wire) : log' = log \o Accepted(SubSeq(wire, 1, arrived))
      /\ writes' = <<>> /\ wire' = <<>> /\ inbox' = <<>>
      /\ UNCHANGED <<timeouts, offline, robbed>>
      /\ PubType' /\ NetType'
  BY <1>1, CleanupDoes DEF CleansUp
<1>3. Wakes(Waiters \cup Range(writes), "rejected")
  BY <1>2, ResumedWakes DEF TypeInv
<1>4. Settles
  <2>1. ASSUME NEW m \in Range(queue) PROVE ~keep <=> queue' = <<>>
    BY <1>2, NoneInEmpty
  <2> QED BY <1>2, <2>1 DEF Settles
<1>5. PICK arrived \in 0..Len(wire) : log' = log \o Accepted(SubSeq(wire, 1, arrived))
  BY <1>2
<1>6. PICK p : p = SubSeq(wire, 1, arrived)
  OBVIOUS
<1>7. wire \in Seq(Message)
  BY DEF TypeInv, NetType
<1>8. /\ p \in Seq(Message) /\ Len(p) = arrived /\ \A i \in 1..arrived : p[i] = wire[i]
      /\ arrived \in Nat /\ Len(wire) \in Nat
  BY <1>6, <1>7
<1>9. /\ Accepted(p) \in Seq(Message)
      /\ Range(Accepted(p)) \subseteq Range(p)
      /\ \A S : Rising(p, S) => Rising(Accepted(p), S)
  BY <1>8, AcceptedIs
<1>10. Range(p) \subseteq Range(wire)
  <2>1. \A m : m \in Range(p) => \E i \in 1..Len(p) : m = p[i]
    BY <1>8, InRange
  <2>2. \A m : m \in Range(wire) <=> \E i \in 1..Len(wire) : m = wire[i]
    BY <1>7, InRange
  <2> QED BY <1>8, <2>1, <2>2
<1>11. \A S : Rising(wire, S) => Rising(p, S)
  BY <1>8 DEF Rising
<1>12. log' = log \o Accepted(p)
  BY <1>5, <1>6
<1>13. \E sent \in Seq(Message) :
              /\ log' = log \o sent /\ Range(sent) \subseteq Range(wire)
              /\ \A S : Rising(wire, S) => Rising(sent, S)
  BY <1>9, <1>10, <1>11, <1>12
<1> QED BY <1>2, <1>3, <1>4, <1>13

(* The cases of a step.                                                    *)
LEMMA Steps ==
  ASSUME Next
  PROVE  \/ Dials
         \/ ConnectFails \/ Disconnect \/ Lost
            \/ \E i \in DOMAIN leftover : ConnectNotices(i) \/ PingNotices(i)
         \/ Starts
         \/ Publish
         \/ \E f \in DOMAIN flush : FlushSends(f) \/ FlushCatches(f)
         \/ Written
         \/ Receive
         \/ Expire
         \/ Reads
BY DEF Next, Dials, Starts, Reads

LEMMA InitTypes == Init => TypeInv
<1> SUFFICES ASSUME Init PROVE TypeInv
  OBVIOUS
<1>1. ConnType
  <2>1. connects \in 0..MaxConnects /\ losses \in 0..MaxLosses
    BY ClientAssumption DEF Init
  <2>2. leftover \in Seq({"connect", "ping", "resubscribe"})
    BY DEF Init
  <2> QED BY <2>1, <2>2 DEF Init, ConnType
<1>2. PubType
  BY DEF Init, PubType, AtMessage
<1>3. NetType
  BY DEF Init, NetType
<1> QED BY <1>1, <1>2, <1>3 DEF TypeInv

LEMMA StepTypes == TypeInv /\ [Next]_vars => TypeInv'
<1> SUFFICES ASSUME TypeInv, [Next]_vars PROVE TypeInv'
  OBVIOUS
<1>1. CASE UNCHANGED vars
  <2>1. ConnType'
    BY <1>1 DEF TypeInv, ConnType, vars, connVars, history
  <2>2. PubType'
    BY <1>1 DEF TypeInv, PubType, vars, pubVars, history, AtMessage
  <2>3. NetType'
    BY <1>1 DEF TypeInv, NetType, vars, netVars
  <2> QED BY <2>1, <2>2, <2>3 DEF TypeInv
<1>2. CASE Next
  <2>1. CASE Dials
    BY <2>1, DialsDoes
  <2>2. CASE \/ ConnectFails \/ Disconnect \/ Lost
             \/ \E i \in DOMAIN leftover : ConnectNotices(i) \/ PingNotices(i)
    <3>1. CleansUp /\ ConnType'
      BY <2>2, WhoCleansUp
    <3>2. PubType' /\ NetType'
      BY <3>1, CleansUpDoes
    <3> QED BY <3>1, <3>2 DEF TypeInv
  <2>3. CASE Starts
    BY <2>3, StartsDoes
  <2>4. CASE Publish
    BY <2>4, PublishDoes
  <2>5. ASSUME NEW f \in DOMAIN flush, FlushSends(f) \/ FlushCatches(f) PROVE TypeInv'
    BY <2>5, FlushSendsDoes, FlushCatchesDoes
  <2>6. CASE Written
    BY <2>6, WrittenDoes
  <2>7. CASE Receive
    BY <2>7, ReceiveDoes
  <2>8. CASE Expire
    BY <2>8, ExpireDoes
  <2>9. CASE Reads
    BY <2>9, ReadsDoes
  <2> QED BY <1>2, <2>1, <2>2, <2>3, <2>4, <2>5, <2>6, <2>7, <2>8, <2>9, Steps
<1> QED BY <1>1, <1>2

(* TypeOK, of which TypeInv says a little more: a flush that is at a       *)
(* message has one.                                                        *)
THEOREM TypeCorrect == Spec => []TypeOK
<1>1. TypeInv => TypeOK
  <2> SUFFICES ASSUME TypeInv PROVE TypeOK
    OBVIOUS
  <2>1. ConnType /\ PubType /\ NetType
    BY DEF TypeInv
  <2>2. flush \in Seq([rest : Seq(Message), at : Place])
    BY <2>1 DEF PubType, Flush
  <2> QED BY <2>1, <2>2 DEF TypeOK, ConnType, PubType, NetType
<1> QED BY InitTypes, StepTypes, <1>1, PTL DEF Spec

-----------------------------------------------------------------------------
(* An answer that is no error answers a message that was published, and an *)
(* entry is under the channel of its message.                              *)
Answered == \A m \in Range(inbox) : m \notin Refused => m \in Range(log)
ByChannel == \A c \in Channel : \A w \in pending[c] : ChannelFor(w) = c

ResolvedInv == Answered /\ ByChannel /\ ResolvedIsPublished

LEMMA InitResolved == Init => ResolvedInv
<1> SUFFICES ASSUME Init PROVE ResolvedInv
  OBVIOUS
<1>1. Range(inbox) = {}
  BY NoneInEmpty DEF Init
<1> QED BY <1>1 DEF Init, ResolvedInv, Answered, ByChannel, ResolvedIsPublished

(* No message leaves the log, so that only a step that resolves matters.   *)
LEMMA NothingResolved ==
  ASSUME ResolvedIsPublished, Range(log) \subseteq Range(log'),
         \A m \in Message : promise'[m] = "resolved" => promise[m] = "resolved"
  PROVE  ResolvedIsPublished'
BY DEF ResolvedIsPublished

LEMMA StepResolved == TypeInv /\ ResolvedInv /\ [Next]_vars => ResolvedInv'
<1> SUFFICES ASSUME TypeInv, ResolvedInv, [Next]_vars PROVE ResolvedInv'
  OBVIOUS
<1> USE DEF ResolvedInv
<1>0. /\ queue \in Seq(Message) /\ writes \in Seq(Waiter) /\ wire \in Seq(Message)
      /\ inbox \in Seq(Message) /\ log \in Seq(Message)
  BY DEF TypeInv, PubType, NetType
<1>1. ASSUME UNCHANGED <<promise, pending, inbox, log>> PROVE ResolvedInv'
  BY <1>1, NothingResolved DEF Answered, ByChannel, ChannelFor
<1>2. CASE UNCHANGED vars
  BY <1>1, <1>2 DEF vars, pubVars, netVars
<1>3. CASE Dials
  BY <1>1, <1>3, DialsDoes DEF pubVars, netVars
<1>4. CASE \/ ConnectFails \/ Disconnect \/ Lost
           \/ \E i \in DOMAIN leftover : ConnectNotices(i) \/ PingNotices(i)
  <2>1. CleansUp
    BY <1>4, WhoCleansUp
  <2>2. PICK sent \in Seq(Message) :
          /\ log' = log \o sent /\ inbox' = <<>> /\ Settles
          /\ \A c \in Channel : pending'[c] = {}
    BY <2>1, CleansUpDoes
  <2>3. Range(log) \subseteq Range(log')
    <3>1. Range(log \o sent) = Range(log) \cup Range(sent)
      BY <1>0, Joined
    <3> QED BY <2>2, <3>1
  <2>4. ResolvedIsPublished'
    BY <2>2, <2>3, NothingResolved DEF Settles
  <2>5. Answered'
    BY <2>2, NoneInEmpty DEF Answered
  <2>6. ByChannel'
    BY <2>2 DEF ByChannel
  <2> QED BY <2>4, <2>5, <2>6
<1>5. CASE Starts
  BY <1>1, <1>5, StartsDoes
<1>6. CASE Publish
  <2>1. PICK m \in Message :
          \/ \E k, room : QueuedFrom(k, room, m)
          \/ \A n \in Message : promise'[n] = IF n = m THEN "waiting" ELSE promise[n]
    BY <1>6, PublishDoes
  <2>2. \A n \in Message : promise'[n] = "resolved" => promise[n] = "resolved"
    BY <2>1 DEF QueuedFrom
  <2>3. UNCHANGED <<pending, inbox, log>>
    BY <1>6, PublishDoes DEF netVars
  <2> QED BY <2>2, <2>3, NothingResolved DEF Answered, ByChannel, ChannelFor
<1>7. ASSUME NEW f \in DOMAIN flush, FlushSends(f) \/ FlushCatches(f) PROVE ResolvedInv'
  BY <1>1, <1>7, FlushSendsDoes, FlushCatchesDoes DEF netVars
<1>8. CASE Written
  <2>1. PICK w \in Waiter :
          /\ pending'[ChannelFor(w)] = {w}
          /\ \A c \in Channel \ {ChannelFor(w)} : pending'[c] = pending[c]
          /\ UNCHANGED <<promise, inbox, log>>
    BY <1>8, WrittenDoes
  <2>2. ByChannel'
    BY <2>1 DEF ByChannel, ChannelFor
  <2> QED BY <2>1, <2>2, NothingResolved DEF Answered
<1>9. CASE Receive
  <2>1. PICK m \in Message :
          /\ inbox # <<>> /\ m = Head(inbox) /\ inbox' = Tail(inbox)
          /\ ChannelOf[m] \in Channel /\ pending'[ChannelOf[m]] = {}
          /\ \A c \in Channel \ {ChannelOf[m]} : pending'[c] = pending[c]
          /\ \/ m \in Refused /\ Tells(pending[ChannelOf[m]], "rejected")
             \/ m \notin Refused /\ Tells(pending[ChannelOf[m]], "resolved")
          /\ UNCHANGED log
    BY <1>9, ReceiveDoes DEF history
  <2>2. Range(inbox) = {m} \cup Range(inbox')
    BY <1>0, <2>1, HeadAndTail
  <2>3. Answered'
    BY <2>1, <2>2 DEF Answered
  <2>4. ByChannel'
    BY <2>1 DEF ByChannel
  <2>5. CASE m \in Refused
    BY <2>1, <2>3, <2>4, <2>5, NothingResolved DEF Tells
  <2>6. CASE m \notin Refused
    <3>1. m \in Range(log)
      BY <2>2, <2>6 DEF Answered
    <3>2. ASSUME NEW n \in Message, promise'[n] = "resolved", promise[n] # "resolved",
                 \A k \in Message \ {n} : ChannelOf[k] # ChannelOf[n]
          PROVE  n = m
      <4>1. PICK w \in pending[ChannelOf[m]] : w.m = n
        BY <2>1, <2>6, <3>2 DEF Tells
      <4>2. ChannelOf[n] = ChannelOf[m]
        BY <2>1, <4>1 DEF ByChannel, ChannelFor
      <4> QED BY <3>2, <4>2
    <3>3. ResolvedIsPublished'
      BY <2>1, <3>1, <3>2 DEF ResolvedIsPublished
    <3> QED BY <2>3, <2>4, <3>3
  <2> QED BY <2>5, <2>6
<1>10. CASE Expire
  <2>1. PICK w \in Waiter :
          /\ \/ UNCHANGED <<pending, promise>>
             \/ /\ pending'[ChannelFor(w)] = {}
                /\ \A c \in Channel \ {ChannelFor(w)} : pending'[c] = pending[c]
                /\ Tells({w}, "rejected")
          /\ UNCHANGED <<inbox, log>>
    BY <1>10, ExpireDoes DEF netVars
  <2>2. \A m \in Message : promise'[m] = "resolved" => promise[m] = "resolved"
    BY <2>1 DEF Tells
  <2>3. ByChannel'
    BY <2>1 DEF ByChannel, ChannelFor
  <2> QED BY <2>1, <2>2, <2>3, NothingResolved DEF Answered
<1>11. CASE Reads
  <2>1. PICK m \in Message :
          /\ \/ (m \in Refused \/ inbox' = inbox) /\ log' = log
             \/ m \notin Refused /\ log' = Append(log, m)
          /\ inbox' = inbox \/ inbox' = Append(inbox, m)
          /\ UNCHANGED <<promise, pending>>
    BY <1>11, ReadsDoes DEF pubVars
  <2>2. /\ Range(Append(log, m)) = Range(log) \cup {m}
        /\ Range(Append(inbox, m)) = Range(inbox) \cup {m}
    BY <1>0, Appended
  <2>3. Answered'
    BY <2>1, <2>2 DEF Answered
  <2>4. ByChannel'
    BY <2>1 DEF ByChannel, ChannelFor
  <2> QED BY <2>1, <2>2, <2>3, <2>4, NothingResolved
<1> QED
  BY <1>2, <1>3, <1>4, <1>5, <1>6, <1>7, <1>8, <1>9, <1>10, <1>11, Steps

(* ResolvedIsPublished (client.ts:248-291): where messages do not share a  *)
(* channel, publish() returns without an error only what the server has    *)
(* published.                                                              *)
THEOREM ResolvedWasPublished == Spec => []ResolvedIsPublished
<1>1. ResolvedInv => ResolvedIsPublished
  BY DEF ResolvedInv
<1> QED
  BY InitTypes, StepTypes, InitResolved, StepResolved, <1>1, PTL DEF Spec

-----------------------------------------------------------------------------
(* No publish is forgotten.                                                *)

(* A flush at its head waits for somebody it will hear of, unless the entry*)
(* was taken; one that was rejected and would go on has a head that is     *)
(* settled, or taken.                                                      *)
HeadOf(f) == Head(flush[f].rest)
Fallen(m) == promise[m] \in {"resolved", "rejected"} \/ m \in robbed
Sure(f) ==
  /\ flush[f].at \in Open => Heard([m |-> HeadOf(f), by |-> f]) \/ HeadOf(f) \in robbed
  /\ flush[f].at = "rejected" /\ state = "connected" => Fallen(HeadOf(f))
  /\ flush[f].at = "over" => flush[f].rest = <<>>

(* What is queued or left to a flush was published.                        *)
Known ==
  /\ \A m \in Range(queue) : promise[m] # "none"
  /\ \A f \in 1..Len(flush) : \A m \in Range(flush[f].rest) : promise[m] # "none"

Kept(m) ==
  \/ m \in Range(queue) \/ Heard([m |-> m, by |-> 0]) \/ m \in robbed
  \/ \E f \in 1..Len(flush) : m \in Range(flush[f].rest)

ForgetInv ==
  /\ Known /\ \A f \in 1..Len(flush) : Sure(f)
  /\ \A m \in Message : promise[m] = "waiting" => Kept(m)

LEMMA ForgetIsEnough == TypeInv /\ ForgetInv => NoneForgotten
<1> SUFFICES ASSUME TypeInv, ForgetInv, NEW m \in Message, promise[m] = "waiting"
             PROVE  \/ m \in Range(queue)
                    \/ Heard([m |-> m, by |-> 0])
                    \/ m \in robbed
                    \/ \E f \in DOMAIN flush :
                         /\ m \in Range(flush[f].rest)
                         /\ Moving(f) \/ Head(flush[f].rest) \in robbed
  BY DEF NoneForgotten
<1>1. Kept(m) /\ \A f \in 1..Len(flush) : Sure(f)
  BY DEF ForgetInv
<1>2. DOMAIN flush = 1..Len(flush)
  BY FlushIs DEF TypeInv, PubType
<1>3. ASSUME NEW f \in 1..Len(flush), m \in Range(flush[f].rest)
      PROVE  Moving(f) \/ Head(flush[f].rest) \in robbed
  <2>1. flush[f].rest # <<>>
    BY <1>3, NoneInEmpty
  <2> QED BY <1>1, <2>1 DEF Sure, Moving, Open, HeadOf
<1> QED BY <1>1, <1>2, <1>3 DEF Kept

LEMMA InitForget == Init => ForgetInv
<1> SUFFICES ASSUME Init PROVE ForgetInv
  OBVIOUS
<1>1. Range(queue) = {} /\ Len(flush) = 0
  BY NoneInEmpty DEF Init
<1> QED BY <1>1 DEF Init, ForgetInv, Known

(* What is left to the flushes, when some of them hear of their messages.  *)
LEMMA WokenRests ==
  ASSUME TypeInv, NEW ws, NEW at \in {"next", "waiting", "rejected"}, Wakes(ws, at)
  PROVE  /\ \A f \in 1..Len(flush) :
              /\ Range(flush'[f].rest) \subseteq Range(flush[f].rest)
              /\ ~Woken(f, ws) => flush'[f] = flush[f]
              /\ Woken(f, ws) =>
                   /\ flush[f].at \in Open /\ flush'[f].at = at
                   /\ HeadOf(f) \in Range(flush[f].rest) /\ HeadOf(f) \in Message
                   /\ at = "next" =>
                        Range(flush[f].rest) = {HeadOf(f)} \cup Range(flush'[f].rest)
                   /\ at # "next" => flush'[f].rest = flush[f].rest
         /\ Len(flush') = Len(flush)
<1>1. ASSUME NEW f \in 1..Len(flush), Woken(f, ws)
      PROVE  /\ Range(flush'[f].rest) \subseteq Range(flush[f].rest)
             /\ flush[f].at \in Open /\ flush'[f].at = at
             /\ HeadOf(f) \in Range(flush[f].rest) /\ HeadOf(f) \in Message
             /\ at = "next" => Range(flush[f].rest) = {HeadOf(f)} \cup Range(flush'[f].rest)
             /\ at # "next" => flush'[f].rest = flush[f].rest
  <2>1. /\ flush[f].rest # <<>> /\ flush[f].at \in Open /\ flush'[f].at = at
        /\ at # "next" => flush'[f].rest = flush[f].rest
        /\ at = "next" => flush'[f].rest = Tail(flush[f].rest)
    BY <1>1 DEF Wakes
  <2>2. PICK q : q = flush[f].rest
    OBVIOUS
  <2>3. q \in Seq(Message)
    BY <2>2, FlushIs DEF TypeInv, PubType
  <2>4. Range(q) = {Head(q)} \cup Range(Tail(q)) /\ Head(q) \in Message
    BY <2>1, <2>2, <2>3, HeadAndTail
  <2> QED BY <2>1, <2>2, <2>4 DEF HeadOf
<1>2. ASSUME NEW f \in 1..Len(flush), ~Woken(f, ws) PROVE flush'[f] = flush[f]
  BY <1>2 DEF Wakes
<1> QED BY <1>1, <1>2 DEF Wakes

LEMMA HeardIs ==
  ASSUME TypeInv
  PROVE  \A w : Heard(w) <=> w \in Range(writes) \/ \E c \in Channel : w \in pending[c]
BY WaitersIs DEF Heard, TypeInv, PubType

LEMMA HeardThen ==
  ASSUME TypeInv'
  PROVE  \A w : Heard(w)' <=> w \in Range(writes') \/ \E c \in Channel : w \in pending'[c]
<1>1. pending' \in [Channel -> SUBSET Waiter]
  BY DEF TypeInv, PubType
<1>2. \A w : w \in Waiters' <=> \E c \in Channel : w \in pending'[c]
  BY <1>1 DEF Waiters, Range
<1> QED BY <1>2 DEF Heard

(* A flush that a step leaves alone stays sure.                            *)
LEMMA SureStays ==
  ASSUME ForgetInv, NEW f \in 1..Len(flush), flush'[f] = flush[f], robbed \subseteq robbed',
         \A w : w.m = HeadOf(f) /\ w.by = f /\ Heard(w) => Heard(w)' \/ w.m \in robbed',
         promise[HeadOf(f)] \in {"resolved", "rejected"} =>
           promise'[HeadOf(f)] \in {"resolved", "rejected"},
         state' = "connected" => state = "connected" \/ flush[f].at # "rejected"
  PROVE  Sure(f)'
<1>1. PICK h : h = HeadOf(f)
  OBVIOUS
<1>2. HeadOf(f)' = h
  BY <1>1 DEF HeadOf
<1>3. Sure(f)
  BY DEF ForgetInv
<1>4. PICK w : w = [m |-> h, by |-> f]
  OBVIOUS
<1>5. /\ flush[f].at \in Open => Heard(w) \/ h \in robbed
      /\ flush[f].at = "rejected" /\ state = "connected" => Fallen(h)
      /\ flush[f].at = "over" => flush[f].rest = <<>>
  BY <1>1, <1>3, <1>4 DEF Sure
<1>6. Heard(w) => Heard(w)' \/ h \in robbed'
  <2>1. w.m = h /\ w.by = f
    BY <1>4
  <2> QED BY <1>1, <2>1
<1>7. Fallen(h) => Fallen(h)'
  BY <1>1 DEF Fallen
<1>8. /\ flush'[f].at \in Open => Heard(w)' \/ h \in robbed'
      /\ flush'[f].at = "rejected" /\ state' = "connected" => Fallen(h)'
      /\ flush'[f].at = "over" => flush'[f].rest = <<>>
  BY <1>5, <1>6, <1>7
<1>9. w = [m |-> HeadOf(f)', by |-> f]
  BY <1>2, <1>4
<1> QED BY <1>2, <1>8, <1>9 DEF Sure

(* Settled or not, no promise is unmade.                                   *)
LEMMA PromisesStay ==
  ASSUME TypeInv, Next, NEW m \in Message
  PROVE  /\ promise[m] # "none" => promise'[m] # "none"
         /\ promise[m] \in {"resolved", "rejected"} => promise'[m] = promise[m]
<1>1. CASE Dials
  BY <1>1, DialsDoes DEF pubVars
<1>2. CASE \/ ConnectFails \/ Disconnect \/ Lost
           \/ \E i \in DOMAIN leftover : ConnectNotices(i) \/ PingNotices(i)
  <2>1. Settles
    BY <1>2, WhoCleansUp, CleansUpDoes
  <2> QED BY <2>1 DEF Settles
<1>3. CASE Starts
  BY <1>3, StartsDoes
<1>4. CASE Publish
  <2>1. PICK n \in Message :
          /\ promise[n] = "none"
          /\ \/ \E k, room : QueuedFrom(k, room, n)
             \/ \A k \in Message : promise'[k] = IF k = n THEN "waiting" ELSE promise[k]
    BY <1>4, PublishDoes
  <2> QED BY <2>1 DEF QueuedFrom
<1>5. ASSUME NEW f \in DOMAIN flush, FlushSends(f) \/ FlushCatches(f)
      PROVE  promise' = promise
  BY <1>5, FlushSendsDoes, FlushCatchesDoes
<1>6. CASE Written
  BY <1>6, WrittenDoes
<1>7. CASE Receive
  <2>1. \E ws : Tells(ws, "rejected") \/ Tells(ws, "resolved")
    BY <1>7, ReceiveDoes
  <2> QED BY <2>1 DEF Tells
<1>8. CASE Expire
  <2>1. promise' = promise \/ \E ws : Tells(ws, "rejected")
    BY <1>8, ExpireDoes
  <2> QED BY <2>1 DEF Tells
<1>9. CASE Reads
  BY <1>9, ReadsDoes DEF pubVars
<1> QED BY <1>1, <1>2, <1>3, <1>4, <1>5, <1>6, <1>7, <1>8, <1>9, Steps

(* A step that changes nothing the invariant speaks of but the state.      *)
LEMMA ForgetDials ==
  ASSUME TypeInv, ForgetInv, Dials \/ UNCHANGED vars \/ Reads
  PROVE  ForgetInv'
<1>1. UNCHANGED <<pubVars, robbed>>
  BY DialsDoes, ReadsDoes DEF vars, history
<1>2. UNCHANGED <<queue, promise, flush, writes, pending, robbed>>
  BY <1>1 DEF pubVars
<1>3. \A w : Heard(w)' <=> Heard(w)
  BY <1>2 DEF Heard, Waiters
<1>4. \A f \in 1..Len(flush) : state' = "connected" => state = "connected" \/ flush[f].at # "rejected"
  <2>1. state' = "connected" => state = "connected" \/ Calm
    BY DialsDoes, ReadsDoes DEF vars, connVars
  <2>2. Calm => \A f \in 1..Len(flush) : flush[f].at # "rejected"
    BY FlushIs DEF Calm, TypeInv, PubType
  <2> QED BY <2>1, <2>2
<1>5. \A f \in 1..Len(flush) : Sure(f)'
  BY <1>2, <1>3, <1>4, SureStays
<1>6. Known'
  BY <1>2 DEF ForgetInv, Known
<1>7. \A m \in Message : promise'[m] = "waiting" => Kept(m)'
  BY <1>2, <1>3 DEF ForgetInv, Kept
<1> QED BY <1>2, <1>5, <1>6, <1>7 DEF ForgetInv

(* A cleanup wakes whoever is heard.                                       *)
LEMMA ForgetCleansUp ==
  ASSUME TypeInv, ForgetInv,
         \/ ConnectFails \/ Disconnect \/ Lost
         \/ \E i \in DOMAIN leftover : ConnectNotices(i) \/ PingNotices(i)
  PROVE  ForgetInv'
<1>1. CleansUp
  BY WhoCleansUp
<1>2. /\ state' # "connected" /\ Settles /\ queue' \in {queue, <<>>}
      /\ Wakes(Waiters \cup Range(writes), "rejected") /\ robbed' = robbed
  BY <1>1, CleansUpDoes
<1>3. PICK ws : ws = Waiters \cup Range(writes)
  OBVIOUS
<1>4. /\ Len(flush') = Len(flush)
      /\ \A f \in 1..Len(flush) :
           /\ flush'[f].rest = flush[f].rest
           /\ ~Woken(f, ws) => flush'[f] = flush[f]
           /\ Woken(f, ws) => flush'[f].at = "rejected"
  BY <1>2, <1>3, WokenRests
<1>5. \A w : Heard(w) <=> w \in ws
  BY <1>3 DEF Heard
<1>6. ASSUME NEW f \in 1..Len(flush) PROVE Sure(f)'
  <2>1. CASE Woken(f, ws)
    BY <1>2, <1>4, <2>1 DEF Sure, Open
  <2>2. CASE ~Woken(f, ws)
    <3>1. flush'[f] = flush[f] /\ (flush[f].at \in Open => HeadOf(f) \in robbed)
      BY <1>4, <1>5, <2>2 DEF ForgetInv, Sure, Woken, HeadOf
    <3>2. flush[f].at = "over" => flush[f].rest = <<>>
      BY DEF ForgetInv, Sure
    <3> QED BY <1>2, <3>1, <3>2 DEF Sure, HeadOf
  <2> QED BY <2>1, <2>2
<1>7. Known'
  <2>1. Range(queue') \subseteq Range(queue)
    BY <1>2, NoneInEmpty
  <2>2. \A m \in Message : promise[m] # "none" => promise'[m] # "none"
    BY <1>2 DEF Settles
  <2>3. Range(queue) \subseteq Message
    BY InRange DEF TypeInv, PubType
  <2>4. \A f \in 1..Len(flush) : Range(flush[f].rest) \subseteq Message
    BY FlushIs, InRange DEF TypeInv, PubType
  <2> QED BY <1>4, <2>1, <2>2, <2>3, <2>4 DEF ForgetInv, Known
<1>8. ASSUME NEW m \in Message, promise'[m] = "waiting" PROVE Kept(m)'
  <2>1. /\ promise[m] = "waiting" /\ m \notin {w.m : w \in Waiters}
        /\ ~\E w \in Range(writes) : w.by = 0 /\ w.m = m
        /\ m \in Range(queue) => queue' = queue
    BY <1>2, <1>8 DEF Settles
  <2>2. ~Heard([m |-> m, by |-> 0])
    <3>1. PICK w : w = [m |-> m, by |-> 0]
      OBVIOUS
    <3>2. w.m = m /\ w.by = 0
      BY <3>1
    <3> QED BY <2>1, <3>1, <3>2 DEF Heard
  <2>3. Kept(m)
    BY <2>1 DEF ForgetInv
  <2> QED BY <1>2, <1>4, <2>1, <2>2, <2>3 DEF Kept
<1> QED BY <1>4, <1>6, <1>7, <1>8 DEF ForgetInv

(* The queue becomes what is left to a flush.                              *)
LEMMA ForgetStarts == ASSUME TypeInv, ForgetInv, Starts PROVE ForgetInv'
<1>1. /\ queue' = <<>> /\ UNCHANGED <<state, promise, writes, pending, robbed>>
      /\ \/ queue = <<>> /\ flush' = flush
         \/ \E new \in Flush : /\ flush' = Append(flush, new)
                               /\ new.rest = queue /\ new.at = "next"
  BY StartsDoes
<1>2. \A w : Heard(w)' <=> Heard(w)
  BY <1>1 DEF Heard, Waiters
<1>3. flush \in Seq(Flush) /\ Range(queue') = {}
  BY <1>1, NoneInEmpty DEF TypeInv, PubType
<1>4. CASE queue = <<>> /\ flush' = flush
  <2>1. \A f \in 1..Len(flush) : Sure(f)'
    BY <1>1, <1>2, <1>4, SureStays
  <2>2. Known'
    BY <1>1, <1>3, <1>4 DEF ForgetInv, Known
  <2>3. \A m \in Message : promise'[m] = "waiting" => Kept(m)'
    BY <1>1, <1>2, <1>4 DEF ForgetInv, Kept
  <2> QED BY <1>4, <2>1, <2>2, <2>3 DEF ForgetInv
<1>5. CASE \E new \in Flush : flush' = Append(flush, new) /\ new.rest = queue /\ new.at = "next"
  <2>1. PICK new \in Flush : flush' = Append(flush, new) /\ new.rest = queue /\ new.at = "next"
    BY <1>5
  <2>2. /\ Len(flush') = Len(flush) + 1 /\ Len(flush) \in Nat
        /\ \A f \in 1..Len(flush) : flush'[f] = flush[f]
        /\ flush'[Len(flush) + 1] = new
    BY <1>3, <2>1, Appended
  <2>3. ASSUME NEW f \in 1..Len(flush') PROVE f \in 1..Len(flush) \/ f = Len(flush) + 1
    BY <2>2
  <2>4. \A f \in 1..Len(flush) : Sure(f)'
    BY <1>1, <1>2, <2>2, SureStays
  <2>5. \A f : f = Len(flush) + 1 => Sure(f)'
    BY <2>1, <2>2 DEF Sure, Open
  <2>6. \A f \in 1..Len(flush') : Sure(f)'
    BY <2>3, <2>4, <2>5
  <2>7. Known'
    BY <1>1, <1>3, <2>1, <2>2, <2>3 DEF ForgetInv, Known
  <2>8. ASSUME NEW m \in Message, promise'[m] = "waiting" PROVE Kept(m)'
    <3>1. Kept(m)
      BY <1>1, <2>8 DEF ForgetInv
    <3>2. Len(flush) + 1 \in 1..Len(flush') /\ \A f \in 1..Len(flush) : f \in 1..Len(flush')
      BY <2>2
    <3> QED BY <1>1, <1>2, <2>1, <2>2, <3>1, <3>2 DEF Kept
  <2> QED BY <2>6, <2>7, <2>8 DEF ForgetInv
<1> QED BY <1>1, <1>4, <1>5

(* The queue drops from its front only what it rejects.                    *)
LEMMA QueueGains ==
  ASSUME TypeInv, NEW k, NEW room, NEW m \in Message, QueuedFrom(k, room, m)
  PROVE  /\ Range(queue') = Range(room) \cup {m} /\ Range(room) \subseteq Range(queue)
         /\ \A n \in Message : n \in Range(queue) /\ promise'[n] = "waiting" => n \in Range(queue')
<1>1. /\ k \in 0..Len(queue) /\ room \in Seq(Message) /\ Len(room) = Len(queue) - k
      /\ \A i \in 1..Len(room) : room[i] = queue[k + i]
      /\ queue' = Append(room, m) /\ queue \in Seq(Message)
      /\ \A n \in Message :
           promise'[n] = IF n = m THEN "waiting"
                     ELSE IF promise[n] = "waiting" /\ \E i \in 1..k : n = queue[i] THEN "rejected"
                     ELSE promise[n]
  BY DEF QueuedFrom, TypeInv, PubType
<1>2. Range(queue') = Range(room) \cup {m}
  BY <1>1, Appended
<1>3. Len(queue) \in Nat /\ k \in Nat /\ Len(room) \in Nat
  BY <1>1
<1>4. /\ \A n : n \in Range(room) <=> \E i \in 1..Len(room) : n = room[i]
      /\ \A n : n \in Range(queue) <=> \E i \in 1..Len(queue) : n = queue[i]
  BY <1>1, InRange
<1>5. Range(room) \subseteq Range(queue)
  <2>1. \A i \in 1..Len(room) : k + i \in 1..Len(queue)
    <3>1. PICK l, r \in Nat : l = Len(queue) /\ r = Len(room)
      BY <1>3
    <3>2. k \in 0..l /\ r = l - k
      BY <1>1, <3>1
    <3>3. \A i \in 1..r : k + i \in 1..l
      BY ONLY <3>1, <3>2, <1>3
    <3> QED BY <3>1, <3>3
  <2>2. ASSUME NEW n \in Range(room) PROVE n \in Range(queue)
    <3>1. PICK i \in 1..Len(room) : n = room[i]
      BY <1>4
    <3>2. room[i] = queue[k + i] /\ k + i \in 1..Len(queue)
      BY <1>1, <2>1
    <3> QED BY <1>4, <3>1, <3>2
  <2> QED BY <2>2
<1>6. ASSUME NEW n \in Message, n \in Range(queue), promise'[n] = "waiting"
      PROVE  n \in Range(queue')
  <2>1. PICK i \in 1..Len(queue) : n = queue[i]
    BY <1>4, <1>6
  <2>2. CASE i <= k
    <3>1. i \in 1..k
      BY <1>3, <2>2
    <3> QED BY <1>1, <1>2, <1>6, <2>1, <3>1
  <2>3. CASE i > k
    <3>1. i - k \in 1..Len(room) /\ k + (i - k) = i
      BY <1>1, <1>3, <2>3
    <3>2. room[i - k] = n
      BY <1>1, <2>1, <3>1
    <3> QED BY <1>2, <1>4, <3>1, <3>2
  <2> QED BY <1>3, <2>2, <2>3
<1> QED BY <1>2, <1>5, <1>6

LEMMA ForgetPublish == ASSUME TypeInv, ForgetInv, Publish PROVE ForgetInv'
<1>1. PICK m \in Message :
        /\ promise[m] = "none"
        /\ \/ (\E k, room : QueuedFrom(k, room, m)) /\ writes' = writes
           \/ /\ writes' = Append(writes, [m |-> m, by |-> 0])
              /\ \A n \in Message : promise'[n] = IF n = m THEN "waiting" ELSE promise[n]
              /\ queue' = queue
  BY PublishDoes
<1>2. UNCHANGED <<state, flush, pending, robbed>>
  BY PublishDoes DEF connVars
<1>3. /\ \A n \in Message : promise[n] # "none" => promise'[n] # "none"
      /\ \A n \in Message : promise[n] \in {"resolved", "rejected"} => promise'[n] = promise[n]
  <2>1. Next
    BY DEF Next
  <2> QED BY <2>1, PromisesStay
<1>4. \A w : Heard(w) => Heard(w)'
  <2>1. PICK w : w = [m |-> m, by |-> 0]
    OBVIOUS
  <2>2. Range(Append(writes, w)) = Range(writes) \cup {w}
    <3>1. w \in Waiter
      BY <2>1 DEF Waiter
    <3>2. writes \in Seq(Waiter)
      BY DEF TypeInv, PubType
    <3> QED BY <3>1, <3>2, Appended
  <2> QED BY <1>1, <1>2, <2>1, <2>2 DEF Heard, Waiters
<1>5. /\ Range(queue) \subseteq Message
      /\ \A f \in 1..Len(flush) :
           /\ Range(flush[f].rest) \subseteq Message
           /\ flush[f].at \in Open \cup {"rejected"} => HeadOf(f) \in Message
  BY FlushIs, InRange, HeadAndTail DEF TypeInv, PubType, HeadOf, AtMessage
<1>6. ASSUME NEW f \in 1..Len(flush) PROVE Sure(f)'
  <2>1. CASE flush[f].at \in Open \cup {"rejected"}
    BY <1>2, <1>3, <1>4, <1>5, <2>1, SureStays
  <2>2. CASE flush[f].at \notin Open \cup {"rejected"}
    BY <1>2, <2>2 DEF ForgetInv, Sure
  <2> QED BY <2>1, <2>2
<1>7. CASE (\E k, room : QueuedFrom(k, room, m)) /\ writes' = writes
  <2>1. PICK k, room : QueuedFrom(k, room, m)
    BY <1>7
  <2>2. /\ Range(queue') = Range(room) \cup {m} /\ Range(room) \subseteq Range(queue)
        /\ \A n \in Message : n \in Range(queue) /\ promise'[n] = "waiting" => n \in Range(queue')
    BY <2>1, QueueGains
  <2>3. promise'[m] = "waiting" /\ \A n \in Message \ {m} : promise'[n] = "waiting" => promise[n] = "waiting"
    BY <2>1 DEF QueuedFrom
  <2>4. Known'
    BY <1>2, <1>3, <1>5, <2>2, <2>3 DEF ForgetInv, Known
  <2>5. ASSUME NEW n \in Message, promise'[n] = "waiting" PROVE Kept(n)'
    <3>1. CASE n = m
      BY <2>2, <3>1 DEF Kept
    <3>2. CASE n # m
      <4>1. Kept(n)
        BY <2>3, <2>5, <3>2 DEF ForgetInv
      <4> QED BY <1>2, <1>4, <2>2, <2>5, <4>1 DEF Kept
    <3> QED BY <3>1, <3>2
  <2> QED BY <1>2, <1>6, <2>4, <2>5 DEF ForgetInv
<1>8. CASE /\ writes' = Append(writes, [m |-> m, by |-> 0])
           /\ \A n \in Message : promise'[n] = IF n = m THEN "waiting" ELSE promise[n]
           /\ queue' = queue
  <2>1. Known'
    BY <1>2, <1>3, <1>5, <1>8 DEF ForgetInv, Known
  <2>2. ASSUME NEW n \in Message, promise'[n] = "waiting" PROVE Kept(n)'
    <3>1. CASE n = m
      <4>1. PICK w : w = [m |-> m, by |-> 0]
        OBVIOUS
      <4>2. Range(Append(writes, w)) = Range(writes) \cup {w}
        <5>1. w \in Waiter
          BY <4>1 DEF Waiter
        <5>2. writes \in Seq(Waiter)
          BY DEF TypeInv, PubType
        <5> QED BY <5>1, <5>2, Appended
      <4>3. Heard(w)'
        BY <1>8, <4>1, <4>2 DEF Heard
      <4> QED BY <3>1, <4>1, <4>3 DEF Kept
    <3>2. CASE n # m
      <4>1. Kept(n)
        BY <1>8, <2>2, <3>2 DEF ForgetInv
      <4> QED BY <1>2, <1>4, <1>8, <4>1 DEF Kept
    <3> QED BY <3>1, <3>2
  <2> QED BY <1>2, <1>6, <2>1, <2>2 DEF ForgetInv
<1> QED BY <1>1, <1>7, <1>8

LEMMA ForgetFlushSends ==
  ASSUME TypeInv, ForgetInv, NEW f \in DOMAIN flush, FlushSends(f)
  PROVE  ForgetInv'
<1>1. /\ f \in 1..Len(flush) /\ flush[f].at = "next"
      /\ Len(flush') = Len(flush) /\ \A g \in 1..Len(flush) : g # f => flush'[g] = flush[g]
      /\ flush'[f].rest = flush[f].rest
      /\ Ended(f) \/ Stopped(f) \/ SendsHead(f)
      /\ UNCHANGED <<state, queue, promise, pending, robbed>>
  BY FlushSendsDoes DEF connVars, history
<1>2. writes \in Seq(Waiter) /\ HeadOf(f)' = HeadOf(f)
  BY <1>1 DEF TypeInv, PubType, HeadOf
<1>3. /\ Range(writes) \subseteq Range(writes')
      /\ SendsHead(f) => \A w : w.m = HeadOf(f) /\ w.by = f /\ w = [m |-> HeadOf(f), by |-> f]
                           => w \in Range(writes')
  <2>1. CASE SendsHead(f)
    <3>1. PICK w \in Waiter : /\ w = [m |-> Head(flush[f].rest), by |-> f]
                              /\ writes' = Append(writes, w)
      BY <2>1 DEF SendsHead
    <3>2. Range(writes') = Range(writes) \cup {w}
      BY <1>2, <3>1, Appended
    <3> QED BY <3>1, <3>2 DEF HeadOf
  <2>2. CASE ~SendsHead(f)
    BY <1>1, <2>2 DEF Ended, Stopped
  <2> QED BY <2>1, <2>2
<1>4. \A w : Heard(w) => Heard(w)'
  BY <1>1, <1>3 DEF Heard, Waiters
<1>5. Sure(f)'
  <2>1. CASE SendsHead(f)
    <3>1. PICK w : w = [m |-> HeadOf(f), by |-> f]
      OBVIOUS
    <3>2. w.m = HeadOf(f) /\ w.by = f
      BY <3>1
    <3>3. Heard(w)'
      BY <1>3, <2>1, <3>1, <3>2 DEF Heard
    <3>4. flush'[f].at = "sending" /\ w = [m |-> HeadOf(f)', by |-> f]
      BY <1>2, <2>1, <3>1 DEF SendsHead
    <3> QED BY <3>3, <3>4 DEF Sure, Open
  <2>2. CASE Ended(f) \/ Stopped(f)
    BY <1>1, <2>2 DEF Ended, Stopped, Sure, Open
  <2> QED BY <1>1, <2>1, <2>2
<1>6. ASSUME NEW g \in 1..Len(flush) PROVE Sure(g)'
  <2>1. CASE g # f
    BY <1>1, <1>4, <2>1, SureStays
  <2> QED BY <1>5, <2>1
<1>7. \A g \in 1..Len(flush) : flush'[g].rest = flush[g].rest
  BY <1>1
<1>8. Known'
  BY <1>1, <1>7 DEF ForgetInv, Known
<1>9. \A m \in Message : promise'[m] = "waiting" => Kept(m)'
  BY <1>1, <1>4, <1>7 DEF ForgetInv, Kept
<1> QED BY <1>1, <1>6, <1>8, <1>9 DEF ForgetInv

LEMMA ForgetFlushCatches ==
  ASSUME TypeInv, ForgetInv, NEW f \in DOMAIN flush, FlushCatches(f)
  PROVE  ForgetInv'
<1>1. /\ f \in 1..Len(flush) /\ flush[f].at = "rejected" /\ flush[f].rest # <<>>
      /\ Len(flush') = Len(flush) /\ \A g \in 1..Len(flush) : g # f => flush'[g] = flush[g]
      /\ Passes(f) \/ PutsBack(f)
      /\ UNCHANGED <<state, promise, writes, pending, robbed>>
  BY FlushCatchesDoes DEF connVars, history
<1>2. \A w : Heard(w)' <=> Heard(w)
  BY <1>1 DEF Heard, Waiters
<1>3. PICK q : q = flush[f].rest
  OBVIOUS
<1>4. q \in Seq(Message) /\ queue \in Seq(Message)
  BY <1>1, <1>3, FlushIs DEF TypeInv, PubType
<1>5. /\ Range(q) = {HeadOf(f)} \cup Range(Tail(q))
      /\ Range(q \o queue) = Range(q) \cup Range(queue)
  BY <1>1, <1>3, <1>4, HeadAndTail, Joined DEF HeadOf
<1>6. /\ Range(queue) \subseteq Range(queue')
      /\ Range(queue') \subseteq Range(q) \cup Range(queue)
      /\ Range(flush'[f].rest) \subseteq Range(q)
      /\ \A m \in Range(q) : promise[m] = "waiting" =>
           m \in Range(queue') \/ m \in Range(flush'[f].rest) \/ m \in robbed
  <2>1. CASE Passes(f)
    <3>1. queue' = queue /\ flush'[f].rest = Tail(q) /\ state = "connected"
      BY <1>3, <2>1 DEF Passes
    <3>2. Fallen(HeadOf(f))
      BY <1>1, <3>1 DEF ForgetInv, Sure
    <3> QED BY <1>5, <3>1, <3>2 DEF Fallen
  <2>2. CASE PutsBack(f)
    <3>1. queue' = q \o queue /\ flush'[f].rest = <<>>
      BY <1>3, <2>2 DEF PutsBack
    <3> QED BY <1>5, <3>1, NoneInEmpty
  <2> QED BY <1>1, <2>1, <2>2
<1>7. ASSUME NEW g \in 1..Len(flush) PROVE Sure(g)'
  <2>1. CASE g # f
    BY <1>1, <1>2, <2>1, SureStays
  <2>2. CASE g = f
    BY <1>1, <2>2 DEF Passes, PutsBack, Sure, Open
  <2> QED BY <2>1, <2>2
<1>8. Known'
  BY <1>1, <1>3, <1>6 DEF ForgetInv, Known
<1>9. ASSUME NEW m \in Message, promise'[m] = "waiting" PROVE Kept(m)'
  <2>1. Kept(m) /\ promise[m] = "waiting"
    BY <1>1, <1>9 DEF ForgetInv
  <2>2. CASE m \in Range(q)
    BY <1>1, <1>6, <2>1, <2>2 DEF Kept
  <2>3. CASE m \notin Range(q)
    BY <1>1, <1>2, <1>3, <1>6, <2>1, <2>3 DEF Kept
  <2> QED BY <2>2, <2>3
<1> QED BY <1>1, <1>7, <1>8, <1>9 DEF ForgetInv

LEMMA ForgetWritten == ASSUME TypeInv, ForgetInv, Written PROVE ForgetInv'
<1>1. PICK w \in Waiter :
           /\ writes # <<>> /\ w = Head(writes) /\ writes' = Tail(writes)
           /\ ChannelFor(w) \in Channel /\ pending'[ChannelFor(w)] = {w}
           /\ \A c \in Channel \ {ChannelFor(w)} : pending'[c] = pending[c]
           /\ robbed' = robbed \cup {v.m : v \in pending[ChannelFor(w)]}
           /\ Wakes({w}, "waiting")
           /\ UNCHANGED <<state, queue, promise>>
           /\ TypeInv'
  BY WrittenDoes DEF connVars
<1>2. PICK ws : ws = {w}
  OBVIOUS
<1>3. /\ Len(flush') = Len(flush)
      /\ \A f \in 1..Len(flush) :
           /\ flush'[f].rest = flush[f].rest
           /\ ~Woken(f, ws) => flush'[f] = flush[f]
           /\ Woken(f, ws) => flush[f].at \in Open /\ flush'[f].at = "waiting"
  BY <1>1, <1>2, WokenRests
<1>4. Range(writes) = {w} \cup Range(writes')
  <2>1. writes \in Seq(Waiter)
    BY DEF TypeInv, PubType
  <2> QED BY <1>1, <2>1, HeadAndTail
<1>5. \A v : Heard(v) => Heard(v)' \/ v.m \in robbed'
  <2>1. \A v : Heard(v) <=> v \in Range(writes) \/ \E c \in Channel : v \in pending[c]
    BY HeardIs
  <2>2. \A v : Heard(v)' <=> v \in Range(writes') \/ \E c \in Channel : v \in pending'[c]
    BY <1>1, HeardThen
  <2> QED BY <1>1, <1>4, <2>1, <2>2
<1>6. ASSUME NEW f \in 1..Len(flush) PROVE Sure(f)'
  <2>1. CASE ~Woken(f, ws)
    BY <1>1, <1>3, <1>5, <2>1, SureStays
  <2>2. CASE Woken(f, ws)
    <3>1. PICK v : v = [m |-> HeadOf(f), by |-> f]
      OBVIOUS
    <3>2. Heard(v) \/ v.m \in robbed
      BY <1>3, <2>2, <3>1 DEF ForgetInv, Sure
    <3>3. Heard(v)' \/ v.m \in robbed'
      BY <1>1, <1>5, <3>2
    <3>4. HeadOf(f)' = HeadOf(f) /\ flush'[f].at = "waiting"
      BY <1>3, <2>2 DEF HeadOf
    <3>5. v = [m |-> HeadOf(f)', by |-> f] /\ v.m = HeadOf(f)'
      BY <3>1, <3>4
    <3> QED BY <3>3, <3>4, <3>5 DEF Sure
  <2> QED BY <2>1, <2>2
<1>7. Known'
  BY <1>1, <1>3 DEF ForgetInv, Known
<1>8. ASSUME NEW m \in Message, promise'[m] = "waiting" PROVE Kept(m)'
  <2>1. Kept(m)
    BY <1>1, <1>8 DEF ForgetInv
  <2>2. PICK v : v = [m |-> m, by |-> 0]
    OBVIOUS
  <2>3. Heard(v) => Heard(v)' \/ m \in robbed'
    BY <1>5, <2>2
  <2> QED BY <1>1, <1>3, <2>1, <2>2, <2>3 DEF Kept
<1> QED BY <1>3, <1>6, <1>7, <1>8 DEF ForgetInv

(* Whoever is told goes on, whoever loses an entry otherwise was robbed.   *)
LEMMA ForgetTold ==
  ASSUME TypeInv, ForgetInv, NEW ws, NEW outcome \in {"resolved", "rejected"},
         NEW at \in {"next", "rejected"}, Tells(ws, outcome), Wakes(ws, at),
         \A v : Heard(v) => Heard(v)' \/ v \in ws \/ v.m \in robbed',
         robbed \subseteq robbed', UNCHANGED <<state, queue>>
  PROVE  ForgetInv'
<1>1. /\ Len(flush') = Len(flush)
      /\ \A f \in 1..Len(flush) :
           /\ Range(flush'[f].rest) \subseteq Range(flush[f].rest)
           /\ ~Woken(f, ws) => flush'[f] = flush[f]
           /\ Woken(f, ws) =>
                /\ flush[f].at \in Open /\ flush'[f].at = at
                /\ HeadOf(f) \in Range(flush[f].rest) /\ HeadOf(f) \in Message
                /\ at = "next" => Range(flush[f].rest) = {HeadOf(f)} \cup Range(flush'[f].rest)
                /\ at # "next" => flush'[f].rest = flush[f].rest
  BY WokenRests
<1>2. promise \in [Message -> {"none", "waiting", "resolved", "rejected"}]
  BY DEF TypeInv, PubType
<1>3. /\ Range(queue) \subseteq Message
      /\ \A f \in 1..Len(flush) :
           /\ Range(flush[f].rest) \subseteq Message
           /\ flush[f].at \in Open \cup {"rejected"} => HeadOf(f) \in Message
  BY FlushIs, InRange, HeadAndTail DEF TypeInv, PubType, HeadOf, AtMessage
<1>4. \A m \in Message : /\ promise[m] # "none" => promise'[m] # "none"
                         /\ promise[m] \in {"resolved", "rejected"} => promise'[m] = promise[m]
  BY DEF Tells
<1>5. ASSUME NEW f \in 1..Len(flush), Woken(f, ws)
      PROVE  promise'[HeadOf(f)] \in {"resolved", "rejected"}
  <2>1. PICK w : w = [m |-> HeadOf(f), by |-> f]
    OBVIOUS
  <2>2. w \in ws /\ w.m = HeadOf(f)
    BY <1>5, <2>1 DEF Woken, HeadOf
  <2>3. promise[HeadOf(f)] # "none" /\ HeadOf(f) \in Message
    BY <1>1, <1>5 DEF ForgetInv, Known
  <2> QED BY <1>2, <2>2, <2>3 DEF Tells
<1>6. ASSUME NEW f \in 1..Len(flush) PROVE Sure(f)'
  <2>1. CASE Woken(f, ws)
    <3>1. flush'[f].at = at /\ (at # "next" => HeadOf(f)' = HeadOf(f))
      BY <1>1, <2>1 DEF HeadOf
    <3>2. \A h : h = HeadOf(f) => Fallen(h)'
      BY <1>5, <2>1 DEF Fallen
    <3> QED BY <3>1, <3>2 DEF Sure, Open
  <2>2. CASE ~Woken(f, ws) /\ flush[f].at \in Open
    <3>1. \A w : w.m = HeadOf(f) /\ w.by = f /\ w = [m |-> HeadOf(f), by |-> f] => w \notin ws
      BY <2>2 DEF Woken, HeadOf
    <3>2. PICK w : w = [m |-> HeadOf(f), by |-> f]
      OBVIOUS
    <3>3. w \notin ws /\ w.m = HeadOf(f)
      BY <3>1, <3>2
    <3>4. Heard(w) \/ w.m \in robbed
      BY <2>2, <3>2, <3>3 DEF ForgetInv, Sure
    <3>5. Heard(w)' \/ w.m \in robbed'
      BY <3>3, <3>4
    <3>6. flush'[f] = flush[f] /\ HeadOf(f)' = HeadOf(f)
      BY <1>1, <2>2 DEF HeadOf
    <3>7. w = [m |-> HeadOf(f)', by |-> f] /\ w.m = HeadOf(f)'
      BY <3>2, <3>6
    <3> QED BY <2>2, <3>5, <3>6, <3>7 DEF Sure, Open
  <2>3. CASE ~Woken(f, ws) /\ flush[f].at \notin Open
    <3>1. flush'[f] = flush[f]
      BY <1>1, <2>3
    <3>2. \A h : h = HeadOf(f) /\ flush[f].at = "rejected" => (Fallen(h) => Fallen(h)')
      BY <1>3, <1>4 DEF Fallen
    <3>3. HeadOf(f)' = HeadOf(f)
      BY <3>1 DEF HeadOf
    <3> QED BY <2>3, <3>1, <3>2, <3>3 DEF ForgetInv, Sure
  <2> QED BY <2>1, <2>2, <2>3
<1>7. Known'
  BY <1>1, <1>3, <1>4 DEF ForgetInv, Known
<1>8. ASSUME NEW m \in Message, promise'[m] = "waiting" PROVE Kept(m)'
  <2>1. promise[m] = "waiting" /\ ~\E w \in ws : w.m = m
    BY <1>8 DEF Tells
  <2>2. Kept(m)
    BY <2>1 DEF ForgetInv
  <2>3. ASSUME Heard([m |-> m, by |-> 0]) PROVE Kept(m)'
    <3>1. PICK v : v = [m |-> m, by |-> 0]
      OBVIOUS
    <3>2. v.m = m
      BY <3>1
    <3>3. Heard(v)' \/ m \in robbed'
      BY <2>1, <2>3, <3>1, <3>2
    <3> QED BY <3>1, <3>3 DEF Kept
  <2>4. ASSUME NEW f \in 1..Len(flush), m \in Range(flush[f].rest) PROVE Kept(m)'
    <3>1. m \in Range(flush'[f].rest)
      <4>1. CASE Woken(f, ws) /\ at = "next"
        <5>1. PICK w : w = [m |-> HeadOf(f), by |-> f]
          OBVIOUS
        <5>2. w \in ws /\ w.m = HeadOf(f)
          BY <4>1, <5>1 DEF Woken, HeadOf
        <5> QED BY <1>1, <2>1, <2>4, <4>1, <5>2
      <4>2. CASE ~(Woken(f, ws) /\ at = "next")
        BY <1>1, <2>4, <4>2
      <4> QED BY <4>1, <4>2
    <3> QED BY <1>1, <3>1 DEF Kept
  <2>5. m \in Range(queue) \/ m \in robbed => Kept(m)'
    BY DEF Kept
  <2> QED BY <2>2, <2>3, <2>4, <2>5 DEF Kept
<1> QED BY <1>1, <1>6, <1>7, <1>8 DEF ForgetInv

LEMMA ForgetReceive == ASSUME TypeInv, ForgetInv, Receive PROVE ForgetInv'
<1>1. PICK m \in Message :
           /\ ChannelOf[m] \in Channel
           /\ \A c \in Channel \ {ChannelOf[m]} : pending'[c] = pending[c]
           /\ \/ Tells(pending[ChannelOf[m]], "rejected") /\ Wakes(pending[ChannelOf[m]], "rejected")
              \/ Tells(pending[ChannelOf[m]], "resolved") /\ Wakes(pending[ChannelOf[m]], "next")
           /\ UNCHANGED <<state, queue, writes, robbed>>
           /\ TypeInv'
  BY ReceiveDoes DEF connVars, history
<1>2. PICK ws : ws = pending[ChannelOf[m]]
  OBVIOUS
<1>3. \A v : Heard(v) => Heard(v)' \/ v \in ws \/ v.m \in robbed'
  <2>1. \A v : Heard(v) <=> v \in Range(writes) \/ \E c \in Channel : v \in pending[c]
    BY HeardIs
  <2>2. \A v : Heard(v)' <=> v \in Range(writes') \/ \E c \in Channel : v \in pending'[c]
    BY <1>1, HeardThen
  <2> QED BY <1>1, <1>2, <2>1, <2>2
<1>4. CASE Tells(ws, "rejected") /\ Wakes(ws, "rejected")
  BY <1>1, <1>3, <1>4, ForgetTold
<1>5. CASE Tells(ws, "resolved") /\ Wakes(ws, "next")
  BY <1>1, <1>3, <1>5, ForgetTold
<1> QED BY <1>1, <1>2, <1>4, <1>5

LEMMA ForgetExpire == ASSUME TypeInv, ForgetInv, Expire PROVE ForgetInv'
<1>1. PICK w \in Waiter :
           /\ ChannelFor(w) \in Channel
           /\ \/ UNCHANGED <<pending, robbed, promise, flush>>
              \/ /\ \A c \in Channel \ {ChannelFor(w)} : pending'[c] = pending[c]
                 /\ robbed' = robbed \cup {v.m : v \in pending[ChannelFor(w)] \ {w}}
                 /\ Tells({w}, "rejected") /\ Wakes({w}, "rejected")
           /\ UNCHANGED <<state, queue, writes>>
           /\ TypeInv'
  BY ExpireDoes DEF connVars
<1>2. CASE UNCHANGED <<pending, robbed, promise, flush>>
  <2>1. \A v : Heard(v)' <=> Heard(v)
    BY <1>1, <1>2 DEF Heard, Waiters
  <2>2. \A f \in 1..Len(flush) : Sure(f)'
    BY <1>1, <1>2, <2>1, SureStays
  <2>3. Known'
    BY <1>1, <1>2 DEF ForgetInv, Known
  <2>4. \A m \in Message : promise'[m] = "waiting" => Kept(m)'
    BY <1>1, <1>2, <2>1 DEF ForgetInv, Kept
  <2> QED BY <1>2, <2>2, <2>3, <2>4 DEF ForgetInv
<1>3. CASE /\ \A c \in Channel \ {ChannelFor(w)} : pending'[c] = pending[c]
           /\ robbed' = robbed \cup {v.m : v \in pending[ChannelFor(w)] \ {w}}
           /\ Tells({w}, "rejected") /\ Wakes({w}, "rejected")
  <2>1. PICK ws : ws = {w}
    OBVIOUS
  <2>2. \A v : Heard(v) => Heard(v)' \/ v \in ws \/ v.m \in robbed'
    <3>1. \A v : Heard(v) <=> v \in Range(writes) \/ \E c \in Channel : v \in pending[c]
      BY HeardIs
    <3>2. \A v : Heard(v)' <=> v \in Range(writes') \/ \E c \in Channel : v \in pending'[c]
      BY <1>1, HeardThen
    <3> QED BY <1>1, <1>3, <2>1, <3>1, <3>2
  <2>3. Tells(ws, "rejected") /\ Wakes(ws, "rejected")
    BY <1>3, <2>1
  <2> QED BY <1>1, <1>3, <2>2, <2>3, ForgetTold
<1> QED BY <1>1, <1>2, <1>3

LEMMA StepForget == TypeInv /\ ForgetInv /\ [Next]_vars => ForgetInv'
<1> SUFFICES ASSUME TypeInv, ForgetInv, [Next]_vars PROVE ForgetInv'
  OBVIOUS
<1>1. CASE UNCHANGED vars
  BY <1>1, ForgetDials
<1>2. CASE Next
  BY <1>2, ForgetDials, ForgetCleansUp, ForgetStarts, ForgetPublish, ForgetFlushSends,
     ForgetFlushCatches, ForgetWritten, ForgetReceive, ForgetExpire, Steps
<1> QED BY <1>1, <1>2

(* NoneForgotten (client.ts:216-291, flushOfflineQueue 470-497): through   *)
(* losses, reconnections, cleanups and flushes that run side by side, a    *)
(* publish that is not settled is still in the queue, left to a flush that *)
(* goes on, or waited for - unless its entry was taken.                    *)
THEOREM NoPublishForgotten == Spec => []NoneForgotten
BY InitTypes, StepTypes, InitForget, StepForget, ForgetIsEnough, PTL DEF Spec

-----------------------------------------------------------------------------
(* A message that was confirmed is not sent again.                         *)

Distinct(q) == \A i, j \in 1..Len(q) : q[i] = q[j] => i = j

(* A flush has at most one entry, the one for its head: a write, then a    *)
(* waiting entry; a timer of its own may outlive both.                     *)
OwnedAt(w, place) ==
  w.by # 0 => w.by \in 1..Len(flush) /\ flush[w.by].at = place /\ HeadOf(w.by) = w.m
Timed(w) ==
  w.by # 0 =>
    /\ w.by \in 1..Len(flush)
    /\ w.m \in Range(flush[w.by].rest) =>
         flush[w.by].at \in {"waiting", "rejected"} /\ HeadOf(w.by) = w.m
Owns ==
  /\ Distinct(writes)
  /\ \A w \in Range(writes) : OwnedAt(w, "sending")
  /\ \A c \in Channel : \A w \in pending[c] : OwnedAt(w, "waiting")
  /\ \A w \in Range(timeouts) : Timed(w)

(* What is sent directly never was in the queue.                           *)
Entry(w) == w \in Range(writes) \/ w \in Range(timeouts) \/ \E c \in Channel : w \in pending[c]
Direct == \A w : Entry(w) =>
  promise[w.m] # "none" /\ (w.by = 0 => w.m \notin Range(offline))

(* A message is once in the queue or in one flush, and not yet confirmed.  *)
Lots ==
  /\ Distinct(queue) /\ \A f \in 1..Len(flush) : Distinct(flush[f].rest)
  /\ \A f \in 1..Len(flush) : Range(flush[f].rest) \cap Range(queue) = {}
  /\ \A f, g \in 1..Len(flush) : f # g => Range(flush[f].rest) \cap Range(flush[g].rest) = {}
  /\ \A m : m \in Range(queue) \/ (\E f \in 1..Len(flush) : m \in Range(flush[f].rest)) =>
       m \in Range(offline) /\ promise[m] \in {"waiting", "rejected"}
  /\ \A m \in Range(offline) : promise[m] # "none"

OnceInv == Owns /\ Direct /\ Lots

LEMMA DistinctTail ==
  ASSUME NEW S, NEW q \in Seq(S), q # <<>>, Distinct(q)
  PROVE  Distinct(Tail(q)) /\ Head(q) \notin Range(Tail(q))
<1>1. PICK t : t = Tail(q)
  OBVIOUS
<1>2. /\ t \in Seq(S) /\ Head(q) = q[1] /\ Len(q) \in Nat \ {0} /\ Len(t) = Len(q) - 1
      /\ \A i \in 1..Len(t) : i + 1 \in 1..Len(q) /\ t[i] = q[i + 1]
  BY <1>1, HeadAndTail
<1>3. Distinct(t)
  <2> SUFFICES ASSUME NEW i \in 1..Len(t), NEW j \in 1..Len(t), t[i] = t[j] PROVE i = j
    BY DEF Distinct
  <2>1. i + 1 = j + 1
    BY <1>2 DEF Distinct
  <2> QED BY <2>1
<1>4. ASSUME Head(q) \in Range(t) PROVE FALSE
  <2>1. PICK i \in 1..Len(t) : Head(q) = t[i]
    BY <1>2, <1>4, InRange
  <2>2. q[1] = q[i + 1] /\ 1 \in 1..Len(q) /\ i + 1 \in 1..Len(q)
    BY <1>2, <2>1
  <2>3. i + 1 = 1
    BY <2>2 DEF Distinct
  <2> QED BY <2>3
<1> QED BY <1>1, <1>3, <1>4

LEMMA DistinctAppend ==
  ASSUME NEW S, NEW q \in Seq(S), NEW m \in S, Distinct(q), m \notin Range(q)
  PROVE  Distinct(Append(q, m))
<1>1. PICK t : t = Append(q, m)
  OBVIOUS
<1>2. /\ t \in Seq(S) /\ Len(t) = Len(q) + 1 /\ Len(q) \in Nat
      /\ \A i \in 1..Len(q) : t[i] = q[i]
      /\ t[Len(q) + 1] = m
  BY <1>1, Appended
<1>3. \A i \in 1..Len(q) : q[i] # m
  BY InRange
<1>4. \A i \in 1..Len(t) : i \in 1..Len(q) \/ i = Len(q) + 1
  BY <1>2
<1> QED BY <1>1, <1>2, <1>3, <1>4 DEF Distinct

LEMMA DistinctJoined ==
  ASSUME NEW S, NEW u \in Seq(S), NEW v \in Seq(S), Distinct(u), Distinct(v),
         Range(u) \cap Range(v) = {}
  PROVE  Distinct(u \o v)
<1>1. PICK t : t = u \o v
  OBVIOUS
<1>2. /\ Len(t) = Len(u) + Len(v) /\ Len(u) \in Nat /\ Len(v) \in Nat
      /\ \A i \in 1..Len(u) : t[i] = u[i]
      /\ \A i \in 1..Len(v) : t[Len(u) + i] = v[i]
  BY <1>1, Joined
<1>3. /\ \A i \in 1..Len(u) : u[i] \in Range(u)
      /\ \A i \in 1..Len(v) : v[i] \in Range(v)
  BY InRange
<1>4. ASSUME NEW i \in 1..Len(t)
      PROVE  \/ i \in 1..Len(u) /\ t[i] = u[i]
             \/ i - Len(u) \in 1..Len(v) /\ t[i] = v[i - Len(u)]
  <2>1. CASE i <= Len(u)
    BY <1>2, <2>1
  <2>2. CASE i > Len(u)
    <3>1. i - Len(u) \in 1..Len(v) /\ Len(u) + (i - Len(u)) = i
      BY <1>2, <2>2
    <3>2. t[Len(u) + (i - Len(u))] = v[i - Len(u)]
      BY <1>2, <3>1
    <3> QED BY <3>1, <3>2
  <2> QED BY <1>2, <2>1, <2>2
<1>5. ASSUME NEW i \in 1..Len(t), NEW j \in 1..Len(t), t[i] = t[j] PROVE i = j
  <2>1. CASE i \in 1..Len(u) /\ t[i] = u[i]
    <3>1. j \in 1..Len(u) /\ t[j] = u[j]
      BY <1>3, <1>4, <1>5, <2>1
    <3> QED BY <1>5, <2>1, <3>1 DEF Distinct
  <2>2. CASE i - Len(u) \in 1..Len(v) /\ t[i] = v[i - Len(u)]
    <3>1. j - Len(u) \in 1..Len(v) /\ t[j] = v[j - Len(u)]
      BY <1>3, <1>4, <1>5, <2>2
    <3>2. i - Len(u) = j - Len(u)
      BY <1>5, <2>2, <3>1 DEF Distinct
    <3> QED BY <1>2, <3>2
  <2> QED BY <1>4, <2>1, <2>2
<1> QED BY <1>1, <1>5 DEF Distinct

LEMMA InitOnce == Init => OnceInv
<1> SUFFICES ASSUME Init PROVE OnceInv
  OBVIOUS
<1>1. /\ Range(queue) = {} /\ Range(offline) = {} /\ Range(writes) = {} /\ Range(timeouts) = {}
      /\ Len(flush) = 0 /\ \A c \in Channel : pending[c] = {}
  BY NoneInEmpty DEF Init
<1>2. Distinct(queue) /\ Distinct(writes)
  BY DEF Init, Distinct
<1>3. 1..Len(flush) = {}
  BY <1>1
<1> QED BY <1>1, <1>2, <1>3 DEF OnceInv, Owns, Direct, Entry, Lots

LEMMA OnceDials ==
  ASSUME TypeInv, OnceInv, Dials \/ UNCHANGED vars \/ Reads
  PROVE  OnceInv'
<1>1. UNCHANGED <<pubVars, offline>>
  BY DialsDoes, ReadsDoes DEF vars, history
<1>2. UNCHANGED <<queue, promise, flush, writes, pending, timeouts, offline>>
  BY <1>1 DEF pubVars
<1>3. \A f : HeadOf(f)' = HeadOf(f)
  BY <1>2 DEF HeadOf
<1>4. Owns'
  BY <1>2, <1>3 DEF OnceInv, Owns, OwnedAt, Timed, Distinct
<1>5. Direct'
  BY <1>2 DEF OnceInv, Direct, Entry
<1>6. Lots'
  BY <1>2 DEF OnceInv, Lots, Distinct
<1> QED BY <1>4, <1>5, <1>6 DEF OnceInv

LEMMA TypesGive ==
  ASSUME TypeInv
  PROVE  /\ queue \in Seq(Message) /\ offline \in Seq(Message)
         /\ writes \in Seq(Waiter) /\ timeouts \in Seq(Waiter)
         /\ Range(queue) \subseteq Message /\ Range(offline) \subseteq Message
         /\ \A w : Entry(w) => w \in Waiter
         /\ \A w \in Waiter : w.m \in Message /\ w.by \in Nat /\ w = [m |-> w.m, by |-> w.by]
         /\ \A f \in 1..Len(flush) :
              /\ flush[f].rest \in Seq(Message) /\ Range(flush[f].rest) \subseteq Message
              /\ flush[f].rest # <<>> => HeadOf(f) \in Range(flush[f].rest)
<1>1. /\ queue \in Seq(Message) /\ offline \in Seq(Message)
      /\ writes \in Seq(Waiter) /\ timeouts \in Seq(Waiter)
      /\ pending \in [Channel -> SUBSET Waiter]
      /\ \A f \in 1..Len(flush) : flush[f].rest \in Seq(Message)
  BY FlushIs DEF TypeInv, PubType
<1>2. /\ Range(queue) \subseteq Message /\ Range(offline) \subseteq Message
      /\ Range(writes) \subseteq Waiter /\ Range(timeouts) \subseteq Waiter
  BY <1>1, InRange
<1>3. \A w : Entry(w) => w \in Waiter
  BY <1>1, <1>2 DEF Entry
<1>4. ASSUME NEW f \in 1..Len(flush)
      PROVE  /\ Range(flush[f].rest) \subseteq Message
             /\ flush[f].rest # <<>> => HeadOf(f) \in Range(flush[f].rest)
  <2>1. PICK q \in Seq(Message) : q = flush[f].rest
    BY <1>1
  <2>2. Range(q) \subseteq Message /\ (q # <<>> => Head(q) \in Range(q))
    BY InRange, HeadAndTail
  <2> QED BY <2>1, <2>2 DEF HeadOf
<1> QED BY <1>1, <1>2, <1>3, <1>4 DEF Waiter

(* What is left to the flushes, and in the queue, only gets less.          *)
Shrinks ==
  /\ Len(flush') = Len(flush)
  /\ \A f \in 1..Len(flush) :
       \/ flush'[f].rest = flush[f].rest \/ flush'[f].rest = <<>>
       \/ flush[f].rest # <<>> /\ flush'[f].rest = Tail(flush[f].rest)

LEMMA LotsShrink ==
  ASSUME TypeInv, Lots, Shrinks, queue' \in {queue, <<>>}, offline' = offline,
         \A m \in Message : promise[m] # "none" => promise'[m] # "none",
         \A m \in Message : promise[m] \in {"waiting", "rejected"} =>
           \/ promise'[m] \in {"waiting", "rejected"}
           \/ m \notin Range(queue') /\ \A f \in 1..Len(flush) : m \notin Range(flush'[f].rest)
  PROVE  Lots'
<1>1. Range(queue') \subseteq Range(queue) /\ Distinct(queue')
  BY NoneInEmpty DEF Lots, Distinct
<1>2. ASSUME NEW f \in 1..Len(flush)
      PROVE  Range(flush'[f].rest) \subseteq Range(flush[f].rest) /\ Distinct(flush'[f].rest)
  <2>1. PICK q \in Seq(Message) : q = flush[f].rest
    BY TypesGive
  <2>2. Distinct(q)
    BY <2>1 DEF Lots
  <2>3. ASSUME q # <<>> PROVE Distinct(Tail(q)) /\ Range(Tail(q)) \subseteq Range(q)
    BY <2>2, <2>3, DistinctTail, HeadAndTail
  <2>4. \A r : r = <<>> => Distinct(r) /\ Range(r) = {}
    BY NoneInEmpty DEF Distinct
  <2> QED BY <2>1, <2>2, <2>3, <2>4 DEF Shrinks
<1>3. /\ Len(flush') = Len(flush) /\ Range(offline') = Range(offline)
      /\ Range(queue) \subseteq Message /\ Range(offline) \subseteq Message
      /\ \A f \in 1..Len(flush) : Range(flush[f].rest) \subseteq Message
  BY TypesGive DEF Shrinks
<1>4. \A f \in 1..Len(flush') : Distinct(flush'[f].rest) /\ Range(flush'[f].rest) \cap Range(queue') = {}
  BY <1>1, <1>2, <1>3 DEF Lots
<1>5. \A f, g \in 1..Len(flush') : f # g => Range(flush'[f].rest) \cap Range(flush'[g].rest) = {}
  BY <1>2, <1>3 DEF Lots
<1>6. ASSUME NEW m, m \in Range(queue') \/ \E f \in 1..Len(flush') : m \in Range(flush'[f].rest)
      PROVE  m \in Range(offline') /\ promise'[m] \in {"waiting", "rejected"}
  <2>1. m \in Range(queue) \/ \E f \in 1..Len(flush) : m \in Range(flush[f].rest)
    BY <1>1, <1>2, <1>3, <1>6
  <2>2. m \in Range(offline) /\ promise[m] \in {"waiting", "rejected"}
    BY <2>1 DEF Lots
  <2> QED BY <1>3, <1>6, <2>2
<1>7. \A m \in Range(offline') : promise'[m] # "none"
  BY <1>3 DEF Lots
<1>8. Distinct(queue)' /\ \A f \in 1..Len(flush') : Distinct(flush[f].rest)'
  BY <1>1, <1>4 DEF Distinct
<1> QED BY <1>4, <1>5, <1>6, <1>7, <1>8 DEF Lots

LEMMA DirectStays ==
  ASSUME TypeInv, Direct, Next, offline' = offline, \A w : Entry(w)' => Entry(w)
  PROVE  Direct'
<1>1. \A w : Entry(w) => w.m \in Message
  BY TypesGive
<1>2. \A m \in Message : promise[m] # "none" => promise'[m] # "none"
  BY PromisesStay
<1> QED BY <1>1, <1>2 DEF Direct

LEMMA OnceCleansUp ==
  ASSUME TypeInv, OnceInv, Next,
         \/ ConnectFails \/ Disconnect \/ Lost
         \/ \E i \in DOMAIN leftover : ConnectNotices(i) \/ PingNotices(i)
  PROVE  OnceInv'
<1>1. CleansUp
  BY WhoCleansUp
<1>2. /\ Settles /\ queue' \in {queue, <<>>}
      /\ Wakes(Waiters \cup Range(writes), "rejected")
      /\ \A c \in Channel : pending'[c] = {}
      /\ writes' = <<>> /\ UNCHANGED <<timeouts, offline>>
  BY <1>1, CleansUpDoes
<1>3. PICK ws : ws = Waiters \cup Range(writes)
  OBVIOUS
<1>4. /\ Len(flush') = Len(flush)
      /\ \A f \in 1..Len(flush) :
           /\ flush'[f].rest = flush[f].rest /\ HeadOf(f)' = HeadOf(f)
           /\ flush'[f] = flush[f] \/ flush'[f].at = "rejected"
  BY <1>2, <1>3, WokenRests DEF HeadOf
<1>5. Range(writes') = {} /\ Distinct(writes)'
  BY <1>2, NoneInEmpty DEF Distinct
<1>6. \A w \in Range(timeouts') : Timed(w)'
  BY <1>2, <1>4 DEF OnceInv, Owns, Timed
<1>7. Owns'
  BY <1>2, <1>5, <1>6 DEF Owns
<1>8. Direct'
  BY <1>2, <1>5, DirectStays DEF OnceInv, Entry
<1>9. Lots'
  BY <1>2, <1>4, LotsShrink DEF OnceInv, Shrinks, Settles
<1> QED BY <1>7, <1>8, <1>9 DEF OnceInv

LEMMA OnceStarts == ASSUME TypeInv, OnceInv, Next, Starts PROVE OnceInv'
<1>1. /\ queue' = <<>> /\ UNCHANGED <<promise, writes, pending, timeouts, offline>>
      /\ \/ queue = <<>> /\ flush' = flush
         \/ \E new \in Flush : /\ flush' = Append(flush, new)
                               /\ new.rest = queue /\ new.at = "next"
  BY StartsDoes
<1>2. Direct'
  BY <1>1, DirectStays DEF OnceInv, Entry
<1>3. CASE queue = <<>> /\ flush' = flush
  <2>1. \A f : HeadOf(f)' = HeadOf(f)
    BY <1>3 DEF HeadOf
  <2>2. Owns'
    BY <1>1, <1>3, <2>1 DEF OnceInv, Owns, OwnedAt, Timed, Distinct
  <2>3. UNCHANGED <<queue, flush, promise, offline>>
    BY <1>1, <1>3
  <2>4. Lots'
    BY <2>3 DEF OnceInv, Lots, Distinct
  <2> QED BY <1>2, <2>2, <2>4 DEF OnceInv
<1>4. CASE \E new \in Flush : flush' = Append(flush, new) /\ new.rest = queue /\ new.at = "next"
  <2>1. PICK new \in Flush : flush' = Append(flush, new) /\ new.rest = queue /\ new.at = "next"
    BY <1>4
  <2>2. flush \in Seq(Flush)
    BY DEF TypeInv, PubType
  <2>3. PICK n \in Nat : n = Len(flush)
    BY <2>2
  <2>4. /\ Len(flush') = n + 1 /\ \A f \in 1..n : flush'[f] = flush[f] /\ HeadOf(f)' = HeadOf(f)
        /\ flush'[n + 1] = new
    BY <2>1, <2>2, <2>3, Appended DEF HeadOf
  <2>5. \A f \in 1..(n + 1) : f \in 1..n \/ f = n + 1
    OBVIOUS
  <2>6. \A f \in 1..n : f \in 1..(n + 1) /\ f # n + 1
    OBVIOUS
  <2>7. \A w, place : OwnedAt(w, place) => OwnedAt(w, place)'
    BY <2>3, <2>4, <2>6 DEF OwnedAt
  <2>8. \A w : Timed(w) => Timed(w)'
    BY <2>3, <2>4, <2>6 DEF Timed
  <2>9. Owns'
    BY <1>1, <2>7, <2>8 DEF OnceInv, Owns, Distinct
  <2>10. Range(queue') = {} /\ Distinct(queue)'
    BY <1>1, NoneInEmpty DEF Distinct
  <2>11. \A f \in 1..Len(flush') : flush'[f].rest = IF f = n + 1 THEN queue ELSE flush[f].rest
    BY <2>1, <2>4, <2>5, <2>6
  <2>12. \A f \in 1..Len(flush') : Distinct(flush'[f].rest)
    BY <2>3, <2>4, <2>5, <2>11 DEF OnceInv, Lots
  <2>13. \A f \in 1..Len(flush') : Distinct(flush[f].rest)'
    BY <2>12 DEF Distinct
  <2>14. ASSUME NEW f \in 1..Len(flush'), NEW g \in 1..Len(flush'), f # g
         PROVE  Range(flush'[f].rest) \cap Range(flush'[g].rest) = {}
    BY <2>3, <2>4, <2>5, <2>11, <2>14 DEF OnceInv, Lots
  <2>15. ASSUME NEW m, NEW f \in 1..Len(flush'), m \in Range(flush'[f].rest)
         PROVE  m \in Range(offline') /\ promise'[m] \in {"waiting", "rejected"}
    BY <1>1, <2>3, <2>4, <2>5, <2>11, <2>15 DEF OnceInv, Lots
  <2>16. \A m \in Range(offline') : promise'[m] # "none"
    BY <1>1 DEF OnceInv, Lots
  <2>17. Lots'
    BY <2>10, <2>13, <2>14, <2>15, <2>16 DEF Lots
  <2> QED BY <1>2, <2>9, <2>17 DEF OnceInv
<1> QED BY <1>1, <1>3, <1>4

LEMMA OncePublish == ASSUME TypeInv, OnceInv, Publish PROVE OnceInv'
<1>1. PICK m \in Message :
        /\ promise[m] = "none"
        /\ \/ /\ \E k, room : QueuedFrom(k, room, m)
              /\ writes' = writes /\ offline' = Append(offline, m)
           \/ /\ writes' = Append(writes, [m |-> m, by |-> 0])
              /\ \A n \in Message : promise'[n] = IF n = m THEN "waiting" ELSE promise[n]
              /\ UNCHANGED <<queue, offline>>
  BY PublishDoes
<1>2. UNCHANGED <<flush, pending, timeouts>>
  BY PublishDoes
<1>3. \A n \in Message : promise[n] # "none" => promise'[n] # "none"
  <2>1. Next
    BY DEF Next
  <2> QED BY <2>1, PromisesStay
<1>4. \A f : HeadOf(f)' = HeadOf(f)
  BY <1>2 DEF HeadOf
<1>5. /\ queue \in Seq(Message) /\ offline \in Seq(Message) /\ writes \in Seq(Waiter)
      /\ Range(queue) \subseteq Message /\ Range(offline) \subseteq Message
      /\ \A w : Entry(w) => w.m \in Message
      /\ \A f \in 1..Len(flush) : Range(flush[f].rest) \subseteq Message
  BY TypesGive
<1>6. /\ m \notin Range(queue) /\ m \notin Range(offline) /\ \A w : Entry(w) => w.m # m
      /\ \A f \in 1..Len(flush) : m \notin Range(flush[f].rest)
  BY <1>1 DEF OnceInv, Lots, Direct
<1>7. CASE /\ \E k, room : QueuedFrom(k, room, m)
           /\ writes' = writes /\ offline' = Append(offline, m)
  <2>1. PICK k, room : QueuedFrom(k, room, m)
    BY <1>7
  <2>2. /\ Range(queue') = Range(room) \cup {m} /\ Range(room) \subseteq Range(queue)
        /\ Range(offline') = Range(offline) \cup {m}
    BY <1>5, <1>7, <2>1, QueueGains, Appended
  <2>3. /\ k \in 0..Len(queue) /\ room \in Seq(Message) /\ Len(room) = Len(queue) - k
        /\ \A i \in 1..Len(room) : room[i] = queue[k + i]
        /\ queue' = Append(room, m)
        /\ \A n \in Message : promise'[n] = IF n = m THEN "waiting"
                     ELSE IF promise[n] = "waiting" /\ \E i \in 1..k : n = queue[i] THEN "rejected"
                     ELSE promise[n]
    BY <2>1 DEF QueuedFrom
  <2>4. Distinct(room)
    <3>1. Distinct(queue) /\ Len(queue) \in Nat /\ Len(room) \in Nat
      BY <1>5, <2>3 DEF OnceInv, Lots
    <3>2. \A i \in 1..Len(room) : k + i \in 1..Len(queue)
      <4>1. PICK l, r \in Nat : l = Len(queue) /\ r = Len(room)
        BY <3>1
      <4>2. k \in 0..l /\ r = l - k
        BY <2>3, <4>1
      <4>3. \A i \in 1..r : k + i \in 1..l
        BY ONLY <4>1, <4>2
      <4> QED BY <4>1, <4>3
    <3>3. SUFFICES ASSUME NEW i \in 1..Len(room), NEW j \in 1..Len(room), room[i] = room[j]
                   PROVE  i = j
      BY DEF Distinct
    <3>4. k + i = k + j
      BY <2>3, <3>1, <3>2, <3>3 DEF Distinct
    <3> QED BY <2>3, <3>4
  <2>5. Distinct(Append(room, m))
    BY <1>6, <2>2, <2>3, <2>4, DistinctAppend
  <2>6. Distinct(queue)' /\ \A f \in 1..Len(flush') : Distinct(flush[f].rest)'
    BY <1>2, <2>3, <2>5 DEF OnceInv, Lots, Distinct
  <2>7. Owns'
    BY <1>2, <1>4, <1>7 DEF OnceInv, Owns, OwnedAt, Timed, Distinct
  <2>8. Direct'
    BY <1>2, <1>3, <1>5, <1>6, <1>7, <2>2 DEF OnceInv, Direct, Entry
  <2>9. \A n : n \in Range(queue') \/ (\E f \in 1..Len(flush') : n \in Range(flush'[f].rest)) =>
          n \in Range(offline') /\ promise'[n] \in {"waiting", "rejected"}
    BY <1>2, <1>5, <2>2, <2>3 DEF OnceInv, Lots
  <2>10. \A n \in Range(offline') : promise'[n] # "none"
    BY <1>3, <1>5, <2>2, <2>3 DEF OnceInv, Lots
  <2>11. \A f \in 1..Len(flush') : Range(flush'[f].rest) \cap Range(queue') = {}
    BY <1>2, <1>6, <2>2 DEF OnceInv, Lots
  <2>12. Lots'
    BY <1>2, <2>6, <2>9, <2>10, <2>11 DEF OnceInv, Lots
  <2> QED BY <2>7, <2>8, <2>12 DEF OnceInv
<1>8. CASE /\ writes' = Append(writes, [m |-> m, by |-> 0])
           /\ \A n \in Message : promise'[n] = IF n = m THEN "waiting" ELSE promise[n]
           /\ UNCHANGED <<queue, offline>>
  <2>1. PICK w : w = [m |-> m, by |-> 0]
    OBVIOUS
  <2>2. w \in Waiter /\ w.m = m /\ w.by = 0 /\ writes' = Append(writes, w)
    BY <1>8, <2>1 DEF Waiter
  <2>3. w \notin Range(writes)
    BY <1>6, <2>2 DEF Entry
  <2>4. Distinct(Append(writes, w)) /\ Range(Append(writes, w)) = Range(writes) \cup {w}
    BY <1>5, <2>2, <2>3, DistinctAppend, Appended DEF OnceInv, Owns
  <2>5. Distinct(writes)' /\ Range(writes') = Range(writes) \cup {w}
    BY <2>2, <2>4 DEF Distinct
  <2>6. Owns'
    BY <1>2, <1>4, <2>2, <2>5 DEF OnceInv, Owns, OwnedAt, Timed
  <2>7. Direct'
    BY <1>2, <1>3, <1>5, <1>6, <1>8, <2>2, <2>5 DEF OnceInv, Direct, Entry
  <2>8. Lots'
    <3>1. \A n : n \in Range(queue') \/ (\E f \in 1..Len(flush') : n \in Range(flush'[f].rest)) =>
            n \in Range(offline') /\ promise'[n] \in {"waiting", "rejected"}
      BY <1>2, <1>5, <1>6, <1>8 DEF OnceInv, Lots
    <3>2. \A n \in Range(offline') : promise'[n] # "none"
      BY <1>3, <1>5, <1>8 DEF OnceInv, Lots
    <3> QED BY <1>2, <1>8, <3>1, <3>2 DEF OnceInv, Lots, Distinct
  <2> QED BY <2>6, <2>7, <2>8 DEF OnceInv
<1> QED BY <1>1, <1>7, <1>8

LEMMA OnceFlushSends ==
  ASSUME TypeInv, OnceInv, Next, NEW f \in DOMAIN flush, FlushSends(f)
  PROVE  OnceInv'
<1>1. /\ f \in 1..Len(flush) /\ flush[f].at = "next"
      /\ Len(flush') = Len(flush) /\ \A g \in 1..Len(flush) : g # f => flush'[g] = flush[g]
      /\ flush'[f].rest = flush[f].rest
      /\ Ended(f) \/ Stopped(f) \/ SendsHead(f)
      /\ UNCHANGED <<queue, promise, pending, timeouts, offline>>
  BY FlushSendsDoes DEF history
<1>2. /\ writes \in Seq(Waiter) /\ f \in Nat /\ f # 0
      /\ \A g \in 1..Len(flush) : HeadOf(g)' = HeadOf(g)
  <2>1. \A g \in 1..Len(flush) : flush'[g].rest = flush[g].rest
    BY <1>1
  <2>2. \A g \in 1..Len(flush) : HeadOf(g)' = HeadOf(g)
    BY <2>1 DEF HeadOf
  <2> QED BY <1>1, <2>2, TypesGive
<1>3. \A w : (OwnedAt(w, "sending") => OwnedAt(w, "sending")' /\ w.by # f)
             /\ (OwnedAt(w, "waiting") => OwnedAt(w, "waiting")')
             /\ (Timed(w) => Timed(w)')
  BY <1>1, <1>2 DEF OwnedAt, Timed
<1>4. Lots'
  BY <1>1, LotsShrink DEF OnceInv, Shrinks
<1>5. CASE SendsHead(f)
  <2>1. PICK w \in Waiter : /\ w.m = HeadOf(f) /\ w.by = f
                            /\ writes' = Append(writes, w)
                            /\ flush[f].rest # <<>> /\ flush'[f].at = "sending"
    BY <1>5 DEF SendsHead, HeadOf
  <2>2. w \notin Range(writes)
    BY <1>3, <2>1 DEF OnceInv, Owns
  <2>3. Distinct(Append(writes, w)) /\ Range(Append(writes, w)) = Range(writes) \cup {w}
    BY <1>2, <2>1, <2>2, DistinctAppend, Appended DEF OnceInv, Owns
  <2>4. Distinct(writes)' /\ Range(writes') = Range(writes) \cup {w}
    BY <2>1, <2>3 DEF Distinct
  <2>5. OwnedAt(w, "sending")'
    BY <1>1, <1>2, <2>1 DEF OwnedAt
  <2>6. Owns'
    BY <1>1, <1>3, <2>4, <2>5 DEF OnceInv, Owns
  <2>7. promise[w.m] # "none"
    <3>1. w.m \in Range(flush[f].rest)
      BY <1>1, <2>1, TypesGive
    <3> QED BY <1>1, <3>1 DEF OnceInv, Lots
  <2>8. Direct'
    BY <1>1, <1>2, <2>1, <2>4, <2>7 DEF OnceInv, Direct, Entry
  <2> QED BY <1>4, <2>6, <2>8 DEF OnceInv
<1>6. CASE Ended(f) \/ Stopped(f)
  <2>1. writes' = writes
    BY <1>6 DEF Ended, Stopped
  <2>2. Owns'
    BY <1>1, <1>3, <2>1 DEF OnceInv, Owns, Distinct
  <2>3. Direct'
    BY <1>1, <2>1 DEF OnceInv, Direct, Entry
  <2> QED BY <1>4, <2>2, <2>3 DEF OnceInv
<1> QED BY <1>1, <1>5, <1>6

LEMMA OnceFlushCatches ==
  ASSUME TypeInv, OnceInv, Next, NEW f \in DOMAIN flush, FlushCatches(f)
  PROVE  OnceInv'
<1>1. /\ f \in 1..Len(flush) /\ flush[f].at = "rejected" /\ flush[f].rest # <<>>
      /\ Len(flush') = Len(flush) /\ \A g \in 1..Len(flush) : g # f => flush'[g] = flush[g]
      /\ Passes(f) \/ PutsBack(f)
      /\ UNCHANGED <<promise, writes, pending, timeouts, offline>>
  BY FlushCatchesDoes DEF history
<1>2. PICK q \in Seq(Message) : q = flush[f].rest
  BY <1>1, TypesGive
<1>3. /\ Distinct(q) /\ Distinct(Tail(q)) /\ HeadOf(f) \notin Range(Tail(q))
      /\ Range(Tail(q)) \subseteq Range(q)
  <2>1. Distinct(q)
    BY <1>1, <1>2 DEF OnceInv, Lots
  <2> QED BY <1>1, <1>2, <2>1, DistinctTail, HeadAndTail DEF HeadOf
<1>4. flush'[f].rest = Tail(q) \/ flush'[f].rest = <<>>
  BY <1>1, <1>2 DEF Passes, PutsBack
<1>5. \A g \in 1..Len(flush) : g # f => HeadOf(g)' = HeadOf(g)
  BY <1>1 DEF HeadOf
<1>6. \A w : (OwnedAt(w, "sending") => OwnedAt(w, "sending")')
             /\ (OwnedAt(w, "waiting") => OwnedAt(w, "waiting")')
  BY <1>1, <1>5 DEF OwnedAt
<1>7. ASSUME NEW w, Timed(w) PROVE Timed(w)'
  <2>1. CASE w.by = f
    <3>1. w.m \notin Range(flush'[f].rest)
      <4>1. w.m \in Range(q) => HeadOf(f) = w.m
        BY <1>2, <1>7, <2>1, <1>1 DEF Timed
      <4> QED BY <1>3, <1>4, <4>1, NoneInEmpty
    <3> QED BY <1>1, <2>1, <3>1 DEF Timed
  <2>2. CASE w.by # f
    BY <1>1, <1>5, <1>7, <2>2 DEF Timed
  <2> QED BY <2>1, <2>2
<1>8. Owns'
  BY <1>1, <1>6, <1>7 DEF OnceInv, Owns, Distinct
<1>9. Direct'
  BY <1>1 DEF OnceInv, Direct, Entry
<1>10. CASE Passes(f)
  <2>1. Shrinks /\ queue' = queue
    BY <1>1, <1>2, <1>4, <1>10 DEF Shrinks, Passes
  <2>2. Lots'
    BY <1>1, <2>1, LotsShrink DEF OnceInv
  <2> QED BY <1>8, <1>9, <2>2 DEF OnceInv
<1>11. CASE PutsBack(f)
  <2>1. queue' = q \o queue /\ flush'[f].rest = <<>> /\ queue \in Seq(Message)
    BY <1>2, <1>11, TypesGive DEF PutsBack
  <2>2. /\ Range(q \o queue) = Range(q) \cup Range(queue) /\ Distinct(q \o queue)
    <3>1. Distinct(queue) /\ Range(q) \cap Range(queue) = {}
      BY <1>1, <1>2 DEF OnceInv, Lots
    <3> QED BY <1>2, <1>3, <2>1, <3>1, Joined, DistinctJoined
  <2>3. Range(queue') = Range(q) \cup Range(queue) /\ Distinct(queue)'
    BY <2>1, <2>2 DEF Distinct
  <2>4. Range(flush'[f].rest) = {} /\ Distinct(flush'[f].rest)
    BY <2>1, NoneInEmpty DEF Distinct
  <2>5. \A g \in 1..Len(flush) : g # f => flush'[g].rest = flush[g].rest
    BY <1>1
  <2>6. \A g \in 1..Len(flush') : Distinct(flush'[g].rest)
    BY <1>1, <2>4, <2>5 DEF OnceInv, Lots
  <2>7. \A g \in 1..Len(flush') : Distinct(flush[g].rest)'
    BY <2>6 DEF Distinct
  <2>8. \A g \in 1..Len(flush') : Range(flush'[g].rest) \cap Range(queue') = {}
    BY <1>1, <1>2, <2>3, <2>4, <2>5 DEF OnceInv, Lots
  <2>9. \A g, h \in 1..Len(flush') : g # h => Range(flush'[g].rest) \cap Range(flush'[h].rest) = {}
    BY <1>1, <2>4, <2>5 DEF OnceInv, Lots
  <2>10. \A m : m \in Range(queue') \/ (\E g \in 1..Len(flush') : m \in Range(flush'[g].rest)) =>
           m \in Range(offline') /\ promise'[m] \in {"waiting", "rejected"}
    BY <1>1, <1>2, <2>3, <2>4, <2>5 DEF OnceInv, Lots
  <2>11. Lots'
    BY <1>1, <2>3, <2>7, <2>8, <2>9, <2>10 DEF OnceInv, Lots
  <2> QED BY <1>8, <1>9, <2>11 DEF OnceInv
<1> QED BY <1>1, <1>10, <1>11

LEMMA OnceWritten == ASSUME TypeInv, OnceInv, Next, Written PROVE OnceInv'
<1>1. PICK w \in Waiter :
           /\ writes # <<>> /\ w = Head(writes) /\ writes' = Tail(writes)
           /\ ChannelFor(w) \in Channel /\ pending'[ChannelFor(w)] = {w}
           /\ \A c \in Channel \ {ChannelFor(w)} : pending'[c] = pending[c]
           /\ timeouts' = Append(timeouts, w)
           /\ Wakes({w}, "waiting")
           /\ UNCHANGED <<queue, promise, offline>>
  BY WrittenDoes
<1>2. PICK ws : ws = {w}
  OBVIOUS
<1>3. /\ Len(flush') = Len(flush)
      /\ \A f \in 1..Len(flush) :
           /\ flush'[f].rest = flush[f].rest /\ HeadOf(f)' = HeadOf(f)
           /\ ~Woken(f, ws) => flush'[f] = flush[f]
           /\ Woken(f, ws) => flush'[f].at = "waiting"
  BY <1>1, <1>2, WokenRests DEF HeadOf
<1>4. /\ writes \in Seq(Waiter) /\ timeouts \in Seq(Waiter)
      /\ \A v : Entry(v) => v = [m |-> v.m, by |-> v.by]
      /\ w = [m |-> w.m, by |-> w.by] /\ w.by \in Nat
  BY TypesGive
<1>5. /\ Range(writes) = {w} \cup Range(writes') /\ w \notin Range(writes') /\ Distinct(writes')
      /\ Range(timeouts') = Range(timeouts) \cup {w}
  BY <1>1, <1>4, HeadAndTail, DistinctTail, Appended DEF OnceInv, Owns
<1>6. OwnedAt(w, "sending")
  BY <1>5 DEF OnceInv, Owns
<1>7. \A f \in 1..Len(flush) : Woken(f, ws) <=> f = w.by /\ w.by # 0
  <2>1. ASSUME NEW f \in 1..Len(flush), Woken(f, ws) PROVE f = w.by /\ w.by # 0
    <3>1. PICK v : v = [m |-> HeadOf(f), by |-> f]
      OBVIOUS
    <3>2. v \in ws /\ v.by = f
      BY <2>1, <3>1 DEF Woken, HeadOf
    <3>3. v = w /\ f # 0
      BY <1>2, <3>2
    <3> QED BY <3>2, <3>3
  <2>2. ASSUME NEW f \in 1..Len(flush), f = w.by, w.by # 0 PROVE Woken(f, ws)
    <3>1. flush[f].at = "sending" /\ HeadOf(f) = w.m
      BY <1>6, <2>2 DEF OwnedAt
    <3>2. w = [m |-> HeadOf(f), by |-> f]
      BY <1>4, <2>2, <3>1
    <3> QED BY <1>2, <3>1, <3>2 DEF Woken, Open, HeadOf
  <2> QED BY <2>1, <2>2
<1>8. \A v \in Range(writes') : OwnedAt(v, "sending")'
  <2> SUFFICES ASSUME NEW v \in Range(writes'), v.by # 0 PROVE OwnedAt(v, "sending")'
    BY DEF OwnedAt
  <2>1. OwnedAt(v, "sending") /\ v # w /\ v = [m |-> v.m, by |-> v.by]
    BY <1>4, <1>5 DEF OnceInv, Owns, Entry
  <2>2. v.by # w.by
    <3>1. v.by = w.by => v.m = w.m
      BY <1>6, <2>1 DEF OwnedAt
    <3> QED BY <1>4, <2>1, <3>1
  <2> QED BY <1>3, <1>7, <2>1, <2>2 DEF OwnedAt
<1>9. OwnedAt(w, "waiting")' /\ Timed(w)'
  BY <1>3, <1>6, <1>7 DEF OwnedAt, Timed
<1>10. ASSUME NEW v, OwnedAt(v, "waiting") PROVE OwnedAt(v, "waiting")'
  <2>1. v.by # 0 => v.by # w.by
    BY <1>6, <1>10 DEF OwnedAt
  <2> QED BY <1>3, <1>7, <1>10, <2>1 DEF OwnedAt
<1>11. ASSUME NEW v, Timed(v) PROVE Timed(v)'
  <2>1. CASE v.by = w.by /\ v.by # 0
    <3>1. v.m \notin Range(flush[v.by].rest)
      BY <1>6, <1>11, <2>1 DEF OwnedAt, Timed
    <3> QED BY <1>3, <1>11, <2>1, <3>1 DEF Timed
  <2>2. CASE v.by # w.by
    BY <1>3, <1>7, <1>11, <2>2 DEF Timed
  <2>3. CASE v.by = 0
    BY <2>3 DEF Timed
  <2> QED BY <2>1, <2>2, <2>3
<1>12. Owns'
  <2>1. \A c \in Channel : \A v \in pending'[c] : OwnedAt(v, "waiting")'
    BY <1>1, <1>9, <1>10 DEF OnceInv, Owns
  <2>2. \A v \in Range(timeouts') : Timed(v)'
    BY <1>5, <1>9, <1>11 DEF OnceInv, Owns
  <2>3. Distinct(writes)'
    BY <1>5 DEF Distinct
  <2> QED BY <1>8, <2>1, <2>2, <2>3 DEF Owns
<1>13. Direct'
  <2>1. \A v : Entry(v)' => Entry(v)
    BY <1>1, <1>5 DEF Entry
  <2> QED BY <1>1, <2>1, DirectStays DEF OnceInv
<1>14. Lots'
  <2>1. Shrinks
    BY <1>3 DEF Shrinks
  <2> QED BY <1>1, <2>1, LotsShrink DEF OnceInv
<1> QED BY <1>12, <1>13, <1>14 DEF OnceInv

(* Those who are told all wait; a message is confirmed to the one who sent *)
(* it, and leaves the flush it was in.                                     *)
LEMMA OnceTold ==
  ASSUME TypeInv, OnceInv, Next, NEW ws, NEW outcome \in {"resolved", "rejected"},
         NEW at \in {"next", "rejected"}, outcome = "resolved" => at = "next",
         Tells(ws, outcome), Wakes(ws, at),
         \A f \in 1..Len(flush) : Woken(f, ws) => flush[f].at = "waiting",
         outcome = "resolved" =>
           \A w \in ws : Entry(w) /\ OwnedAt(w, "waiting"),
         \A c \in Channel : pending'[c] \subseteq pending[c] \ ws,
         Range(timeouts') \subseteq Range(timeouts),
         UNCHANGED <<queue, writes, offline>>
  PROVE  OnceInv'
<1>1. /\ Len(flush') = Len(flush)
      /\ \A f \in 1..Len(flush) :
           /\ Range(flush'[f].rest) \subseteq Range(flush[f].rest)
           /\ ~Woken(f, ws) => flush'[f] = flush[f] /\ HeadOf(f)' = HeadOf(f)
           /\ Woken(f, ws) =>
                /\ flush[f].at = "waiting" /\ flush'[f].at = at
                /\ HeadOf(f) \in Range(flush[f].rest)
                /\ at # "next" => flush'[f].rest = flush[f].rest /\ HeadOf(f)' = HeadOf(f)
                /\ at = "next" => HeadOf(f) \notin Range(flush'[f].rest)
  <2>1. /\ Len(flush') = Len(flush)
        /\ \A f \in 1..Len(flush) :
             /\ Range(flush'[f].rest) \subseteq Range(flush[f].rest)
             /\ ~Woken(f, ws) => flush'[f] = flush[f]
             /\ Woken(f, ws) =>
                  /\ flush'[f].at = at /\ HeadOf(f) \in Range(flush[f].rest)
                  /\ at # "next" => flush'[f].rest = flush[f].rest
    BY WokenRests
  <2>2. ASSUME NEW f \in 1..Len(flush), Woken(f, ws), at = "next"
        PROVE  HeadOf(f) \notin Range(flush'[f].rest)
    <3>1. PICK q \in Seq(Message) : q = flush[f].rest
      BY TypesGive
    <3>2. q # <<>> /\ flush'[f].rest = Tail(q)
      BY <2>2, <3>1 DEF Wakes
    <3>3. Distinct(q)
      BY <3>1 DEF OnceInv, Lots
    <3> QED BY <3>1, <3>2, <3>3, DistinctTail DEF HeadOf
  <2> QED BY <2>1, <2>2 DEF HeadOf
<1>2. \A v : Entry(v) => v = [m |-> v.m, by |-> v.by]
  BY TypesGive
<1>3. Owns'
  <2>1. ASSUME NEW v \in Range(writes') PROVE OwnedAt(v, "sending")'
    <3>1. OwnedAt(v, "sending")
      BY DEF OnceInv, Owns
    <3> QED BY <1>1, <3>1 DEF OwnedAt
  <2>2. ASSUME NEW c \in Channel, NEW v \in pending'[c] PROVE OwnedAt(v, "waiting")'
    <3>1. OwnedAt(v, "waiting") /\ v \notin ws /\ v = [m |-> v.m, by |-> v.by]
      BY <1>2 DEF OnceInv, Owns, Entry
    <3>2. ASSUME v.by # 0 PROVE ~Woken(v.by, ws)
      <4>1. HeadOf(v.by) = v.m
        BY <3>1, <3>2 DEF OwnedAt
      <4>2. [m |-> HeadOf(v.by), by |-> v.by] = v
        BY <3>1, <4>1
      <4> QED BY <3>1, <4>2 DEF Woken, HeadOf
    <3> QED BY <1>1, <3>1, <3>2 DEF OwnedAt
  <2>3. ASSUME NEW v \in Range(timeouts') PROVE Timed(v)'
    <3>1. Timed(v)
      BY DEF OnceInv, Owns
    <3>2. CASE v.by # 0 /\ Woken(v.by, ws)
      <4>1. CASE at = "next"
        BY <1>1, <3>1, <3>2, <4>1 DEF Timed
      <4>2. CASE at # "next"
        BY <1>1, <3>1, <3>2, <4>2 DEF Timed
      <4> QED BY <4>1, <4>2
    <3>3. CASE ~(v.by # 0 /\ Woken(v.by, ws))
      BY <1>1, <3>1, <3>3 DEF Timed
    <3> QED BY <3>2, <3>3
  <2>4. Distinct(writes)'
    BY DEF OnceInv, Owns, Distinct
  <2> QED BY <2>1, <2>2, <2>3, <2>4 DEF Owns
<1>4. Direct'
  <2>1. \A v : Entry(v)' => Entry(v)
    BY DEF Entry
  <2> QED BY <2>1, DirectStays DEF OnceInv
<1>5. Shrinks
  BY <1>1 DEF Shrinks, Wakes
<1>6. ASSUME NEW m \in Message, promise[m] \in {"waiting", "rejected"},
             promise'[m] \notin {"waiting", "rejected"}
      PROVE  m \notin Range(queue') /\ \A f \in 1..Len(flush) : m \notin Range(flush'[f].rest)
  <2>1. outcome = "resolved" /\ at = "next" /\ \E w \in ws : w.m = m
    BY <1>6 DEF Tells
  <2>2. PICK w \in ws : w.m = m /\ Entry(w) /\ OwnedAt(w, "waiting")
    BY <2>1
  <2>3. CASE w.by = 0
    <3>1. m \notin Range(offline)
      BY <2>2, <2>3 DEF OnceInv, Direct
    <3> QED BY <1>1, <3>1 DEF OnceInv, Lots
  <2>4. CASE w.by # 0
    <3>1. PICK f \in 1..Len(flush) : f = w.by /\ flush[f].at = "waiting" /\ HeadOf(f) = m
      BY <2>2, <2>4 DEF OwnedAt
    <3>2. Woken(f, ws)
      <4>1. [m |-> HeadOf(f), by |-> f] = w
        BY <1>2, <2>2, <3>1
      <4> QED BY <3>1, <4>1 DEF Woken, Open, HeadOf
    <3>3. m \in Range(flush[f].rest) /\ m \notin Range(flush'[f].rest)
      BY <1>1, <2>1, <3>1, <3>2
    <3>4. m \notin Range(queue) /\ \A g \in 1..Len(flush) : g # f => m \notin Range(flush[g].rest)
      BY <3>3 DEF OnceInv, Lots
    <3> QED BY <1>1, <3>3, <3>4
  <2> QED BY <2>3, <2>4
<1>7. \A m \in Message : promise[m] # "none" => promise'[m] # "none"
  BY PromisesStay
<1>8. Lots'
  BY <1>5, <1>6, <1>7, LotsShrink DEF OnceInv
<1> QED BY <1>3, <1>4, <1>8 DEF OnceInv

LEMMA OnceReceive ==
  ASSUME TypeInv, ResolvedInv, OnceInv, Next, Receive
  PROVE  OnceInv'
<1>1. PICK m \in Message :
           /\ ChannelOf[m] \in Channel /\ pending'[ChannelOf[m]] = {}
           /\ \A c \in Channel \ {ChannelOf[m]} : pending'[c] = pending[c]
           /\ \/ Tells(pending[ChannelOf[m]], "rejected") /\ Wakes(pending[ChannelOf[m]], "rejected")
              \/ Tells(pending[ChannelOf[m]], "resolved") /\ Wakes(pending[ChannelOf[m]], "next")
           /\ UNCHANGED <<queue, writes, timeouts, offline>>
  BY ReceiveDoes DEF history
<1>2. PICK ws : ws = pending[ChannelOf[m]]
  OBVIOUS
<1>3. \A w \in ws : Entry(w) /\ OwnedAt(w, "waiting")
  BY <1>1, <1>2 DEF OnceInv, Owns, Entry
<1>4. ASSUME NEW f \in 1..Len(flush), Woken(f, ws) PROVE flush[f].at = "waiting"
  <2>1. PICK w : w = [m |-> HeadOf(f), by |-> f]
    OBVIOUS
  <2>2. w \in ws /\ w.by = f /\ f # 0
    BY <1>4, <2>1 DEF Woken, HeadOf
  <2> QED BY <1>3, <2>2 DEF OwnedAt
<1>5. \A c \in Channel : pending'[c] \subseteq pending[c] \ ws
  <2>1. \A c \in Channel : \A w \in pending[c] : ChannelFor(w) = c
    BY DEF ResolvedInv, ByChannel
  <2> QED BY <1>1, <1>2, <2>1
<1>6. CASE Tells(ws, "rejected") /\ Wakes(ws, "rejected")
  BY <1>1, <1>4, <1>5, <1>6, OnceTold
<1>7. CASE Tells(ws, "resolved") /\ Wakes(ws, "next")
  BY <1>1, <1>3, <1>4, <1>5, <1>7, OnceTold
<1> QED BY <1>1, <1>2, <1>6, <1>7

LEMMA OnceExpire ==
  ASSUME TypeInv, ResolvedInv, OnceInv, Next, Expire
  PROVE  OnceInv'
<1>1. PICK w \in Waiter :
           /\ timeouts # <<>> /\ w = Head(timeouts) /\ timeouts' = Tail(timeouts)
           /\ ChannelFor(w) \in Channel
           /\ \/ UNCHANGED <<pending, promise, flush>>
              \/ /\ pending'[ChannelFor(w)] = {}
                 /\ \A c \in Channel \ {ChannelFor(w)} : pending'[c] = pending[c]
                 /\ Tells({w}, "rejected") /\ Wakes({w}, "rejected")
           /\ UNCHANGED <<queue, writes, offline>>
  BY ExpireDoes
<1>2. Range(timeouts) = {w} \cup Range(timeouts')
  <2>1. timeouts \in Seq(Waiter)
    BY TypesGive
  <2> QED BY <1>1, <2>1, HeadAndTail
<1>3. CASE UNCHANGED <<pending, promise, flush>>
  <2>1. \A f : HeadOf(f)' = HeadOf(f)
    BY <1>3 DEF HeadOf
  <2>2. Owns'
    BY <1>1, <1>2, <1>3, <2>1 DEF OnceInv, Owns, OwnedAt, Timed, Distinct
  <2>3. Direct'
    BY <1>1, <1>2, <1>3 DEF OnceInv, Direct, Entry
  <2>4. Lots'
    BY <1>1, <1>3 DEF OnceInv, Lots, Distinct
  <2> QED BY <2>2, <2>3, <2>4 DEF OnceInv
<1>4. CASE /\ pending'[ChannelFor(w)] = {}
           /\ \A c \in Channel \ {ChannelFor(w)} : pending'[c] = pending[c]
           /\ Tells({w}, "rejected") /\ Wakes({w}, "rejected")
  <2>1. PICK ws : ws = {w}
    OBVIOUS
  <2>2. ASSUME NEW f \in 1..Len(flush), Woken(f, ws) PROVE flush[f].at = "waiting"
    <3>1. PICK v : v = [m |-> HeadOf(f), by |-> f]
      OBVIOUS
    <3>2. v \in ws /\ v.by = f /\ v.m = HeadOf(f) /\ f # 0 /\ flush[f].at \in Open
      BY <2>2, <3>1 DEF Woken, HeadOf
    <3>3. w.by = f /\ w.m = HeadOf(f)
      BY <2>1, <3>2
    <3>4. HeadOf(f) \in Range(flush[f].rest)
      <4>1. flush[f].rest # <<>>
        BY <3>2 DEF TypeInv, PubType, AtMessage
      <4> QED BY <4>1, TypesGive
    <3>5. Timed(w)
      BY <1>2 DEF OnceInv, Owns
    <3> QED BY <3>2, <3>3, <3>4, <3>5 DEF Timed, Open
  <2>3. \A c \in Channel : pending'[c] \subseteq pending[c] \ ws
    <3>1. \A c \in Channel : \A v \in pending[c] : ChannelFor(v) = c
      BY DEF ResolvedInv, ByChannel
    <3> QED BY <1>1, <1>4, <2>1, <3>1
  <2>4. Tells(ws, "rejected") /\ Wakes(ws, "rejected")
    BY <1>4, <2>1
  <2> QED BY <1>1, <1>2, <2>2, <2>3, <2>4, OnceTold
<1> QED BY <1>1, <1>3, <1>4

LEMMA StepOnce == TypeInv /\ ResolvedInv /\ OnceInv /\ [Next]_vars => OnceInv'
<1> SUFFICES ASSUME TypeInv, ResolvedInv, OnceInv, [Next]_vars PROVE OnceInv'
  OBVIOUS
<1>1. CASE UNCHANGED vars
  BY <1>1, OnceDials
<1>2. CASE Next
  BY <1>2, OnceDials, OnceCleansUp, OnceStarts, OncePublish, OnceFlushSends,
     OnceFlushCatches, OnceWritten, OnceReceive, OnceExpire, Steps
<1> QED BY <1>1, <1>2

(* Only publish() and a flush begin a write.                               *)
LEMMA WriteBegins ==
  ASSUME TypeInv, OnceInv, [Next]_vars, NEW m \in Message, promise[m] = "resolved",
         NEW w \in Range(writes') \ Range(writes)
  PROVE  w.m # m
<1>1. ASSUME Range(writes') \subseteq Range(writes) PROVE FALSE
  BY <1>1
<1>2. CASE UNCHANGED vars \/ Dials \/ Reads \/ Starts \/ Receive \/ Expire
  BY <1>1, <1>2, DialsDoes, ReadsDoes, StartsDoes, ReceiveDoes, ExpireDoes DEF vars, pubVars
<1>3. CASE \/ ConnectFails \/ Disconnect \/ Lost
           \/ \E i \in DOMAIN leftover : ConnectNotices(i) \/ PingNotices(i)
  BY <1>1, <1>3, WhoCleansUp, CleansUpDoes, NoneInEmpty
<1>4. writes \in Seq(Waiter)
  BY TypesGive
<1>5. CASE Publish
  <2>1. PICK n \in Message :
          /\ promise[n] = "none"
          /\ writes' = writes \/ writes' = Append(writes, [m |-> n, by |-> 0])
    BY <1>5, PublishDoes
  <2>2. PICK v : v = [m |-> n, by |-> 0]
    OBVIOUS
  <2>3. v \in Waiter /\ v.m = n
    BY <2>2 DEF Waiter
  <2>4. Range(Append(writes, v)) = Range(writes) \cup {v}
    BY <1>4, <2>3, Appended
  <2> QED BY <1>1, <2>1, <2>2, <2>3, <2>4
<1>6. ASSUME NEW f \in DOMAIN flush, FlushSends(f) PROVE w.m # m
  <2>1. /\ f \in 1..Len(flush)
        /\ Ended(f) \/ Stopped(f) \/ SendsHead(f)
    BY <1>6, FlushSendsDoes
  <2>2. CASE SendsHead(f)
    <3>1. PICK v \in Waiter : /\ v.m = HeadOf(f) /\ flush[f].rest # <<>>
                              /\ writes' = Append(writes, v)
      BY <2>2 DEF SendsHead, HeadOf
    <3>2. Range(Append(writes, v)) = Range(writes) \cup {v}
      BY <1>4, <3>1, Appended
    <3>3. HeadOf(f) \in Range(flush[f].rest)
      BY <2>1, <3>1, TypesGive
    <3>4. promise[v.m] # "resolved"
      BY <2>1, <3>1, <3>3 DEF OnceInv, Lots
    <3>5. w = v
      BY <3>1, <3>2
    <3> QED BY <3>4, <3>5
  <2>3. CASE Ended(f) \/ Stopped(f)
    BY <1>1, <2>3 DEF Ended, Stopped
  <2> QED BY <2>1, <2>2, <2>3
<1>7. ASSUME NEW f \in DOMAIN flush, FlushCatches(f) PROVE FALSE
  BY <1>1, <1>7, FlushCatchesDoes
<1>8. CASE Written
  <2>1. writes # <<>> /\ writes' = Tail(writes)
    BY <1>8, WrittenDoes
  <2> QED BY <1>1, <1>4, <2>1, HeadAndTail
<1> QED BY <1>2, <1>3, <1>5, <1>6, <1>7, <1>8, Steps

(* ConfirmedNotResent (client.ts:470-497, 516-534): no second attempt of a *)
(* flush, no queue put back and no late answer makes the client send what  *)
(* was confirmed to its caller.                                            *)
THEOREM NeverResent == Spec => ConfirmedNotResent
<1>1. TypeInv /\ OnceInv /\ [Next]_vars =>
        [\A m \in Message : promise[m] = "resolved" =>
           \A w \in Range(writes') \ Range(writes) : w.m # m]_vars
  BY WriteBegins
<1> QED
  BY InitTypes, StepTypes, InitResolved, StepResolved, InitOnce, StepOnce, <1>1, PTL
  DEF Spec, ConfirmedNotResent

-----------------------------------------------------------------------------
(* One flush at a time: the turns of the connection.                       *)

Quiet == state # "connected" =>
  /\ writes = <<>> /\ wire = <<>> /\ ~resubbing
  /\ \A c \in Channel : pending[c] = {}
Cut == leftover # <<>> => state # "connected"

(* At most one resubscribe() is still to end, and then no flush goes on.   *)
OneResub(q) ==
  \A i, j \in 1..Len(q) : q[i] = "resubscribe" /\ q[j] = "resubscribe" => i = j
HasResub(q) == \E i \in 1..Len(q) : q[i] = "resubscribe"
Resubs == resubbing \/ HasResub(leftover)
Alive(f) == flush[f].at # "over"
Alone == robbed = {} =>
  /\ \A f, g \in 1..Len(flush) : Alive(f) /\ Alive(g) => f = g
  /\ Resubs => \A f \in 1..Len(flush) : ~Alive(f)

TurnsInv == Quiet /\ Cut /\ OneResub(leftover) /\ Alone

Cuts == {"connect", "ping", "resubscribe"}

LEMMA ResubTakenOut ==
  ASSUME NEW q \in Seq(Cuts), NEW i \in 1..Len(q), OneResub(q)
  PROVE  /\ RemoveAt(q, i) \in Seq(Cuts) /\ OneResub(RemoveAt(q, i))
         /\ HasResub(RemoveAt(q, i)) => HasResub(q) /\ q[i] # "resubscribe"
<1>1. PICK r : r = RemoveAt(q, i)
  OBVIOUS
<1>2. /\ r \in Seq(Cuts) /\ Len(r) = Len(q) - 1 /\ Len(q) \in Nat
      /\ \A j \in 1..(Len(q) - 1) : r[j] = IF j < i THEN q[j] ELSE q[j + 1]
  BY <1>1, TakenOut
<1>3. ASSUME NEW j \in 1..Len(r)
      PROVE  \E k \in 1..Len(q) : r[j] = q[k] /\ k # i /\ (IF j < i THEN k = j ELSE k = j + 1)
  <2>1. CASE j < i
    BY <1>2, <2>1
  <2>2. CASE ~(j < i)
    <3>1. j + 1 \in 1..Len(q) /\ j + 1 # i
      BY <1>2, <2>2
    <3> QED BY <1>2, <2>2, <3>1
  <2> QED BY <2>1, <2>2
<1>4. OneResub(r)
  <2> SUFFICES ASSUME NEW j \in 1..Len(r), NEW l \in 1..Len(r),
                      r[j] = "resubscribe", r[l] = "resubscribe"
               PROVE  j = l
    BY DEF OneResub
  <2>1. PICK k \in 1..Len(q) : r[j] = q[k] /\ (IF j < i THEN k = j ELSE k = j + 1) /\ k # i
    BY <1>3
  <2>2. PICK h \in 1..Len(q) : r[l] = q[h] /\ (IF l < i THEN h = l ELSE h = l + 1) /\ h # i
    BY <1>3
  <2>3. k = h
    BY <2>1, <2>2 DEF OneResub
  <2> QED BY <1>2, <2>1, <2>2, <2>3
<1>5. HasResub(r) => HasResub(q) /\ q[i] # "resubscribe"
  <2> SUFFICES ASSUME HasResub(r) PROVE HasResub(q) /\ q[i] # "resubscribe"
    OBVIOUS
  <2>1. PICK k \in 1..Len(q) : q[k] = "resubscribe" /\ k # i
    BY <1>3 DEF HasResub
  <2> QED BY <2>1 DEF HasResub, OneResub
<1> QED BY <1>1, <1>2, <1>4, <1>5

LEMMA ResubJoined ==
  ASSUME NEW u \in Seq(Cuts), NEW v \in Seq(Cuts), OneResub(u), ~HasResub(v)
  PROVE  /\ OneResub(u \o v)
         /\ HasResub(u \o v) => HasResub(u)
<1>1. PICK t : t = u \o v
  OBVIOUS
<1>2. /\ Len(t) = Len(u) + Len(v) /\ Len(u) \in Nat /\ Len(v) \in Nat
      /\ \A i \in 1..Len(u) : t[i] = u[i]
      /\ \A i \in 1..Len(v) : t[Len(u) + i] = v[i]
  BY <1>1, Joined
<1>3. ASSUME NEW i \in 1..Len(t), t[i] = "resubscribe"
      PROVE  i \in 1..Len(u) /\ u[i] = "resubscribe"
  <2>1. CASE i <= Len(u)
    BY <1>2, <1>3, <2>1
  <2>2. CASE i > Len(u)
    <3>1. i - Len(u) \in 1..Len(v) /\ Len(u) + (i - Len(u)) = i
      BY <1>2, <2>2
    <3>2. t[Len(u) + (i - Len(u))] = v[i - Len(u)]
      BY <1>2, <3>1
    <3> QED BY <1>3, <3>1, <3>2 DEF HasResub
  <2> QED BY <1>2, <2>1, <2>2
<1>4. OneResub(t) /\ (HasResub(t) => HasResub(u))
  BY <1>3 DEF OneResub, HasResub
<1> QED BY <1>1, <1>4

(* What a cut adds.                                                        *)
LEMMA CutAdds ==
  ASSUME TypeInv, Cut, OneResub(leftover), NEW cut \in Interrupted,
         NEW base, base = leftover \/ \E i \in 1..Len(leftover) : base = RemoveAt(leftover, i)
  PROVE  /\ OneResub(base \o cut)
         /\ HasResub(base \o cut) => resubbing \/ HasResub(leftover)
<1>1. leftover \in Seq(Cuts) /\ cut \in Seq(Cuts)
  BY InterruptedIs DEF TypeInv, ConnType, Cuts
<1>2. base \in Seq(Cuts) /\ OneResub(base) /\ (HasResub(base) => HasResub(leftover))
  BY <1>1, ResubTakenOut
<1>3. CASE state = "connected" /\ resubbing
  <2>1. leftover = <<>>
    BY <1>3 DEF Cut
  <2>2. base = <<>>
    BY <1>1, <2>1
  <2>3. cut = <<"resubscribe">> \/ cut = <<"resubscribe">> \o <<"ping">>
    BY <1>3 DEF Interrupted
  <2>4. <<"resubscribe">> \in Seq(Cuts) /\ <<"ping">> \in Seq(Cuts) /\ ~HasResub(<<"ping">>)
        /\ OneResub(<<"resubscribe">>)
    BY DEF Cuts, HasResub, OneResub
  <2>5. OneResub(<<"resubscribe">> \o <<"ping">>)
    BY <2>4, ResubJoined
  <2>6. OneResub(cut)
    BY <2>3, <2>4, <2>5
  <2>7. base \o cut = cut
    BY <1>1, <2>2
  <2> QED BY <1>3, <2>6, <2>7
<1>4. CASE ~(state = "connected" /\ resubbing)
  <2>1. cut \in {<<"connect">>, <<>>, <<"ping">>, <<>> \o <<"ping">>}
    BY <1>4 DEF Interrupted
  <2>2. <<>> \o <<"ping">> = <<"ping">>
    OBVIOUS
  <2>3. ~HasResub(<<"connect">>) /\ ~HasResub(<<>>) /\ ~HasResub(<<"ping">>)
    BY DEF HasResub
  <2>4. ~HasResub(cut)
    BY <2>1, <2>2, <2>3
  <2>5. OneResub(base \o cut) /\ (HasResub(base \o cut) => HasResub(base))
    BY <1>1, <1>2, <2>4, ResubJoined
  <2> QED BY <1>2, <2>5
<1> QED BY <1>3, <1>4

LEMMA InitTurns == Init => TurnsInv
<1> SUFFICES ASSUME Init PROVE TurnsInv
  OBVIOUS
<1>1. Len(leftover) = 0 /\ Len(flush) = 0
  BY DEF Init
<1>2. OneResub(leftover) /\ Alone
  BY <1>1 DEF OneResub, Alone
<1> QED BY <1>2 DEF Init, TurnsInv, Quiet, Cut

(* Most steps wake no flush that is over, and start none.                  *)
LEMMA AloneStays ==
  ASSUME Alone, Len(flush') = Len(flush), robbed \subseteq robbed',
         \A f \in 1..Len(flush) : ~Alive(f) => flush'[f].at = "over",
         Resubs' => Resubs
  PROVE  Alone'
BY DEF Alone, Alive

LEMMA WakesOver ==
  ASSUME NEW ws, NEW at, Wakes(ws, at)
  PROVE  Len(flush') = Len(flush) /\ \A f \in 1..Len(flush) : ~Alive(f) => flush'[f].at = "over"
BY DEF Wakes, Alive, Woken, Open

(* Steps of the connection.                                                *)
LEMMA TurnsDials ==
  ASSUME TypeInv, ForgetInv, TurnsInv, Dials
  PROVE  TurnsInv'
<1>1. /\ UNCHANGED <<leftover, flush, writes, pending, wire, robbed>>
      /\ \/ state # "connected" /\ state' = "connecting" /\ resubbing' = resubbing
         \/ /\ state = "connecting" /\ state' = "connected" /\ resubbing' = TRUE
            /\ Calm
  BY DialsDoes DEF pubVars, netVars
<1>2. OneResub(leftover)'
  BY <1>1 DEF TurnsInv, OneResub
<1>3. CASE state # "connected" /\ state' = "connecting" /\ resubbing' = resubbing
  <2>1. Quiet' /\ Cut'
    BY <1>1, <1>3 DEF TurnsInv, Quiet, Cut
  <2>2. Alone'
    BY <1>1, <1>3 DEF TurnsInv, Alone, Alive, Resubs, HasResub
  <2> QED BY <1>2, <2>1, <2>2 DEF TurnsInv
<1>4. CASE state = "connecting" /\ state' = "connected" /\ resubbing' = TRUE /\ Calm
  <2>1. Quiet' /\ Cut'
    BY <1>1, <1>4 DEF Quiet, Cut, Calm
  <2>2. ASSUME robbed = {}, NEW f \in 1..Len(flush) PROVE ~Alive(f)
    <3>1. flush[f].at \in Place /\ flush[f].at \notin {"next", "rejected"}
      BY <1>4, FlushIs DEF TypeInv, PubType, Calm
    <3>2. \A w : ~Heard(w)
      <4>1. Range(writes) = {} /\ \A c \in Channel : pending[c] = {}
        BY <1>4, NoneInEmpty DEF TurnsInv, Quiet
      <4> QED BY <4>1, HeardIs
    <3>3. flush[f].at \notin Open
      BY <2>2, <3>2 DEF ForgetInv, Sure
    <3> QED BY <3>1, <3>3 DEF Place, Open, Alive
  <2>3. Alone'
    BY <1>1, <2>2 DEF Alone, Alive
  <2> QED BY <1>2, <2>1, <2>3 DEF TurnsInv
<1> QED BY <1>1, <1>3, <1>4

LEMMA TurnsCleansUp ==
  ASSUME TypeInv, TurnsInv,
         \/ ConnectFails \/ Disconnect \/ Lost
         \/ \E i \in DOMAIN leftover : ConnectNotices(i) \/ PingNotices(i)
  PROVE  TurnsInv'
<1>1. CleansUp
  BY WhoCleansUp
<1>2. /\ state' # "connected" /\ resubbing' = FALSE
      /\ Wakes(Waiters \cup Range(writes), "rejected")
      /\ \A c \in Channel : pending'[c] = {}
      /\ writes' = <<>> /\ wire' = <<>> /\ robbed' = robbed
  BY <1>1, CleansUpDoes
<1>3. Quiet' /\ Cut'
  BY <1>2 DEF Quiet, Cut
<1>4. \/ leftover' = leftover
      \/ \E base, cut :
           /\ cut \in Interrupted /\ leftover' = base \o cut
           /\ base = leftover \/ \E i \in 1..Len(leftover) : base = RemoveAt(leftover, i)
  <2>1. DOMAIN leftover = 1..Len(leftover)
    BY DEF TypeInv, ConnType
  <2>2. CASE ConnectFails
    BY <2>2 DEF ConnectFails
  <2>3. CASE Disconnect
    BY <2>3 DEF Disconnect
  <2>4. CASE Lost
    BY <2>4 DEF Lost
  <2>5. ASSUME NEW i \in DOMAIN leftover, ConnectNotices(i) \/ PingNotices(i)
        PROVE  \E cut \in Interrupted : leftover' = RemoveAt(leftover, i) \o cut
    BY <2>5 DEF ConnectNotices, PingNotices
  <2> QED BY <2>1, <2>2, <2>3, <2>4, <2>5
<1>5. OneResub(leftover') /\ (HasResub(leftover') => Resubs)
  <2>1. CASE leftover' = leftover
    BY <2>1 DEF TurnsInv, Resubs
  <2>2. CASE leftover' # leftover
    <3>1. PICK base, cut :
             /\ cut \in Interrupted /\ leftover' = base \o cut
             /\ base = leftover \/ \E i \in 1..Len(leftover) : base = RemoveAt(leftover, i)
      BY <1>4, <2>2
    <3>2. /\ OneResub(base \o cut)
          /\ HasResub(base \o cut) => resubbing \/ HasResub(leftover)
      BY <3>1, CutAdds DEF TurnsInv
    <3> QED BY <3>1, <3>2 DEF Resubs
  <2> QED BY <2>1, <2>2
<1>6. OneResub(leftover)' /\ (Resubs' => Resubs)
  BY <1>2, <1>5 DEF OneResub, HasResub, Resubs
<1>7. Alone'
  BY <1>2, <1>6, AloneStays, WakesOver DEF TurnsInv
<1> QED BY <1>3, <1>6, <1>7 DEF TurnsInv

(* A flush starts when the only resubscribe() has ended.                   *)
LEMMA TurnsStarts == ASSUME TypeInv, TurnsInv, Starts PROVE TurnsInv'
<1>1. /\ UNCHANGED <<state, writes, pending, wire, robbed>>
      /\ \/ queue = <<>> /\ flush' = flush
         \/ \E new \in Flush : flush' = Append(flush, new)
  BY StartsDoes
<1>2. leftover \in Seq(Cuts)
  BY DEF TypeInv, ConnType, Cuts
<1>3. /\ \/ leftover' = leftover /\ resubbing' = FALSE
         \/ /\ \E i \in DOMAIN leftover :
                 leftover' = RemoveAt(leftover, i) /\ leftover[i] = "resubscribe"
            /\ resubbing' = resubbing
      /\ Resubs /\ ~Resubs' /\ OneResub(leftover')
  <2>1. CASE Resubscribed
    <3>1. leftover = <<>> /\ resubbing /\ leftover' = leftover /\ resubbing' = FALSE
      BY <2>1 DEF Resubscribed, Calm
    <3> QED BY <3>1 DEF Resubs, HasResub, OneResub
  <2>2. ASSUME NEW i \in DOMAIN leftover, ResubscribeNotices(i)
        PROVE  /\ leftover' = RemoveAt(leftover, i) /\ leftover[i] = "resubscribe"
               /\ resubbing' = resubbing
               /\ Resubs /\ ~Resubs' /\ OneResub(leftover')
    <3>1. /\ leftover' = RemoveAt(leftover, i) /\ leftover[i] = "resubscribe"
          /\ resubbing' = resubbing /\ i \in 1..Len(leftover) /\ leftover # <<>>
      BY <1>2, <2>2 DEF ResubscribeNotices
    <3>2. ~resubbing
      BY <3>1 DEF TurnsInv, Cut, Quiet
    <3>3. OneResub(RemoveAt(leftover, i)) /\ ~HasResub(RemoveAt(leftover, i))
      BY <1>2, <3>1, ResubTakenOut DEF TurnsInv
    <3>4. OneResub(leftover') /\ ~HasResub(leftover')
      BY <3>1, <3>3
    <3>5. Resubs
      BY <3>1 DEF Resubs, HasResub
    <3> QED BY <3>1, <3>2, <3>4, <3>5 DEF Resubs, HasResub
  <2> QED BY <2>1, <2>2 DEF Starts
<1>4. Quiet' /\ Cut' /\ OneResub(leftover)'
  <2>1. leftover' # <<>> => leftover # <<>>
    BY <1>2, <1>3
  <2> QED BY <1>1, <1>3, <2>1 DEF TurnsInv, Quiet, Cut, OneResub
<1>5. Alone'
  <2>1. CASE flush' = flush
    BY <1>1, <1>3, <2>1, AloneStays DEF TurnsInv, Alive
  <2>2. CASE \E new \in Flush : flush' = Append(flush, new)
    <3>1. flush \in Seq(Flush)
      BY DEF TypeInv, PubType
    <3>2. PICK n \in Nat : n = Len(flush)
      BY <3>1
    <3>3. Len(flush') = n + 1 /\ \A f \in 1..n : flush'[f] = flush[f]
      BY <2>2, <3>1, <3>2, Appended
    <3>4. \A f \in 1..Len(flush') : f \in 1..n \/ f = n + 1
      BY <3>3
    <3>5. robbed = {} => \A f \in 1..n : flush'[f].at = "over"
      BY <1>3, <3>2, <3>3 DEF TurnsInv, Alone, Alive
    <3> QED BY <1>1, <1>3, <3>4, <3>5 DEF Alone, Alive
  <2> QED BY <1>1, <2>1, <2>2
<1> QED BY <1>4, <1>5 DEF TurnsInv

(* The others leave the connection and what it interrupted alone.          *)
LEMMA TurnsOthers ==
  ASSUME TypeInv, TurnsInv,
         \/ UNCHANGED vars \/ Publish \/ Written \/ Receive \/ Expire \/ Reads
         \/ \E f \in DOMAIN flush : FlushSends(f) \/ FlushCatches(f)
  PROVE  TurnsInv'
<1>1. UNCHANGED connVars
  BY DEF vars, Publish, Written, Receive, Expire, Reads, Serve, GarbleRequests, FlushSends, FlushCatches, CatchWith
<1>2. UNCHANGED <<state, resubbing, leftover>>
  BY <1>1 DEF connVars
<1>3. Cut' /\ OneResub(leftover)' /\ (Resubs' => Resubs)
  BY <1>2 DEF TurnsInv, Cut, OneResub, Resubs, HasResub
<1>4. ASSUME NEW f \in DOMAIN flush, FlushSends(f) \/ FlushCatches(f)
      PROVE  /\ Len(flush') = Len(flush)
             /\ \A g \in 1..Len(flush) : ~Alive(g) => flush'[g].at = "over"
             /\ state # "connected" => writes' = writes
             /\ UNCHANGED <<pending, wire, robbed>>
  <2>1. CASE FlushSends(f)
    <3>1. /\ flush[f].at = "next" /\ Len(flush') = Len(flush)
          /\ \A g \in 1..Len(flush) : g # f => flush'[g] = flush[g]
          /\ Ended(f) \/ Stopped(f) \/ SendsHead(f)
          /\ UNCHANGED <<pending, wire, robbed>>
      BY <2>1, FlushSendsDoes DEF netVars, history
    <3> QED BY <3>1 DEF Ended, Stopped, SendsHead, Alive
  <2>2. CASE FlushCatches(f)
    <3>1. /\ flush[f].at = "rejected" /\ Len(flush') = Len(flush)
          /\ \A g \in 1..Len(flush) : g # f => flush'[g] = flush[g]
          /\ UNCHANGED <<writes, pending, wire, robbed>>
      BY <2>2, FlushCatchesDoes DEF netVars, history
    <3> QED BY <3>1 DEF Alive
  <2> QED BY <1>4, <2>1, <2>2
<1>5. CASE UNCHANGED vars \/ Publish \/ Reads
  <2>1. UNCHANGED <<flush, pending, robbed>>
    BY <1>5, PublishDoes, ReadsDoes DEF vars, pubVars, history
  <2>2. /\ state # "connected" => writes' = writes
        /\ state # "connected" => wire' = wire
    BY <1>5, PublishDoes, ReadsDoes DEF vars, pubVars, netVars, TurnsInv, Quiet
  <2>3. Quiet'
    BY <1>2, <2>1, <2>2 DEF TurnsInv, Quiet
  <2>4. Alone'
    BY <1>3, <2>1, AloneStays DEF TurnsInv, Alive
  <2> QED BY <1>3, <2>3, <2>4 DEF TurnsInv
<1>6. CASE \E f \in DOMAIN flush : FlushSends(f) \/ FlushCatches(f)
  <2>1. /\ Len(flush') = Len(flush)
        /\ \A g \in 1..Len(flush) : ~Alive(g) => flush'[g].at = "over"
        /\ state # "connected" => writes' = writes
        /\ UNCHANGED <<pending, wire, robbed>>
    BY <1>4, <1>6
  <2>2. Quiet'
    BY <1>2, <2>1 DEF TurnsInv, Quiet
  <2>3. Alone'
    BY <1>3, <2>1, AloneStays DEF TurnsInv
  <2> QED BY <1>3, <2>2, <2>3 DEF TurnsInv
<1>7. CASE Written
  <2>1. writes # <<>> /\ robbed \subseteq robbed' /\ \E ws : Wakes(ws, "waiting")
    BY <1>7, WrittenDoes
  <2>2. Quiet'
    BY <1>2, <2>1 DEF TurnsInv, Quiet
  <2>3. Alone'
    BY <1>3, <2>1, AloneStays, WakesOver DEF TurnsInv
  <2> QED BY <1>3, <2>2, <2>3 DEF TurnsInv
<1>8. CASE Receive
  <2>1. /\ \A c \in Channel : pending'[c] = pending[c] \/ pending'[c] = {}
        /\ UNCHANGED <<writes, wire, robbed>> /\ \E ws, at : Wakes(ws, at)
    BY <1>8, ReceiveDoes DEF history
  <2>2. Quiet'
    BY <1>2, <2>1 DEF TurnsInv, Quiet
  <2>3. Alone'
    BY <1>3, <2>1, AloneStays, WakesOver DEF TurnsInv
  <2> QED BY <1>3, <2>2, <2>3 DEF TurnsInv
<1>9. CASE Expire
  <2>1. /\ \A c \in Channel : pending'[c] = pending[c] \/ pending'[c] = {}
        /\ UNCHANGED <<writes, wire>> /\ robbed \subseteq robbed'
        /\ flush' = flush \/ \E ws, at : Wakes(ws, at)
    BY <1>9, ExpireDoes DEF netVars
  <2>2. Quiet'
    BY <1>2, <2>1 DEF TurnsInv, Quiet
  <2>3. Len(flush') = Len(flush) /\ \A f \in 1..Len(flush) : ~Alive(f) => flush'[f].at = "over"
    BY <2>1, WakesOver DEF Alive
  <2>4. Alone'
    BY <1>3, <2>1, <2>3, AloneStays DEF TurnsInv
  <2> QED BY <1>3, <2>2, <2>4 DEF TurnsInv
<1> QED BY <1>5, <1>6, <1>7, <1>8, <1>9

LEMMA StepTurns == TypeInv /\ ForgetInv /\ TurnsInv /\ [Next]_vars => TurnsInv'
<1> SUFFICES ASSUME TypeInv, ForgetInv, TurnsInv, [Next]_vars PROVE TurnsInv'
  OBVIOUS
<1>1. CASE UNCHANGED vars
  BY <1>1, TurnsOthers
<1>2. CASE Next
  BY <1>2, TurnsDials, TurnsCleansUp, TurnsStarts, TurnsOthers, Steps
<1> QED BY <1>1, <1>2

-----------------------------------------------------------------------------
(* What waited in the queue keeps its order.                               *)

Increasing(q) == \A i, j \in 1..Len(q) : i < j => q[i] < q[j]

(* On the way from a queue to the log.                                     *)
Writing(m) == \E w \in Range(writes) : w.m = m
Gone(m) == m \in Range(log) \/ m \in Range(wire) \/ Writing(m)
LeftOver(m) == \E f \in 1..Len(flush) : m \in Range(flush[f].rest)

WritesRise(q, S) == \A i, j \in 1..Len(q) :
  i < j /\ q[i].m \in S /\ q[j].m \in S => q[i].m <= q[j].m

(* What is further on its way was queued before.                           *)
Ahead(a, b) ==
  \/ a \in Range(log) /\ (b \in Range(wire) \/ Writing(b))
  \/ a \in Range(wire) /\ Writing(b)
  \/ Gone(a) /\ (LeftOver(b) \/ b \in Range(queue))
Flight ==
  /\ Rising(log, Range(offline)) /\ Rising(wire, Range(offline)) /\ WritesRise(writes, Range(offline))
  /\ \A a, b \in Range(offline) : Ahead(a, b) => a <= b
Lines ==
  /\ Increasing(queue) /\ \A f \in 1..Len(flush) : Increasing(flush[f].rest)
  /\ \A a, b : LeftOver(a) /\ b \in Range(queue) => a < b

(* Messages are published in the order of their numbers.                   *)
InTurn == \A m \in Message : promise[m] = "none" => \A k \in Range(offline) : k < m
Published == \A m \in Range(log) \cup Range(wire) : promise[m] # "none"

OrderInv ==
  /\ InTurn /\ Published /\ Increasing(offline)
  /\ robbed = {} => Flight /\ Lines

LEMMA RisingAppend ==
  ASSUME NEW q \in Seq(Message), NEW m \in Message, NEW S, Rising(q, S),
         \A a \in Range(q) : a \in S /\ m \in S => a <= m
  PROVE  Rising(Append(q, m), S)
<1>1. PICK t : t = Append(q, m)
  OBVIOUS
<1>2. /\ Len(t) = Len(q) + 1 /\ Len(q) \in Nat
      /\ \A i \in 1..Len(q) : t[i] = q[i]
      /\ t[Len(q) + 1] = m
  BY <1>1, Appended
<1>3. \A i \in 1..Len(q) : q[i] \in Range(q)
  BY InRange
<1>4. ASSUME NEW i \in 1..Len(t), NEW j \in 1..Len(t), i < j, t[i] \in S, t[j] \in S
      PROVE  t[i] <= t[j]
  <2>1. i \in 1..Len(q)
    BY <1>2, <1>4
  <2>2. CASE j = Len(q) + 1
    BY <1>2, <1>3, <1>4, <2>1, <2>2
  <2>3. CASE j # Len(q) + 1
    <3>1. j \in 1..Len(q)
      BY <1>2, <2>3
    <3> QED BY <1>2, <1>4, <2>1, <3>1 DEF Rising
  <2> QED BY <2>2, <2>3
<1> QED BY <1>1, <1>4 DEF Rising

LEMMA RisingTail ==
  ASSUME NEW q \in Seq(Message), q # <<>>, NEW S, Rising(q, S)
  PROVE  /\ Rising(Tail(q), S)
         /\ \A b \in Range(Tail(q)) : Head(q) \in S /\ b \in S => Head(q) <= b
<1>1. PICK t : t = Tail(q)
  OBVIOUS
<1>2. /\ t \in Seq(Message) /\ Head(q) = q[1] /\ Len(q) \in Nat \ {0} /\ Len(t) = Len(q) - 1
      /\ \A i \in 1..Len(t) : i + 1 \in 1..Len(q) /\ t[i] = q[i + 1]
  BY <1>1, HeadAndTail
<1>3. Rising(t, S)
  <2> SUFFICES ASSUME NEW i \in 1..Len(t), NEW j \in 1..Len(t), i < j, t[i] \in S, t[j] \in S
               PROVE  t[i] <= t[j]
    BY DEF Rising
  <2>1. i + 1 < j + 1 /\ i + 1 \in 1..Len(q) /\ j + 1 \in 1..Len(q)
    BY <1>2
  <2> QED BY <1>2, <2>1 DEF Rising
<1>4. ASSUME NEW b \in Range(t), Head(q) \in S, b \in S PROVE Head(q) <= b
  <2>1. PICK i \in 1..Len(t) : b = t[i]
    BY <1>2, InRange
  <2>2. 1 \in 1..Len(q) /\ i + 1 \in 1..Len(q) /\ 1 < i + 1 /\ b = q[i + 1]
    BY <1>2, <2>1
  <2> QED BY <1>2, <1>4, <2>2 DEF Rising
<1> QED BY <1>1, <1>3, <1>4

LEMMA RisingJoined ==
  ASSUME NEW u \in Seq(Message), NEW v \in Seq(Message), NEW S, Rising(u, S), Rising(v, S),
         \A a \in Range(u), b \in Range(v) : a \in S /\ b \in S => a <= b
  PROVE  Rising(u \o v, S)
<1>1. PICK t : t = u \o v
  OBVIOUS
<1>2. /\ Len(t) = Len(u) + Len(v) /\ Len(u) \in Nat /\ Len(v) \in Nat
      /\ \A i \in 1..Len(u) : t[i] = u[i]
      /\ \A i \in 1..Len(v) : t[Len(u) + i] = v[i]
  BY <1>1, Joined
<1>3. /\ \A i \in 1..Len(u) : u[i] \in Range(u)
      /\ \A i \in 1..Len(v) : v[i] \in Range(v)
  BY InRange
<1>4. ASSUME NEW i \in 1..Len(t)
      PROVE  \/ i \in 1..Len(u) /\ t[i] = u[i]
             \/ i > Len(u) /\ i - Len(u) \in 1..Len(v) /\ t[i] = v[i - Len(u)]
  <2>1. CASE i <= Len(u)
    BY <1>2, <2>1
  <2>2. CASE i > Len(u)
    <3>1. i - Len(u) \in 1..Len(v) /\ Len(u) + (i - Len(u)) = i
      BY <1>2, <2>2
    <3>2. t[Len(u) + (i - Len(u))] = v[i - Len(u)]
      BY <1>2, <3>1
    <3> QED BY <2>2, <3>1, <3>2
  <2> QED BY <1>2, <2>1, <2>2
<1>5. ASSUME NEW i \in 1..Len(t), NEW j \in 1..Len(t), i < j, t[i] \in S, t[j] \in S
      PROVE  t[i] <= t[j]
  <2>1. CASE j \in 1..Len(u) /\ t[j] = u[j]
    <3>1. i \in 1..Len(u) /\ t[i] = u[i]
      BY <1>2, <1>5, <2>1
    <3> QED BY <1>5, <2>1, <3>1 DEF Rising
  <2>2. CASE j - Len(u) \in 1..Len(v) /\ t[j] = v[j - Len(u)]
    <3>1. CASE i \in 1..Len(u) /\ t[i] = u[i]
      BY <1>3, <1>5, <2>2, <3>1
    <3>2. CASE i - Len(u) \in 1..Len(v) /\ t[i] = v[i - Len(u)]
      <4>1. i - Len(u) < j - Len(u)
        BY <1>2, <1>5
      <4> QED BY <1>5, <2>2, <3>2, <4>1 DEF Rising
    <3> QED BY <1>4, <3>1, <3>2
  <2> QED BY <1>4, <2>1, <2>2
<1> QED BY <1>1, <1>5 DEF Rising

LEMMA IncreasingAppend ==
  ASSUME NEW q \in Seq(Message), NEW m \in Message, Increasing(q), \A a \in Range(q) : a < m
  PROVE  Increasing(Append(q, m))
<1>1. PICK t : t = Append(q, m)
  OBVIOUS
<1>2. /\ Len(t) = Len(q) + 1 /\ Len(q) \in Nat
      /\ \A i \in 1..Len(q) : t[i] = q[i]
      /\ t[Len(q) + 1] = m
  BY <1>1, Appended
<1>3. \A i \in 1..Len(q) : q[i] < m
  BY InRange
<1>4. ASSUME NEW i \in 1..Len(t), NEW j \in 1..Len(t), i < j PROVE t[i] < t[j]
  <2>1. i \in 1..Len(q)
    BY <1>2, <1>4
  <2>2. j = Len(q) + 1 \/ j \in 1..Len(q)
    BY <1>2
  <2> QED BY <1>2, <1>3, <1>4, <2>1, <2>2 DEF Increasing
<1> QED BY <1>1, <1>4 DEF Increasing

LEMMA IncreasingTail ==
  ASSUME NEW q \in Seq(Message), q # <<>>, Increasing(q)
  PROVE  Increasing(Tail(q)) /\ \A b \in Range(Tail(q)) : Head(q) < b
<1>1. PICK t : t = Tail(q)
  OBVIOUS
<1>2. /\ t \in Seq(Message) /\ Head(q) = q[1] /\ Len(q) \in Nat \ {0} /\ Len(t) = Len(q) - 1
      /\ \A i \in 1..Len(t) : i + 1 \in 1..Len(q) /\ t[i] = q[i + 1]
  BY <1>1, HeadAndTail
<1>3. ASSUME NEW i \in 1..Len(t), NEW j \in 1..Len(t), i < j PROVE t[i] < t[j]
  <2>1. i + 1 < j + 1 /\ i + 1 \in 1..Len(q) /\ j + 1 \in 1..Len(q)
    BY <1>2, <1>3
  <2> QED BY <1>2, <2>1 DEF Increasing
<1>4. ASSUME NEW b \in Range(t) PROVE Head(q) < b
  <2>1. PICK i \in 1..Len(t) : b = t[i]
    BY <1>2, InRange
  <2>2. 1 \in 1..Len(q) /\ i + 1 \in 1..Len(q) /\ 1 < i + 1 /\ b = q[i + 1]
    BY <1>2, <2>1
  <2> QED BY <1>2, <2>2 DEF Increasing
<1> QED BY <1>1, <1>3, <1>4 DEF Increasing

LEMMA IncreasingJoined ==
  ASSUME NEW u \in Seq(Message), NEW v \in Seq(Message), Increasing(u), Increasing(v),
         \A a \in Range(u), b \in Range(v) : a < b
  PROVE  Increasing(u \o v)
<1>1. PICK t : t = u \o v
  OBVIOUS
<1>2. /\ Len(t) = Len(u) + Len(v) /\ Len(u) \in Nat /\ Len(v) \in Nat
      /\ \A i \in 1..Len(u) : t[i] = u[i]
      /\ \A i \in 1..Len(v) : t[Len(u) + i] = v[i]
  BY <1>1, Joined
<1>3. /\ \A i \in 1..Len(u) : u[i] \in Range(u)
      /\ \A i \in 1..Len(v) : v[i] \in Range(v)
  BY InRange
<1>4. ASSUME NEW i \in 1..Len(t)
      PROVE  \/ i \in 1..Len(u) /\ t[i] = u[i]
             \/ i > Len(u) /\ i - Len(u) \in 1..Len(v) /\ t[i] = v[i - Len(u)]
  <2>1. CASE i <= Len(u)
    BY <1>2, <2>1
  <2>2. CASE i > Len(u)
    <3>1. i - Len(u) \in 1..Len(v) /\ Len(u) + (i - Len(u)) = i
      BY <1>2, <2>2
    <3>2. t[Len(u) + (i - Len(u))] = v[i - Len(u)]
      BY <1>2, <3>1
    <3> QED BY <2>2, <3>1, <3>2
  <2> QED BY <1>2, <2>1, <2>2
<1>5. ASSUME NEW i \in 1..Len(t), NEW j \in 1..Len(t), i < j PROVE t[i] < t[j]
  <2>1. CASE j \in 1..Len(u) /\ t[j] = u[j]
    <3>1. i \in 1..Len(u) /\ t[i] = u[i]
      BY <1>2, <1>5, <2>1
    <3> QED BY <1>5, <2>1, <3>1 DEF Increasing
  <2>2. CASE j - Len(u) \in 1..Len(v) /\ t[j] = v[j - Len(u)]
    <3>1. CASE i \in 1..Len(u) /\ t[i] = u[i]
      BY <1>3, <2>2, <3>1
    <3>2. CASE i - Len(u) \in 1..Len(v) /\ t[i] = v[i - Len(u)]
      <4>1. i - Len(u) < j - Len(u)
        BY <1>2, <1>5
      <4> QED BY <2>2, <3>2, <4>1 DEF Increasing
    <3> QED BY <1>4, <3>1, <3>2
  <2> QED BY <1>4, <2>1, <2>2
<1> QED BY <1>1, <1>5 DEF Increasing

LEMMA OrderIs ==
  ASSUME TypeInv
  PROVE  /\ queue \in Seq(Message) /\ offline \in Seq(Message) /\ writes \in Seq(Waiter)
         /\ log \in Seq(Message) /\ wire \in Seq(Message)
         /\ Range(queue) \subseteq Message /\ Range(offline) \subseteq Message
         /\ Range(log) \subseteq Message /\ Range(wire) \subseteq Message
         /\ \A m : Writing(m) \/ LeftOver(m) => m \in Message
         /\ Message \subseteq Nat
<1>1. log \in Seq(Message) /\ wire \in Seq(Message)
  BY DEF TypeInv, NetType
<1>2. Range(log) \subseteq Message /\ Range(wire) \subseteq Message
  BY <1>1, InRange
<1>3. \A w \in Range(writes) : Entry(w)
  BY DEF Entry
<1> QED BY <1>1, <1>2, <1>3, TypesGive, Messages DEF Writing, LeftOver

(* A step that moves nothing forward on its way.                           *)
LEMMA FlightStays ==
  ASSUME Flight, UNCHANGED <<log, wire, writes, offline>>,
         \A m : LeftOver(m)' \/ m \in Range(queue') => LeftOver(m) \/ m \in Range(queue)
  PROVE  Flight'
<1>1. \A m : (Gone(m)' <=> Gone(m)) /\ (Writing(m)' <=> Writing(m))
  BY DEF Gone, Writing
<1>2. \A a, b : Ahead(a, b)' => Ahead(a, b)
  BY <1>1 DEF Ahead
<1> QED BY <1>2 DEF Flight, Rising, WritesRise

LEMMA LinesShrink ==
  ASSUME TypeInv, Lines, Shrinks, queue' \in {queue, <<>>}
  PROVE  /\ Lines' /\ \A m : LeftOver(m)' => LeftOver(m)
         /\ Range(queue') \subseteq Range(queue)
<1>1. Range(queue') \subseteq Range(queue) /\ Increasing(queue')
  BY NoneInEmpty DEF Lines, Increasing
<1>2. ASSUME NEW f \in 1..Len(flush)
      PROVE  Range(flush'[f].rest) \subseteq Range(flush[f].rest) /\ Increasing(flush'[f].rest)
  <2>1. PICK q \in Seq(Message) : q = flush[f].rest
    BY TypesGive
  <2>2. Increasing(q)
    BY <2>1 DEF Lines
  <2>3. ASSUME q # <<>> PROVE Increasing(Tail(q)) /\ Range(Tail(q)) \subseteq Range(q)
    BY <2>2, <2>3, IncreasingTail, HeadAndTail
  <2>4. \A r : r = <<>> => Increasing(r) /\ Range(r) = {}
    BY NoneInEmpty DEF Increasing
  <2> QED BY <2>1, <2>2, <2>3, <2>4 DEF Shrinks
<1>3. Len(flush') = Len(flush)
  BY DEF Shrinks
<1>4. \A m : LeftOver(m)' => LeftOver(m)
  BY <1>2, <1>3 DEF LeftOver
<1>5. \A f \in 1..Len(flush') : Increasing(flush[f].rest)'
  BY <1>2, <1>3 DEF Increasing
<1>6. Increasing(queue)'
  BY <1>1 DEF Increasing
<1>7. Lines'
  BY <1>1, <1>4, <1>5, <1>6 DEF Lines
<1> QED BY <1>1, <1>4, <1>7

(* What is published, and in which turn, where nothing new is queued.      *)
LEMMA TurnStays ==
  ASSUME TypeInv, OrderInv, Next, offline' = offline
  PROVE  InTurn' /\ Increasing(offline)'
<1>1. \A m \in Message : promise[m] # "none" => promise'[m] # "none"
  BY PromisesStay
<1> QED BY <1>1 DEF OrderInv, InTurn, Increasing

LEMMA PublishedStays ==
  ASSUME TypeInv, OrderInv, Next,
         Range(log') \cup Range(wire') \subseteq Range(log) \cup Range(wire)
  PROVE  Published'
<1>1. \A m \in Message : promise[m] # "none" => promise'[m] # "none"
  BY PromisesStay
<1> QED BY <1>1, OrderIs DEF OrderInv, Published

(* Steps that leave what is on its way where it is, and add nothing.       *)
LEMMA OrderShrinks ==
  ASSUME TypeInv, OrderInv, Next, UNCHANGED <<log, wire, writes, offline>>,
         Shrinks, queue' \in {queue, <<>>}, robbed \subseteq robbed'
  PROVE  OrderInv'
<1>1. ASSUME robbed' = {} PROVE Flight' /\ Lines'
  <2>1. Flight /\ Lines
    BY <1>1 DEF OrderInv
  <2>2. Lines' /\ \A m : LeftOver(m)' \/ m \in Range(queue') => LeftOver(m) \/ m \in Range(queue)
    BY <2>1, LinesShrink
  <2> QED BY <2>1, <2>2, FlightStays
<1>2. Published'
  BY PublishedStays
<1> QED BY <1>1, <1>2, TurnStays DEF OrderInv

LEMMA OrderDials ==
  ASSUME TypeInv, OrderInv, UNCHANGED vars \/ Dials
  PROVE  OrderInv'
<1>1. UNCHANGED <<pubVars, netVars, offline, robbed>>
  BY DialsDoes DEF vars, history
<1>2. UNCHANGED <<queue, promise, flush, writes, log, wire, offline, robbed>>
  BY <1>1 DEF pubVars, netVars
<1>3. Published' /\ InTurn' /\ Increasing(offline)'
  BY <1>2 DEF OrderInv, Published, InTurn, Increasing
<1>4. ASSUME robbed' = {} PROVE Flight' /\ Lines'
  <2>1. Flight /\ Lines
    BY <1>2, <1>4 DEF OrderInv
  <2>2. \A m : LeftOver(m)' <=> LeftOver(m)
    BY <1>2 DEF LeftOver
  <2>3. Lines'
    BY <1>2, <2>1, <2>2 DEF Lines, Increasing
  <2>4. Flight'
    BY <1>2, <2>1, <2>2, FlightStays
  <2> QED BY <2>3, <2>4
<1> QED BY <1>3, <1>4 DEF OrderInv

LEMMA OrderCleansUp ==
  ASSUME TypeInv, OrderInv, Next,
         \/ ConnectFails \/ Disconnect \/ Lost
         \/ \E i \in DOMAIN leftover : ConnectNotices(i) \/ PingNotices(i)
  PROVE  OrderInv'
<1>1. CleansUp
  BY WhoCleansUp
<1>2. /\ queue' \in {queue, <<>>}
      /\ Wakes(Waiters \cup Range(writes), "rejected")
      /\ writes' = <<>> /\ wire' = <<>>
      /\ UNCHANGED <<offline, robbed>>
  BY <1>1, CleansUpDoes
<1>3. PICK sent \in Seq(Message) :
         /\ log' = log \o sent /\ Range(sent) \subseteq Range(wire)
         /\ \A S : Rising(wire, S) => Rising(sent, S)
  BY <1>1, CleansUpDoes
<1>4. Shrinks
  BY <1>2 DEF Wakes, Shrinks
<1>5. /\ Range(log') = Range(log) \cup Range(sent) /\ Range(wire') = {} /\ Range(writes') = {}
  BY <1>2, <1>3, OrderIs, Joined, NoneInEmpty
<1>6. Published'
  BY <1>3, <1>5, PublishedStays
<1>7. ASSUME robbed' = {} PROVE Flight' /\ Lines'
  <2>1. Flight /\ Lines
    BY <1>2, <1>7 DEF OrderInv
  <2>2. /\ Lines' /\ \A m : LeftOver(m)' => LeftOver(m)
        /\ Range(queue') \subseteq Range(queue)
    BY <1>2, <1>4, <2>1, LinesShrink
  <2>3. Rising(log \o sent, Range(offline))
    <3>1. \A a \in Range(log), b \in Range(sent) :
            a \in Range(offline) /\ b \in Range(offline) => a <= b
      BY <1>3, <2>1 DEF Flight, Ahead
    <3> QED BY <1>3, <2>1, <3>1, OrderIs, RisingJoined DEF Flight
  <2>4. \A m : (Gone(m)' => Gone(m)) /\ ~Writing(m)'
    BY <1>3, <1>5 DEF Gone, Writing
  <2>5. \A a, b : Ahead(a, b)' => Ahead(a, b)
    BY <1>5, <2>2, <2>4 DEF Ahead
  <2>6. Rising(log, Range(offline))' /\ Rising(wire, Range(offline))' /\ WritesRise(writes, Range(offline))'
    <3>1. \A q : q = <<>> => WritesRise(q, Range(offline)) /\ Rising(q, Range(offline))
      BY DEF WritesRise, Rising
    <3> QED BY <1>2, <1>3, <2>3, <3>1
  <2>7. Flight'
    BY <1>2, <2>1, <2>5, <2>6 DEF Flight
  <2> QED BY <2>2, <2>7
<1> QED BY <1>2, <1>6, <1>7, TurnStays DEF OrderInv

LEMMA OrderStarts == ASSUME TypeInv, OrderInv, Next, Starts PROVE OrderInv'
<1>1. /\ queue' = <<>> /\ UNCHANGED <<writes, wire, log, offline, robbed>>
      /\ \/ queue = <<>> /\ flush' = flush
         \/ \E new \in Flush : flush' = Append(flush, new) /\ new.rest = queue
  BY StartsDoes
<1>2. CASE flush' = flush
  <2>1. Shrinks
    BY <1>2 DEF Shrinks
  <2> QED BY <1>1, <2>1, OrderShrinks
<1>3. CASE \E new \in Flush : flush' = Append(flush, new) /\ new.rest = queue
  <2>1. PICK new \in Flush : flush' = Append(flush, new) /\ new.rest = queue
    BY <1>3
  <2>2. flush \in Seq(Flush)
    BY DEF TypeInv, PubType
  <2>3. PICK n \in Nat : n = Len(flush)
    BY <2>2
  <2>4. Len(flush') = n + 1 /\ (\A f \in 1..n : flush'[f] = flush[f]) /\ flush'[n + 1] = new
    BY <2>1, <2>2, <2>3, Appended
  <2>5. \A f \in 1..(n + 1) : f \in 1..n \/ f = n + 1
    OBVIOUS
  <2>6. Range(queue') = {} /\ Increasing(queue)'
    BY <1>1, NoneInEmpty DEF Increasing
  <2>7. \A m : LeftOver(m)' => LeftOver(m) \/ m \in Range(queue)
    BY <2>1, <2>3, <2>4, <2>5 DEF LeftOver
  <2>8. ASSUME robbed' = {} PROVE Flight' /\ Lines'
    <3>1. Flight /\ Lines
      BY <1>1, <2>8 DEF OrderInv
    <3>2. \A f \in 1..Len(flush') : Increasing(flush'[f].rest)
      BY <2>1, <2>3, <2>4, <2>5, <3>1 DEF Lines
    <3>3. \A f \in 1..Len(flush') : Increasing(flush[f].rest)'
      BY <3>2 DEF Increasing
    <3>4. Lines'
      BY <2>6, <3>3 DEF Lines
    <3>5. Flight'
      BY <1>1, <2>6, <2>7, <3>1, FlightStays
    <3> QED BY <3>4, <3>5
  <2>9. Published'
    BY <1>1, PublishedStays
  <2> QED BY <1>1, <2>8, <2>9, TurnStays DEF OrderInv
<1> QED BY <1>1, <1>2, <1>3

LEMMA WritesAppend ==
  ASSUME NEW q \in Seq(Waiter), NEW w \in Waiter, NEW S, WritesRise(q, S),
         \A v \in Range(q) : v.m \in S /\ w.m \in S => v.m <= w.m
  PROVE  WritesRise(Append(q, w), S)
<1>1. PICK t : t = Append(q, w)
  OBVIOUS
<1>2. /\ Len(t) = Len(q) + 1 /\ Len(q) \in Nat
      /\ \A i \in 1..Len(q) : t[i] = q[i]
      /\ t[Len(q) + 1] = w
  BY <1>1, Appended
<1>3. \A i \in 1..Len(q) : q[i] \in Range(q)
  BY InRange
<1>4. ASSUME NEW i \in 1..Len(t), NEW j \in 1..Len(t), i < j, t[i].m \in S, t[j].m \in S
      PROVE  t[i].m <= t[j].m
  <2>1. i \in 1..Len(q)
    BY <1>2, <1>4
  <2>2. CASE j = Len(q) + 1
    BY <1>2, <1>3, <1>4, <2>1, <2>2
  <2>3. CASE j # Len(q) + 1
    <3>1. j \in 1..Len(q)
      BY <1>2, <2>3
    <3> QED BY <1>2, <1>4, <2>1, <3>1 DEF WritesRise
  <2> QED BY <2>2, <2>3
<1> QED BY <1>1, <1>4 DEF WritesRise

LEMMA WritesTail ==
  ASSUME NEW q \in Seq(Waiter), q # <<>>, NEW S, WritesRise(q, S)
  PROVE  /\ WritesRise(Tail(q), S)
         /\ \A v \in Range(Tail(q)) : Head(q).m \in S /\ v.m \in S => Head(q).m <= v.m
<1>1. PICK t : t = Tail(q)
  OBVIOUS
<1>2. /\ t \in Seq(Waiter) /\ Head(q) = q[1] /\ Len(q) \in Nat \ {0} /\ Len(t) = Len(q) - 1
      /\ \A i \in 1..Len(t) : i + 1 \in 1..Len(q) /\ t[i] = q[i + 1]
  BY <1>1, HeadAndTail
<1>3. ASSUME NEW i \in 1..Len(t), NEW j \in 1..Len(t), i < j, t[i].m \in S, t[j].m \in S
      PROVE  t[i].m <= t[j].m
  <2>1. i + 1 < j + 1 /\ i + 1 \in 1..Len(q) /\ j + 1 \in 1..Len(q)
    BY <1>2, <1>3
  <2> QED BY <1>2, <1>3, <2>1 DEF WritesRise
<1>4. ASSUME NEW v \in Range(t), Head(q).m \in S, v.m \in S PROVE Head(q).m <= v.m
  <2>1. PICK i \in 1..Len(t) : v = t[i]
    BY <1>2, InRange
  <2>2. 1 \in 1..Len(q) /\ i + 1 \in 1..Len(q) /\ 1 < i + 1 /\ v = q[i + 1]
    BY <1>2, <2>1
  <2> QED BY <1>2, <1>4, <2>2 DEF WritesRise
<1> QED BY <1>1, <1>3, <1>4 DEF WritesRise

(* What a publish adds is numbered after all that was queued before.       *)
LEMMA OrderPublish ==
  ASSUME TypeInv, OnceInv, OrderInv, Next, Publish
  PROVE  OrderInv'
<1>1. PICK m \in Message :
        /\ promise[m] = "none" /\ \A k \in 1..(m - 1) : promise[k] # "none"
        /\ \/ /\ state # "connected"
              /\ \E k, room : QueuedFrom(k, room, m)
              /\ offline' = Append(offline, m) /\ writes' = writes
           \/ /\ state = "connected"
              /\ writes' = Append(writes, [m |-> m, by |-> 0])
              /\ \A n \in Message : promise'[n] = IF n = m THEN "waiting" ELSE promise[n]
              /\ UNCHANGED <<queue, offline>>
  BY PublishDoes
<1>2. UNCHANGED <<flush, log, wire, robbed>>
  BY PublishDoes DEF netVars
<1>3. m \notin Range(offline) /\ \A k \in Range(offline) : k < m
  BY <1>1 DEF OnceInv, Lots, OrderInv, InTurn
<1>4. \A a : LeftOver(a)' <=> LeftOver(a)
  BY <1>2 DEF LeftOver
<1>5. \A a : LeftOver(a) \/ a \in Range(queue) => a \in Range(offline)
  BY DEF OnceInv, Lots, LeftOver
<1>6. Published'
  BY <1>2, PublishedStays
<1>7. PICK S : S = Range(offline)
  OBVIOUS
<1>8. CASE state = "connected"
  <2>1. writes' = Append(writes, [m |-> m, by |-> 0]) /\ UNCHANGED <<queue, offline>>
    BY <1>1, <1>8
  <2>2. PICK w \in Waiter : w = [m |-> m, by |-> 0]
    BY DEF Waiter
  <2>3. w.m = m /\ writes' = Append(writes, w)
    BY <2>1, <2>2
  <2>4. Range(writes') = Range(writes) \cup {w}
    BY <2>3, OrderIs, Appended
  <2>5. \A b : Writing(b)' => Writing(b) \/ b = m
    BY <2>3, <2>4 DEF Writing
  <2>6. ASSUME robbed' = {} PROVE Flight' /\ Lines'
    <3>1. Flight /\ Lines
      BY <1>2, <2>6 DEF OrderInv
    <3>2. Lines'
      BY <1>2, <1>4, <2>1, <3>1 DEF Lines, Increasing
    <3>3. \A a, b \in S : Ahead(a, b)' => Ahead(a, b)
      BY <1>2, <1>3, <1>4, <1>7, <2>1, <2>5 DEF Ahead, Gone
    <3>4. WritesRise(writes', S)
      BY <1>3, <1>7, <2>3, <3>1, OrderIs, WritesAppend DEF Flight
    <3>5. Range(offline') = S /\ Rising(log', S) /\ Rising(wire', S)
      BY <1>2, <1>7, <2>1, <3>1 DEF Flight
    <3>6. Flight'
      BY <1>7, <3>1, <3>3, <3>4, <3>5 DEF Flight
    <3> QED BY <3>2, <3>6
  <2> QED BY <1>6, <2>1, <2>6, TurnStays DEF OrderInv
<1>9. CASE state # "connected"
  <2>1. PICK k, room : QueuedFrom(k, room, m)
    BY <1>1, <1>9
  <2>2. offline' = Append(offline, m) /\ writes' = writes
    BY <1>1, <1>9
  <2>3. Range(offline') = S \cup {m} /\ Increasing(offline')
    BY <1>3, <1>7, <2>2, OrderIs, Appended, IncreasingAppend DEF OrderInv
  <2>4. Range(queue') = Range(room) \cup {m} /\ Range(room) \subseteq Range(queue)
    BY <2>1, QueueGains
  <2>5. ~Gone(m) /\ m \notin Range(log) /\ m \notin Range(wire)
    <3>1. ~Writing(m)
      BY <1>1 DEF OnceInv, Direct, Entry, Writing
    <3> QED BY <1>1, <3>1 DEF OrderInv, Published, Gone
  <2>6. \A a : (Gone(a)' <=> Gone(a)) /\ (Writing(a)' <=> Writing(a))
    BY <1>2, <2>2 DEF Gone, Writing
  <2>7. InTurn'
    <3>1. ASSUME NEW n \in Message, promise'[n] = "none" PROVE \A a \in S \cup {m} : a < n
      <4>1. n # m /\ promise[n] = "none"
        BY <2>1, <3>1 DEF QueuedFrom
      <4>2. m < n
        BY <1>1, <4>1, Messages
      <4> QED BY <1>7, <4>1, <4>2 DEF OrderInv, InTurn
    <3> QED BY <2>3, <3>1 DEF InTurn
  <2>8. ASSUME robbed' = {} PROVE Flight' /\ Lines'
    <3>1. Flight /\ Lines
      BY <1>2, <2>8 DEF OrderInv
    <3>2. Increasing(queue')
      <4>1. /\ k \in 0..Len(queue) /\ room \in Seq(Message) /\ Len(room) = Len(queue) - k
            /\ \A i \in 1..Len(room) : room[i] = queue[k + i]
            /\ queue' = Append(room, m) /\ Len(queue) \in Nat /\ Len(room) \in Nat
        BY <2>1, OrderIs DEF QueuedFrom
      <4>2. ASSUME NEW i \in 1..Len(room), NEW j \in 1..Len(room), i < j
            PROVE  room[i] < room[j]
        <5>1. k + i \in 1..Len(queue) /\ k + j \in 1..Len(queue) /\ k + i < k + j
          BY <4>1, <4>2
        <5> QED BY <3>1, <4>1, <5>1 DEF Lines, Increasing
      <4>3. Increasing(room)
        BY <4>2 DEF Increasing
      <4>4. \A a \in Range(room) : a < m
        BY <1>3, <1>5, <2>4
      <4> QED BY <4>1, <4>3, <4>4, IncreasingAppend
    <3>3. \A a, b : LeftOver(a)' /\ b \in Range(queue') => a < b
      BY <1>3, <1>4, <1>5, <2>4, <3>1 DEF Lines
    <3>4. \A f \in 1..Len(flush') : Increasing(flush'[f].rest)
      BY <1>2, <3>1 DEF Lines
    <3>5. Increasing(queue)' /\ \A f \in 1..Len(flush') : Increasing(flush[f].rest)'
      BY <3>2, <3>4 DEF Increasing
    <3>6. Lines'
      BY <3>3, <3>5 DEF Lines
    <3>7. /\ Rising(log, S \cup {m}) /\ Rising(wire, S \cup {m})
          /\ WritesRise(writes, S \cup {m})
      <4>1. /\ \A i \in 1..Len(log) : log[i] # m
            /\ \A i \in 1..Len(wire) : wire[i] # m
            /\ \A i \in 1..Len(writes) : writes[i].m # m
        BY <2>5, OrderIs, InRange DEF Gone, Writing
      <4> QED BY <1>7, <3>1, <4>1 DEF Flight, Rising, WritesRise
    <3>8. /\ Rising(log', S \cup {m}) /\ Rising(wire', S \cup {m})
          /\ WritesRise(writes', S \cup {m})
      BY <1>2, <2>2, <3>7
    <3>9. ASSUME NEW a \in S \cup {m}, NEW b \in S \cup {m}, Ahead(a, b)'
          PROVE  a <= b
      <4>1. a # m
        BY <1>2, <2>5, <2>6, <3>9 DEF Ahead, Gone
      <4>2. CASE b = m
        BY <1>3, <1>7, <4>1, <4>2, OrderIs
      <4>3. CASE b # m
        <5>1. Ahead(a, b)
          BY <1>2, <1>4, <2>4, <2>6, <3>9, <4>3 DEF Ahead
        <5> QED BY <1>7, <3>1, <4>1, <4>3, <5>1 DEF Flight
      <4> QED BY <4>2, <4>3
    <3>10. Flight'
      BY <2>3, <3>8, <3>9 DEF Flight
    <3> QED BY <3>6, <3>10
  <2>9. Increasing(offline)'
    BY <2>3 DEF Increasing
  <2> QED BY <1>6, <2>7, <2>8, <2>9 DEF OrderInv
<1> QED BY <1>8, <1>9

(* A flush sends the head of what is left to it: what is gone was queued   *)
(* before, and what is left anywhere after, for no other flush goes on.    *)
LEMMA OrderFlushSends ==
  ASSUME TypeInv, ForgetInv, TurnsInv, OrderInv, Next, NEW f \in DOMAIN flush, FlushSends(f)
  PROVE  OrderInv'
<1>1. /\ f \in 1..Len(flush) /\ flush[f].at = "next"
      /\ Len(flush') = Len(flush) /\ \A g \in 1..Len(flush) : g # f => flush'[g] = flush[g]
      /\ flush'[f].rest = flush[f].rest
      /\ Ended(f) \/ Stopped(f) \/ SendsHead(f)
      /\ UNCHANGED <<queue, wire, log, offline, robbed>>
  BY FlushSendsDoes DEF netVars, history
<1>2. \A g \in 1..Len(flush) : flush'[g].rest = flush[g].rest
  BY <1>1
<1>3. CASE Ended(f) \/ Stopped(f)
  <2>1. Shrinks /\ writes' = writes
    BY <1>1, <1>2, <1>3 DEF Shrinks, Ended, Stopped
  <2> QED BY <1>1, <2>1, OrderShrinks
<1>4. CASE SendsHead(f)
  <2>1. PICK w \in Waiter : /\ w.m = HeadOf(f) /\ writes' = Append(writes, w)
                            /\ flush[f].rest # <<>>
    BY <1>4 DEF SendsHead, HeadOf
  <2>2. PICK h \in Message : h = w.m /\ h = HeadOf(f)
    BY <2>1, TypesGive
  <2>3. Range(writes') = Range(writes) \cup {w}
    BY <2>1, OrderIs, Appended
  <2>4. \A b : (Writing(b)' <=> Writing(b) \/ b = h)
    BY <2>2, <2>3 DEF Writing
  <2>5. \A b : LeftOver(b)' <=> LeftOver(b)
    BY <1>1, <1>2 DEF LeftOver
  <2>6. LeftOver(h)
    BY <1>1, <2>1, <2>2, TypesGive DEF LeftOver
  <2>7. Published'
    BY <1>1, PublishedStays
  <2>8. ASSUME robbed' = {} PROVE Flight' /\ Lines'
    <3>1. Flight /\ Lines /\ robbed = {}
      BY <1>1, <2>8 DEF OrderInv
    <3>2. Lines'
      <4>1. \A g \in 1..Len(flush') : Increasing(flush'[g].rest)
        BY <1>1, <1>2, <3>1 DEF Lines
      <4>2. Increasing(queue)' /\ \A g \in 1..Len(flush') : Increasing(flush[g].rest)'
        BY <1>1, <3>1, <4>1 DEF Lines, Increasing
      <4> QED BY <1>1, <2>5, <3>1, <4>2 DEF Lines
    <3>3. ASSUME NEW b, LeftOver(b) PROVE h <= b
      <4>1. PICK g \in 1..Len(flush) : b \in Range(flush[g].rest)
        BY <3>3 DEF LeftOver
      <4>2. flush[g].rest # <<>>
        BY <4>1, NoneInEmpty
      <4>3. Alive(g) /\ Alive(f)
        BY <1>1, <4>2 DEF ForgetInv, Sure, Alive
      <4>4. g = f
        BY <1>1, <3>1, <4>3 DEF TurnsInv, Alone
      <4>5. PICK q \in Seq(Message) : q = flush[f].rest
        BY <1>1, TypesGive
      <4>6. q # <<>> /\ Increasing(q) /\ h = Head(q) /\ b \in Range(q)
        BY <1>1, <2>1, <2>2, <3>1, <4>1, <4>4, <4>5 DEF Lines, HeadOf
      <4>7. b = h \/ b \in Range(Tail(q))
        BY <4>6, HeadAndTail
      <4>8. h < b \/ b = h
        BY <4>6, <4>7, IncreasingTail
      <4> QED BY <3>3, <4>8, OrderIs
    <3>4. ASSUME NEW b \in Range(queue) PROVE h <= b
      <4>1. h < b
        BY <2>6, <3>1 DEF Lines
      <4> QED BY <4>1, OrderIs
    <3>5. ASSUME NEW a \in Range(offline), NEW b \in Range(offline), Ahead(a, b)'
          PROVE  a <= b
      <4>1. \/ Ahead(a, b)
            \/ b = h /\ Gone(a)
            \/ a = h /\ (LeftOver(b) \/ b \in Range(queue))
        BY <1>1, <2>4, <2>5, <3>5 DEF Ahead, Gone
      <4>2. CASE Ahead(a, b)
        BY <3>1, <4>2 DEF Flight
      <4>3. CASE b = h /\ Gone(a)
        BY <2>6, <3>1, <4>3 DEF Flight, Ahead
      <4>4. CASE a = h /\ (LeftOver(b) \/ b \in Range(queue))
        BY <3>3, <3>4, <4>4
      <4> QED BY <4>1, <4>2, <4>3, <4>4
    <3>6. WritesRise(writes', Range(offline))
      <4>1. ASSUME NEW v \in Range(writes), v.m \in Range(offline), w.m \in Range(offline)
            PROVE  v.m <= w.m
        <5>1. Ahead(v.m, h)
          BY <2>6 DEF Ahead, Gone, Writing
        <5> QED BY <2>2, <3>1, <4>1, <5>1 DEF Flight
      <4> QED BY <2>1, <3>1, <4>1, OrderIs, WritesAppend DEF Flight
    <3>7. PICK S : S = Range(offline)
      OBVIOUS
    <3>8. /\ Range(offline') = S /\ WritesRise(writes', S) /\ Rising(log', S) /\ Rising(wire', S)
          /\ \A a, b \in S : Ahead(a, b)' => a <= b
      BY <1>1, <3>1, <3>5, <3>6, <3>7 DEF Flight
    <3> QED BY <3>2, <3>8 DEF Flight
  <2> QED BY <1>1, <2>7, <2>8, TurnStays DEF OrderInv
<1> QED BY <1>1, <1>3, <1>4

LEMMA OrderFlushCatches ==
  ASSUME TypeInv, ForgetInv, TurnsInv, OrderInv, Next, NEW f \in DOMAIN flush, FlushCatches(f)
  PROVE  OrderInv'
<1>1. /\ f \in 1..Len(flush) /\ flush[f].at = "rejected" /\ flush[f].rest # <<>>
      /\ Len(flush') = Len(flush) /\ \A g \in 1..Len(flush) : g # f => flush'[g] = flush[g]
      /\ Passes(f) \/ PutsBack(f)
      /\ UNCHANGED <<writes, wire, log, offline, robbed>>
  BY FlushCatchesDoes DEF netVars, history
<1>2. CASE Passes(f)
  <2>1. Shrinks /\ queue' = queue
    BY <1>1, <1>2 DEF Shrinks, Passes
  <2> QED BY <1>1, <2>1, OrderShrinks
<1>3. CASE PutsBack(f)
  <2>1. PICK q \in Seq(Message) : q = flush[f].rest
    BY <1>1, TypesGive
  <2>2. queue' = q \o queue /\ flush'[f].rest = <<>>
    BY <1>3, <2>1 DEF PutsBack
  <2>3. Range(queue') = Range(q) \cup Range(queue)
    BY <2>2, OrderIs, Joined
  <2>4. \A b \in Range(q) : LeftOver(b)
    BY <1>1, <2>1 DEF LeftOver
  <2>5. ASSUME robbed = {} PROVE \A b : ~LeftOver(b)'
    <3> SUFFICES ASSUME NEW g \in 1..Len(flush), NEW b, b \in Range(flush'[g].rest)
                 PROVE  FALSE
      BY <1>1 DEF LeftOver
    <3>1. g # f
      BY <2>2, NoneInEmpty
    <3>2. b \in Range(flush[g].rest)
      BY <1>1, <3>1
    <3>3. flush[g].rest # <<>>
      BY <3>2, NoneInEmpty
    <3>4. Alive(g) /\ Alive(f)
      BY <1>1, <3>3 DEF ForgetInv, Sure, Alive
    <3> QED BY <1>1, <2>5, <3>1, <3>4 DEF TurnsInv, Alone
  <2>6. ASSUME robbed' = {} PROVE Flight' /\ Lines'
    <3>1. Flight /\ Lines /\ robbed = {}
      BY <1>1, <2>6 DEF OrderInv
    <3>2. Increasing(queue')
      <4>1. Increasing(q) /\ Increasing(queue)
        BY <1>1, <2>1, <3>1 DEF Lines
      <4>2. \A a \in Range(q), b \in Range(queue) : a < b
        BY <2>4, <3>1 DEF Lines
      <4> QED BY <2>2, <4>1, <4>2, OrderIs, IncreasingJoined
    <3>3. \A g \in 1..Len(flush') : Increasing(flush'[g].rest)
      <4>1. \A r : r = <<>> => Increasing(r)
        BY DEF Increasing
      <4> QED BY <1>1, <2>2, <3>1, <4>1 DEF Lines
    <3>4. Increasing(queue)' /\ \A g \in 1..Len(flush') : Increasing(flush[g].rest)'
      BY <3>2, <3>3 DEF Increasing
    <3>5. Lines'
      BY <2>5, <3>1, <3>4 DEF Lines
    <3>6. \A b : LeftOver(b)' \/ b \in Range(queue') => LeftOver(b) \/ b \in Range(queue)
      BY <2>3, <2>4, <2>5, <3>1
    <3> QED BY <1>1, <3>1, <3>5, <3>6, FlightStays
  <2>7. Published'
    BY <1>1, PublishedStays
  <2> QED BY <1>1, <2>6, <2>7, TurnStays DEF OrderInv
<1> QED BY <1>1, <1>2, <1>3

LEMMA OrderWritten == ASSUME TypeInv, OnceInv, OrderInv, Next, Written PROVE OrderInv'
<1>1. PICK w \in Waiter :
        /\ writes # <<>> /\ w = Head(writes) /\ writes' = Tail(writes)
        /\ robbed' = robbed \cup {v.m : v \in pending[ChannelFor(w)]}
        /\ wire' = Append(wire, w.m)
        /\ Wakes({w}, "waiting")
        /\ UNCHANGED <<queue, promise, log, offline>>
  BY WrittenDoes
<1>2. PICK m \in Message : m = w.m
  BY TypesGive
<1>3. Range(writes) = {w} \cup Range(writes') /\ Range(wire') = Range(wire) \cup {m}
  BY <1>1, <1>2, OrderIs, HeadAndTail, Appended
<1>4. Writing(m) /\ \A b : Writing(b) <=> b = m \/ Writing(b)'
  BY <1>2, <1>3 DEF Writing
<1>5. Shrinks
  BY <1>1 DEF Wakes, Shrinks
<1>6. Published'
  <2>1. promise[m] # "none"
    BY <1>2, <1>3 DEF OnceInv, Direct, Entry
  <2> QED BY <1>1, <1>3, <2>1 DEF OrderInv, Published
<1>7. \A b : Gone(b)' <=> Gone(b)
  BY <1>1, <1>3, <1>4 DEF Gone
<1>8. ASSUME robbed' = {} PROVE Flight' /\ Lines'
  <2>1. Flight /\ Lines
    BY <1>1, <1>8 DEF OrderInv
  <2>2. Lines' /\ \A b : LeftOver(b)' => LeftOver(b)
    BY <1>1, <1>5, <2>1, LinesShrink
  <2>3. PICK S : S = Range(offline)
    OBVIOUS
  <2>4. Rising(wire, S) /\ WritesRise(writes, S) /\ Rising(log, S)
        /\ \A a, b \in S : Ahead(a, b) => a <= b
    BY <2>1, <2>3 DEF Flight
  <2>5. \A a \in Range(wire) : a \in S /\ m \in S => a <= m
    BY <1>4, <2>4 DEF Ahead
  <2>6. Rising(Append(wire, m), S)
    BY <2>4, <2>5, OrderIs, RisingAppend
  <2>7. /\ WritesRise(Tail(writes), S)
        /\ \A v \in Range(Tail(writes)) : Head(writes).m \in S /\ v.m \in S => Head(writes).m <= v.m
    BY <1>1, <2>4, OrderIs, WritesTail
  <2>8. WritesRise(writes', S) /\ \A b : Writing(b)' /\ m \in S /\ b \in S => m <= b
    BY <1>1, <1>2, <2>7 DEF Writing
  <2>9. ASSUME NEW a \in S, NEW b \in S, Ahead(a, b)' PROVE a <= b
    <3>1. Ahead(a, b) \/ (a = m /\ Writing(b)')
      BY <1>1, <1>3, <1>4, <1>7, <2>2, <2>9 DEF Ahead
    <3> QED BY <2>4, <2>8, <2>9, <3>1
  <2>10. Range(offline') = S /\ Rising(log', S) /\ Rising(wire', S)
    BY <1>1, <1>2, <2>3, <2>4, <2>6
  <2>11. Flight'
    BY <2>8, <2>9, <2>10 DEF Flight
  <2> QED BY <2>2, <2>11
<1> QED BY <1>1, <1>6, <1>8, TurnStays DEF OrderInv

LEMMA OrderTold == ASSUME TypeInv, OrderInv, Next, Receive \/ Expire PROVE OrderInv'
<1>1. CASE Receive
  <2>1. UNCHANGED <<queue, writes, wire, log, offline, robbed>> /\ \E ws, at : Wakes(ws, at)
    BY <1>1, ReceiveDoes DEF history
  <2>2. Shrinks
    BY <2>1 DEF Wakes, Shrinks
  <2> QED BY <2>1, <2>2, OrderShrinks
<1>2. CASE Expire
  <2>1. /\ UNCHANGED <<queue, writes, wire, log, offline>> /\ robbed \subseteq robbed'
        /\ flush' = flush \/ \E ws, at : Wakes(ws, at)
    BY <1>2, ExpireDoes DEF netVars
  <2>2. Shrinks
    BY <2>1 DEF Wakes, Shrinks
  <2> QED BY <2>1, <2>2, OrderShrinks
<1> QED BY <1>1, <1>2

LEMMA OrderReads == ASSUME TypeInv, OrderInv, Next, Reads PROVE OrderInv'
<1>1. PICK m \in Message :
        /\ wire # <<>> /\ m = Head(wire) /\ wire' = Tail(wire)
        /\ log' = log \/ log' = Append(log, m)
        /\ UNCHANGED <<connVars, pubVars, history>>
  BY ReadsDoes
<1>2. UNCHANGED <<queue, flush, writes, offline, robbed>>
  BY <1>1 DEF pubVars, history
<1>3. /\ Range(wire) = {m} \cup Range(wire')
      /\ Range(log) \subseteq Range(log') /\ Range(log') \subseteq Range(log) \cup {m}
  <2>1. Range(Append(log, m)) = Range(log) \cup {m}
    BY OrderIs, Appended
  <2>2. Range(log') = Range(log) \/ Range(log') = Range(log) \cup {m}
    BY <1>1, <2>1
  <2>3. Range(wire) = {m} \cup Range(wire')
    BY <1>1, OrderIs, HeadAndTail
  <2> QED BY <2>2, <2>3
<1>4. \A b : (Writing(b)' <=> Writing(b)) /\ (LeftOver(b)' <=> LeftOver(b)) /\ (Gone(b)' => Gone(b))
  BY <1>2, <1>3 DEF Writing, LeftOver, Gone
<1>5. Published'
  BY <1>3, PublishedStays
<1>6. ASSUME robbed' = {} PROVE Flight' /\ Lines'
  <2>1. Flight /\ Lines
    BY <1>2, <1>6 DEF OrderInv
  <2>2. Lines'
    BY <1>2, <1>4, <2>1 DEF Lines, Increasing
  <2>3. PICK S : S = Range(offline)
    OBVIOUS
  <2>4. Rising(wire, S) /\ WritesRise(writes, S) /\ Rising(log, S)
        /\ \A a, b \in S : Ahead(a, b) => a <= b
    BY <2>1, <2>3 DEF Flight
  <2>5. Rising(log', S)
    <3>1. \A a \in Range(log) : a \in S /\ m \in S => a <= m
      BY <1>3, <2>4 DEF Ahead
    <3>2. Rising(Append(log, m), S)
      BY <2>4, <3>1, OrderIs, RisingAppend
    <3> QED BY <1>1, <2>4, <3>2
  <2>6. Rising(wire', S) /\ \A b \in Range(wire') : m \in S /\ b \in S => m <= b
    BY <1>1, <2>4, OrderIs, RisingTail
  <2>7. ASSUME NEW a \in S, NEW b \in S, Ahead(a, b)' PROVE a <= b
    <3>1. Ahead(a, b) \/ (a = m /\ b \in Range(wire'))
      BY <1>2, <1>3, <1>4, <2>7 DEF Ahead
    <3> QED BY <2>4, <2>6, <2>7, <3>1
  <2>8. Range(offline') = S /\ WritesRise(writes', S)
    BY <1>2, <2>3, <2>4
  <2>9. Flight'
    BY <2>5, <2>6, <2>7, <2>8 DEF Flight
  <2> QED BY <2>2, <2>9
<1> QED BY <1>2, <1>5, <1>6, TurnStays DEF OrderInv

LEMMA InitOrder == Init => OrderInv
<1> SUFFICES ASSUME Init PROVE OrderInv
  OBVIOUS
<1>1. /\ Len(queue) = 0 /\ Len(flush) = 0 /\ Len(offline) = 0 /\ Len(log) = 0
      /\ Len(wire) = 0 /\ Len(writes) = 0
  BY DEF Init
<1>2. Range(offline) = {} /\ Range(log) = {} /\ Range(wire) = {} /\ Range(queue) = {}
  BY NoneInEmpty DEF Init
<1>3. Flight /\ Lines
  BY <1>1, <1>2 DEF Flight, Lines, Rising, WritesRise, Increasing
<1> QED BY <1>1, <1>2, <1>3 DEF OrderInv, InTurn, Published, Increasing

LEMMA StepOrder ==
  TypeInv /\ ForgetInv /\ OnceInv /\ TurnsInv /\ OrderInv /\ [Next]_vars => OrderInv'
<1> SUFFICES ASSUME TypeInv, ForgetInv, OnceInv, TurnsInv, OrderInv, [Next]_vars
             PROVE  OrderInv'
  OBVIOUS
<1>1. CASE UNCHANGED vars
  BY <1>1, OrderDials
<1>2. CASE Next
  BY <1>2, Steps, OrderDials, OrderCleansUp, OrderStarts, OrderPublish, OrderFlushSends,
     OrderFlushCatches, OrderWritten, OrderTold, OrderReads
<1> QED BY <1>1, <1>2

(* Where a message was first published.                                    *)
First(m) == SelectInSeq(log, LAMBDA k : k = m)

LEMMA FirstIs ==
  ASSUME TypeInv, NEW m
  PROVE  \/ First(m) = 0 /\ m \notin Range(log)
         \/ /\ First(m) \in 1..Len(log) /\ log[First(m)] = m
            /\ \A i \in 1..Len(log) : log[i] = m => First(m) <= i
<1> DEFINE I == {i \in 1..Len(log) : log[i] = m}
<1>1. First(m) = IF I # {} THEN Min(I) ELSE 0
  BY DEF First, SelectInSeq
<1>2. \A i \in 1..Len(log) : i \in I <=> log[i] = m
  OBVIOUS
<1>3. I \subseteq 1..Len(log)
  OBVIOUS
<1> HIDE DEF I
<1>4. CASE I = {}
  BY <1>1, <1>2, <1>4, OrderIs, InRange
<1>5. CASE I # {}
  <2>1. \E n \in I : \A k \in I : n <= k
    <3>1. I \in SUBSET Nat
      BY <1>3
    <3> QED BY <1>5, <3>1, Least
  <2>2. Min(I) \in I /\ \A k \in I : Min(I) <= k
    BY <2>1 DEF Min
  <2> QED BY <1>1, <1>2, <1>3, <1>5, <2>2
<1> QED BY <1>4, <1>5

LEMMA OrderIsEnough == TypeInv /\ OrderInv => OfflineInOrder
<1> SUFFICES ASSUME TypeInv, OrderInv, robbed = {},
                    NEW i \in DOMAIN offline, NEW j \in DOMAIN offline,
                    i < j, First(offline[j]) # 0
             PROVE  First(offline[i]) <= First(offline[j])
  BY DEF OfflineInOrder, First
<1>1. i \in 1..Len(offline) /\ j \in 1..Len(offline)
  BY OrderIs
<1>2. PICK a, b : a = offline[i] /\ b = offline[j]
  OBVIOUS
<1>3. a \in Range(offline) /\ b \in Range(offline) /\ a < b /\ a \in Nat /\ b \in Nat
  BY <1>1, <1>2, OrderIs, InRange DEF OrderInv, Increasing
<1>4. /\ First(b) \in 1..Len(log) /\ log[First(b)] = b
  BY <1>2, FirstIs
<1>5. CASE First(a) = 0
  BY <1>2, <1>4, <1>5
<1>6. CASE First(a) # 0
  <2>1. First(a) \in 1..Len(log) /\ log[First(a)] = a
    BY <1>6, FirstIs
  <2>2. Rising(log, Range(offline))
    BY DEF OrderInv, Flight
  <2>3. ASSUME First(b) < First(a) PROVE FALSE
    <3>1. b <= a
      BY <1>3, <1>4, <2>1, <2>2, <2>3 DEF Rising
    <3> QED BY <1>3, <3>1
  <2> QED BY <1>2, <1>4, <2>1, <2>3
<1> QED BY <1>5, <1>6

(* OfflineInOrder (client.ts:222-246, flushOfflineQueue 470-497): as long  *)
(* as no entry is taken from another, what waited in the queue is first    *)
(* published in the order it was queued, whatever is lost, put back and    *)
(* sent again: only one flush goes on at a time, and what it puts back was *)
(* queued before all that came since.                                      *)
THEOREM OfflineKeepsOrder == Spec => []OfflineInOrder
<1> DEFINE All == TypeInv /\ ResolvedInv /\ ForgetInv /\ OnceInv /\ TurnsInv /\ OrderInv
<1>1. Init => All
  BY InitTypes, InitResolved, InitForget, InitOnce, InitTurns, InitOrder
<1>2. All /\ [Next]_vars => All'
  BY StepTypes, StepResolved, StepForget, StepOnce, StepTurns, StepOrder
<1>3. All => OfflineInOrder
  BY OrderIsEnough
<1> QED
  BY <1>1, <1>2, <1>3, PTL DEF Spec
=============================================================================

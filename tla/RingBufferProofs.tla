-------------------------- MODULE RingBufferProofs --------------------------
(***************************************************************************)
(* RingBuffer, for any writers, readers, capacity and number of pushes:    *)
(* the queue is the newest end of what was pushed, pushes that do not      *)
(* overlap are in order, and a lone writer keeps the queue sorted; on a    *)
(* sorted queue the binary search is exact; and a reader that catches up   *)
(* misses nothing that is still there and sees nothing twice, as long as   *)
(* pushes do not overlap.                                                  *)
(***************************************************************************)
EXTENDS RingBuffer, WellFoundedInduction, TLAPS

-----------------------------------------------------------------------------
(* Sequences.                                                              *)

LEMMA NumbersAppend ==
  ASSUME NEW q \in Seq(Message), NEW m \in Message
  PROVE  Append(q, m) \in Seq(Message) /\ Numbers(Append(q, m)) = Numbers(q) \cup {m.seq}
<1>1. /\ Append(q, m) \in Seq(Message) /\ Len(q) \in Nat
      /\ DOMAIN Append(q, m) = 1..(Len(q) + 1) /\ DOMAIN q = 1..Len(q)
      /\ \A i \in 1..Len(q) : Append(q, m)[i] = q[i]
      /\ Append(q, m)[Len(q) + 1] = m
  OBVIOUS
<1>2. Range(Append(q, m)) = Range(q) \cup {m}
  BY <1>1 DEF Range
<1> QED BY <1>1, <1>2 DEF Numbers

LEMMA NumbersElement ==
  ASSUME NEW q \in Seq(Message), NEW i \in 1..Len(q)
  PROVE  q[i].seq \in Numbers(q) /\ q[i].seq \in 1..MaxPush
<1>1. DOMAIN q = 1..Len(q) /\ q[i] \in Message
  OBVIOUS
<1>2. q[i] \in Range(q)
  BY <1>1 DEF Range
<1> QED BY <1>1, <1>2 DEF Numbers, Message

LEMMA NumbersRange ==
  ASSUME NEW q \in Seq(Message)
  PROVE  Numbers(q) \subseteq 1..MaxPush
<1>1. DOMAIN q = 1..Len(q) /\ \A i \in 1..Len(q) : q[i] \in Message
  OBVIOUS
<1>2. Range(q) \subseteq Message
  BY <1>1 DEF Range
<1> QED BY <1>2 DEF Numbers, Message

(* What an insertion makes of the queue: the same messages in the same     *)
(* order, perhaps without the first one, and the new one at the end.       *)
LEMMA InsertedShape ==
  ASSUME NEW q \in Seq(Message), NEW m \in Message, Len(q) <= Capacity
  PROVE  \E gone \in {0, 1} :
           /\ gone = 1 <=> Len(q) = Capacity
           /\ Inserted(q, m) \in Seq(Message)
           /\ Len(Inserted(q, m)) = Len(q) + 1 - gone
           /\ Len(q) - gone \in Nat
           /\ \A i \in 1..(Len(q) - gone) : i + gone \in 1..Len(q)
                                           /\ Inserted(q, m)[i] = q[i + gone]
           /\ Inserted(q, m)[Len(q) + 1 - gone] = m
<1> USE RingAssumption
<1>1. CASE Len(q) >= Capacity
  <2>1. q # <<>> /\ Len(q) \in Nat /\ Len(q) = Capacity /\ Len(q) >= 1
    BY <1>1
  <2>2. /\ Tail(q) \in Seq(Message) /\ Len(Tail(q)) = Len(q) - 1
        /\ \A i \in 1..(Len(q) - 1) : Tail(q)[i] = q[i + 1]
    BY <2>1
  <2>3. Inserted(q, m) = Append(Tail(q), m)
    BY <1>1 DEF Inserted
  <2>4. /\ Append(Tail(q), m) \in Seq(Message)
        /\ Len(Append(Tail(q), m)) = Len(q)
        /\ \A i \in 1..(Len(q) - 1) : Append(Tail(q), m)[i] = Tail(q)[i]
        /\ Append(Tail(q), m)[Len(q)] = m
    BY <2>1, <2>2
  <2>5. \A i \in 1..(Len(q) - 1) : i + 1 \in 1..Len(q) /\ Inserted(q, m)[i] = q[i + 1]
    BY <2>1, <2>2, <2>3, <2>4
  <2> QED BY <2>1, <2>3, <2>4, <2>5
<1>2. CASE ~(Len(q) >= Capacity)
  <2>1. Inserted(q, m) = Append(q, m)
    BY <1>2 DEF Inserted
  <2>2. /\ Append(q, m) \in Seq(Message) /\ Len(q) \in Nat
        /\ Len(Append(q, m)) = Len(q) + 1
        /\ \A i \in 1..Len(q) : Append(q, m)[i] = q[i]
        /\ Append(q, m)[Len(q) + 1] = m
    OBVIOUS
  <2> QED BY <1>2, <2>1, <2>2
<1> QED BY <1>1, <1>2

-----------------------------------------------------------------------------
(* The invariant.                                                          *)

QueueType ==
  /\ messages \in Seq(Message) /\ Len(messages) <= Capacity
  /\ next_seq \in Nat \ {0}
  /\ writing \in [Writer -> SUBSET Message]
  /\ log \in Seq(Message)
  /\ cleared \in 0..Len(log)
  /\ earlier \in Seq(SUBSET (1..MaxPush)) /\ Len(earlier) = next_seq - 1

(* A number belongs to one writer until its message is queued.             *)
Numbered ==
  /\ \A w \in Writer : \A m \in writing[w] : m.seq < next_seq /\ m.seq \notin Numbers(log)
  /\ \A v, w \in Writer : \A m \in writing[v], n \in writing[w] : m.seq = n.seq => v = w

Queued ==
  /\ Numbers(messages) \subseteq Numbers(log)
  /\ \A k \in Numbers(log) : k < next_seq
  /\ \A n \in 1..Len(earlier) : \A k \in earlier[n] : k \in Numbers(log) /\ k < n

(* A lone writer's message in hand is newer than all it has queued.        *)
LoneWriterAhead ==
  (\A v, w \in Writer : v = w) =>
    \A w \in Writer : \A m \in writing[w] : \A k \in Numbers(log) : k < m.seq

OrderInv ==
  QueueType /\ Numbered /\ Queued /\ RealTimeOrder /\ LoneWriterAhead /\ OneWriterSorted

LEMMA NoNumbers == Numbers(<<>>) = {}
BY DEF Numbers, Range

LEMMA OrderInit == Init => OrderInv
<1> SUFFICES ASSUME Init PROVE OrderInv
  OBVIOUS
<1>1. QueueType
  BY RingAssumption DEF Init, QueueType
<1>2. Numbered /\ Queued /\ LoneWriterAhead
  BY NoNumbers DEF Init, Numbered, Queued, LoneWriterAhead
<1>3. RealTimeOrder /\ OneWriterSorted
  BY DEF Init, RealTimeOrder, OneWriterSorted, Sorted, Ascending
<1> QED BY <1>1, <1>2, <1>3 DEF OrderInv

LEMMA TakeNumberOrder ==
  ASSUME OrderInv, NEW w \in Writer, NEW topic \in Topic, TakeNumber(w, topic)
  PROVE  OrderInv'
<1> DEFINE new == [seq |-> next_seq, topic |-> topic]
<1> USE DEF OrderInv, QueueType
<1>1. /\ new \in Message /\ new.seq = next_seq
      /\ writing' = [writing EXCEPT ![w] = {new}]
      /\ next_seq' = next_seq + 1
      /\ UNCHANGED <<messages, log, cleared>>
  BY RingAssumption DEF TakeNumber, Message
<1>2. Numbers(log) \subseteq 1..MaxPush
  BY NumbersRange
<1>3. /\ earlier' = Append(earlier, Numbers(log))
      /\ earlier' \in Seq(SUBSET (1..MaxPush)) /\ Len(earlier') = next_seq
      /\ \A n \in 1..Len(earlier) : earlier'[n] = earlier[n]
      /\ earlier'[next_seq] = Numbers(log)
  BY <1>2 DEF TakeNumber
<1>4. QueueType'
  BY <1>1, <1>3
<1>5. Numbered'
  <2>1. Numbers(log)' = Numbers(log) /\ next_seq \notin Numbers(log)
    BY <1>1 DEF Queued
  <2>2. \A v \in Writer : writing'[v] = IF v = w THEN {new} ELSE writing[v]
    BY <1>1
  <2>3. \A v \in Writer : \A m \in writing[v] : m.seq \in Nat /\ m.seq < next_seq
    BY DEF Numbered, Message
  <2>4. ASSUME NEW v \in Writer, NEW m \in writing'[v]
        PROVE  m.seq < next_seq + 1 /\ m.seq \notin Numbers(log)
    BY <1>1, <2>1, <2>2, <2>3, <2>4 DEF Numbered
  <2>5. ASSUME NEW v \in Writer, NEW u \in Writer, NEW m \in writing'[v], NEW n \in writing'[u],
               m.seq = n.seq
        PROVE  v = u
    BY <1>1, <2>2, <2>3, <2>5 DEF Numbered
  <2> QED BY <1>1, <2>1, <2>4, <2>5 DEF Numbered
<1>6. Queued'
  <2>1. Numbers(log)' = Numbers(log) /\ Numbers(messages)' = Numbers(messages)
    BY <1>1
  <2>2. \A k \in Numbers(log) : k \in Nat /\ k < next_seq
    BY <1>2 DEF Queued
  <2>3. ASSUME NEW n \in 1..Len(earlier'), NEW k \in earlier'[n]
        PROVE  k \in Numbers(log) /\ k < n
    <3>1. CASE n = next_seq
      BY <1>3, <2>2, <2>3, <3>1
    <3>2. CASE n # next_seq
      BY <1>3, <2>3, <3>2 DEF Queued
    <3> QED BY <3>1, <3>2
  <2> QED BY <1>1, <2>1, <2>2, <2>3 DEF Queued
<1>7. RealTimeOrder'
  <2>1. \A i \in 1..Len(messages) : messages[i].seq \in 1..Len(earlier)
    BY NumbersElement DEF Queued
  <2> QED BY <1>1, <1>3, <2>1 DEF RealTimeOrder
<1>8. LoneWriterAhead'
  BY <1>1 DEF LoneWriterAhead, Queued
<1>9. OneWriterSorted'
  BY <1>1 DEF OneWriterSorted, Sorted, Ascending
<1> QED BY <1>4, <1>5, <1>6, <1>7, <1>8, <1>9

LEMMA InsertOrder ==
  ASSUME OrderInv, NEW w \in Writer, Insert(w)
  PROVE  OrderInv'
<1> USE DEF OrderInv, QueueType
<1>1. PICK m \in writing[w] :
        /\ messages' = Inserted(messages, m)
        /\ writing' = [writing EXCEPT ![w] = {}]
        /\ log' = Append(log, m)
        /\ UNCHANGED <<next_seq, cleared, earlier>>
  BY DEF Insert
<1>2. m \in Message /\ m.seq \in 1..MaxPush
  BY DEF Message
<1>3. log' \in Seq(Message) /\ Numbers(log)' = Numbers(log) \cup {m.seq}
  BY <1>1, <1>2, NumbersAppend
<1>4. PICK gone \in {0, 1} :
        /\ gone = 1 <=> Len(messages) = Capacity
        /\ Inserted(messages, m) \in Seq(Message)
        /\ Len(Inserted(messages, m)) = Len(messages) + 1 - gone
        /\ Len(messages) - gone \in Nat
        /\ \A i \in 1..(Len(messages) - gone) :
             i + gone \in 1..Len(messages) /\ Inserted(messages, m)[i] = messages[i + gone]
        /\ Inserted(messages, m)[Len(messages) + 1 - gone] = m
  BY <1>2, InsertedShape
<1> DEFINE last == Len(messages) + 1 - gone
<1>5. /\ last \in Nat /\ Len(messages') = last
      /\ messages' \in Seq(Message) /\ messages'[last] = m
      /\ \A i \in 1..last : i # last => /\ i + gone \in 1..Len(messages)
                                        /\ messages'[i] = messages[i + gone]
  BY <1>1, <1>4
<1>6. m.seq < next_seq /\ m.seq \notin Numbers(log)
  BY DEF Numbered
<1>7. QueueType'
  <2>1. Len(messages') <= Capacity
    BY <1>4, <1>5, RingAssumption
  <2>2. cleared \in 0..Len(log')
    BY <1>1, <1>2
  <2> QED BY <1>1, <1>3, <1>5, <2>1, <2>2
<1>8. \A v \in Writer : writing'[v] = IF v = w THEN {} ELSE writing[v]
  BY <1>1
<1>9. Numbered'
  <2>1. \A v \in Writer : \A n \in writing'[v] : n.seq # m.seq
    BY <1>8 DEF Numbered
  <2> QED BY <1>1, <1>3, <1>8, <2>1 DEF Numbered
<1>10. Numbers(messages)' \subseteq Numbers(messages) \cup {m.seq}
  <2>1. \A i \in 1..last : messages'[i].seq \in Numbers(messages) \cup {m.seq}
    BY <1>4, <1>5, NumbersElement
  <2>2. DOMAIN messages' = 1..last
    BY <1>4, <1>5
  <2> QED BY <2>1, <2>2 DEF Numbers, Range
<1>11. Queued'
  BY <1>1, <1>3, <1>6, <1>10 DEF Queued
<1>12. RealTimeOrder'
  <2>1. SUFFICES ASSUME NEW i \in 1..last, NEW j \in 1..last,
                        messages'[i].seq \in earlier[messages'[j].seq]
                 PROVE  i < j /\ messages'[i].seq < messages'[j].seq
    BY <1>1, <1>5 DEF RealTimeOrder
  <2>2. messages'[j].seq \in 1..Len(earlier)
    <3>1. messages'[j].seq \in Numbers(messages') /\ messages'[j].seq \in 1..MaxPush
      BY <1>4, <1>5, NumbersElement
    <3>2. messages'[j].seq < next_seq
      BY <1>1, <1>11, <3>1 DEF Queued
    <3> QED BY <3>1, <3>2
  <2>3. messages'[i].seq \in Numbers(log) /\ messages'[i].seq < messages'[j].seq
    BY <2>1, <2>2 DEF Queued
  <2>4. i # last
    BY <1>5, <1>6, <2>3
  <2>5. CASE j = last
    BY <1>5, <2>3, <2>4, <2>5
  <2>6. CASE j # last
    <3>1. messages[i + gone].seq \in earlier[messages[j + gone].seq]
      BY <1>5, <2>1, <2>4, <2>6
    <3>2. i + gone < j + gone
      BY <1>5, <2>4, <2>6, <3>1 DEF RealTimeOrder
    <3> QED BY <2>3, <3>2
  <2> QED BY <2>5, <2>6
<1>13. LoneWriterAhead'
  BY <1>3, <1>8 DEF LoneWriterAhead
<1>14. OneWriterSorted'
  <2>1. SUFFICES ASSUME \A v, u \in Writer : v = u,
                        NEW i \in 1..last, NEW j \in 1..last, i < j
                 PROVE  messages'[i].seq < messages'[j].seq
    BY <1>5 DEF OneWriterSorted, Sorted, Ascending
  <2>2. i # last
    BY <1>5, <2>1
  <2>3. messages'[i].seq \in Numbers(log)
    BY <1>4, <1>5, <2>2, NumbersElement DEF Queued
  <2>4. CASE j = last
    BY <1>5, <2>1, <2>3, <2>4 DEF LoneWriterAhead
  <2>5. CASE j # last
    <3>1. messages[i + gone].seq < messages[j + gone].seq
      <4>1. i + gone < j + gone
        BY <2>1
      <4> QED BY <1>5, <2>1, <2>2, <2>5, <4>1 DEF OneWriterSorted, Sorted, Ascending
    <3> QED BY <1>5, <2>2, <2>5, <3>1
  <2> QED BY <2>4, <2>5
<1> QED BY <1>7, <1>9, <1>11, <1>12, <1>13, <1>14

LEMMA OrderNext == OrderInv /\ [Next]_vars => OrderInv'
<1> SUFFICES ASSUME OrderInv, [Next]_vars PROVE OrderInv'
  OBVIOUS
<1>1. ASSUME UNCHANGED <<messages, next_seq, writing, log, cleared, earlier>>
      PROVE  OrderInv'
  BY <1>1 DEF OrderInv, QueueType, Numbered, Queued, RealTimeOrder, LoneWriterAhead,
              OneWriterSorted, Sorted, Ascending
<1>2. ASSUME NEW w \in Writer, NEW topic \in Topic, TakeNumber(w, topic) PROVE OrderInv'
  BY <1>2, TakeNumberOrder
<1>3. ASSUME NEW w \in Writer, Insert(w) PROVE OrderInv'
  BY <1>3, InsertOrder
<1>4. ASSUME NEW r \in Reader, CatchUp(r) PROVE OrderInv'
  BY <1>1, <1>4 DEF CatchUp
<1>5. CASE Clear
  <2>1. /\ messages' = <<>> /\ cleared' = Len(log)
        /\ UNCHANGED <<next_seq, writing, log, earlier>>
    BY <1>5 DEF Clear
  <2>2. QueueType'
    BY <2>1, RingAssumption DEF OrderInv, QueueType
  <2>3. Numbered' /\ LoneWriterAhead'
    BY <2>1 DEF OrderInv, Numbered, LoneWriterAhead
  <2>4. Queued'
    BY <2>1, NoNumbers DEF OrderInv, Queued
  <2>5. RealTimeOrder' /\ OneWriterSorted'
    BY <2>1 DEF RealTimeOrder, OneWriterSorted, Sorted, Ascending
  <2> QED BY <2>2, <2>3, <2>4, <2>5 DEF OrderInv
<1>6. CASE UNCHANGED vars
  BY <1>1, <1>6 DEF vars
<1> QED BY <1>2, <1>3, <1>4, <1>5, <1>6 DEF Next

(* Pushes that do not overlap are queued, and numbered, in the order they  *)
(* were made, for any number of writers.                                   *)
THEOREM PushOrder == Spec => []RealTimeOrder
<1>1. OrderInv => RealTimeOrder
  BY DEF OrderInv
<1> QED BY <1>1, OrderInit, OrderNext, PTL DEF Spec

(* With one writer the queue is sorted by number, which is what the search *)
(* takes for granted.                                                      *)
THEOREM LoneWriter == Spec => []OneWriterSorted
<1>1. OrderInv => OneWriterSorted
  BY DEF OrderInv
<1> QED BY <1>1, OrderInit, OrderNext, PTL DEF Spec

-----------------------------------------------------------------------------
(* The buffer is the newest end of the log.                                *)

LEMMA Larger ==
  ASSUME NEW a \in Int, NEW b \in Int
  PROVE  Max({a, b}) = IF a >= b THEN a ELSE b
<1>1. \E x \in {a, b} : \A y \in {a, b} : x >= y
  OBVIOUS
<1>2. Max({a, b}) \in {a, b} /\ \A y \in {a, b} : Max({a, b}) >= y
  BY <1>1 DEF Max
<1> QED BY <1>2

(* The end of a sequence that grows, as the queue and as the log see it.   *)
IsTail(q, from) ==
  /\ from \in 0..Len(log) /\ Len(q) = Len(log) - from
  /\ \A i \in 1..Len(q) : q[i] = log[from + i]

From == IF cleared >= Len(log) - Capacity THEN cleared ELSE Len(log) - Capacity

TailInv == QueueType /\ IsTail(messages, From)

LEMMA TailIsKept == TailInv => BufferIsTail
<1> SUFFICES ASSUME TailInv PROVE BufferIsTail
  OBVIOUS
<1> USE RingAssumption DEF TailInv, QueueType, IsTail
<1>1. Len(log) \in Nat /\ cleared \in Nat /\ Capacity \in Nat
  OBVIOUS
<1>2. Max({cleared, Len(log) - Capacity}) = From
  BY <1>1, Larger DEF From
<1>3. From \in Nat /\ From <= Len(log)
  OBVIOUS
<1> DEFINE s == SubSeq(log, From + 1, Len(log))
<1>4. /\ s \in Seq(Message) /\ Len(s) = Len(log) - From
      /\ \A i \in 1..(Len(log) - From) : s[i] = log[From + i]
  BY <1>1, <1>3
<1>5. messages = s
  <2> HIDE DEF s
  <2>1. /\ messages \in Seq(Message) /\ s \in Seq(Message) /\ Len(messages) = Len(s)
        /\ \A i \in 1..Len(messages) : messages[i] = s[i]
    BY <1>4
  <2>2. /\ messages = [i \in 1..Len(messages) |-> messages[i]]
        /\ s = [i \in 1..Len(s) |-> s[i]]
    BY <2>1
  <2> QED BY <2>1, <2>2
<1> QED BY <1>2, <1>5 DEF BufferIsTail

LEMMA TailInit == Init => TailInv
<1> SUFFICES ASSUME Init PROVE TailInv
  OBVIOUS
<1>1. QueueType
  BY OrderInit DEF OrderInv
<1>2. messages = <<>> /\ log = <<>> /\ cleared = 0 /\ From = 0
  BY RingAssumption DEF Init, From
<1> QED BY <1>1, <1>2 DEF TailInv, IsTail

LEMMA TailNext == OrderInv /\ TailInv /\ [Next]_vars => TailInv'
<1> SUFFICES ASSUME OrderInv, TailInv, [Next]_vars PROVE TailInv'
  OBVIOUS
<1>1. QueueType'
  BY OrderNext DEF OrderInv
<1>2. ASSUME UNCHANGED <<messages, log, cleared>> PROVE TailInv'
  BY <1>1, <1>2 DEF TailInv, IsTail, From
<1>3. ASSUME NEW w \in Writer, NEW topic \in Topic, TakeNumber(w, topic) PROVE TailInv'
  BY <1>2, <1>3 DEF TakeNumber
<1>4. ASSUME NEW w \in Writer, Insert(w) PROVE TailInv'
  <2> USE DEF TailInv, QueueType, IsTail
  <2>1. PICK m \in Message : /\ messages' = Inserted(messages, m)
                             /\ log' = Append(log, m) /\ cleared' = cleared
    BY <1>4 DEF Insert
  <2>2. PICK gone \in {0, 1} :
        /\ gone = 1 <=> Len(messages) = Capacity
        /\ Inserted(messages, m) \in Seq(Message)
        /\ Len(Inserted(messages, m)) = Len(messages) + 1 - gone
        /\ Len(messages) - gone \in Nat
        /\ \A i \in 1..(Len(messages) - gone) :
             i + gone \in 1..Len(messages) /\ Inserted(messages, m)[i] = messages[i + gone]
        /\ Inserted(messages, m)[Len(messages) + 1 - gone] = m
    BY InsertedShape
  <2>3. /\ Len(log') = Len(log) + 1 /\ log'[Len(log) + 1] = m
        /\ \A i \in 1..Len(log) : log'[i] = log[i]
    BY <2>1
  <2>4. From' = From + gone
    <3>1. /\ Len(messages) = Len(log) - From /\ Len(messages) <= Capacity
          /\ cleared \in Nat /\ Len(log) \in Nat /\ Capacity \in Nat
      BY RingAssumption
    <3>2. From' = IF cleared >= Len(log) + 1 - Capacity THEN cleared ELSE Len(log) + 1 - Capacity
      <4>1. cleared' = cleared /\ Len(log') = Len(log) + 1
        BY <2>1, <2>3
      <4> QED BY ONLY <3>1, <4>1 DEF From
    <3>3. (gone = 0 \/ gone = 1) /\ (gone = 1 <=> Len(messages) = Capacity)
      BY <2>2
    <3>4. Len(messages) \in Nat
      OBVIOUS
    <3> QED BY ONLY <3>1, <3>2, <3>3, <3>4 DEF From
  <2>5. Len(messages') = Len(log') - From' /\ From' \in 0..Len(log')
    BY <2>1, <2>2, <2>3, <2>4
  <2>6. ASSUME NEW i \in 1..Len(messages') PROVE messages'[i] = log'[From' + i]
    <3>1. CASE i = Len(messages')
      BY <2>1, <2>2, <2>3, <2>4, <3>1
    <3>2. CASE i # Len(messages')
      <4>1. i + gone \in 1..Len(messages) /\ messages'[i] = messages[i + gone]
        <5>1. Len(messages') = Len(messages) + 1 - gone /\ messages' = Inserted(messages, m)
          BY <2>1, <2>2
        <5>2. i \in 1..(Len(messages) - gone)
          <6>1. Len(messages) \in Nat /\ (gone = 0 \/ gone = 1)
            OBVIOUS
          <6>2. i \in 1..(Len(messages) + 1 - gone) /\ i # Len(messages) + 1 - gone
            BY <3>2, <5>1
          <6> QED BY ONLY <6>1, <6>2
        <5> QED BY <2>2, <5>1, <5>2
      <4>2. messages[i + gone] = log[From + (i + gone)]
        BY <4>1
      <4>3. From + (i + gone) \in 1..Len(log)
        BY <4>1
      <4>4. From' + i = From + (i + gone)
        BY <2>4
      <4>5. log'[From + (i + gone)] = log[From + (i + gone)]
        BY <2>3, <4>3
      <4> QED BY <4>1, <4>2, <4>4, <4>5
    <3> QED BY <3>1, <3>2
  <2> QED BY <1>1, <2>5, <2>6
<1>5. ASSUME NEW r \in Reader, CatchUp(r) PROVE TailInv'
  BY <1>2, <1>5 DEF CatchUp
<1>6. CASE Clear
  <2>1. messages' = <<>> /\ log' = log /\ cleared' = Len(log) /\ Len(log) \in Nat
    BY <1>6 DEF Clear, TailInv, QueueType
  <2>2. From' = Len(log)
    BY <2>1, RingAssumption DEF From
  <2> QED BY <1>1, <2>1, <2>2 DEF TailInv, IsTail
<1>7. CASE UNCHANGED vars
  BY <1>2, <1>7 DEF vars
<1> QED BY <1>3, <1>4, <1>5, <1>6, <1>7 DEF Next

(* Nothing but the oldest is dropped, and no sooner than it has to be.     *)
THEOREM NewestKept == Spec => []BufferIsTail
<1>1. Init => OrderInv /\ TailInv
  BY OrderInit, TailInit
<1>2. OrderInv /\ TailInv /\ [Next]_vars => OrderInv' /\ TailInv'
  BY OrderNext, TailNext
<1>3. OrderInv /\ TailInv => BufferIsTail
  BY TailIsKept DEF OrderInv
<1> QED BY <1>1, <1>2, <1>3, PTL DEF Spec

-----------------------------------------------------------------------------
(* Induction on the natural numbers, without a predicate as a parameter.   *)

LEMMA Least ==
  ASSUME NEW T \in SUBSET Nat, T # {}
  PROVE  \E m \in T : \A k \in T : m <= k
<1> DEFINE R == {ss \in Nat \X Nat : ss[1] < ss[2]}
<1>1. OpToRel(<, Nat) = R
  BY Zenon DEF OpToRel
<1>2. IsWellFoundedOn(R, Nat)
  BY <1>1, NatLessThanWellFounded
<1>3. \E m \in T : \A k \in T : ~ (<<k, m>> \in R)
  <2> HIDE DEF R
  <2> QED BY <1>2, WFMin, Zenon
<1>4. PICK m \in T : \A k \in T : ~ (<<k, m>> \in R)
  BY <1>3
<1>5. ASSUME NEW k \in T PROVE m <= k
  <2>1. <<k, m>> \notin R
    BY <1>4
  <2>2. <<k, m>> \in Nat \X Nat /\ <<k, m>>[1] = k /\ <<k, m>>[2] = m
    OBVIOUS
  <2>3. ~(k < m)
    BY <2>1, <2>2
  <2> QED BY <2>3
<1> QED BY <1>5

LEMMA Induction ==
  ASSUME NEW T \in SUBSET Nat, 0 \in T, \A n \in T : n + 1 \in T
  PROVE  T = Nat
<1> SUFFICES ASSUME Nat \ T # {} PROVE FALSE
  OBVIOUS
<1>1. PICK m \in Nat \ T : \A k \in Nat \ T : m <= k
  BY Least
<1>2. m - 1 \in Nat /\ m - 1 \in T
  BY <1>1
<1> QED BY <1>1, <1>2

-----------------------------------------------------------------------------
(* The binary search.                                                      *)

(* f is the search function of Skip.                                       *)
Searches(q, target, f) ==
  f = [span \in (0..Len(q)) \X (0..Len(q)) |->
         LET left == span[1]
             right == span[2]
             mid == left + (right - left) \div 2
         IN  IF left >= right THEN left
             ELSE IF q[mid + 1].seq <= target THEN f[<<mid + 1, right>>]
             ELSE f[<<left, mid>>]]

(* Where a queue in order is cut by the target.                            *)
CutAt(q, target, cut) ==
  /\ cut \in 0..Len(q)
  /\ \A i \in 1..Len(q) : q[i].seq <= target <=> i <= cut

LEMMA CutExists ==
  ASSUME NEW q \in Seq(Message), Ascending(q), NEW target \in Nat
  PROVE  \E cut : CutAt(q, target, cut)
<1> DEFINE T == {k \in 0..Len(q) : \A i \in 1..Len(q) : i > k => q[i].seq > target}
<1>1. Len(q) \in Nat /\ \A i \in 1..Len(q) : q[i].seq \in Nat
  BY NumbersElement
<1>2. T \in SUBSET Nat /\ Len(q) \in T
  BY <1>1
<1>3. PICK cut \in T : \A k \in T : cut <= k
  <2> HIDE DEF T
  <2> QED BY <1>2, Least
<1>4. cut \in 0..Len(q) /\ \A i \in 1..Len(q) : i > cut => q[i].seq > target
  OBVIOUS
<1>5. ASSUME NEW i \in 1..Len(q), i <= cut PROVE q[i].seq <= target
  <2>1. cut - 1 \in 0..Len(q) /\ ~(cut <= cut - 1) /\ cut \in 1..Len(q)
    BY <1>1, <1>4, <1>5
  <2>2. cut - 1 \notin T
    <3> HIDE DEF T
    <3> QED BY <1>3, <2>1
  <2>3. PICK j \in 1..Len(q) : j > cut - 1 /\ ~(q[j].seq > target)
    BY <2>1, <2>2
  <2>4. j = cut
    BY <1>1, <1>4, <2>1, <2>3
  <2>5. q[i].seq \in Nat /\ q[cut].seq \in Nat /\ q[cut].seq <= target
    BY <1>1, <2>1, <2>3, <2>4
  <2>6. i = cut \/ q[i].seq < q[cut].seq
    BY <1>5, <2>1 DEF Ascending
  <2> QED BY <2>5, <2>6
<1>6. CutAt(q, target, cut)
  BY <1>1, <1>4, <1>5 DEF CutAt
<1> QED BY <1>6

(* What the search finds of it in a span: the cut, or the end nearest it.  *)
Nearest(cut, left, right) ==
  IF left >= right \/ cut < left THEN left ELSE IF cut > right THEN right ELSE cut

Middle(left, right, mid) == mid = left + (right - left) \div 2

LEMMA Halves ==
  ASSUME NEW left \in Nat, NEW right \in Nat, left < right, NEW cut \in Nat,
         NEW mid, Middle(left, right, mid)
  PROVE  /\ mid \in Nat /\ left <= mid /\ mid < right
         /\ mid + 1 <= cut => Nearest(cut, left, right) = Nearest(cut, mid + 1, right)
         /\ ~(mid + 1 <= cut) => Nearest(cut, left, right) = Nearest(cut, left, mid)
<1>1. mid \in Nat /\ left <= mid /\ mid < right
  BY DEF Middle
<1> QED BY <1>1 DEF Nearest

LEMMA SearchExists ==
  ASSUME NEW q \in Seq(Message), NEW target \in Nat, NEW cut, CutAt(q, target, cut)
  PROVE  \E f : Searches(q, target, f)
<1> DEFINE Spans == (0..Len(q)) \X (0..Len(q))
           f == [span \in Spans |-> Nearest(cut, span[1], span[2])]
           found(g, span) == LET left == span[1]
                                 right == span[2]
                                 mid == left + (right - left) \div 2
                             IN  IF left >= right THEN left
                                 ELSE IF q[mid + 1].seq <= target THEN g[<<mid + 1, right>>]
                                 ELSE g[<<left, mid>>]
<1>1. Len(q) \in Nat /\ cut \in Nat /\ cut <= Len(q)
  BY DEF CutAt
<1>2. ASSUME NEW l \in 0..Len(q), NEW r \in 0..Len(q)
      PROVE  f[<<l, r>>] = Nearest(cut, l, r)
  <2>1. PICK span : span = <<l, r>>
    OBVIOUS
  <2>2. span \in Spans /\ span[1] = l /\ span[2] = r
    BY <2>1
  <2> QED BY <2>1, <2>2
<1>3. ASSUME NEW span \in Spans PROVE f[span] = found(f, span)
  <2>1. PICK l \in 0..Len(q), r \in 0..Len(q) : l = span[1] /\ r = span[2]
    OBVIOUS
  <2>2. f[span] = Nearest(cut, l, r)
    BY <2>1
  <2> HIDE DEF f
  <2>3. CASE l >= r
    BY <2>1, <2>2, <2>3 DEF Nearest
  <2>4. CASE ~(l >= r)
    <3>1. PICK mid : mid = l + (r - l) \div 2
      OBVIOUS
    <3>2. l \in Nat /\ r \in Nat /\ l < r
      BY <1>1, <2>4
    <3>3. /\ mid \in Nat /\ l <= mid /\ mid < r
          /\ mid + 1 <= cut => Nearest(cut, l, r) = Nearest(cut, mid + 1, r)
          /\ ~(mid + 1 <= cut) => Nearest(cut, l, r) = Nearest(cut, l, mid)
      <4>1. Middle(l, r, mid)
        BY <3>1 DEF Middle
      <4> QED BY ONLY <1>1, <3>2, <4>1, Halves
    <3>4. mid + 1 \in 0..Len(q) /\ mid + 1 \in 1..Len(q) /\ mid \in 0..Len(q)
      BY <1>1, <3>2, <3>3
    <3>5. q[mid + 1].seq <= target <=> mid + 1 <= cut
      BY <3>4 DEF CutAt
    <3>6. f[<<mid + 1, r>>] = Nearest(cut, mid + 1, r) /\ f[<<l, mid>>] = Nearest(cut, l, mid)
      BY <1>2, <3>4
    <3>7. found(f, span) = IF l >= r THEN l
                           ELSE IF q[mid + 1].seq <= target THEN f[<<mid + 1, r>>]
                           ELSE f[<<l, mid>>]
      BY <2>1, <3>1
    <3> HIDE DEF found
    <3> QED BY <2>2, <2>4, <3>3, <3>5, <3>6, <3>7
  <2> QED BY <2>3, <2>4
<1>4. f = [span \in Spans |-> found(f, span)]
  <2> HIDE DEF found
  <2>1. f = [span \in Spans |-> f[span]]
    OBVIOUS
  <2> HIDE DEF f
  <2> QED BY <1>3, <2>1
<1>5. Searches(q, target, f)
  <2> HIDE DEF f
  <2> QED BY <1>4 DEF Searches
<1> QED BY <1>5

LEMMA SearchFinds ==
  ASSUME NEW q \in Seq(Message), NEW target \in Nat, NEW cut, CutAt(q, target, cut),
         NEW f, Searches(q, target, f)
  PROVE  f[<<0, Len(q)>>] = cut
<1> DEFINE T == {d \in Nat : \A l, r \in 0..Len(q) : r - l <= d => f[<<l, r>>] = Nearest(cut, l, r)}
<1>1. Len(q) \in Nat /\ cut \in Nat /\ cut <= Len(q)
  BY DEF CutAt
<1>2. ASSUME NEW l \in 0..Len(q), NEW r \in 0..Len(q), NEW mid, mid = l + (r - l) \div 2
      PROVE  f[<<l, r>>] = IF l >= r THEN l
                           ELSE IF q[mid + 1].seq <= target THEN f[<<mid + 1, r>>]
                           ELSE f[<<l, mid>>]
  <2>1. PICK span : span = <<l, r>>
    OBVIOUS
  <2>2. span \in (0..Len(q)) \X (0..Len(q)) /\ span[1] = l /\ span[2] = r
    BY <2>1
  <2> QED BY <1>2, <2>1, <2>2 DEF Searches
<1>3. 0 \in T
  <2>1. ASSUME NEW l \in 0..Len(q), NEW r \in 0..Len(q), r - l <= 0
        PROVE  f[<<l, r>>] = Nearest(cut, l, r)
    <3>1. l >= r
      BY <2>1
    <3>2. PICK mid : mid = l + (r - l) \div 2
      OBVIOUS
    <3> QED BY <1>2, <3>1, <3>2 DEF Nearest
  <2> QED BY <2>1
<1>4. ASSUME NEW d \in T PROVE d + 1 \in T
  <2>1. ASSUME NEW l \in 0..Len(q), NEW r \in 0..Len(q), r - l <= d + 1
        PROVE  f[<<l, r>>] = Nearest(cut, l, r)
    <3>1. PICK mid : mid = l + (r - l) \div 2
      OBVIOUS
    <3>2. CASE l >= r
      BY <1>2, <3>1, <3>2 DEF Nearest
    <3>3. CASE ~(l >= r)
      <4>2. l \in Nat /\ r \in Nat /\ l < r
        BY <1>1, <3>3
      <4>3. /\ mid \in Nat /\ l <= mid /\ mid < r
            /\ mid + 1 <= cut => Nearest(cut, l, r) = Nearest(cut, mid + 1, r)
            /\ ~(mid + 1 <= cut) => Nearest(cut, l, r) = Nearest(cut, l, mid)
        <5>1. Middle(l, r, mid)
          BY <3>1 DEF Middle
        <5> QED BY ONLY <1>1, <4>2, <5>1, Halves
      <4>4. mid + 1 \in 0..Len(q) /\ mid + 1 \in 1..Len(q) /\ mid \in 0..Len(q)
        BY <1>1, <4>2, <4>3
      <4>5. q[mid + 1].seq <= target <=> mid + 1 <= cut
        BY <4>4 DEF CutAt
      <4>6. r - (mid + 1) <= d /\ mid - l <= d
        BY <2>1, <4>2, <4>3
      <4>7. f[<<mid + 1, r>>] = Nearest(cut, mid + 1, r) /\ f[<<l, mid>>] = Nearest(cut, l, mid)
        BY <4>4, <4>6
      <4>8. f[<<l, r>>] = IF q[mid + 1].seq <= target THEN f[<<mid + 1, r>>] ELSE f[<<l, mid>>]
        BY <1>2, <3>1, <3>3
      <4> QED BY <4>3, <4>5, <4>7, <4>8
    <3> QED BY <3>2, <3>3
  <2> QED BY <2>1
<1>5. T = Nat
  <2>1. T \in SUBSET Nat
    OBVIOUS
  <2> HIDE DEF T
  <2> QED BY <1>3, <1>4, <2>1, Induction
<1>6. Len(q) \in T
  <2> HIDE DEF T
  <2> QED BY <1>1, <1>5
<1>7. f[<<0, Len(q)>>] = Nearest(cut, 0, Len(q))
  BY <1>1, <1>6
<1> QED BY <1>1, <1>7 DEF Nearest

LEMMA SkipCuts ==
  ASSUME NEW q \in Seq(Message), Ascending(q), NEW target \in Nat
  PROVE  CutAt(q, target, Skip(q, target))
<1>1. PICK cut : CutAt(q, target, cut)
  BY CutExists
<1>2. Len(q) \in Nat /\ cut \in 0..Len(q) /\ \A i \in 1..Len(q) : q[i].seq \in Nat
  BY <1>1, NumbersElement DEF CutAt
<1>3. CASE q = <<>> \/ q[1].seq > target
  <2>1. Skip(q, target) = 0
    BY <1>3 DEF Skip
  <2>2. cut = 0
    <3>1. q # <<>> => 1 \in 1..Len(q) /\ ~(q[1].seq <= target)
      BY <1>2, <1>3
    <3>2. q = <<>> => Len(q) = 0
      OBVIOUS
    <3> QED BY <1>1, <1>2, <3>1, <3>2 DEF CutAt
  <2> QED BY <1>1, <2>1, <2>2
<1>4. CASE ~(q = <<>> \/ q[1].seq > target) /\ q[Len(q)].seq <= target
  <2>1. Skip(q, target) = Len(q)
    BY <1>4 DEF Skip
  <2>2. cut = Len(q)
    <3>1. Len(q) \in 1..Len(q)
      BY <1>2, <1>4
    <3>2. Len(q) <= cut
      BY <1>1, <1>4, <3>1 DEF CutAt
    <3> QED BY <1>2, <3>2
  <2> QED BY <1>1, <2>1, <2>2
<1>5. CASE ~(q = <<>> \/ q[1].seq > target) /\ ~(q[Len(q)].seq <= target)
  <2>1. \E f : Searches(q, target, f)
    BY <1>1, SearchExists
  <2>2. \E f : Searches(q, target, f) /\ Skip(q, target) = f[<<0, Len(q)>>]
    BY <1>5, <2>1 DEF Skip, Searches
  <2>3. Skip(q, target) = cut
    BY <1>1, <2>2, SearchFinds
  <2> QED BY <1>1, <2>3
<1> QED BY <1>3, <1>4, <1>5

-----------------------------------------------------------------------------
(* What is fetched of a queue in order.                                    *)

LEMMA InRange ==
  ASSUME NEW q \in Seq(Message)
  PROVE  /\ \A m : m \in Range(q) <=> \E i \in 1..Len(q) : m = q[i]
         /\ Len(q) \in Nat
         /\ \A i \in 1..Len(q) : q[i] \in Message /\ q[i].seq \in Nat
<1>1. DOMAIN q = 1..Len(q) /\ Len(q) \in Nat /\ \A i \in 1..Len(q) : q[i] \in Message
  OBVIOUS
<1>2. \A i \in 1..Len(q) : q[i].seq \in Nat
  BY NumbersElement
<1> QED BY <1>1, <1>2 DEF Range

LEMMA AfterExact ==
  ASSUME NEW q \in Seq(Message), Ascending(q), NEW target \in Nat
  PROVE  /\ After(q, target) \in Seq(Message)
         /\ Range(After(q, target)) = {m \in Range(q) : m.seq > target}
         /\ Ascending(After(q, target))
<1>1. PICK cut : cut = Skip(q, target)
  OBVIOUS
<1>2. CutAt(q, target, cut)
  BY <1>1, SkipCuts
<1>3. PICK got : got = SubSeq(q, cut + 1, Len(q))
  OBVIOUS
<1>4. After(q, target) = got
  BY <1>1, <1>3 DEF After
<1>5. /\ Len(q) \in Nat /\ cut \in 0..Len(q)
      /\ \A i \in 1..Len(q) : q[i] \in Message /\ q[i].seq \in Nat
      /\ \A i \in 1..Len(q) : q[i].seq <= target <=> i <= cut
  BY <1>2, InRange DEF CutAt
<1>6. /\ got \in Seq(Message) /\ Len(got) = Len(q) - cut
      /\ \A i \in 1..(Len(q) - cut) : got[i] = q[cut + i]
  BY <1>3, <1>5
<1>7. ASSUME NEW m
      PROVE  m \in Range(got) <=> m \in Range(q) /\ m.seq > target
  <2>1. ASSUME m \in Range(got) PROVE m \in Range(q) /\ m.seq > target
    <3>1. PICK i \in 1..Len(got) : m = got[i]
      BY <1>6, <2>1, InRange
    <3>2. cut + i \in 1..Len(q) /\ m = q[cut + i] /\ ~(cut + i <= cut)
      BY <1>5, <1>6, <3>1
    <3> QED BY <1>5, <3>2, InRange
  <2>2. ASSUME m \in Range(q), m.seq > target PROVE m \in Range(got)
    <3>1. PICK i \in 1..Len(q) : m = q[i]
      BY <2>2, InRange
    <3>2. i > cut
      BY <1>5, <2>2, <3>1
    <3>3. i - cut \in 1..Len(got) /\ cut + (i - cut) = i
      BY <1>5, <1>6, <3>2
    <3>4. m = got[i - cut]
      BY <1>6, <3>1, <3>3
    <3> QED BY <1>6, <3>3, <3>4, InRange
  <2> QED BY <2>1, <2>2
<1>8. Range(got) = {m \in Range(q) : m.seq > target}
  BY <1>7
<1>9. Ascending(got)
  <2>1. SUFFICES ASSUME NEW i \in 1..Len(got), NEW j \in 1..Len(got), i < j
                 PROVE  got[i].seq < got[j].seq
    BY DEF Ascending
  <2>2. /\ cut + i \in 1..Len(q) /\ cut + j \in 1..Len(q) /\ cut + i < cut + j
        /\ got[i] = q[cut + i] /\ got[j] = q[cut + j]
    BY <1>5, <1>6, <2>1
  <2> QED BY <2>2 DEF Ascending
<1> QED BY <1>4, <1>6, <1>8, <1>9

(* f[i] is what is kept of the first i messages of q.                      *)
KeepsUpTo(q, topics, f, n) == f = [i \in 0..n |->
  IF i = 0 THEN <<>>
  ELSE IF q[i].topic \in topics THEN Append(f[i - 1], q[i]) ELSE f[i - 1]]

LEMMA KeepsExists ==
  ASSUME NEW q \in Seq(Message), NEW topics, NEW n \in Nat
  PROVE  \E f : KeepsUpTo(q, topics, f, n)
<1> DEFINE T == {k \in Nat : \E f : KeepsUpTo(q, topics, f, k)}
<1>1. 0 \in T
  <2> DEFINE f == [i \in 0..0 |-> <<>>]
  <2>1. KeepsUpTo(q, topics, f, 0)
    BY DEF KeepsUpTo
  <2> QED BY <2>1
<1>2. ASSUME NEW k \in T PROVE k + 1 \in T
  <2>1. PICK f : KeepsUpTo(q, topics, f, k)
    OBVIOUS
  <2> DEFINE g == [i \in 0..(k + 1) |->
                IF i = k + 1
                THEN (IF q[i].topic \in topics THEN Append(f[i - 1], q[i]) ELSE f[i - 1])
                ELSE f[i]]
             onward(h) == [i \in 0..(k + 1) |->
                IF i = 0 THEN <<>>
                ELSE IF q[i].topic \in topics THEN Append(h[i - 1], q[i]) ELSE h[i - 1]]
  <2>2. ASSUME NEW i \in 0..(k + 1) PROVE g[i] = onward(g)[i]
    <3>1. \A j \in 0..k : g[j] = f[j]
      OBVIOUS
    <3>2. \A j \in 0..k : f[j] = IF j = 0 THEN <<>>
             ELSE IF q[j].topic \in topics THEN Append(f[j - 1], q[j]) ELSE f[j - 1]
      BY <2>1 DEF KeepsUpTo
    <3>3. CASE i = k + 1
      BY <3>1, <3>3
    <3>4. CASE i # k + 1
      BY <3>1, <3>2, <3>4
    <3> QED BY <3>3, <3>4
  <2>3. g = onward(g)
    BY <2>2
  <2>4. KeepsUpTo(q, topics, g, k + 1)
    BY <2>3 DEF KeepsUpTo
  <2> QED BY <2>4
<1>3. T = Nat
  <2> HIDE DEF T
  <2>1. T \in SUBSET Nat
    BY DEF T
  <2> QED BY <1>1, <1>2, <2>1, Induction
<1> QED BY <1>3

LEMMA UnderExact ==
  ASSUME NEW q \in Seq(Message), Ascending(q), NEW topics
  PROVE  /\ Under(q, topics) \in Seq(Message)
         /\ Range(Under(q, topics)) = {m \in Range(q) : m.topic \in topics}
         /\ Ascending(Under(q, topics))
<1>0. Len(q) \in Nat /\ \A i \in 1..Len(q) : q[i] \in Message /\ q[i].seq \in Nat
  BY InRange
<1>1. PICK f : KeepsUpTo(q, topics, f, Len(q)) /\ Under(q, topics) = f[Len(q)]
  <2>1. \E f : KeepsUpTo(q, topics, f, Len(q))
    BY <1>0, KeepsExists
  <2> QED BY <2>1 DEF Under, KeepsUpTo
<1> DEFINE Kept(k) == /\ f[k] \in Seq(Message)
                      /\ \A m : m \in Range(f[k]) <=> \E i \in 1..k : m = q[i] /\ m.topic \in topics
                      /\ Ascending(f[k])
           T == {k \in Nat : k <= Len(q) => Kept(k)}
<1>2. \A i \in 0..Len(q) : f[i] = IF i = 0 THEN <<>>
         ELSE IF q[i].topic \in topics THEN Append(f[i - 1], q[i]) ELSE f[i - 1]
  BY <1>1 DEF KeepsUpTo
<1>3. 0 \in T
  <2>1. f[0] = <<>>
    BY <1>0, <1>2
  <2>2. \A r : r = <<>> => Range(r) = {}
    BY DEF Range
  <2>3. <<>> \in Seq(Message) /\ 1..0 = {} /\ Ascending(<<>>)
    BY DEF Ascending
  <2>4. \A m : m \in Range(f[0]) <=> \E i \in 1..0 : m = q[i] /\ m.topic \in topics
    BY <2>1, <2>2, <2>3
  <2> QED BY <2>1, <2>3, <2>4
<1>4. ASSUME NEW k \in T PROVE k + 1 \in T
  <2> SUFFICES ASSUME k + 1 <= Len(q) PROVE Kept(k + 1)
    OBVIOUS
  <2>1. Kept(k)
    BY <1>0
  <2>2. k + 1 # 0 /\ (k + 1) - 1 = k /\ k + 1 \in 1..Len(q) /\ q[k + 1] \in Message
        /\ 1..(k + 1) = 1..k \cup {k + 1}
    BY <1>0
  <2>3. f[k + 1] = IF q[k + 1].topic \in topics THEN Append(f[k], q[k + 1]) ELSE f[k]
    BY <1>2, <2>2
  <2>4. CASE q[k + 1].topic \in topics
    <3>1. PICK old \in Seq(Message) : old = f[k]
      BY <2>1
    <3>2. PICK new : new = Append(old, q[k + 1])
      OBVIOUS
    <3>3. /\ new \in Seq(Message) /\ Len(old) \in Nat /\ Len(new) = Len(old) + 1
          /\ \A i \in 1..Len(old) : new[i] = old[i]
          /\ new[Len(old) + 1] = q[k + 1]
      BY <2>2, <3>2
    <3>4. f[k + 1] = new
      BY <2>3, <2>4, <3>1, <3>2
    <3>5. \A m : m \in Range(new) <=> m \in Range(old) \/ m = q[k + 1]
      <4>1. 1..Len(new) = 1..Len(old) \cup {Len(old) + 1}
        BY <3>3
      <4>2. \A m : m \in Range(new) <=> \E i \in 1..Len(new) : m = new[i]
        BY <3>3, InRange
      <4>3. \A m : m \in Range(old) <=> \E i \in 1..Len(old) : m = old[i]
        BY InRange
      <4>4. ASSUME NEW m, m \in Range(new) PROVE m \in Range(old) \/ m = q[k + 1]
        <5>1. PICK i \in 1..Len(new) : m = new[i]
          BY <4>2, <4>4
        <5>2. i \in 1..Len(old) \/ i = Len(old) + 1
          BY <3>3
        <5>3. i \in 1..Len(old) => m = old[i]
          BY <3>3, <5>1
        <5> QED BY <3>3, <4>3, <5>1, <5>2, <5>3
      <4>5. ASSUME NEW m, m \in Range(old) PROVE m \in Range(new)
        <5>1. PICK i \in 1..Len(old) : m = old[i]
          BY <4>3, <4>5
        <5>2. i \in 1..Len(new) /\ m = new[i]
          BY <3>3, <5>1
        <5> QED BY <4>2, <5>2
      <4>6. q[k + 1] \in Range(new)
        <5>1. Len(old) + 1 \in 1..Len(new)
          BY <3>3
        <5> QED BY <3>3, <4>2, <5>1
      <4> QED BY <4>4, <4>5, <4>6
    <3>6. \A m : m \in Range(old) => m.seq < q[k + 1].seq
      <4>1. \A i \in 1..k : i \in 1..Len(q) /\ i < k + 1
        BY <1>0, <2>2
      <4>2. \A i \in 1..k : q[i].seq < q[k + 1].seq
        BY <2>2, <4>1 DEF Ascending
      <4> QED BY <2>1, <3>1, <4>2
    <3>7. Ascending(new)
      <4>1. SUFFICES ASSUME NEW i \in 1..Len(new), NEW j \in 1..Len(new), i < j
                     PROVE  new[i].seq < new[j].seq
        BY DEF Ascending
      <4>2. i \in 1..Len(old) /\ new[i] = old[i] /\ old[i] \in Range(old)
        BY <3>3, <4>1, InRange
      <4>3. CASE j = Len(old) + 1
        BY <3>3, <3>6, <4>2, <4>3
      <4>4. CASE j # Len(old) + 1
        <5>1. j \in 1..Len(old) /\ new[j] = old[j]
          BY <3>3, <4>4
        <5> QED BY <2>1, <3>1, <4>1, <4>2, <5>1 DEF Ascending
      <4> QED BY <4>3, <4>4
    <3>8. \A m : m \in Range(new) <=> \E i \in 1..(k + 1) : m = q[i] /\ m.topic \in topics
      BY <2>1, <2>2, <2>4, <3>1, <3>5
    <3> QED BY <3>3, <3>4, <3>7, <3>8
  <2>5. CASE ~(q[k + 1].topic \in topics)
    <3>2. f[k + 1] = f[k]
      BY <2>3, <2>5
    <3> QED BY <2>1, <2>2, <2>5, <3>2
  <2> QED BY <2>4, <2>5
<1>5. T = Nat
  <2> HIDE DEF T
  <2>1. T \in SUBSET Nat
    BY DEF T
  <2> QED BY <1>3, <1>4, <2>1, Induction
<1>6. Kept(Len(q))
  <2>1. Len(q) \in T
    <3> HIDE DEF T
    <3> QED BY <1>0, <1>5
  <2> QED BY <1>0, <2>1
<1>7. \A m : m \in Range(q) <=> \E i \in 1..Len(q) : m = q[i]
  BY InRange
<1>8. Range(f[Len(q)]) = {m \in Range(q) : m.topic \in topics}
  BY <1>6, <1>7
<1> QED BY <1>1, <1>6, <1>8

LEMMA FetchExact ==
  ASSUME NEW q \in Seq(Message), Ascending(q), NEW target \in Nat, NEW topics
  PROVE  /\ AfterFor(q, target, topics) \in Seq(Message)
         /\ Range(AfterFor(q, target, topics))
              = {m \in Range(q) : m.seq > target /\ m.topic \in topics}
         /\ Ascending(AfterFor(q, target, topics))
<1>1. PICK got : got = After(q, target)
  OBVIOUS
<1>2. got \in Seq(Message) /\ Range(got) = {m \in Range(q) : m.seq > target} /\ Ascending(got)
  BY <1>1, AfterExact
<1>3. /\ Under(got, topics) \in Seq(Message)
      /\ Range(Under(got, topics)) = {m \in Range(got) : m.topic \in topics}
      /\ Ascending(Under(got, topics))
  BY <1>2, UnderExact
<1> QED BY <1>1, <1>2, <1>3 DEF AfterFor

(* The binary search finds what comes after any number, gaps or no gaps.   *)
THEOREM SearchExact == Spec => []GetAfterExact
<1>1. OrderInv => GetAfterExact
  <2> SUFFICES ASSUME OrderInv, Sorted, NEW target \in 0..next_seq
               PROVE  /\ Range(After(messages, target)) = {m \in Range(messages) : m.seq > target}
                      /\ Ascending(After(messages, target))
    BY DEF GetAfterExact
  <2>1. messages \in Seq(Message) /\ target \in Nat /\ Ascending(messages)
    BY DEF OrderInv, QueueType, Sorted
  <2> QED BY <2>1, AfterExact
<1> QED BY <1>1, OrderInit, OrderNext, PTL DEF Spec

-----------------------------------------------------------------------------
(* Readers, as long as pushes do not overlap.                              *)

LEMMA Joined ==
  ASSUME NEW S, NEW u \in Seq(S), NEW v \in Seq(S)
  PROVE  /\ u \o v \in Seq(S) /\ Len(u \o v) = Len(u) + Len(v)
         /\ Len(u) \in Nat /\ Len(v) \in Nat
         /\ \A i \in 1..Len(u) : (u \o v)[i] = u[i]
         /\ \A i \in 1..Len(v) : (u \o v)[Len(u) + i] = v[i]
<1>1. /\ u \o v \in Seq(S) /\ Len(u \o v) = Len(u) + Len(v)
      /\ Len(u) \in Nat /\ Len(v) \in Nat
  OBVIOUS
<1>2. ASSUME NEW i \in 1..Len(u) PROVE (u \o v)[i] = u[i]
  BY <1>1
<1>3. ASSUME NEW i \in 1..Len(v) PROVE (u \o v)[Len(u) + i] = v[i]
  BY <1>1
<1> QED BY <1>1, <1>2, <1>3

(* The message in hand is the newest of all.                               *)
Fresh == \A w \in Writer : \A m \in writing[w] : m.seq = next_seq - 1

(* A reader has gone no further than it has fetched.                       *)
Caught(r) ==
  /\ last_seen[r] \in {0} \cup Numbers(log)
  /\ received[r] \in Seq(Nat)
  /\ \A i \in 1..Len(received[r]) : received[r][i] <= last_seen[r]
  /\ \A i, j \in 1..Len(received[r]) : i < j => received[r][i] < received[r][j]
  /\ \A m \in Range(messages) :
       m.topic \in Wanted[r] /\ m.seq <= last_seen[r] => m.seq \in Range(received[r])

ReaderInv ==
  /\ DOMAIN last_seen = Reader /\ DOMAIN received = Reader
  /\ Serial => Sorted /\ Fresh /\ \A r \in Reader : Caught(r)

LEMMA ReaderInit == Init => ReaderInv
<1> SUFFICES ASSUME Init PROVE ReaderInv
  OBVIOUS
<1>1. \A q : q = <<>> => Range(q) = {}
  BY DEF Range
<1>2. Sorted /\ Fresh
  BY DEF Init, Sorted, Ascending, Fresh
<1>3. \A r \in Reader : Caught(r)
  BY <1>1 DEF Init, Caught
<1> QED BY <1>2, <1>3 DEF Init, ReaderInv

(* A queue that only loses messages leaves every reader caught up.         *)
LEMMA CaughtFrame ==
  ASSUME NEW r \in Reader, Caught(r), UNCHANGED readerVars,
         Numbers(log) \subseteq Numbers(log)', Range(messages') \subseteq Range(messages)
  PROVE  Caught(r)'
BY DEF Caught, readerVars

LEMMA TakeNumberReader ==
  ASSUME OrderInv, ReaderInv, NEW w \in Writer, NEW topic \in Topic, TakeNumber(w, topic)
  PROVE  ReaderInv'
<1>1. UNCHANGED <<messages, log, readerVars>>
  BY DEF TakeNumber
<1>2. DOMAIN last_seen' = Reader /\ DOMAIN received' = Reader
  BY <1>1 DEF ReaderInv, readerVars
<1>3. SUFFICES ASSUME Serial' PROVE Sorted' /\ Fresh' /\ \A r \in Reader : Caught(r)'
  BY <1>2 DEF ReaderInv
<1>4. /\ earlier \in Seq(SUBSET (1..MaxPush)) /\ Len(earlier) = next_seq - 1
      /\ next_seq \in Nat \ {0} /\ Numbers(log) \subseteq 1..MaxPush
  BY NumbersRange DEF OrderInv, QueueType
<1>5. /\ earlier' = Append(earlier, Numbers(log)) /\ next_seq' = next_seq + 1
      /\ DOMAIN earlier = 1..(next_seq - 1) /\ DOMAIN earlier' = 1..next_seq
      /\ \A n \in 1..(next_seq - 1) : earlier'[n] = earlier[n]
      /\ earlier'[next_seq] = Numbers(log)
  BY <1>4 DEF TakeNumber
<1>6. Serial /\ Numbers(log) = 1..(next_seq - 1)
  BY <1>3, <1>4, <1>5 DEF Serial
<1>7. Sorted /\ Fresh /\ \A r \in Reader : Caught(r)
  BY <1>6 DEF ReaderInv
<1>8. Sorted' /\ \A r \in Reader : Caught(r)'
  BY <1>1, <1>7, CaughtFrame DEF Sorted, Ascending
<1>9. \A v \in Writer : writing[v] = {}
  <2>1. ASSUME NEW v \in Writer, NEW m \in writing[v] PROVE FALSE
    <3>1. m.seq = next_seq - 1 /\ m.seq \notin Numbers(log) /\ m.seq \in 1..MaxPush
      BY <1>7 DEF Fresh, OrderInv, Numbered, QueueType, Message
    <3> QED BY <1>4, <1>6, <3>1
  <2> QED BY <2>1
<1>10. Fresh'
  <2>1. writing' = [writing EXCEPT ![w] = {[seq |-> next_seq, topic |-> topic]}]
    BY DEF TakeNumber
  <2>2. \A v \in Writer : writing'[v] = {} \/ writing'[v] = {[seq |-> next_seq, topic |-> topic]}
    BY <1>9, <2>1 DEF OrderInv, QueueType
  <2>3. \A v \in Writer : \A m \in writing'[v] : m.seq = next_seq
    BY <2>2
  <2> QED BY <1>4, <1>5, <2>3 DEF Fresh
<1> QED BY <1>8, <1>10

LEMMA InsertReader ==
  ASSUME OrderInv, ReaderInv, NEW w \in Writer, Insert(w)
  PROVE  ReaderInv'
<1>1. PICK m \in writing[w] :
        /\ messages' = Inserted(messages, m)
        /\ writing' = [writing EXCEPT ![w] = {}]
        /\ log' = Append(log, m)
        /\ UNCHANGED <<next_seq, readerVars, cleared, earlier>>
  BY DEF Insert
<1>2. DOMAIN last_seen' = Reader /\ DOMAIN received' = Reader
  BY <1>1 DEF ReaderInv, readerVars
<1>3. SUFFICES ASSUME Serial' PROVE Sorted' /\ Fresh' /\ \A r \in Reader : Caught(r)'
  BY <1>2 DEF ReaderInv
<1>4. Serial
  BY <1>1, <1>3 DEF Serial
<1>5. Sorted /\ Fresh /\ \A r \in Reader : Caught(r)
  BY <1>4 DEF ReaderInv
<1>6. /\ m \in Message /\ m.seq \in Nat /\ m.seq = next_seq - 1 /\ m.seq \notin Numbers(log)
      /\ messages \in Seq(Message) /\ log \in Seq(Message) /\ Len(messages) <= Capacity
      /\ next_seq \in Nat
  BY <1>5 DEF OrderInv, QueueType, Numbered, Fresh, Message
<1>7. \A k \in Numbers(log) : k \in Nat /\ k < m.seq
  <2>1. Numbers(log) \subseteq 1..MaxPush
    BY <1>6, NumbersRange
  <2> QED BY <1>6, <2>1 DEF OrderInv, Queued
<1>8. PICK gone \in {0, 1} :
        /\ gone = 1 <=> Len(messages) = Capacity
        /\ Inserted(messages, m) \in Seq(Message)
        /\ Len(Inserted(messages, m)) = Len(messages) + 1 - gone
        /\ Len(messages) - gone \in Nat
        /\ \A i \in 1..(Len(messages) - gone) :
             i + gone \in 1..Len(messages) /\ Inserted(messages, m)[i] = messages[i + gone]
        /\ Inserted(messages, m)[Len(messages) + 1 - gone] = m
  BY <1>6, InsertedShape
<1> DEFINE last == Len(messages) + 1 - gone
<1>9. /\ last \in Nat /\ Len(messages') = last
      /\ messages' \in Seq(Message) /\ messages'[last] = m
      /\ \A i \in 1..last : i # last => /\ i + gone \in 1..Len(messages)
                                        /\ messages'[i] = messages[i + gone]
  BY <1>1, <1>8
<1>10. ASSUME NEW x, x \in Range(messages')
       PROVE  x = m \/ x \in Range(messages)
  <2>1. PICK i \in 1..last : x = messages'[i]
    BY <1>9, <1>10, InRange
  <2> QED BY <1>6, <1>9, <2>1, InRange
<1>11. Numbers(log)' = Numbers(log) \cup {m.seq}
  BY <1>1, <1>6, NumbersAppend
<1>12. Sorted'
  <2>1. SUFFICES ASSUME NEW i \in 1..last, NEW j \in 1..last, i < j
                 PROVE  messages'[i].seq < messages'[j].seq
    BY <1>9 DEF Sorted, Ascending
  <2>2. i # last
    BY <1>9, <2>1
  <2>3. messages'[i].seq \in Numbers(log)
    BY <1>6, <1>9, <2>2, NumbersElement DEF OrderInv, Queued
  <2>4. CASE j = last
    BY <1>7, <1>9, <2>3, <2>4
  <2>5. CASE j # last
    <3>1. i + gone < j + gone
      BY <2>1
    <3> QED BY <1>5, <1>9, <2>2, <2>5, <3>1 DEF Sorted, Ascending
  <2> QED BY <2>4, <2>5
<1>13. Fresh'
  <2>1. \A v \in Writer : \A n \in writing'[v] : n \in writing[v]
    BY <1>1 DEF OrderInv, QueueType
  <2> QED BY <1>1, <1>5, <2>1 DEF Fresh
<1>14. ASSUME NEW r \in Reader PROVE Caught(r)'
  <2>1. last_seen' = last_seen /\ received' = received
    BY <1>1 DEF readerVars
  <2>2. last_seen[r] < m.seq
    <3>1. last_seen[r] = 0 \/ last_seen[r] \in Numbers(log)
      BY <1>5 DEF Caught
    <3>2. m.seq \in 1..MaxPush
      BY <1>6 DEF Message
    <3> QED BY <1>7, <3>1, <3>2
  <2>3. last_seen[r] \in Nat
    BY <1>5, <1>7 DEF Caught
  <2>4. ASSUME NEW x \in Range(messages'), x.topic \in Wanted[r], x.seq <= last_seen[r]
        PROVE  x.seq \in Range(received[r])
    <3>1. x # m
      BY <1>6, <2>2, <2>3, <2>4
    <3> QED BY <1>5, <1>10, <2>4, <3>1 DEF Caught
  <2> QED BY <1>5, <1>11, <2>1, <2>4 DEF Caught
<1> QED BY <1>12, <1>13, <1>14

LEMMA CatchUpReader ==
  ASSUME OrderInv, ReaderInv, NEW r \in Reader, CatchUp(r)
  PROVE  ReaderInv'
<1>1. PICK fetched : fetched = AfterFor(messages, last_seen[r], Wanted[r])
  OBVIOUS
<1>2. /\ fetched # <<>>
      /\ received' = [received EXCEPT ![r] = @ \o [i \in DOMAIN fetched |-> fetched[i].seq]]
      /\ last_seen' = [last_seen EXCEPT ![r] = Last(fetched).seq]
      /\ UNCHANGED <<messages, next_seq, writing, log, cleared, earlier>>
  BY <1>1 DEF CatchUp
<1>3. DOMAIN last_seen' = Reader /\ DOMAIN received' = Reader
  BY <1>2 DEF ReaderInv
<1>4. SUFFICES ASSUME Serial' PROVE Sorted' /\ Fresh' /\ \A s \in Reader : Caught(s)'
  BY <1>3 DEF ReaderInv
<1>5. Sorted /\ Fresh /\ \A s \in Reader : Caught(s)
  BY <1>2, <1>4 DEF ReaderInv, Serial
<1>6. Sorted' /\ Fresh'
  BY <1>2, <1>5 DEF Sorted, Ascending, Fresh
<1>7. ASSUME NEW s \in Reader, s # r PROVE Caught(s)'
  <2>1. last_seen'[s] = last_seen[s] /\ received'[s] = received[s]
    BY <1>2, <1>7 DEF ReaderInv
  <2> QED BY <1>2, <1>5, <2>1 DEF Caught
<1>8. Caught(r)'
  <2>1. PICK old : old = received[r]
    OBVIOUS
  <2>2. PICK from : from = last_seen[r]
    OBVIOUS
  <2>3. messages \in Seq(Message) /\ log \in Seq(Message) /\ Numbers(log) \subseteq 1..MaxPush
        /\ Ascending(messages)
    BY <1>5, NumbersRange DEF OrderInv, QueueType, Sorted
  <2>4. /\ from \in Nat /\ old \in Seq(Nat)
        /\ \A i \in 1..Len(old) : old[i] <= from
        /\ \A i, j \in 1..Len(old) : i < j => old[i] < old[j]
        /\ \A m \in Range(messages) :
             m.topic \in Wanted[r] /\ m.seq <= from => m.seq \in Range(old)
    BY <1>5, <2>1, <2>2, <2>3 DEF Caught
  <2>5. /\ fetched \in Seq(Message) /\ Ascending(fetched)
        /\ Range(fetched) = {m \in Range(messages) : m.seq > from /\ m.topic \in Wanted[r]}
    BY <1>1, <2>2, <2>3, <2>4, FetchExact
  <2>6. PICK seqs : seqs = [i \in DOMAIN fetched |-> fetched[i].seq]
    OBVIOUS
  <2>7. PICK new : new = old \o seqs
    OBVIOUS
  <2>8. PICK to : to = fetched[Len(fetched)].seq
    OBVIOUS
  <2>9. received'[r] = new /\ last_seen'[r] = to
    BY <1>2, <2>1, <2>6, <2>7, <2>8 DEF ReaderInv, Last
  <2>10. /\ Len(fetched) \in Nat \ {0} /\ DOMAIN fetched = 1..Len(fetched)
         /\ \A i \in 1..Len(fetched) : fetched[i] \in Message /\ fetched[i].seq \in Nat
    BY <1>2, <2>5, InRange
  <2>11. seqs \in Seq(Nat) /\ Len(seqs) = Len(fetched)
         /\ \A i \in 1..Len(fetched) : seqs[i] = fetched[i].seq
    BY <2>6, <2>10
  <2>12. /\ new \in Seq(Nat) /\ Len(new) = Len(old) + Len(fetched)
         /\ \A i \in 1..Len(old) : new[i] = old[i]
         /\ \A i \in 1..Len(fetched) : new[Len(old) + i] = fetched[i].seq
         /\ Len(old) \in Nat
    <3>1. Len(old) \in Nat /\ Len(seqs) \in Nat
      BY <2>4, <2>11
    <3>2. /\ new \in Seq(Nat) /\ Len(new) = Len(old) + Len(seqs)
          /\ \A i \in 1..Len(old) : new[i] = old[i]
          /\ \A i \in 1..Len(seqs) : new[Len(old) + i] = seqs[i]
      <4>1. old \in Seq(Nat) /\ seqs \in Seq(Nat)
        BY <2>4, <2>11
      <4>2. /\ old \o seqs \in Seq(Nat) /\ Len(old \o seqs) = Len(old) + Len(seqs)
            /\ \A i \in 1..Len(old) : (old \o seqs)[i] = old[i]
            /\ \A i \in 1..Len(seqs) : (old \o seqs)[Len(old) + i] = seqs[i]
        BY <4>1, Joined
      <4> QED BY <2>7, <4>2
    <3> QED BY <2>11, <3>1, <3>2
  <2>13. ASSUME NEW i \in 1..Len(fetched)
         PROVE  fetched[i] \in Range(messages) /\ from < fetched[i].seq /\ fetched[i].seq <= to
    <3>1. fetched[i] \in Range(fetched)
      BY <2>5, InRange
    <3>2. i = Len(fetched) \/ fetched[i].seq < fetched[Len(fetched)].seq
      <4>1. Len(fetched) \in 1..Len(fetched) /\ (i = Len(fetched) \/ i < Len(fetched))
        BY <2>10
      <4> QED BY <2>5, <4>1 DEF Ascending
    <3> QED BY <2>4, <2>5, <2>8, <2>10, <3>1, <3>2
  <2>14. to \in Nat /\ from < to /\ to \in Numbers(log)
    <3>1. Len(fetched) \in 1..Len(fetched)
      BY <2>10
    <3>2. to \in Numbers(messages)
      BY <2>8, <2>13, <3>1 DEF Numbers
    <3> QED BY <2>8, <2>10, <2>13, <3>1, <3>2 DEF OrderInv, Queued
  <2>15. ASSUME NEW i \in 1..Len(new)
         PROVE  \/ i \in 1..Len(old)
                \/ i - Len(old) \in 1..Len(fetched) /\ new[i] = fetched[i - Len(old)].seq
    <3>1. i > Len(old) => i - Len(old) \in 1..Len(fetched) /\ Len(old) + (i - Len(old)) = i
      BY <2>10, <2>12
    <3> QED BY <2>12, <3>1
  <2>16. ASSUME NEW i \in 1..Len(new) PROVE new[i] <= to
    <3>1. CASE i \in 1..Len(old)
      <4>1. new[i] = old[i] /\ old[i] <= from /\ old[i] \in Nat
        BY <2>4, <2>12, <3>1
      <4> QED BY <2>4, <2>14, <4>1
    <3>2. CASE i - Len(old) \in 1..Len(fetched) /\ new[i] = fetched[i - Len(old)].seq
      BY <2>13, <3>2
    <3> QED BY <2>15, <3>1, <3>2
  <2>17. ASSUME NEW i \in 1..Len(new), NEW j \in 1..Len(new), i < j PROVE new[i] < new[j]
    <3>1. CASE i \in 1..Len(old) /\ j \in 1..Len(old)
      BY <2>4, <2>12, <2>17, <3>1
    <3>2. CASE i \in 1..Len(old) /\ j \notin 1..Len(old)
      <4>1. new[i] = old[i] /\ old[i] <= from /\ old[i] \in Nat
        BY <2>4, <2>12, <3>2
      <4>2. PICK k \in 1..Len(fetched) : new[j] = fetched[k].seq
        BY <2>15, <3>2
      <4>3. from < fetched[k].seq /\ fetched[k].seq \in Nat
        BY <2>10, <2>13
      <4> QED BY <2>4, <4>1, <4>2, <4>3
    <3>3. CASE i \notin 1..Len(old)
      <4>1. j \notin 1..Len(old)
        BY <2>12, <2>17, <3>3
      <4>2. /\ i - Len(old) \in 1..Len(fetched) /\ new[i] = fetched[i - Len(old)].seq
            /\ j - Len(old) \in 1..Len(fetched) /\ new[j] = fetched[j - Len(old)].seq
        BY <2>15, <3>3, <4>1
      <4>3. i - Len(old) < j - Len(old)
        BY <2>12, <2>17
      <4> QED BY <2>5, <4>2, <4>3 DEF Ascending
    <3> QED BY <3>1, <3>2, <3>3
  <2>18. \A k : k \in Range(old) => k \in Range(new)
    <3>1. DOMAIN old = 1..Len(old) /\ DOMAIN new = 1..Len(new)
      BY <2>4, <2>12
    <3>2. \A i \in 1..Len(old) : i \in 1..Len(new) /\ new[i] = old[i]
      BY <2>10, <2>12
    <3> QED BY <3>1, <3>2 DEF Range
  <2>19. \A m \in Range(fetched) : m.seq \in Range(new)
    <3>1. DOMAIN new = 1..Len(new)
      BY <2>12
    <3>2. \A i \in 1..Len(fetched) : Len(old) + i \in 1..Len(new)
      BY <2>10, <2>12
    <3>3. ASSUME NEW m \in Range(fetched) PROVE m.seq \in Range(new)
      <4>1. PICK i \in 1..Len(fetched) : m = fetched[i]
        BY <2>5, InRange
      <4>2. Len(old) + i \in DOMAIN new /\ new[Len(old) + i] = m.seq
        BY <2>12, <3>1, <3>2, <4>1
      <4> QED BY <4>2 DEF Range
    <3> QED BY <3>3
  <2>20. ASSUME NEW m \in Range(messages), m.topic \in Wanted[r], m.seq <= to
         PROVE  m.seq \in Range(new)
    <3>1. m.seq \in Nat
      BY <2>3, InRange
    <3>2. CASE m.seq <= from
      BY <2>4, <2>18, <2>20, <3>2
    <3>3. CASE m.seq > from
      BY <2>5, <2>19, <2>20, <3>3
    <3> QED BY <2>4, <3>1, <3>2, <3>3
  <2> QED BY <1>2, <2>9, <2>12, <2>14, <2>16, <2>17, <2>20 DEF Caught
<1> QED BY <1>6, <1>7, <1>8

LEMMA ReaderNext == OrderInv /\ ReaderInv /\ [Next]_vars => ReaderInv'
<1> SUFFICES ASSUME OrderInv, ReaderInv, [Next]_vars PROVE ReaderInv'
  OBVIOUS
<1>1. ASSUME NEW w \in Writer, NEW topic \in Topic, TakeNumber(w, topic) PROVE ReaderInv'
  BY <1>1, TakeNumberReader
<1>2. ASSUME NEW w \in Writer, Insert(w) PROVE ReaderInv'
  BY <1>2, InsertReader
<1>3. ASSUME NEW r \in Reader, CatchUp(r) PROVE ReaderInv'
  BY <1>3, CatchUpReader
<1>4. CASE Clear
  <2>1. /\ messages' = <<>> /\ UNCHANGED <<next_seq, writing, readerVars, log, earlier>>
    BY <1>4 DEF Clear
  <2>2. Range(messages') \subseteq Range(messages) /\ Numbers(log) \subseteq Numbers(log)'
    <3>1. \A q : q = <<>> => Range(q) = {}
      BY DEF Range
    <3> QED BY <2>1, <3>1
  <2>3. ASSUME Serial' PROVE Sorted' /\ Fresh' /\ \A r \in Reader : Caught(r)'
    <3>1. Fresh /\ \A r \in Reader : Caught(r)
      BY <2>1, <2>3 DEF ReaderInv, Serial
    <3>2. Sorted' /\ Fresh'
      BY <2>1, <3>1 DEF Sorted, Ascending, Fresh
    <3> QED BY <2>1, <2>2, <3>1, <3>2, CaughtFrame
  <2> QED BY <2>1, <2>3 DEF ReaderInv, readerVars
<1>5. CASE UNCHANGED vars
  BY <1>5 DEF vars, readerVars, ReaderInv, Serial, Sorted, Ascending, Fresh, Caught
<1> QED BY <1>1, <1>2, <1>3, <1>4, <1>5 DEF Next

(* Without overlapping pushes a reader that fetches, remembers the last    *)
(* number and asks again has missed nothing that is still in the buffer.   *)
THEOREM NothingMissed == Spec => []CatchUpComplete
<1>1. Init => OrderInv /\ ReaderInv
  BY OrderInit, ReaderInit
<1>2. OrderInv /\ ReaderInv /\ [Next]_vars => OrderInv' /\ ReaderInv'
  BY OrderNext, ReaderNext
<1>3. OrderInv /\ ReaderInv => CatchUpComplete
  BY DEF ReaderInv, Caught, CatchUpComplete
<1> QED BY <1>1, <1>2, <1>3, PTL DEF Spec

(* ... and it has fetched each message at most once, in order.             *)
THEOREM FetchedInOrder == Spec => []CatchUpInOrder
<1>1. Init => OrderInv /\ ReaderInv
  BY OrderInit, ReaderInit
<1>2. OrderInv /\ ReaderInv /\ [Next]_vars => OrderInv' /\ ReaderInv'
  BY OrderNext, ReaderNext
<1>3. OrderInv /\ ReaderInv => CatchUpInOrder
  BY DEF ReaderInv, Caught, CatchUpInOrder
<1> QED BY <1>1, <1>2, <1>3, PTL DEF Spec
=============================================================================

----------------------------- MODULE RingBuffer -----------------------------
(***************************************************************************)
(* The catch-up buffer (src/src/storage/ringbuf.rs), and a reader that     *)
(* uses it the way src/tests/resilience.rs does: fetch what comes after    *)
(* the last number seen, then remember the number of the last one fetched. *)
(*                                                                         *)
(* push takes its number from an atomic counter before it takes the lock   *)
(* on the queue, so that concurrent writers may enter the queue in another *)
(* order than they were numbered in.  What happens under the lock is one   *)
(* step.                                                                   *)
(***************************************************************************)
EXTENDS Integers, Sequences, FiniteSetsExt, SequencesExt

CONSTANTS
  Writer,    \* tasks that push
  Reader,    \* clients that catch up
  Topic,     \* channel names
  Wanted,    \* the channels under each reader's prefix
  Capacity,
  MaxPush,   \* messages pushed in all (a bound on the runs)
  MaxFetch   \* messages a reader asks for more after (a bound on the runs)

(* With no capacity at all push would pop an empty queue for ever.         *)
ASSUME RingAssumption ==
  /\ Wanted \in [Reader -> SUBSET Topic]
  /\ Capacity \in Nat \ {0}
  /\ MaxPush \in Nat /\ MaxFetch \in Nat

VARIABLES
  messages,  \* the queue, oldest first
  next_seq,  \* the counter
  writing,   \* per writer, the message numbered and not yet queued, if any
  last_seen, \* per reader, the number it will ask from
  received,  \* per reader, the numbers fetched, in order
  log,       \* history: every message ever queued
  cleared,   \* history: how much of the log had been queued at the last clear
  earlier    \* history: per number, the numbers queued before it was taken

readerVars == <<last_seen, received>>
vars == <<messages, next_seq, writing, readerVars, log, cleared, earlier>>

Message == [seq : 1..MaxPush, topic : Topic]

Numbers(q) == {m.seq : m \in Range(q)}

-----------------------------------------------------------------------------
(* The queue as a value.                                                   *)

(* Faults: room is made one message too early; the newest comes first.     *)
InsertedEarly(q, m) ==
  Append(IF Len(q) >= Capacity - 1 THEN Tail(q) ELSE q, m)
InsertedAtFront(q, m) ==
  <<m>> \o SubSeq(q, 1, IF Len(q) < Capacity THEN Len(q) ELSE Capacity - 1)

(* push under the lock: make room at the front, add at the back.  The      *)
(* queue is never over capacity, so at most one message has to go.         *)
Inserted(q, m) ==
  Append(IF Len(q) >= Capacity THEN Tail(q) ELSE q, m)

(* Two faults: the message asked from is sent again; or numbers are taken  *)
(* to have no gaps, so that the position follows from the first number.    *)
SkipInclusive(q, target) ==
  LET before == {i \in 1..Len(q) : q[i].seq < target} IN  IF before = {} THEN 0 ELSE Max(before)
SkipByOffset(q, target) ==
  IF q = <<>> \/ q[1].seq > target THEN 0
  ELSE IF target - q[1].seq + 1 >= Len(q) THEN Len(q) ELSE target - q[1].seq + 1

(* binary_search_after: how many messages to skip so that the rest come    *)
(* after target, if the queue is sorted by number.                         *)
Skip(q, target) ==
  LET search[span \in (0..Len(q)) \X (0..Len(q))] ==
        LET left == span[1]
            right == span[2]
            mid == left + (right - left) \div 2
        IN  IF left >= right THEN left
            ELSE IF q[mid + 1].seq <= target THEN search[<<mid + 1, right>>]
            ELSE search[<<left, mid>>]
  IN  IF q = <<>> \/ q[1].seq > target THEN 0
      ELSE IF q[Len(q)].seq <= target THEN Len(q)
      ELSE search[<<0, Len(q)>>]

(* get_after                                                               *)
After(q, target) == SubSeq(q, Skip(q, target) + 1, Len(q))

(* The filter of get_after_for_channel: SelectSeq, written as a function   *)
(* on the lengths of q's prefixes for the sake of the proofs.              *)
Under(q, topics) ==
  LET upTo[n \in 0..Len(q)] ==
        IF n = 0 THEN <<>>
        ELSE IF q[n].topic \in topics THEN Append(upTo[n - 1], q[n]) ELSE upTo[n - 1]
  IN  upTo[Len(q)]

(* get_after_for_channel                                                   *)
AfterFor(q, target, topics) == Under(After(q, target), topics)

(* current_seq *)
CurrentSeq == next_seq - 1

-----------------------------------------------------------------------------
Init ==
  /\ messages = <<>>
  /\ next_seq = 1
  /\ writing = [w \in Writer |-> {}]
  /\ last_seen = [r \in Reader |-> 0]
  /\ received = [r \in Reader |-> <<>>]
  /\ log = <<>>
  /\ cleared = 0
  /\ earlier = <<>>

(* push, first half: next_seq.fetch_add(1).                                *)
TakeNumber(w, topic) ==
  /\ writing[w] = {} /\ next_seq <= MaxPush
  /\ writing' = [writing EXCEPT ![w] = {[seq |-> next_seq, topic |-> topic]}]
  /\ next_seq' = next_seq + 1
  /\ earlier' = Append(earlier, Numbers(log))
  /\ UNCHANGED <<messages, readerVars, log, cleared>>

(* push, second half: everything under the lock.                           *)
Insert(w) ==
  \E m \in writing[w] :
    /\ messages' = Inserted(messages, m)
    /\ writing' = [writing EXCEPT ![w] = {}]
    /\ log' = Append(log, m)
    /\ UNCHANGED <<next_seq, readerVars, cleared, earlier>>

(* A fault: the reader goes on from current_seq instead of the last number *)
(* it has fetched.                                                         *)
CatchUpToCurrent(r) ==
  LET fetched == AfterFor(messages, last_seen[r], Wanted[r])
  IN  /\ Len(received[r]) < MaxFetch
      /\ received' = [received EXCEPT ![r] = @ \o [i \in DOMAIN fetched |-> fetched[i].seq]]
      /\ last_seen' = [last_seen EXCEPT ![r] = CurrentSeq]
      /\ UNCHANGED <<messages, next_seq, writing, log, cleared, earlier>>

(* get_after_for_channel, then last_seen.store for each message fetched.   *)
CatchUp(r) ==
  LET fetched == AfterFor(messages, last_seen[r], Wanted[r])
  IN  /\ fetched # <<>> /\ Len(received[r]) < MaxFetch
      /\ received' = [received EXCEPT ![r] = @ \o [i \in DOMAIN fetched |-> fetched[i].seq]]
      /\ last_seen' = [last_seen EXCEPT ![r] = Last(fetched).seq]
      /\ UNCHANGED <<messages, next_seq, writing, log, cleared, earlier>>

(* clear: the counter goes on.                                             *)
Clear ==
  /\ messages' = <<>>
  /\ cleared' = Len(log)
  /\ UNCHANGED <<next_seq, writing, readerVars, log, earlier>>

Next ==
  \/ \E w \in Writer, topic \in Topic : TakeNumber(w, topic)
  \/ \E w \in Writer : Insert(w)
  \/ \E r \in Reader : CatchUp(r)
  \/ Clear

Spec == Init /\ [][Next]_vars

-----------------------------------------------------------------------------
TypeOK ==
  /\ messages \in Seq(Message) /\ Len(messages) <= Capacity
  /\ next_seq \in 1..(MaxPush + 1)
  /\ writing \in [Writer -> SUBSET Message]
  /\ last_seen \in [Reader -> 0..MaxPush]
  /\ received \in [Reader -> Seq(1..MaxPush)]
  /\ log \in Seq(Message)
  /\ cleared \in 0..Len(log)
  /\ earlier \in Seq(SUBSET (1..MaxPush))

(* Nothing is dropped but the oldest, and no sooner than it has to be: the *)
(* queue is always the newest messages since the last clear, as many as    *)
(* there is room for.                                                      *)
BufferIsTail ==
  LET from == Max({cleared, Len(log) - Capacity})
  IN  messages = SubSeq(log, from + 1, Len(log))

(* The order that concurrent writers can count on: a message whose push    *)
(* had finished before another one's began has the smaller number and is   *)
(* ahead of it in the queue.  Only pushes that overlap may be misplaced.   *)
RealTimeOrder ==
  \A i, j \in 1..Len(messages) :
    messages[i].seq \in earlier[messages[j].seq] =>
      i < j /\ messages[i].seq < messages[j].seq

Ascending(q) == \A i, j \in 1..Len(q) : i < j => q[i].seq < q[j].seq

Sorted == Ascending(messages)

(* One writer at a time keeps the queue sorted.                            *)
OneWriterSorted == (\A v, w \in Writer : v = w) => Sorted

(* On a sorted queue, numbers with gaps included, the search returns the   *)
(* messages after the target: all of them and nothing else, in order.      *)
GetAfterExact ==
  Sorted => \A target \in 0..next_seq :
    LET got == After(messages, target)
    IN  Range(got) = {m \in Range(messages) : m.seq > target} /\ Ascending(got)

(* Pushes have not overlapped: each number was taken when all before it    *)
(* were in the queue.                                                      *)
Serial == \A n \in DOMAIN earlier : earlier[n] = 1..(n - 1)

(* A reader that has gone past a message has fetched it, as long as pushes *)
(* do not overlap: no message of the queue under the reader's prefix has a *)
(* number up to last_seen without having been received.                    *)
CatchUpComplete ==
  Serial => \A r \in Reader : \A m \in Range(messages) :
    m.topic \in Wanted[r] /\ m.seq <= last_seen[r] => m.seq \in Range(received[r])

(* As long as pushes do not overlap a reader fetches each message at most  *)
(* once, and in the order of their numbers, whatever was evicted or        *)
(* cleared between two fetches.                                            *)
CatchUpInOrder ==
  Serial => \A r \in Reader : \A i, j \in 1..Len(received[r]) :
    i < j => received[r][i] < received[r][j]
=============================================================================

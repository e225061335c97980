------------------------------- MODULE FanOut -------------------------------
(***************************************************************************)
(* What the broker promises a publisher, without registry, scan or queues. *)
(*                                                                         *)
(* A message is in flight from the moment its publisher starts to the      *)
(* moment the publisher is done (when Published may be sent).  Interests   *)
(* change meanwhile.  The message goes at most once to each subscriber; it *)
(* goes to nobody who was not interested at some moment of the flight; and *)
(* the flight is over only when it has gone to everyone who was interested *)
(* all along, except where there was no room for it.                       *)
(***************************************************************************)
EXTENDS Naturals, Sequences, SequencesExt

CONSTANTS Session, Actor, Chan, Message, None

VARIABLES
  interest,  \* the channels each session would receive now
  room,      \* whether a session can take a message now (its own business)
  flight,    \* the message each actor has in flight
  must, may, \* interested throughout the flight, interested at some moment
  lost,      \* missed it for want of room
  inbox      \* what each session has been given, in order

others == <<interest, flight, must, may, lost, inbox>>
vars == <<others, room>>

TypeOK ==
  /\ interest \in [Session -> SUBSET Chan]
  /\ room \in [Session -> BOOLEAN]
  /\ flight \in [Actor -> Message \cup {None}]
  /\ must \in [Actor -> SUBSET Session]
  /\ may  \in [Actor -> SUBSET Session]
  /\ lost \in [Actor -> SUBSET Session]
  /\ inbox \in [Session -> Seq(Message)]

Interested(ch) == {s \in Session : ch \in interest[s]}

Given(m) == {s \in Session : m \in Range(inbox[s])}

Init ==
  /\ interest = [s \in Session |-> {}]
  /\ room \in [Session -> BOOLEAN]
  /\ flight = [a \in Actor |-> None]
  /\ must = [a \in Actor |-> {}]
  /\ may  = [a \in Actor |-> {}]
  /\ lost = [a \in Actor |-> {}]
  /\ inbox = [s \in Session |-> <<>>]

(* A session gains or loses channels; flights under way take note.         *)
ChangeInterest(s, channels) ==
  /\ interest' = [interest EXCEPT ![s] = channels]
  /\ must' = [a \in Actor |-> IF flight[a] # None /\ flight[a].topic \notin channels
                              THEN must[a] \ {s} ELSE must[a]]
  /\ may'  = [a \in Actor |-> IF flight[a] # None /\ flight[a].topic \in channels
                              THEN may[a] \cup {s} ELSE may[a]]
  /\ UNCHANGED <<flight, lost, inbox>>

Start(a, m) ==
  /\ flight[a] = None
  /\ flight' = [flight EXCEPT ![a] = m]
  /\ m.src = a /\ Given(m) = {}
  /\ must' = [must EXCEPT ![a] = Interested(m.topic)]
  /\ may'  = [may EXCEPT ![a] = Interested(m.topic)]
  /\ UNCHANGED <<interest, lost, inbox>>

Deliver(a, s) ==
  /\ flight[a] # None /\ room[s]
  /\ s \in may[a] \ (Given(flight[a]) \cup lost[a])
  /\ inbox' = [inbox EXCEPT ![s] = Append(@, flight[a])]
  /\ UNCHANGED <<interest, flight, must, may, lost>>

Lose(a, s) ==
  /\ flight[a] # None /\ ~room[s]
  /\ s \in may[a] \ (Given(flight[a]) \cup lost[a])
  /\ lost' = [lost EXCEPT ![a] = @ \cup {s}]
  /\ UNCHANGED <<interest, flight, must, may, inbox>>

Finish(a) ==
  /\ flight[a] # None
  /\ must[a] \subseteq Given(flight[a]) \cup lost[a]
  /\ flight' = [flight EXCEPT ![a] = None]
  /\ must' = [must EXCEPT ![a] = {}]
  /\ may'  = [may EXCEPT ![a] = {}]
  /\ lost' = [lost EXCEPT ![a] = {}]
  /\ UNCHANGED <<interest, inbox>>

Next ==
  /\ room' \in [Session -> BOOLEAN]
  /\ \/ UNCHANGED others
     \/ \E s \in Session, channels \in SUBSET Chan : ChangeInterest(s, channels)
     \/ \E a \in Actor, m \in Message : Start(a, m)
     \/ \E a \in Actor, s \in Session : Deliver(a, s) \/ Lose(a, s)
     \/ \E a \in Actor : Finish(a)

Spec == Init /\ [][Next]_vars
=============================================================================

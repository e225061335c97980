------------------------ MODULE JsSubscriptionsProofs ------------------------
(***************************************************************************)
(* JsSubscriptions, for any callers, components, patterns, grants, requests,*)
(* connections and losses: types, that no promise is forgotten, that no     *)
(* request resolves but by what the server carried out, and that a session  *)
(* whose resubscribe() has ended is subscribed to what has handlers and to  *)
(* nothing else, unless the server could not read the last request about it.*)
(*                                                                          *)
(* First what the actions do to the table of handlers, the requests and the *)
(* loops; then TalkInv, Accounts and ServeInv, one resting on the other.    *)
(***************************************************************************)
EXTENDS JsSubscriptions, FiniteSetTheorems, WellFoundedInduction, TLAPS

-----------------------------------------------------------------------------
(* Types                                                                    *)

Stage == [at : {"none", "mounted", "asking", "held"}, on : Pattern \cup {Nobody}]
Request == [key : Key, by : User \cup {Nobody} \cup Nat,
            at : {"sending", "waiting", "resolved", "rejected"}, timer : BOOLEAN]
Loop == [todo : SUBSET Pattern, at : {"next", "waiting", "done"}]
Answer == [key : Key, ok : BOOLEAN]

Has(u) == stage[u].at \in {"asking", "held"}
TableType ==
    /\ stage \in [User -> Stage] /\ \A u \in User : Has(u) => stage[u].on \in Pattern
    /\ left \in [Pattern -> Nat]
    /\ requests \in Seq(Request) /\ loops \in Seq(Loop)
    /\ pending \in [Key -> Nat]
NetType ==
    /\ wire \in Seq(Key) /\ inbox \in Seq(Answer) /\ server \subseteq Pattern
    /\ confirmed \in [Key -> Nat] /\ unread \subseteq Pattern
TypeInv ==
    /\ connected \in BOOLEAN /\ robbed \subseteq Nat /\ losses \in Nat
    /\ TableType /\ NetType

-----------------------------------------------------------------------------
\* An entry is a request that waits under its name; one that is still to be
\* written has no timer.
Entries == \A k \in Key : pending[k] # 0 =>
    /\ pending[k] \in 1 .. Len(requests)
    /\ requests[pending[k]].key = k /\ requests[pending[k]].at = "waiting"
Untimed == \A i \in 1 .. Len(requests) : requests[i].at = "sending" => ~requests[i].timer

IsOpen(i) == requests[i].at \in {"sending", "waiting"}

\* A user who asks has one request, and it is for the pattern the user is on.
Asks ==
    /\ \A i \in 1 .. Len(requests) : IsOpen(i) /\ requests[i].by \in User =>
          /\ requests[i].key[1] = "subscribe"
          /\ stage[requests[i].by] = [at |-> "asking", on |-> requests[i].key[2]]
    /\ \A i, j \in 1 .. Len(requests) :
          IsOpen(i) /\ IsOpen(j) /\ requests[i].by = requests[j].by /\ requests[i].by \in User => i = j

TalkInv == Entries /\ Untimed /\ Asks /\ NoneForgotten

-----------------------------------------------------------------------------
\* Without a connection nothing is on its way.  A loop has only patterns with
\* handlers before it.  On a connection, what has none will not be served, and
\* what has some will be, or is still before the connection's own loop, unless
\* the server could not read the last request about it.
Down == ~connected =>
    /\ wire = <<>> /\ server = {} /\ unread = {}
    /\ \A i \in 1 .. Len(requests) : requests[i].at # "sending"
Todo == \A n \in 1 .. Len(loops) : \A p \in loops[n].todo : Handlers(p) > 0
Assured(p) == WillBeServed(p) \/ LastUnread(p)
Spared(p) == ~WillBeServed(p) \/ LastUnread(p)
ToCome(p) == LET last == loops[Len(loops)] IN p \in last.todo /\ last.at # "done"
Up == connected =>
    /\ Len(loops) > 0
    /\ \A p \in Pattern : Handlers(p) = 0 => Spared(p)
    /\ \A p \in Pattern \cap Granted : Handlers(p) > 0 => Assured(p) \/ ToCome(p)
ServeInv == Down /\ Todo /\ Up

\* The answers on their way back count with what has resolved.
Where(q, m) == {i \in 1 .. Len(q) : q[i] = m}
Ok(k) == [key |-> k, ok |-> TRUE]
Resolved(k) == {i \in DOMAIN requests : requests[i].key = k /\ requests[i].at = "resolved"}
Accounts == \A k \in Key :
    Cardinality(Resolved(k)) + Cardinality(Where(inbox, Ok(k))) <= confirmed[k]

-----------------------------------------------------------------------------
(* Shapes, and counts of finite sets.                                       *)

LEMMA Made ==
  ASSUME NEW S, NEW n \in Nat, NEW f \in [1 .. n -> S]
  PROVE  f \in Seq(S) /\ Len(f) = n /\ DOMAIN f = 1 .. n
OBVIOUS

LEMMA Shape ==
  ASSUME TypeInv
  PROVE  /\ DOMAIN requests = 1 .. Len(requests) /\ Len(requests) \in Nat
         /\ \A i \in 1 .. Len(requests) :
              /\ requests[i] \in Request /\ requests[i].key \in Key
              /\ requests[i].by \in User \cup {Nobody} \cup Nat
              /\ requests[i].timer \in BOOLEAN
         /\ DOMAIN loops = 1 .. Len(loops) /\ Len(loops) \in Nat
         /\ \A n \in 1 .. Len(loops) : loops[n] \in Loop /\ loops[n].todo \subseteq Pattern
         /\ \A u \in User : stage[u] \in Stage /\ (Has(u) => stage[u].on \in Pattern)
<1>1. DOMAIN requests = 1 .. Len(requests) /\ Len(requests) \in Nat
      /\ \A i \in 1 .. Len(requests) : requests[i] \in Request
  BY DEF TypeInv, TableType
<1>2. DOMAIN loops = 1 .. Len(loops) /\ Len(loops) \in Nat
      /\ \A n \in 1 .. Len(loops) : loops[n] \in Loop
  BY DEF TypeInv, TableType
<1>3. \A r \in Request : r.key \in Key /\ r.by \in User \cup {Nobody} \cup Nat /\ r.timer \in BOOLEAN
  BY DEF Request
<1>4. \A l \in Loop : l.todo \subseteq Pattern
  BY DEF Loop
<1>5. \A u \in User : stage[u] \in Stage /\ (Has(u) => stage[u].on \in Pattern)
  BY DEF TypeInv, TableType
<1> QED BY <1>1, <1>2, <1>3, <1>4, <1>5

LEMMA Keys ==
  \A k \in Key : /\ k = <<k[1], k[2]>> /\ k[1] \in {"subscribe", "unsubscribe"} /\ k[2] \in Pattern
BY DEF Key

-----------------------------------------------------------------------------
\* Handlers, counted.
LEMMA HandlersAre ==
  ASSUME TypeInv, NEW p \in Pattern
  PROVE  /\ Holders(p) \subseteq User /\ IsFiniteSet(Holders(p))
         /\ Cardinality(Holders(p)) \in Nat /\ left[p] \in Nat /\ Handlers(p) \in Nat
         /\ \A u \in Holders(p) : Handlers(p) > 0
<1>1. Holders(p) \subseteq User /\ IsFiniteSet(User)
  BY SubscriptionsAssumption DEF Holders
<1>2. IsFiniteSet(Holders(p)) /\ Cardinality(Holders(p)) \in Nat
  BY <1>1, FS_Subset, FS_CardinalityType
<1>3. left[p] \in Nat
  BY DEF TypeInv, TableType
<1>4. \A u \in Holders(p) : Cardinality(Holders(p)) # 0
  BY <1>2, FS_EmptySet
<1> QED BY <1>1, <1>2, <1>3, <1>4 DEF Handlers

LEMMA OneMore ==
  ASSUME NEW S, IsFiniteSet(S), NEW u, u \notin S, NEW T, T = S \cup {u}
  PROVE  Cardinality(T) = Cardinality(S) + 1
BY FS_AddElement

LEMMA OneLess ==
  ASSUME NEW S, IsFiniteSet(S), NEW u \in S, NEW T, T = S \ {u}
  PROVE  Cardinality(T) = Cardinality(S) - 1
BY FS_RemoveElement

LEMMA SomeLess ==
  ASSUME NEW S, IsFiniteSet(S), NEW A, NEW T, T = S \ A
  PROVE  Cardinality(T) + Cardinality(A \cap S) = Cardinality(S)
<1> DEFINE B == A \cap S
<1>1. IsFiniteSet(T) /\ IsFiniteSet(B)
  BY FS_Subset
<1>2. T \cap B = {} /\ T \cup B = S
  OBVIOUS
<1> HIDE DEF B
<1>3. Cardinality(T \cup B) = Cardinality(T) + Cardinality(B) - Cardinality(T \cap B)
  BY <1>1, FS_Union
<1>4. /\ Cardinality({}) = 0 /\ Cardinality(T) \in Nat /\ Cardinality(B) \in Nat
  BY <1>1, FS_EmptySet, FS_CardinalityType
<1>5. Cardinality(S) = Cardinality(T) + Cardinality(B) - 0
  BY <1>2, <1>3, <1>4
<1>6. Cardinality(T) + Cardinality(B) = Cardinality(S)
  BY <1>4, <1>5
<1> QED BY <1>6 DEF B

-----------------------------------------------------------------------------
\* What it means for requests to be settled.
Settled(is, outcome) ==
    /\ Len(requests') = Len(requests) /\ Len(loops') = Len(loops)
    /\ \A i \in 1 .. Len(requests) :
          /\ requests'[i].key = requests[i].key /\ requests'[i].by = requests[i].by
          /\ requests'[i].timer => requests[i].timer
          /\ i \in is /\ IsOpen(i) => requests'[i].at = outcome
          /\ ~(i \in is /\ IsOpen(i)) => requests'[i].at = requests[i].at
    /\ \A n \in 1 .. Len(loops) :
          loops'[n].todo = loops[n].todo /\ loops'[n].at \in {loops[n].at, "next"}
    /\ \A u \in User \ Askers(is) : stage'[u] = stage[u]
    /\ \A p \in Pattern : Handlers(p)' = Handlers(p)
    /\ TableType'

LEMMA AskersAre ==
  ASSUME TypeInv, Asks, NEW is \in SUBSET (1 .. Len(requests)), NEW u \in Askers(is)
  PROVE  /\ u \in User /\ stage[u].at = "asking" /\ stage[u].on \in Pattern
         /\ \E i \in is : IsOpen(i) /\ requests[i].by = u /\ stage[u].on = requests[i].key[2]
<1>1. PICK i \in Open(is) : requests[i].by = u /\ u \in User
  BY DEF Askers
<1>2. i \in is /\ i \in 1 .. Len(requests) /\ IsOpen(i)
  BY <1>1 DEF Open, IsOpen
<1>3. stage[u] = [at |-> "asking", on |-> requests[i].key[2]]
  BY <1>1, <1>2 DEF Asks
<1>4. stage[u].at = "asking" /\ stage[u].on = requests[i].key[2]
  BY <1>3
<1> QED BY <1>1, <1>2, <1>4, Shape DEF Has

LEMMA ResumedIs ==
  ASSUME TypeInv, NEW is
  PROVE  /\ Resumed(is) \in Seq(Loop) /\ Len(Resumed(is)) = Len(loops)
         /\ \A n \in 1 .. Len(loops) :
              Resumed(is)[n].todo = loops[n].todo /\ Resumed(is)[n].at \in {loops[n].at, "next"}
<1>1. \A n \in 1 .. Len(loops) :
        /\ [loops[n] EXCEPT !.at = "next"] \in Loop
        /\ [loops[n] EXCEPT !.at = "next"].todo = loops[n].todo
        /\ [loops[n] EXCEPT !.at = "next"].at = "next"
  BY Shape DEF Loop
<1>2. \A n \in 1 .. Len(loops) : Resumed(is)[n] \in {loops[n], [loops[n] EXCEPT !.at = "next"]}
  BY Shape DEF Resumed
<1>3. Resumed(is) \in [1 .. Len(loops) -> Loop]
  BY <1>1, <1>2, Shape DEF Resumed
<1> QED BY <1>1, <1>2, <1>3, Shape, Made

LEMMA ResolveDoes ==
  ASSUME TypeInv, Asks, NEW i \in 1 .. Len(requests), Resolve(i), pending' \in [Key -> Nat]
  PROVE  Settled({i}, "resolved")
<1>1. /\ requests' = Ends(Open({i}), "resolved") /\ loops' = Resumed({i}) /\ left' = left
      /\ stage' = [u \in User |-> IF u \in Askers({i}) THEN [stage[u] EXCEPT !.at = "held"] ELSE stage[u]]
  BY DEF Resolve
<1>2. /\ \A j \in 1 .. Len(requests) :
           requests'[j] = IF j = i /\ IsOpen(i) THEN [requests[j] EXCEPT !.at = "resolved"] ELSE requests[j]
      /\ requests' \in [1 .. Len(requests) -> Request]
  <2>1. \A j \in 1 .. Len(requests) : [requests[j] EXCEPT !.at = "resolved"] \in Request
    BY Shape DEF Request
  <2>2. \A j \in 1 .. Len(requests) : j \in Open({i}) <=> j = i /\ IsOpen(i)
    BY DEF Open, IsOpen
  <2> QED BY <1>1, <2>1, <2>2, Shape DEF Ends
<1>3. requests' \in Seq(Request) /\ Len(requests') = Len(requests)
  BY <1>2, Shape, Made
<1>4. \A j \in 1 .. Len(requests) :
          /\ requests'[j].key = requests[j].key /\ requests'[j].by = requests[j].by
          /\ requests'[j].timer = requests[j].timer
          /\ j \in {i} /\ IsOpen(j) => requests'[j].at = "resolved"
          /\ ~(j \in {i} /\ IsOpen(j)) => requests'[j].at = requests[j].at
  BY <1>2, Shape DEF Request
<1>5. ASSUME NEW u \in User
      PROVE  /\ u \notin Askers({i}) => stage'[u] = stage[u]
             /\ u \in Askers({i}) => /\ stage[u].at = "asking" /\ stage[u].on \in Pattern
                                     /\ stage'[u].at = "held" /\ stage'[u].on = stage[u].on
             /\ stage'[u] \in Stage
  <2>1. u \in Askers({i}) => stage[u].at = "asking" /\ stage[u].on \in Pattern
    BY AskersAre
  <2> QED BY <1>1, <2>1, Shape DEF Stage
<1>6. \A p \in Pattern : Holders(p)' = Holders(p)
  BY <1>5 DEF Holders
<1>7. \A p \in Pattern : Handlers(p)' = Handlers(p)
  BY <1>1, <1>6 DEF Handlers
<1>8. TableType'
  <2>1. stage' \in [User -> Stage] /\ \A u \in User : Has(u)' => stage'[u].on \in Pattern
    BY <1>1, <1>5, Shape DEF Has
  <2> QED BY <1>1, <1>3, <2>1, ResumedIs DEF TypeInv, TableType
<1> QED BY <1>1, <1>3, <1>4, <1>5, <1>7, <1>8, ResumedIs DEF Settled

\* A caller whose request fails leaves its handler in the table: one that
\* nobody can remove.
LEMMA RejectDoes ==
  ASSUME TypeInv, Asks, NEW is \in SUBSET (1 .. Len(requests)), NEW extra, Reject(is, extra),
         pending' \in [Key -> Nat]
  PROVE  Settled(is, "rejected")
<1> DEFINE gone == Askers(is)
           now(j) == [Ends(Open(is), "rejected")[j] EXCEPT !.timer = @ /\ j \notin extra]
<1>1. /\ requests' = [j \in DOMAIN requests |-> now(j)] /\ loops' = Resumed(is)
      /\ stage' = [u \in User |->
           IF u \notin gone THEN stage[u]
           ELSE IF u \in Component THEN [stage[u] EXCEPT !.at = "mounted"] ELSE Off]
      /\ left' = [p \in Pattern |-> left[p] + Cardinality(gone \cap Holders(p))]
  BY DEF Reject
<1>2. ASSUME NEW j \in 1 .. Len(requests)
      PROVE  /\ now(j) \in Request
             /\ now(j).key = requests[j].key /\ now(j).by = requests[j].by
             /\ now(j).timer => requests[j].timer
             /\ j \in is /\ IsOpen(j) => now(j).at = "rejected"
             /\ ~(j \in is /\ IsOpen(j)) => now(j).at = requests[j].at
  <2> DEFINE e == Ends(Open(is), "rejected")[j]
  <2>1. j \in Open(is) <=> j \in is /\ IsOpen(j)
    BY DEF Open, IsOpen
  <2>2. e = IF j \in is /\ IsOpen(j) THEN [requests[j] EXCEPT !.at = "rejected"] ELSE requests[j]
    BY <2>1, Shape DEF Ends
  <2>3. requests[j] \in Request
    BY Shape
  <2>4. /\ e \in Request /\ e.key = requests[j].key /\ e.by = requests[j].by /\ e.timer = requests[j].timer
        /\ j \in is /\ IsOpen(j) => e.at = "rejected"
        /\ ~(j \in is /\ IsOpen(j)) => e.at = requests[j].at
    BY <2>2, <2>3 DEF Request
  <2>5. now(j) = [e EXCEPT !.timer = @ /\ j \notin extra]
    OBVIOUS
  <2> HIDE DEF now, e
  <2>6. /\ now(j) \in Request /\ now(j).key = e.key /\ now(j).by = e.by /\ now(j).at = e.at
        /\ now(j).timer => e.timer
    BY <2>4, <2>5 DEF Request
  <2> QED BY <2>4, <2>6
<1> HIDE DEF now
<1>3. requests' \in [1 .. Len(requests) -> Request] /\ \A j \in 1 .. Len(requests) : requests'[j] = now(j)
  BY <1>1, <1>2, Shape
<1>4. requests' \in Seq(Request) /\ Len(requests') = Len(requests)
  BY <1>3, Shape, Made
<1>5. ASSUME NEW u \in User
      PROVE  /\ u \notin gone => stage'[u] = stage[u]
             /\ u \in gone => stage'[u].at \in {"mounted", "none"}
             /\ stage'[u] \in Stage
  <2>1. Off \in Stage /\ Off.at = "none"
    BY DEF Off, Stage
  <2>2. [stage[u] EXCEPT !.at = "mounted"] \in Stage /\ [stage[u] EXCEPT !.at = "mounted"].at = "mounted"
    BY Shape DEF Stage
  <2> QED BY <1>1, <2>1, <2>2, Shape
<1> HIDE DEF gone
<1>6. ASSUME NEW p \in Pattern
      PROVE  /\ Handlers(p)' = Handlers(p) /\ left'[p] \in Nat
  <2>1. Holders(p)' = Holders(p) \ gone
    BY <1>5 DEF Holders
  <2>2. IsFiniteSet(Holders(p)) /\ Cardinality(Holders(p)) \in Nat /\ left[p] \in Nat
    BY HandlersAre
  <2> DEFINE H == Holders(p)
             now2 == Holders(p)'
             B == gone \cap H
  <2>3. IsFiniteSet(B) /\ IsFiniteSet(now2) /\ B = gone \cap H /\ now2 = H \ gone
    BY <2>1, <2>2, FS_Subset
  <2>4. left'[p] = left[p] + Cardinality(B)
    BY <1>1
  <2>5. Handlers(p)' = Cardinality(now2) + left'[p] /\ Handlers(p) = Cardinality(H) + left[p]
    BY DEF Handlers
  <2> HIDE DEF H, now2, B
  <2>6. Cardinality(now2) + Cardinality(B) = Cardinality(H)
    BY <2>2, <2>3, SomeLess DEF H
  <2>7. Cardinality(now2) \in Nat /\ Cardinality(B) \in Nat
    BY <2>3, FS_CardinalityType
  <2>8. Cardinality(H) \in Nat
    BY <2>2 DEF H
  <2> QED BY <2>2, <2>4, <2>5, <2>6, <2>7, <2>8
<1>7. TableType'
  <2>1. stage' \in [User -> Stage] /\ \A u \in User : Has(u)' => stage'[u].on \in Pattern
    BY <1>1, <1>5, Shape DEF Has
  <2>2. left' \in [Pattern -> Nat]
    BY <1>1, <1>6
  <2> QED BY <1>1, <1>4, <2>1, <2>2, ResumedIs DEF TableType
<1> QED BY <1>1, <1>2, <1>3, <1>4, <1>5, <1>6, <1>7, ResumedIs DEF Settled, gone

-----------------------------------------------------------------------------
(* Requests that are added.                                                 *)

\* What it means for a request to be added.
Added(key, by) ==
    /\ requests' \in Seq(Request) /\ Len(requests') = Len(requests) + 1
    /\ \A i \in 1 .. Len(requests) : requests'[i] = requests[i]
    /\ LET r == requests'[Len(requests) + 1] IN
          r.key = key /\ r.by = by /\ r.at = "sending" /\ ~r.timer

LEMMA AskedDoes ==
  ASSUME TypeInv, NEW key \in Key, NEW by \in User \cup {Nobody} \cup Nat, Asked(key, by)
  PROVE  Added(key, by)
<1> DEFINE r == [key |-> key, by |-> by, at |-> "sending", timer |-> FALSE]
<1>1. r \in Request /\ r.key = key /\ r.by = by /\ r.at = "sending" /\ r.timer = FALSE
  BY DEF Request
<1>2. requests' = Append(requests, r) /\ requests \in Seq(Request)
  BY DEF Asked, TypeInv, TableType
<1> HIDE DEF r
<1>3. /\ requests' \in Seq(Request) /\ Len(requests') = Len(requests) + 1
      /\ \A i \in 1 .. Len(requests) : requests'[i] = requests[i]
      /\ requests'[Len(requests) + 1] = r
  BY <1>1, <1>2
<1> QED BY <1>1, <1>3 DEF Added

\* A user without a request of its own that is open.
Free(u) == \A i \in 1 .. Len(requests) : IsOpen(i) => requests[i].by # u

LEMMA FreeUser ==
  ASSUME TalkInv, NEW u \in User, stage[u].at # "asking"
  PROVE  Free(u)
<1> SUFFICES ASSUME NEW i \in 1 .. Len(requests), IsOpen(i), requests[i].by = u
             PROVE  FALSE
  BY DEF Free
<1>1. stage[u] = [at |-> "asking", on |-> requests[i].key[2]]
  BY DEF TalkInv, Asks
<1> QED BY <1>1

LEMMA TalkGrows ==
  ASSUME TypeInv, TalkInv, UNCHANGED <<pending, robbed>>,
         NEW key \in Key, NEW by \in User \cup {Nobody} \cup Nat, Added(key, by),
         \A u \in User : stage'[u] = stage[u] \/ Free(u),
         by \in User => Free(by) /\ key[1] = "subscribe" /\ stage'[by] = [at |-> "asking", on |-> key[2]]
  PROVE  TalkInv'
<1> DEFINE n == Len(requests)
<1>1. /\ n \in Nat /\ Len(requests') = n + 1
      /\ \A i \in 1 .. n : requests'[i] = requests[i] /\ (IsOpen(i)' <=> IsOpen(i)) /\ requests[i].key \in Key
      /\ \A i \in 1 .. (n + 1) : i \in 1 .. n \/ i = n + 1
      /\ DOMAIN requests' = 1 .. (n + 1) /\ DOMAIN requests = 1 .. n
  BY Shape DEF Added, IsOpen
<1>2. LET r == requests'[n + 1] IN r.key = key /\ r.by = by /\ r.at = "sending" /\ ~r.timer
  BY DEF Added
<1> HIDE DEF n
<1>3. Entries'
  <2> SUFFICES ASSUME NEW k \in Key, pending'[k] # 0
               PROVE  /\ pending'[k] \in 1 .. Len(requests')
                      /\ requests'[pending'[k]].key = k /\ requests'[pending'[k]].at = "waiting"
    BY DEF Entries
  <2>1. pending[k] \in 1 .. n /\ requests[pending[k]].key = k /\ requests[pending[k]].at = "waiting"
    BY DEF TalkInv, Entries, n
  <2> QED BY <1>1, <2>1
<1>4. Untimed'
  BY <1>1, <1>2 DEF TalkInv, Untimed, n
<1>5. Asks'
  <2>1. ASSUME NEW i \in 1 .. (n + 1), IsOpen(i)', requests'[i].by \in User
        PROVE  /\ requests'[i].key[1] = "subscribe"
               /\ stage'[requests'[i].by] = [at |-> "asking", on |-> requests'[i].key[2]]
    <3>1. CASE i \in 1 .. n
      <4>1. requests[i].key[1] = "subscribe" /\ stage[requests[i].by] = [at |-> "asking", on |-> requests[i].key[2]]
        BY <1>1, <2>1, <3>1 DEF TalkInv, Asks, n
      <4>2. ~Free(requests[i].by)
        BY <1>1, <2>1, <3>1 DEF Free, n
      <4> QED BY <1>1, <2>1, <3>1, <4>1, <4>2
    <3>2. CASE i = n + 1
      BY <1>2, <2>1, <3>2
    <3> QED BY <1>1, <2>1, <3>1, <3>2
  <2>2. ASSUME NEW i \in 1 .. (n + 1), NEW j \in 1 .. (n + 1), IsOpen(i)', IsOpen(j)',
               requests'[i].by = requests'[j].by, requests'[i].by \in User
        PROVE  i = j
    <3>1. CASE i \in 1 .. n /\ j \in 1 .. n
      BY <1>1, <2>2, <3>1 DEF TalkInv, Asks, n
    <3>2. CASE i \in 1 .. n /\ j = n + 1
      BY <1>1, <1>2, <2>2, <3>2 DEF Free, n
    <3>3. CASE j \in 1 .. n /\ i = n + 1
      BY <1>1, <1>2, <2>2, <3>3 DEF Free, n
    <3> QED BY <1>1, <2>2, <3>1, <3>2, <3>3
  <2> QED BY <1>1, <2>1, <2>2 DEF Asks
<1>6. NoneForgotten'
  <2> SUFFICES ASSUME NEW i \in 1 .. (n + 1), requests'[i].at = "waiting"
               PROVE  pending'[requests'[i].key] = i \/ i \in robbed'
    BY <1>1 DEF NoneForgotten
  <2>1. i \in 1 .. n
    BY <1>1, <1>2
  <2> QED BY <1>1, <2>1 DEF TalkInv, NoneForgotten
<1> QED BY <1>3, <1>4, <1>5, <1>6 DEF TalkInv

LEMMA TalkKept ==
  ASSUME TypeInv, TalkInv, UNCHANGED <<requests, pending, robbed>>,
         \A u \in User : stage'[u] = stage[u] \/ Free(u)
  PROVE  TalkInv'
<1>1. Entries' /\ Untimed' /\ NoneForgotten'
  BY DEF TalkInv, Entries, Untimed, NoneForgotten
<1>2. Asks'
  BY DEF TalkInv, Asks, Free, IsOpen
<1> QED BY <1>1, <1>2 DEF TalkInv

LEMMA TalkSettled ==
  ASSUME TypeInv, TalkInv, NEW is \in SUBSET (1 .. Len(requests)), NEW outcome \in {"resolved", "rejected"},
         Settled(is, outcome), robbed \subseteq robbed',
         \A k \in Key :
            /\ pending'[k] \in {0, pending[k]}
            /\ pending'[k] # 0 => pending[k] \notin is
            /\ pending[k] # 0 /\ pending'[k] = 0 => pending[k] \in is \cup robbed'
  PROVE  TalkInv'
<1> DEFINE n == Len(requests)
<1>1. /\ n \in Nat /\ Len(requests') = n
      /\ \A i \in 1 .. n :
            /\ requests'[i].key = requests[i].key /\ requests'[i].by = requests[i].by
            /\ requests'[i].timer => requests[i].timer
            /\ i \in is /\ IsOpen(i) => requests'[i].at = outcome
            /\ ~(i \in is /\ IsOpen(i)) => requests'[i].at = requests[i].at
            /\ requests[i].key \in Key
      /\ DOMAIN requests' = 1 .. n /\ DOMAIN requests = 1 .. n
  BY Shape DEF Settled, TableType
<1>2. \A i \in 1 .. n : IsOpen(i)' => IsOpen(i) /\ i \notin is /\ requests'[i].at = requests[i].at
  BY <1>1 DEF IsOpen
<1>3. Entries'
  <2> SUFFICES ASSUME NEW k \in Key, pending'[k] # 0
               PROVE  /\ pending'[k] \in 1 .. Len(requests')
                      /\ requests'[pending'[k]].key = k /\ requests'[pending'[k]].at = "waiting"
    BY DEF Entries
  <2>1. pending'[k] = pending[k] /\ pending[k] \notin is
    OBVIOUS
  <2>2. pending[k] \in 1 .. n /\ requests[pending[k]].key = k /\ requests[pending[k]].at = "waiting"
    BY <2>1 DEF TalkInv, Entries
  <2> QED BY <1>1, <2>1, <2>2
<1>4. Untimed'
  BY <1>1 DEF TalkInv, Untimed, IsOpen
<1>5. Asks'
  <2>1. ASSUME NEW i \in 1 .. n, IsOpen(i)', requests'[i].by \in User
        PROVE  stage'[requests[i].by] = stage[requests[i].by]
    <3>1. ASSUME requests[i].by \in Askers(is)
          PROVE  FALSE
      <4>1. PICK j \in is : IsOpen(j) /\ requests[j].by = requests[i].by
        BY <1>1, <3>1, AskersAre DEF TalkInv
      <4>2. i = j
        BY <1>1, <1>2, <2>1, <4>1 DEF TalkInv, Asks
      <4> QED BY <1>2, <2>1, <4>1, <4>2
    <3> QED BY <1>1, <2>1, <3>1 DEF Settled
  <2>2. ASSUME NEW i \in 1 .. n, IsOpen(i)', requests'[i].by \in User
        PROVE  /\ requests'[i].key[1] = "subscribe"
               /\ stage'[requests'[i].by] = [at |-> "asking", on |-> requests'[i].key[2]]
    BY <1>1, <1>2, <2>1, <2>2 DEF TalkInv, Asks
  <2>3. ASSUME NEW i \in 1 .. n, NEW j \in 1 .. n, IsOpen(i)', IsOpen(j)',
               requests'[i].by = requests'[j].by, requests'[i].by \in User
        PROVE  i = j
    BY <1>1, <1>2, <2>3 DEF TalkInv, Asks
  <2> QED BY <1>1, <2>2, <2>3 DEF Asks
<1>6. NoneForgotten'
  <2> SUFFICES ASSUME NEW i \in 1 .. n, requests'[i].at = "waiting"
               PROVE  pending'[requests'[i].key] = i \/ i \in robbed'
    BY <1>1 DEF NoneForgotten
  <2>1. requests[i].at = "waiting" /\ i \notin is /\ requests[i].key \in Key
    BY <1>1 DEF IsOpen
  <2>2. pending[requests[i].key] = i \/ i \in robbed
    BY <1>1, <2>1 DEF TalkInv, NoneForgotten
  <2>3. i # 0
    BY <1>1
  <2> QED BY <1>1, <2>1, <2>2, <2>3
<1> QED BY <1>3, <1>4, <1>5, <1>6 DEF TalkInv

-----------------------------------------------------------------------------
\* Handlers that come and go.
LEMMA SubscribeDoes ==
  ASSUME TypeInv, NEW u \in User, NEW p \in Pattern, stage[u] = Off, NEW at \in {"asking", "held"},
         stage' = [stage EXCEPT ![u] = [at |-> at, on |-> p]], UNCHANGED left
  PROVE  /\ Handlers(p)' = Handlers(p) + 1 /\ \A q \in Pattern \ {p} : Handlers(q)' = Handlers(q)
         /\ stage' \in [User -> Stage] /\ \A v \in User : Has(v)' => stage'[v].on \in Pattern
<1>1. /\ stage \in [User -> Stage] /\ stage'[u] = [at |-> at, on |-> p] /\ stage'[u] \in Stage
      /\ \A v \in User \ {u} : stage'[v] = stage[v]
      /\ stage'[u].at = at /\ stage'[u].on = p /\ stage[u].at = "none"
  BY DEF TypeInv, TableType, Stage, Off
<1>2. Holders(p)' = Holders(p) \cup {u} /\ u \notin Holders(p)
  BY <1>1 DEF Holders
<1>3. \A q \in Pattern \ {p} : Holders(q)' = Holders(q)
  BY <1>1 DEF Holders
<1> DEFINE H == Holders(p)
           now == Holders(p)'
<1>4. IsFiniteSet(H) /\ Cardinality(H) \in Nat /\ left[p] \in Nat
  BY HandlersAre
<1>5. Handlers(p)' = Cardinality(now) + left[p] /\ Handlers(p) = Cardinality(H) + left[p]
  BY DEF Handlers
<1>6. u \notin H /\ now = H \cup {u}
  BY <1>2
<1> HIDE DEF H, now
<1>7. Cardinality(now) = Cardinality(H) + 1
  BY <1>4, <1>6, OneMore
<1>8. Handlers(p)' = Handlers(p) + 1
  BY <1>4, <1>5, <1>7
<1>9. \A q \in Pattern \ {p} : Handlers(q)' = Handlers(q)
  BY <1>3 DEF Handlers
<1>10. stage' \in [User -> Stage] /\ \A v \in User : Has(v)' => stage'[v].on \in Pattern
  BY <1>1, Shape DEF Has
<1> QED BY <1>8, <1>9, <1>10

LEMMA UnsubscribeDoes ==
  ASSUME TypeInv, NEW u \in User, NEW p \in Pattern, stage[u].at \in {"asking", "held"}, p = stage[u].on,
         stage' = [stage EXCEPT ![u] = Off], UNCHANGED left
  PROVE  /\ Handlers(p) > 0
         /\ Handlers(p)' = Handlers(p) - 1 /\ \A q \in Pattern \ {p} : Handlers(q)' = Handlers(q)
         /\ stage' \in [User -> Stage] /\ \A v \in User : Has(v)' => stage'[v].on \in Pattern
<1>1. /\ stage \in [User -> Stage] /\ stage'[u] = Off /\ stage'[u] \in Stage /\ p \in Pattern
      /\ \A v \in User \ {u} : stage'[v] = stage[v]
      /\ stage'[u].at = "none"
  BY Shape DEF TypeInv, TableType, Stage, Off, Has
<1>2. Holders(p)' = Holders(p) \ {u} /\ u \in Holders(p)
  BY <1>1 DEF Holders
<1>3. \A q \in Pattern \ {p} : Holders(q)' = Holders(q)
  BY <1>1 DEF Holders
<1> DEFINE H == Holders(p)
           now == Holders(p)'
<1>4. IsFiniteSet(H) /\ Cardinality(H) \in Nat /\ left[p] \in Nat /\ Handlers(p) > 0
  BY <1>1, <1>2, HandlersAre
<1>5. Handlers(p)' = Cardinality(now) + left[p] /\ Handlers(p) = Cardinality(H) + left[p]
  BY DEF Handlers
<1>6. u \in H /\ now = H \ {u}
  BY <1>2
<1> HIDE DEF H, now
<1>7. Cardinality(now) = Cardinality(H) - 1
  BY <1>4, <1>6, OneLess
<1>8. Handlers(p)' = Handlers(p) - 1
  BY <1>4, <1>5, <1>7
<1>9. \A q \in Pattern \ {p} : Handlers(q)' = Handlers(q)
  BY <1>3 DEF Handlers
<1>10. stage' \in [User -> Stage] /\ \A v \in User : Has(v)' => stage'[v].on \in Pattern
  BY <1>1, Shape DEF Has
<1> QED BY <1>1, <1>4, <1>8, <1>9, <1>10

LEMMA UnmountDoes ==
  ASSUME TypeInv, NEW u \in User, UnmountEarly(u)
  PROVE  /\ \A q \in Pattern : Handlers(q)' = Handlers(q)
         /\ stage' \in [User -> Stage] /\ \A v \in User : Has(v)' => stage'[v].on \in Pattern
         /\ left' \in [Pattern -> Nat]
<1>1. /\ stage[u].at \in {"mounted", "asking"} /\ stage' = [stage EXCEPT ![u] = Off]
      /\ left' = IF stage[u].at = "asking" THEN [left EXCEPT ![stage[u].on] = @ + 1] ELSE left
      /\ left \in [Pattern -> Nat] /\ stage \in [User -> Stage]
  BY DEF UnmountEarly, TypeInv, TableType
<1>2. /\ stage'[u] = Off /\ stage'[u] \in Stage /\ stage'[u].at = "none"
      /\ \A v \in User \ {u} : stage'[v] = stage[v]
  BY <1>1 DEF Off, Stage
<1>3. stage' \in [User -> Stage] /\ \A v \in User : Has(v)' => stage'[v].on \in Pattern
  BY <1>1, <1>2, Shape DEF Has
<1>4. CASE stage[u].at = "mounted"
  <2>1. \A q \in Pattern : Holders(q)' = Holders(q) /\ left' = left
    BY <1>1, <1>2, <1>4 DEF Holders
  <2> QED BY <1>1, <1>3, <2>1 DEF Handlers
<1>5. CASE stage[u].at = "asking"
  <2>1. PICK p \in Pattern : p = stage[u].on /\ left' = [left EXCEPT ![p] = @ + 1]
    BY <1>1, <1>5, Shape DEF Has
  <2>2. left[p] \in Nat /\ left'[p] = left[p] + 1 /\ left' \in [Pattern -> Nat]
        /\ \A q \in Pattern \ {p} : left'[q] = left[q]
    BY <1>1, <2>1
  <2>3. Holders(p)' = Holders(p) \ {u} /\ u \in Holders(p)
    BY <1>2, <1>5, <2>1 DEF Holders
  <2>4. \A q \in Pattern \ {p} : Holders(q)' = Holders(q)
    BY <1>2, <1>5, <2>1 DEF Holders
  <2> DEFINE H == Holders(p)
             now == Holders(p)'
  <2>5. IsFiniteSet(H) /\ Cardinality(H) \in Nat
    BY <2>1, HandlersAre
  <2>6. Handlers(p)' = Cardinality(now) + left'[p] /\ Handlers(p) = Cardinality(H) + left[p]
    BY DEF Handlers
  <2>7. u \in H /\ now = H \ {u}
    BY <2>3
  <2> HIDE DEF H, now
  <2>8. Cardinality(now) = Cardinality(H) - 1
    BY <2>5, <2>7, OneLess
  <2>9. Handlers(p)' = Handlers(p)
    BY <2>2, <2>5, <2>6, <2>8
  <2>10. \A q \in Pattern \ {p} : Handlers(q)' = Handlers(q)
    BY <2>2, <2>4 DEF Handlers
  <2> QED BY <1>3, <2>2, <2>9, <2>10
<1> QED BY <1>1, <1>4, <1>5

-----------------------------------------------------------------------------
(* Loops that change.                                                       *)

LEMMA KeyOf ==
  ASSUME NEW p \in Pattern, NEW kind \in {"subscribe", "unsubscribe"}
  PROVE  \E k \in Key : k = <<kind, p>> /\ k[1] = kind /\ k[2] = p
<1>1. <<kind, p>> \in Key /\ <<kind, p>>[1] = kind /\ <<kind, p>>[2] = p
  BY DEF Key
<1> QED BY <1>1

LEMMA VisitsDoes ==
  ASSUME TypeInv, NEW p \in Pattern
  PROVE  /\ Visits(p) \in Seq(Loop) /\ Len(Visits(p)) = Len(loops)
         /\ \A n \in 1 .. Len(loops) : Visits(p)[n].todo = loops[n].todo \cup {p} /\ Visits(p)[n].at = loops[n].at
<1>1. \A n \in 1 .. Len(loops) :
        /\ [loops[n] EXCEPT !.todo = @ \cup {p}] \in Loop
        /\ [loops[n] EXCEPT !.todo = @ \cup {p}].todo = loops[n].todo \cup {p}
        /\ [loops[n] EXCEPT !.todo = @ \cup {p}].at = loops[n].at
  BY Shape DEF Loop
<1>2. \A n \in 1 .. Len(loops) : Visits(p)[n] = [loops[n] EXCEPT !.todo = @ \cup {p}]
  BY Shape DEF Visits
<1>3. Visits(p) \in [1 .. Len(loops) -> Loop]
  BY <1>1, <1>2, Shape DEF Visits
<1> QED BY <1>1, <1>2, <1>3, Shape, Made

LEMMA SkipsDoes ==
  ASSUME TypeInv, NEW p \in Pattern
  PROVE  /\ Skips(p) \in Seq(Loop) /\ Len(Skips(p)) = Len(loops)
         /\ \A n \in 1 .. Len(loops) : Skips(p)[n].todo = loops[n].todo \ {p} /\ Skips(p)[n].at = loops[n].at
<1>1. \A n \in 1 .. Len(loops) :
        /\ [loops[n] EXCEPT !.todo = @ \ {p}] \in Loop
        /\ [loops[n] EXCEPT !.todo = @ \ {p}].todo = loops[n].todo \ {p}
        /\ [loops[n] EXCEPT !.todo = @ \ {p}].at = loops[n].at
  BY Shape DEF Loop
<1>2. \A n \in 1 .. Len(loops) : Skips(p)[n] = [loops[n] EXCEPT !.todo = @ \ {p}]
  BY Shape DEF Skips
<1>3. Skips(p) \in [1 .. Len(loops) -> Loop]
  BY <1>1, <1>2, Shape DEF Skips
<1> QED BY <1>1, <1>2, <1>3, Shape, Made

\* One loop goes on.
LEMMA LoopGoes ==
  ASSUME TypeInv, NEW n \in 1 .. Len(loops), NEW l \in Loop, loops' = [loops EXCEPT ![n] = l]
  PROVE  /\ loops' \in Seq(Loop) /\ Len(loops') = Len(loops) /\ loops'[n] = l
         /\ \A m \in 1 .. Len(loops) : m # n => loops'[m] = loops[m]
BY DEF TypeInv, TableType

-----------------------------------------------------------------------------
\* The types and the requests, one action after the other.
LEMMA TypeTalkSubscribe ==
  ASSUME TypeInv, TalkInv, NEW u \in User, NEW p \in Pattern, stage[u] = Off, Subscribe(u, p)
  PROVE  (TypeInv /\ TalkInv)'
<1>1. /\ UNCHANGED <<connected, left, pending, wire, inbox, server, confirmed, unread, robbed, losses>>
      /\ loops' = IF Handlers(p) = 0 THEN Visits(p) ELSE loops
  BY DEF Subscribe, net
<1>2. loops' \in Seq(Loop)
  BY <1>1, VisitsDoes DEF TypeInv, TableType
<1>3. stage \in [User -> Stage] /\ stage[u].at = "none"
  BY DEF TypeInv, TableType, Off
<1>4. Free(u)
  BY <1>3, FreeUser
<1>5. CASE connected /\ Handlers(p) = 0
  <2>1. Asked(<<"subscribe", p>>, u) /\ stage' = [stage EXCEPT ![u] = [at |-> "asking", on |-> p]]
    BY <1>5 DEF Subscribe
  <2>2. stage' \in [User -> Stage] /\ \A v \in User : Has(v)' => stage'[v].on \in Pattern
    BY <1>1, <2>1, SubscribeDoes
  <2>3. PICK k \in Key : k = <<"subscribe", p>> /\ k[1] = "subscribe" /\ k[2] = p
    BY KeyOf
  <2>4. Added(k, u)
    BY <2>1, <2>3, AskedDoes
  <2>5. TalkInv'
    <3>1. \A v \in User : stage'[v] = stage[v] \/ Free(v)
      BY <1>3, <1>4, <2>1
    <3>2. stage'[u] = [at |-> "asking", on |-> k[2]]
      BY <1>3, <2>1, <2>3
    <3> QED BY <1>1, <1>4, <2>3, <2>4, <3>1, <3>2, TalkGrows
  <2> QED BY <1>1, <1>2, <2>2, <2>4, <2>5 DEF TypeInv, TableType, NetType, Added
<1>6. CASE ~(connected /\ Handlers(p) = 0)
  <2>1. UNCHANGED requests /\ stage' = [stage EXCEPT ![u] = [at |-> "held", on |-> p]]
    BY <1>6 DEF Subscribe
  <2>2. stage' \in [User -> Stage] /\ \A v \in User : Has(v)' => stage'[v].on \in Pattern
    BY <1>1, <2>1, SubscribeDoes
  <2>3. TalkInv'
    <3>1. \A v \in User : stage'[v] = stage[v] \/ Free(v)
      BY <1>3, <1>4, <2>1
    <3> QED BY <1>1, <2>1, <3>1, TalkKept
  <2> QED BY <1>1, <1>2, <2>1, <2>2, <2>3 DEF TypeInv, TableType, NetType
<1> QED BY <1>5, <1>6

LEMMA TypeTalkUnsubscribe ==
  ASSUME TypeInv, TalkInv, NEW u \in User, Unsubscribe(u)
  PROVE  (TypeInv /\ TalkInv)'
<1>0. PICK p : p = stage[u].on
  OBVIOUS
<1>1. /\ UNCHANGED <<connected, left, pending, wire, inbox, server, confirmed, unread, robbed, losses>>
      /\ loops' = IF Handlers(p) = 1 THEN Skips(p) ELSE loops
      /\ stage[u].at = "held" /\ stage' = [stage EXCEPT ![u] = Off]
      /\ IF connected /\ Handlers(p) = 1 THEN Asked(<<"unsubscribe", p>>, Nobody) ELSE UNCHANGED requests
  BY <1>0 DEF Unsubscribe, net
<1>2. p \in Pattern /\ stage' \in [User -> Stage] /\ \A v \in User : Has(v)' => stage'[v].on \in Pattern
  <2>1. /\ stage[u].at \in {"asking", "held"} /\ p = stage[u].on /\ UNCHANGED left
        /\ stage' = [stage EXCEPT ![u] = Off]
    BY <1>0, <1>1
  <2>2. p \in Pattern
    BY <2>1, Shape DEF Has
  <2> QED BY <2>1, <2>2, UnsubscribeDoes
<1>3. loops' \in Seq(Loop)
  BY <1>1, <1>2, SkipsDoes DEF TypeInv, TableType
<1>4. Free(u)
  BY <1>1, FreeUser
<1>5. \A v \in User : stage'[v] = stage[v] \/ Free(v)
  BY <1>1, <1>4 DEF TypeInv, TableType
<1>6. CASE connected /\ Handlers(p) = 1
  <2>1. PICK k \in Key : k = <<"unsubscribe", p>>
    BY <1>2, KeyOf
  <2>2. Added(k, Nobody)
    BY <1>1, <1>6, <2>1, AskedDoes
  <2>3. TalkInv'
    <3>1. Nobody \notin User
      BY SubscriptionsAssumption
    <3> QED BY <1>1, <1>5, <2>2, <3>1, TalkGrows
  <2> QED BY <1>1, <1>2, <1>3, <2>2, <2>3 DEF TypeInv, TableType, NetType, Added
<1>7. CASE ~(connected /\ Handlers(p) = 1)
  <2>1. UNCHANGED requests
    BY <1>1, <1>7
  <2>2. TalkInv'
    BY <1>1, <1>5, <2>1, TalkKept
  <2> QED BY <1>1, <1>2, <1>3, <2>1, <2>2 DEF TypeInv, TableType, NetType
<1> QED BY <1>6, <1>7

LEMMA TypeTalkMounted ==
  ASSUME TypeInv, TalkInv, NEW u \in User, NEW p \in Pattern, stage[u] = Off,
         stage' = [stage EXCEPT ![u] = [at |-> "mounted", on |-> p]],
         UNCHANGED <<connected, left, requests, pending, loops, net, robbed, losses>>
  PROVE  (TypeInv /\ TalkInv)'
<1>1. /\ stage \in [User -> Stage] /\ stage[u].at = "none"
      /\ stage'[u] = [at |-> "mounted", on |-> p] /\ \A v \in User \ {u} : stage'[v] = stage[v]
  BY DEF TypeInv, TableType, Off
<1>2. stage'[u] \in Stage /\ stage'[u].at = "mounted"
  BY <1>1 DEF Stage
<1>3. stage' \in [User -> Stage] /\ \A v \in User : Has(v)' => stage'[v].on \in Pattern
  BY <1>1, <1>2, Shape DEF Has
<1>4. TalkInv'
  <2>1. Free(u)
    BY <1>1, FreeUser
  <2>2. \A v \in User : stage'[v] = stage[v] \/ Free(v)
    BY <1>1, <2>1
  <2> QED BY <2>2, TalkKept
<1> QED BY <1>3, <1>4 DEF TypeInv, TableType, NetType, net

\* A request whose caller has gone stays, as nobody's.
LEMMA TypeTalkUnmount ==
  ASSUME TypeInv, TalkInv, NEW u \in User, UnmountEarly(u)
  PROVE  /\ (TypeInv /\ TalkInv)' /\ Len(requests') = Len(requests)
         /\ \A i \in 1 .. Len(requests) : requests'[i].key = requests[i].key /\ requests'[i].at = requests[i].at
<1> DEFINE n == Len(requests)
<1>1. /\ UNCHANGED <<connected, pending, loops, wire, inbox, server, confirmed, unread, robbed, losses>>
      /\ stage' = [stage EXCEPT ![u] = Off] /\ stage \in [User -> Stage]
      /\ requests' = [i \in DOMAIN requests |->
            IF requests[i].by = u THEN [requests[i] EXCEPT !.by = Nobody] ELSE requests[i]]
  BY DEF UnmountEarly, net, TypeInv, TableType
<1>2. ASSUME NEW i \in 1 .. n
      PROVE  /\ requests'[i] \in Request /\ requests'[i].key = requests[i].key
             /\ requests'[i].at = requests[i].at /\ requests'[i].timer = requests[i].timer
             /\ requests'[i].by = IF requests[i].by = u THEN Nobody ELSE requests[i].by
             /\ requests[i].key \in Key
  <2>1. requests'[i] = IF requests[i].by = u THEN [requests[i] EXCEPT !.by = Nobody] ELSE requests[i]
    BY <1>1, Shape
  <2> QED BY <2>1, Shape DEF Request
<1>3. requests' \in [1 .. n -> Request]
  BY <1>1, <1>2, Shape
<1>4. requests' \in Seq(Request) /\ Len(requests') = n /\ DOMAIN requests' = 1 .. n /\ DOMAIN requests = 1 .. n
  BY <1>3, Shape, Made
<1>5. \A i \in 1 .. n : IsOpen(i)' <=> IsOpen(i)
  BY <1>2 DEF IsOpen
<1>6. Nobody \notin User
  BY SubscriptionsAssumption
<1>7. \A i \in 1 .. n : requests'[i].by \in User =>
          /\ requests'[i].by = requests[i].by
          /\ stage'[requests[i].by] = stage[requests[i].by]
  BY <1>1, <1>2, <1>6
<1>8. Asks'
  <2>1. ASSUME NEW i \in 1 .. n, IsOpen(i)', requests'[i].by \in User
        PROVE  /\ requests'[i].key[1] = "subscribe"
               /\ stage'[requests'[i].by] = [at |-> "asking", on |-> requests'[i].key[2]]
    BY <1>2, <1>5, <1>7, <2>1 DEF TalkInv, Asks
  <2>2. ASSUME NEW i \in 1 .. n, NEW j \in 1 .. n, IsOpen(i)', IsOpen(j)',
               requests'[i].by = requests'[j].by, requests'[i].by \in User
        PROVE  i = j
    BY <1>5, <1>7, <2>2 DEF TalkInv, Asks
  <2> QED BY <1>4, <2>1, <2>2 DEF Asks
<1>9. Entries' /\ Untimed' /\ NoneForgotten'
  <2>1. Entries'
    BY <1>1, <1>2, <1>4 DEF TalkInv, Entries
  <2>2. Untimed'
    BY <1>2, <1>4 DEF TalkInv, Untimed
  <2>3. NoneForgotten'
    BY <1>1, <1>2, <1>4 DEF TalkInv, NoneForgotten
  <2> QED BY <2>1, <2>2, <2>3
<1>10. TypeInv'
  BY <1>1, <1>4, UnmountDoes DEF TypeInv, TableType, NetType
<1> QED BY <1>2, <1>4, <1>8, <1>9, <1>10 DEF TalkInv

-----------------------------------------------------------------------------
(* What an answer, a timer, a loss and the rest do.                         *)

LEMMA HeadTail ==
  ASSUME NEW S, NEW q \in Seq(S), q # <<>>
  PROVE  /\ Head(q) \in S /\ Tail(q) \in Seq(S) /\ Len(Tail(q)) = Len(q) - 1 /\ Len(q) \in Nat \ {0}
         /\ Head(q) = q[1] /\ \A i \in 1 .. (Len(q) - 1) : Tail(q)[i] = q[i + 1]
OBVIOUS

LEMMA SettledNone ==
  ASSUME TypeInv, UNCHANGED <<requests, loops, stage, left>>, pending' \in [Key -> Nat], NEW outcome
  PROVE  Settled({}, outcome)
<1>1. \A p \in Pattern : Handlers(p)' = Handlers(p)
  BY DEF Handlers, Holders
<1>2. TableType'
  BY DEF TypeInv, TableType, Has
<1> QED BY <1>1, <1>2 DEF Settled

\* Whose promises an answer settles, a timer, the loss of the connection.
LEMMA ReceiveSettles ==
  ASSUME TypeInv, TalkInv, Receive
  PROVE  /\ inbox # <<>> /\ Head(inbox) \in Answer /\ Head(inbox).key \in Key
         /\ pending' = [pending EXCEPT ![Head(inbox).key] = 0]
         /\ inbox' = Tail(inbox) /\ UNCHANGED <<connected, wire, server, confirmed, unread, robbed, losses>>
         /\ LET i == pending[Head(inbox).key]
                is == IF i = 0 THEN {} ELSE {i}
            IN  /\ is \subseteq 1 .. Len(requests)
                /\ Settled(is, IF Head(inbox).ok THEN "resolved" ELSE "rejected")
<1>1. /\ inbox # <<>> /\ pending' = [pending EXCEPT ![Head(inbox).key] = 0]
      /\ inbox' = Tail(inbox) /\ UNCHANGED <<connected, wire, server, confirmed, unread, robbed, losses>>
  BY DEF Receive
<1>2. Head(inbox) \in Answer
  BY <1>1, HeadTail DEF TypeInv, NetType
<1>3. Head(inbox).key \in Key
  BY <1>2 DEF Answer
<1>4. pending \in [Key -> Nat] /\ pending' \in [Key -> Nat]
  BY <1>1 DEF TypeInv, TableType
<1>5. PICK i \in Nat : i = pending[Head(inbox).key]
  BY <1>3, <1>4
<1>6. CASE i = 0
  <2>1. UNCHANGED <<requests, loops, stage, left>>
    BY <1>5, <1>6 DEF Receive
  <2>2. Settled({}, IF Head(inbox).ok THEN "resolved" ELSE "rejected")
    BY <1>4, <2>1, SettledNone
  <2> QED BY <1>1, <1>2, <1>3, <1>5, <1>6, <2>2
<1>7. CASE i # 0
  <2>1. i \in 1 .. Len(requests)
    BY <1>3, <1>5, <1>7 DEF TalkInv, Entries
  <2>2. CASE Head(inbox).ok
    <3>1. Resolve(i)
      BY <1>5, <1>7, <2>2 DEF Receive
    <3>2. Settled({i}, "resolved")
      BY <1>4, <2>1, <3>1, ResolveDoes DEF TalkInv
    <3> QED BY <1>1, <1>2, <1>3, <1>5, <1>7, <2>1, <2>2, <3>2
  <2>3. CASE ~Head(inbox).ok
    <3>1. Reject({i}, {})
      BY <1>5, <1>7, <2>3 DEF Receive
    <3>2. Settled({i}, "rejected")
      BY <1>4, <2>1, <3>1, RejectDoes DEF TalkInv
    <3> QED BY <1>1, <1>2, <1>3, <1>5, <1>7, <2>1, <2>3, <3>2
  <2> QED BY <2>2, <2>3
<1> QED BY <1>6, <1>7

LEMMA TimerSettles ==
  ASSUME TypeInv, TalkInv, NEW i \in 1 .. Len(requests), TimerFires(i)
  PROVE  /\ requests[i].timer /\ requests[i].key \in Key
         /\ pending' = [pending EXCEPT ![requests[i].key] = 0]
         /\ robbed' = robbed \cup ({pending[requests[i].key]} \ {0, i})
         /\ UNCHANGED <<connected, wire, inbox, server, confirmed, unread, losses>>
         /\ Settled(IF pending[requests[i].key] = 0 THEN {} ELSE {i}, "rejected")
<1>1. /\ requests[i].timer /\ pending' = [pending EXCEPT ![requests[i].key] = 0]
      /\ robbed' = robbed \cup ({pending[requests[i].key]} \ {0, i})
      /\ UNCHANGED <<connected, wire, inbox, server, confirmed, unread, losses>>
      /\ Reject(IF pending[requests[i].key] = 0 THEN {} ELSE {i}, {i})
  BY DEF TimerFires, net
<1>2. requests[i].key \in Key /\ pending' \in [Key -> Nat]
  BY <1>1, Shape DEF TypeInv, TableType
<1>3. PICK is \in SUBSET (1 .. Len(requests)) : is = IF pending[requests[i].key] = 0 THEN {} ELSE {i}
  OBVIOUS
<1>4. Reject(is, {i})
  BY <1>1, <1>3
<1>5. Settled(is, "rejected")
  BY <1>2, <1>4, RejectDoes DEF TalkInv
<1> QED BY <1>1, <1>2, <1>3, <1>5

LostBy == {i \in 1 .. Len(requests) : requests[i].at = "sending" \/ pending[requests[i].key] = i}

LEMMA LoseSettles ==
  ASSUME TypeInv, TalkInv, Lose
  PROVE  /\ connected /\ ~connected' /\ losses' = losses + 1 /\ UNCHANGED <<robbed, confirmed>>
         /\ pending' = [k \in Key |-> 0]
         /\ wire' = <<>> /\ inbox' = <<>> /\ server' = {} /\ unread' = {}
         /\ Settled(LostBy, "rejected")
<1>1. /\ connected /\ ~connected' /\ losses' = losses + 1 /\ UNCHANGED <<robbed, confirmed>>
      /\ pending' = [k \in Key |-> 0]
      /\ wire' = <<>> /\ inbox' = <<>> /\ server' = {} /\ unread' = {}
      /\ Reject({i \in DOMAIN requests :
                 requests[i].at = "sending" \/ pending[requests[i].key] = i}, {})
  BY DEF Lose
<1>2. pending' \in [Key -> Nat]
  BY <1>1
<1>3. PICK is \in SUBSET (1 .. Len(requests)) : is = LostBy
  BY DEF LostBy
<1>4. is = {i \in DOMAIN requests : requests[i].at = "sending" \/ pending[requests[i].key] = i}
  BY <1>3, Shape DEF LostBy
<1>5. Reject(is, {})
  BY <1>1, <1>4
<1>6. Settled(is, "rejected")
  BY <1>2, <1>5, RejectDoes DEF TalkInv
<1> QED BY <1>1, <1>3, <1>6

LEMMA TypeTalkReceive ==
  ASSUME TypeInv, TalkInv, Receive
  PROVE  (TypeInv /\ TalkInv)'
<1> DEFINE k0 == Head(inbox).key
           i == pending[k0]
<1>1. PICK is : is = IF i = 0 THEN {} ELSE {i}
  OBVIOUS
<1>2. PICK o : o = IF Head(inbox).ok THEN "resolved" ELSE "rejected"
  OBVIOUS
<1>3. /\ inbox # <<>> /\ k0 \in Key /\ pending' = [pending EXCEPT ![k0] = 0]
      /\ inbox' = Tail(inbox) /\ UNCHANGED <<connected, wire, server, confirmed, unread, robbed, losses>>
      /\ is \in SUBSET (1 .. Len(requests)) /\ o \in {"resolved", "rejected"} /\ Settled(is, o)
  BY <1>1, <1>2, ReceiveSettles
<1>4. inbox' \in Seq(Answer) /\ pending \in [Key -> Nat]
  BY <1>3, HeadTail DEF TypeInv, NetType, TableType
<1>5. ASSUME NEW k \in Key
      PROVE  /\ pending'[k] \in {0, pending[k]}
             /\ pending'[k] # 0 => pending[k] \notin is
             /\ pending[k] # 0 /\ pending'[k] = 0 => pending[k] \in is \cup robbed'
  <2>1. CASE k = k0
    BY <1>1, <1>3, <1>4, <2>1
  <2>2. CASE k # k0
    <3>1. pending'[k] = pending[k]
      BY <1>3, <1>4, <2>2
    <3>2. pending[k] # 0 /\ i # 0 => pending[k] # i
      BY <1>3, <2>2 DEF TalkInv, Entries
    <3> QED BY <1>1, <3>1, <3>2
  <2> QED BY <2>1, <2>2
<1>6. TalkInv'
  <2>1. robbed \subseteq robbed' /\ is \in SUBSET (1 .. Len(requests)) /\ Settled(is, o)
    BY <1>3
  <2>2. o \in {"resolved", "rejected"}
    BY <1>3
  <2> QED BY <1>5, <2>1, <2>2, TalkSettled
<1>7. TypeInv'
  BY <1>3, <1>4 DEF TypeInv, NetType, Settled
<1> QED BY <1>6, <1>7

LEMMA TypeTalkTimer ==
  ASSUME TypeInv, TalkInv, NEW i \in 1 .. Len(requests), TimerFires(i)
  PROVE  (TypeInv /\ TalkInv)'
<1> DEFINE k0 == requests[i].key
<1>1. PICK is : is = IF pending[k0] = 0 THEN {} ELSE {i}
  OBVIOUS
<1>2. /\ k0 \in Key /\ pending' = [pending EXCEPT ![k0] = 0]
      /\ robbed' = robbed \cup ({pending[k0]} \ {0, i})
      /\ UNCHANGED <<connected, wire, inbox, server, confirmed, unread, losses>>
      /\ Settled(is, "rejected")
  BY <1>1, TimerSettles
<1>3. pending \in [Key -> Nat] /\ is \in SUBSET (1 .. Len(requests))
  BY <1>1 DEF TypeInv, TableType
<1>4. ASSUME NEW k \in Key
      PROVE  /\ pending'[k] \in {0, pending[k]}
             /\ pending'[k] # 0 => pending[k] \notin is
             /\ pending[k] # 0 /\ pending'[k] = 0 => pending[k] \in is \cup robbed'
  <2>1. CASE k = k0
    BY <1>1, <1>2, <1>3, <2>1
  <2>2. CASE k # k0
    <3>1. pending'[k] = pending[k]
      BY <1>2, <1>3, <2>2
    <3>2. pending[k] # 0 => pending[k] # i
      BY <2>2 DEF TalkInv, Entries
    <3> QED BY <1>1, <3>1, <3>2
  <2> QED BY <2>1, <2>2
<1>5. TalkInv'
  <2>1. robbed \subseteq robbed'
    BY <1>2
  <2> QED BY <1>2, <1>3, <1>4, <2>1, TalkSettled
<1>6. robbed' \subseteq Nat
  BY <1>2, <1>3 DEF TypeInv
<1>7. TypeInv'
  BY <1>2, <1>6 DEF TypeInv, NetType, Settled
<1> QED BY <1>5, <1>7

LEMMA TypeTalkLose ==
  ASSUME TypeInv, TalkInv, Lose
  PROVE  (TypeInv /\ TalkInv)'
<1>1. PICK is : is = LostBy
  OBVIOUS
<1>2. /\ ~connected' /\ losses' = losses + 1 /\ UNCHANGED <<robbed, confirmed>>
      /\ pending' = [k \in Key |-> 0]
      /\ wire' = <<>> /\ inbox' = <<>> /\ server' = {} /\ unread' = {}
      /\ Settled(is, "rejected") /\ is \in SUBSET (1 .. Len(requests))
  BY <1>1, LoseSettles DEF LostBy
<1>3. \A k \in Key : pending[k] # 0 => pending[k] \in is
  BY <1>1 DEF TalkInv, Entries, LostBy
<1>4. \A k \in Key : pending'[k] = 0
  BY <1>2
<1>5. TalkInv'
  BY <1>2, <1>3, <1>4, TalkSettled
<1>6. connected' \in BOOLEAN
  BY DEF Lose
<1>7. wire' \in Seq(Key) /\ inbox' \in Seq(Answer)
  BY <1>2
<1>8. TypeInv'
  BY <1>2, <1>6, <1>7 DEF TypeInv, NetType, Settled
<1> QED BY <1>5, <1>8

LEMMA WrittenDoes ==
  ASSUME TypeInv, NEW i \in 1 .. Len(requests), Written(i)
  PROVE  /\ requests[i].at = "sending" /\ \A j \in 1 .. (i - 1) : requests[j].at # "sending"
         /\ requests' \in Seq(Request) /\ Len(requests') = Len(requests)
         /\ \A j \in 1 .. Len(requests) :
               /\ requests'[j].key = requests[j].key /\ requests'[j].by = requests[j].by
               /\ requests'[j].at = IF j = i THEN "waiting" ELSE requests[j].at
               /\ requests'[j].timer = IF j = i THEN TRUE ELSE requests[j].timer
         /\ requests[i].key \in Key
         /\ robbed' = robbed \cup ({pending[requests[i].key]} \ {0})
         /\ pending' = [pending EXCEPT ![requests[i].key] = i]
         /\ wire' = Append(wire, requests[i].key)
         /\ UNCHANGED <<connected, stage, left, loops, inbox, server, confirmed, unread, losses>>
<1>1. /\ requests[i].at = "sending" /\ \A j \in 1 .. (i - 1) : requests[j].at # "sending"
      /\ requests' = [requests EXCEPT ![i].at = "waiting", ![i].timer = TRUE]
      /\ robbed' = robbed \cup ({pending[requests[i].key]} \ {0})
      /\ pending' = [pending EXCEPT ![requests[i].key] = i]
      /\ wire' = Append(wire, requests[i].key)
      /\ UNCHANGED <<connected, stage, left, loops, inbox, server, confirmed, unread, losses>>
  BY DEF Written
<1> DEFINE r == [requests[i] EXCEPT !.at = "waiting", !.timer = TRUE]
<1>2. r \in Request /\ r.key = requests[i].key /\ r.by = requests[i].by /\ r.at = "waiting" /\ r.timer = TRUE
  BY Shape DEF Request
<1>3. requests \in Seq(Request) /\ requests' = [requests EXCEPT ![i] = r]
  BY <1>1 DEF TypeInv, TableType
<1> HIDE DEF r
<1>4. /\ requests' \in Seq(Request) /\ Len(requests') = Len(requests)
      /\ \A j \in 1 .. Len(requests) : requests'[j] = IF j = i THEN r ELSE requests[j]
  BY <1>2, <1>3
<1> QED BY <1>1, <1>2, <1>4, Shape

LEMMA TypeTalkWritten ==
  ASSUME TypeInv, TalkInv, NEW i \in 1 .. Len(requests), Written(i)
  PROVE  (TypeInv /\ TalkInv)'
<1> DEFINE n == Len(requests)
           k0 == requests[i].key
<1>0. /\ requests[i].at = "sending"
      /\ requests' \in Seq(Request) /\ Len(requests') = n
      /\ \A j \in 1 .. n :
            /\ requests'[j].key = requests[j].key /\ requests'[j].by = requests[j].by
            /\ requests'[j].at = IF j = i THEN "waiting" ELSE requests[j].at
            /\ requests'[j].timer = IF j = i THEN TRUE ELSE requests[j].timer
  BY WrittenDoes
<1>1. /\ requests[i].at = "sending"
      /\ requests' \in Seq(Request) /\ Len(requests') = n /\ n \in Nat
      /\ DOMAIN requests' = 1 .. n /\ DOMAIN requests = 1 .. n
      /\ \A j \in 1 .. n :
            /\ requests'[j].key = requests[j].key /\ requests'[j].by = requests[j].by
            /\ requests'[j].at = IF j = i THEN "waiting" ELSE requests[j].at
            /\ requests'[j].timer = IF j = i THEN TRUE ELSE requests[j].timer
            /\ requests[j].key \in Key
  <2>1. n \in Nat /\ DOMAIN requests = 1 .. n /\ \A j \in 1 .. n : requests[j].key \in Key
    BY Shape
  <2>2. DOMAIN requests' = 1 .. n
    <3>1. requests' \in Seq(Request) /\ Len(requests') = n
      BY <1>0
    <3> HIDE DEF n
    <3> QED BY <3>1
  <2> QED BY <1>0, <2>1, <2>2
<1>2. /\ k0 \in Key /\ robbed' = robbed \cup ({pending[k0]} \ {0})
      /\ pending' = [pending EXCEPT ![k0] = i] /\ wire' = Append(wire, k0)
      /\ UNCHANGED <<connected, stage, left, loops, inbox, server, confirmed, unread, losses>>
  BY WrittenDoes
<1>3. pending \in [Key -> Nat]
  BY DEF TypeInv, TableType
<1>4. \A j \in 1 .. n : IsOpen(j)' <=> IsOpen(j)
  BY <1>1 DEF IsOpen
<1>5. \A k \in Key : pending'[k] = IF k = k0 THEN i ELSE pending[k]
  BY <1>2, <1>3
<1>6. Entries'
  <2> SUFFICES ASSUME NEW k \in Key, pending'[k] # 0
               PROVE  /\ pending'[k] \in 1 .. Len(requests')
                      /\ requests'[pending'[k]].key = k /\ requests'[pending'[k]].at = "waiting"
    BY DEF Entries
  <2>1. CASE k = k0
    BY <1>1, <1>5, <2>1
  <2>2. CASE k # k0
    <3>1. /\ pending'[k] = pending[k] /\ pending[k] \in 1 .. n
          /\ requests[pending[k]].key = k /\ requests[pending[k]].at = "waiting"
      BY <1>5, <2>2 DEF TalkInv, Entries
    <3> QED BY <1>1, <3>1
  <2> QED BY <2>1, <2>2
<1>7. Untimed'
  BY <1>1 DEF TalkInv, Untimed
<1>8. Asks'
  <2>1. ASSUME NEW j \in 1 .. n, IsOpen(j)', requests'[j].by \in User
        PROVE  /\ requests'[j].key[1] = "subscribe"
               /\ stage'[requests'[j].by] = [at |-> "asking", on |-> requests'[j].key[2]]
    <3>1. requests'[j].by = requests[j].by /\ requests'[j].key = requests[j].key /\ IsOpen(j)
      BY <1>1, <1>4, <2>1
    <3>2. requests[j].key[1] = "subscribe" /\ stage[requests[j].by] = [at |-> "asking", on |-> requests[j].key[2]]
      BY <2>1, <3>1 DEF TalkInv, Asks
    <3> QED BY <1>2, <3>1, <3>2
  <2>2. ASSUME NEW h \in 1 .. n, NEW j \in 1 .. n, IsOpen(h)', IsOpen(j)',
               requests'[h].by = requests'[j].by, requests'[h].by \in User
        PROVE  h = j
    BY <1>1, <1>4, <2>2 DEF TalkInv, Asks
  <2> QED BY <1>1, <2>1, <2>2 DEF Asks
<1>9. NoneForgotten'
  <2> SUFFICES ASSUME NEW j \in 1 .. n, requests'[j].at = "waiting"
               PROVE  pending'[requests'[j].key] = j \/ j \in robbed'
    BY <1>1 DEF NoneForgotten
  <2>1. CASE j = i
    BY <1>1, <1>5, <2>1
  <2>2. CASE j # i
    <3>1. pending[requests[j].key] = j \/ j \in robbed
      BY <1>1, <2>2 DEF TalkInv, NoneForgotten
    <3>2. j # 0
      OBVIOUS
    <3> QED BY <1>1, <1>2, <1>5, <3>1, <3>2
  <2> QED BY <2>1, <2>2
<1>10. TypeInv'
  <2>1. wire' \in Seq(Key) /\ robbed' \subseteq Nat
    <3>1. pending[k0] \in Nat /\ wire \in Seq(Key) /\ robbed \subseteq Nat
      BY <1>2, <1>3 DEF TypeInv, NetType
    <3>2. PICK k \in Key : k = k0
      BY <1>2
    <3>3. wire' = Append(wire, k)
      BY <1>2, <3>2
    <3>4. wire' \in Seq(Key)
      BY <3>1, <3>3
    <3> QED BY <1>2, <3>1, <3>4
  <2>2. pending' \in [Key -> Nat]
    BY <1>2, <1>3
  <2> QED BY <1>1, <1>2, <2>1, <2>2 DEF TypeInv, TableType, NetType, Has
<1> QED BY <1>6, <1>7, <1>8, <1>9, <1>10 DEF TalkInv

LEMMA TypeTalkServe ==
  ASSUME TypeInv, TalkInv, Serve
  PROVE  (TypeInv /\ TalkInv)'
<1>1. /\ wire # <<>> /\ wire' = Tail(wire)
      /\ UNCHANGED <<connected, stage, left, requests, pending, loops, robbed, losses>>
  BY DEF Serve, tables
<1>2. Head(wire) \in Key /\ wire' \in Seq(Key)
  BY <1>1, HeadTail DEF TypeInv, NetType
<1>3. Head(wire)[2] \in Pattern
  BY <1>2, Keys
<1>4. PICK ok \in BOOLEAN : ok = (Head(wire)[1] = "unsubscribe" \/ Head(wire)[2] \in Granted)
  OBVIOUS
<1>5. /\ server' \in {server, server \cup {Head(wire)[2]}, server \ {Head(wire)[2]}}
      /\ confirmed' = IF ok THEN [confirmed EXCEPT ![Head(wire)] = @ + 1] ELSE confirmed
      /\ inbox' \in {inbox, Append(inbox, [key |-> Head(wire), ok |-> ok])}
      /\ unread' = unread \ {Head(wire)[2]}
  BY <1>4 DEF Serve
<1>6. server' \subseteq Pattern /\ unread' \subseteq Pattern
  BY <1>3, <1>5 DEF TypeInv, NetType
<1>7. confirmed' \in [Key -> Nat]
  BY <1>2, <1>5 DEF TypeInv, NetType
<1>8. inbox' \in Seq(Answer)
  <2>1. [key |-> Head(wire), ok |-> ok] \in Answer
    BY <1>2 DEF Answer
  <2>2. PICK a \in Answer : a = [key |-> Head(wire), ok |-> ok]
    BY <2>1
  <2>3. inbox' \in {inbox, Append(inbox, a)} /\ inbox \in Seq(Answer)
    BY <1>5, <2>2 DEF TypeInv, NetType
  <2> QED BY <2>3
<1>9. TalkInv'
  BY <1>1, TalkKept
<1> QED BY <1>1, <1>2, <1>6, <1>7, <1>8, <1>9 DEF TypeInv, TableType, NetType, Has

LEMMA TypeTalkGarble ==
  ASSUME TypeInv, TalkInv, GarbleRequests
  PROVE  (TypeInv /\ TalkInv)'
<1>1. /\ wire # <<>> /\ wire' = Tail(wire) /\ unread' = unread \cup {Head(wire)[2]}
      /\ UNCHANGED <<connected, stage, left, requests, pending, loops, inbox, server, confirmed, robbed, losses>>
  BY DEF GarbleRequests, tables
<1>2. Head(wire) \in Key /\ wire' \in Seq(Key)
  BY <1>1, HeadTail DEF TypeInv, NetType
<1>3. unread' \subseteq Pattern
  BY <1>1, <1>2, Keys DEF TypeInv, NetType
<1>4. TalkInv'
  BY <1>1, TalkKept
<1> QED BY <1>1, <1>2, <1>3, <1>4 DEF TypeInv, TableType, NetType, Has

ConnectDoes ==
    /\ ~connected /\ connected'
    /\ loops' \in Seq(Loop) /\ Len(loops') = Len(loops) + 1
    /\ \A n \in 1 .. Len(loops) : loops'[n] = loops[n]
    /\ loops'[Len(loops) + 1].todo = {p \in Pattern : Handlers(p) > 0}
    /\ loops'[Len(loops) + 1].at = "next"
    /\ UNCHANGED <<stage, left, requests, pending, wire, inbox, server, confirmed, unread, robbed, losses>>

LEMMA TypeTalkConnect ==
  ASSUME TypeInv, TalkInv, Connect
  PROVE  (TypeInv /\ TalkInv)' /\ ConnectDoes
<1> DEFINE l == [todo |-> {p \in Pattern : Handlers(p) > 0}, at |-> "next"]
<1>1. /\ ~connected /\ connected' = TRUE /\ loops' = Append(loops, l)
      /\ UNCHANGED <<stage, left, requests, pending, wire, inbox, server, confirmed, unread, robbed, losses>>
  BY DEF Connect, net
<1>2. l \in Loop /\ l.todo = {p \in Pattern : Handlers(p) > 0} /\ l.at = "next" /\ loops \in Seq(Loop)
  BY DEF Loop, TypeInv, TableType
<1> HIDE DEF l
<1>3. /\ loops' \in Seq(Loop) /\ Len(loops') = Len(loops) + 1 /\ loops'[Len(loops) + 1] = l
      /\ \A n \in 1 .. Len(loops) : loops'[n] = loops[n]
  BY <1>1, <1>2
<1>4. TalkInv'
  BY <1>1, TalkKept
<1>5. TypeInv'
  BY <1>1, <1>3 DEF TypeInv, TableType, NetType, Has
<1> QED BY <1>1, <1>2, <1>3, <1>4, <1>5 DEF ConnectDoes

LoopAsksDoes(n, p) ==
    /\ connected /\ loops[n].at = "next" /\ p \in loops[n].todo /\ Added(<<"subscribe", p>>, n)
    /\ loops' \in Seq(Loop) /\ Len(loops') = Len(loops)
    /\ \A m \in 1 .. Len(loops) : m # n => loops'[m] = loops[m]
    /\ loops'[n].todo = loops[n].todo \ {p} /\ loops'[n].at = "waiting"
    /\ UNCHANGED <<connected, stage, left, pending, wire, inbox, server, confirmed, unread, robbed, losses>>

LEMMA TypeTalkLoopAsks ==
  ASSUME TypeInv, TalkInv, NEW n \in 1 .. Len(loops), NEW p \in Pattern, LoopAsks(n, p)
  PROVE  (TypeInv /\ TalkInv)' /\ LoopAsksDoes(n, p)
<1> DEFINE l == [todo |-> loops[n].todo \ {p}, at |-> "waiting"]
<1>1. /\ connected /\ loops[n].at = "next" /\ p \in loops[n].todo /\ Asked(<<"subscribe", p>>, n)
      /\ loops' = [loops EXCEPT ![n] = [todo |-> @.todo \ {p}, at |-> "waiting"]]
      /\ UNCHANGED <<connected, stage, left, pending, wire, inbox, server, confirmed, unread, robbed, losses>>
  BY DEF LoopAsks, net
<1>2. loops' = [loops EXCEPT ![n] = l] /\ l \in Loop /\ l.todo = loops[n].todo \ {p} /\ l.at = "waiting"
  BY <1>1, Shape DEF Loop
<1> HIDE DEF l
<1>3. /\ loops' \in Seq(Loop) /\ Len(loops') = Len(loops) /\ loops'[n] = l
      /\ \A m \in 1 .. Len(loops) : m # n => loops'[m] = loops[m]
  BY <1>2, LoopGoes
<1>4. PICK k \in Key : k = <<"subscribe", p>>
  BY KeyOf
<1>5. n \in Nat /\ n \notin User
  BY Shape, SubscriptionsAssumption
<1>6. Added(k, n)
  BY <1>1, <1>4, <1>5, AskedDoes
<1>7. TalkInv'
  BY <1>1, <1>5, <1>6, TalkGrows
<1>8. TypeInv'
  BY <1>1, <1>3, <1>6, <1>7 DEF TypeInv, TableType, NetType, Added, Has
<1> QED BY <1>1, <1>2, <1>3, <1>4, <1>6, <1>7, <1>8 DEF LoopAsksDoes

LoopEndsDoes(n) ==
    /\ loops[n].todo = {} \/ ~connected
    /\ loops' \in Seq(Loop) /\ Len(loops') = Len(loops)
    /\ \A m \in 1 .. Len(loops) : m # n => loops'[m] = loops[m]
    /\ loops'[n].todo = {} /\ loops'[n].at = "done"
    /\ UNCHANGED <<connected, stage, left, requests, pending, wire, inbox, server, confirmed, unread, robbed, losses>>

LEMMA TypeTalkLoopEnds ==
  ASSUME TypeInv, TalkInv, NEW n \in 1 .. Len(loops), LoopEnds(n)
  PROVE  (TypeInv /\ TalkInv)' /\ LoopEndsDoes(n)
<1> DEFINE l == [todo |-> {}, at |-> "done"]
<1>1. /\ loops[n].todo = {} \/ ~connected
      /\ loops' = [loops EXCEPT ![n] = l]
      /\ UNCHANGED <<connected, stage, left, requests, pending, wire, inbox, server, confirmed, unread, robbed, losses>>
  BY DEF LoopEnds, net
<1>2. l \in Loop /\ l.todo = {} /\ l.at = "done"
  BY DEF Loop
<1> HIDE DEF l
<1>3. /\ loops' \in Seq(Loop) /\ Len(loops') = Len(loops) /\ loops'[n] = l
      /\ \A m \in 1 .. Len(loops) : m # n => loops'[m] = loops[m]
  BY <1>1, <1>2, LoopGoes
<1>4. TalkInv'
  BY <1>1, TalkKept
<1>5. TypeInv'
  BY <1>1, <1>3 DEF TypeInv, TableType, NetType, Has
<1> QED BY <1>1, <1>2, <1>3, <1>4, <1>5 DEF LoopEndsDoes

-----------------------------------------------------------------------------
(* Types, and that no promise is forgotten.                                 *)

Inv == TypeInv /\ TalkInv

LEMMA InitInv == Init => Inv
<1> SUFFICES ASSUME Init
             PROVE  Inv
  OBVIOUS
<1>1. /\ requests = <<>> /\ loops = <<>> /\ wire = <<>> /\ inbox = <<>>
      /\ \A k \in Key : pending[k] = 0
  BY DEF Init
<1>2. Len(requests) = 0 /\ DOMAIN requests = {}
  BY <1>1
<1>3. TalkInv
  BY <1>1, <1>2 DEF TalkInv, Entries, Untimed, Asks, NoneForgotten
<1>4. Off \in Stage /\ Off.at = "none"
  BY DEF Off, Stage
<1>5. stage \in [User -> Stage] /\ \A u \in User : stage[u].at = "none"
  BY <1>4 DEF Init
<1>6. \A u \in User : ~Has(u)
  BY <1>5 DEF Has
<1>7. TypeInv
  <2>1. TableType
    <3>1. left \in [Pattern -> Nat] /\ pending \in [Key -> Nat]
      BY DEF Init
    <3>2. requests \in Seq(Request) /\ loops \in Seq(Loop)
      BY <1>1
    <3> QED BY <1>5, <1>6, <3>1, <3>2 DEF TableType
  <2>2. NetType
    <3>1. confirmed \in [Key -> Nat] /\ server = {} /\ unread = {}
      BY DEF Init
    <3> QED BY <1>1, <3>1 DEF NetType
  <2> QED BY <2>1, <2>2 DEF Init, TypeInv
<1> QED BY <1>3, <1>7 DEF Inv

LEMMA StepInv == Inv /\ [Next]_vars => Inv'
<1> SUFFICES ASSUME Inv, [Next]_vars
             PROVE  Inv'
  OBVIOUS
<1>0. TypeInv /\ TalkInv /\ DOMAIN requests = 1 .. Len(requests) /\ DOMAIN loops = 1 .. Len(loops)
  BY Shape DEF Inv
<1>1. ASSUME NEW u \in User, Acts(u)
      PROVE  Inv'
  <2>1. ASSUME NEW p \in Uses[u], CallerSubscribes(u, p)
        PROVE  Inv'
    <3>1. p \in Pattern
      BY SubscriptionsAssumption
    <3> QED BY <1>0, <2>1, <3>1, TypeTalkSubscribe DEF CallerSubscribes, Inv
  <2>2. ASSUME NEW p \in Uses[u], Mount(u, p)
        PROVE  Inv'
    <3>1. p \in Pattern /\ stage[u] = Off
      BY <2>2, SubscriptionsAssumption DEF Mount
    <3>2. CASE connected
      BY <1>0, <2>2, <3>1, <3>2, TypeTalkSubscribe DEF Mount, Inv
    <3>3. CASE ~connected
      BY <1>0, <2>2, <3>1, <3>3, TypeTalkMounted DEF Mount, Inv
    <3> QED BY <3>2, <3>3
  <2>3. CASE Unsubscribe(u)
    BY <1>0, <2>3, TypeTalkUnsubscribe DEF Inv
  <2>4. CASE UnmountEarly(u)
    BY <1>0, <2>4, TypeTalkUnmount DEF Inv
  <2> QED BY <1>1, <2>1, <2>2, <2>3, <2>4 DEF Acts
<1>2. ASSUME NEW i \in 1 .. Len(requests), Written(i)
      PROVE  Inv'
  BY <1>0, <1>2, TypeTalkWritten DEF Inv
<1>3. ASSUME NEW i \in 1 .. Len(requests), TimerFires(i)
      PROVE  Inv'
  BY <1>0, <1>3, TypeTalkTimer DEF Inv
<1>4. CASE Serve
  BY <1>0, <1>4, TypeTalkServe DEF Inv
<1>11. CASE GarbleRequests
  BY <1>0, <1>11, TypeTalkGarble DEF Inv
<1>5. CASE Receive
  BY <1>0, <1>5, TypeTalkReceive DEF Inv
<1>6. CASE Connect
  BY <1>0, <1>6, TypeTalkConnect DEF Inv
<1>7. CASE Lose
  BY <1>0, <1>7, TypeTalkLose DEF Inv
<1>8. ASSUME NEW n \in 1 .. Len(loops), LoopEnds(n)
      PROVE  Inv'
  BY <1>0, <1>8, TypeTalkLoopEnds DEF Inv
<1>9. ASSUME NEW n \in 1 .. Len(loops), NEW p \in Pattern, LoopAsks(n, p)
      PROVE  Inv'
  BY <1>0, <1>9, TypeTalkLoopAsks DEF Inv
<1>10. CASE UNCHANGED vars
  <2>1. TalkInv'
    BY <1>0, <1>10, TalkKept DEF vars, tables
  <2> QED BY <1>0, <1>10, <2>1 DEF vars, tables, net, Inv, TypeInv, TableType, NetType, Has
<1> QED BY <1>0, <1>1, <1>2, <1>3, <1>4, <1>5, <1>6, <1>7, <1>8, <1>9, <1>10, <1>11 DEF Next

(* The types of the table, the requests, the loops and the queues, and that  *)
(* whoever has a handler has a pattern (client.ts:60-75, 283-321).           *)
THEOREM TypeCorrect == Spec => []TypeInv
BY InitInv, StepInv, PTL DEF Spec, Inv

(* NoneForgotten (client.ts:283-311, 403-429, 577-586): a request that waits *)
(* has its entry, or lost it to another request for the same name, through   *)
(* timers that are never cleared, late answers, losses and reconnections.    *)
THEOREM NoRequestForgotten == Spec => []NoneForgotten
<1>1. Inv => NoneForgotten
  BY DEF Inv, TalkInv
<1> QED BY <1>1, InitInv, StepInv, PTL DEF Spec

-----------------------------------------------------------------------------
(* How often a message is in a queue, and what has resolved.                *)

LEMMA WhereFinite ==
  ASSUME NEW S, NEW q \in Seq(S), NEW m
  PROVE  IsFiniteSet(Where(q, m)) /\ Cardinality(Where(q, m)) \in Nat
<1>1. IsFiniteSet(1 .. Len(q)) /\ Where(q, m) \subseteq 1 .. Len(q)
  BY FS_Interval DEF Where
<1> QED BY <1>1, FS_Subset, FS_CardinalityType

LEMMA CardOneMore ==
  ASSUME NEW S, IsFiniteSet(S), NEW c, NEW T \in SUBSET (S \cup {c})
  PROVE  IsFiniteSet(T) /\ Cardinality(T) \in Nat /\ Cardinality(T) <= Cardinality(S) + 1
<1>1. /\ IsFiniteSet(S \cup {c}) /\ Cardinality(S) \in Nat
      /\ Cardinality(S \cup {c}) \in Nat /\ Cardinality(S \cup {c}) <= Cardinality(S) + 1
  BY FS_AddElement, FS_CardinalityType
<1>2. IsFiniteSet(T) /\ Cardinality(T) \in Nat /\ Cardinality(T) <= Cardinality(S \cup {c})
  BY <1>1, FS_Subset, FS_CardinalityType
<1> QED BY <1>1, <1>2

LEMMA WhereAppend ==
  ASSUME NEW S, NEW q \in Seq(S), NEW e \in S, NEW m
  PROVE  Cardinality(Where(Append(q, e), m)) <= Cardinality(Where(q, m)) + (IF e = m THEN 1 ELSE 0)
<1>1. /\ Append(q, e) \in Seq(S) /\ Len(Append(q, e)) = Len(q) + 1 /\ Len(q) \in Nat
      /\ \A i \in 1 .. Len(q) : Append(q, e)[i] = q[i]
      /\ Append(q, e)[Len(q) + 1] = e
  OBVIOUS
<1>2. CASE e = m
  <2>1. Where(Append(q, e), m) \subseteq Where(q, m) \cup {Len(q) + 1}
    BY <1>1 DEF Where
  <2> QED BY <1>2, <2>1, CardOneMore, WhereFinite
<1>3. CASE e # m
  <2>1. Where(Append(q, e), m) \subseteq Where(q, m)
    BY <1>1, <1>3 DEF Where
  <2> QED BY <1>3, <2>1, FS_Subset, WhereFinite
<1> QED BY <1>2, <1>3

\* The tail holds as many, without the head.
LEMMA WhereTail ==
  ASSUME NEW S, NEW q \in Seq(S), q # <<>>, NEW m
  PROVE  Cardinality(Where(Tail(q), m)) + (IF Head(q) = m THEN 1 ELSE 0) <= Cardinality(Where(q, m))
<1> DEFINE T == Where(q, m) \ {1}
           R == Where(Tail(q), m)
           f == [i \in R |-> i + 1]
<1>1. /\ Tail(q) \in Seq(S) /\ Len(Tail(q)) = Len(q) - 1 /\ Len(q) \in Nat \ {0}
      /\ Head(q) = q[1] /\ \A i \in 1 .. Len(Tail(q)) : Tail(q)[i] = q[i + 1]
  BY HeadTail
<1>2. IsFiniteSet(Where(q, m)) /\ Cardinality(Where(q, m)) \in Nat /\ IsFiniteSet(R) /\ Cardinality(R) \in Nat
  BY <1>1, WhereFinite
<1>3. IsFiniteSet(T)
  BY <1>2, FS_Subset
<1>4. f \in Injection(R, T)
  <2>1. \A i \in R : i \in Nat /\ i + 1 \in T
    BY <1>1 DEF Where
  <2>2. f \in [R -> T]
    BY <2>1
  <2>3. \A i, j \in R : f[i] = f[j] => i = j
    BY <2>1
  <2> QED BY <2>2, <2>3 DEF Injection, IsInjective
<1>5. 1 \in Where(q, m) <=> Head(q) = m
  BY <1>1 DEF Where
<1>6. 1 \in Where(q, m) => Cardinality(T) = Cardinality(Where(q, m)) - 1
  BY <1>2, FS_RemoveElement
<1>7. 1 \notin Where(q, m) => T = Where(q, m)
  OBVIOUS
<1> HIDE DEF f, T, R
<1>8. Cardinality(R) <= Cardinality(T)
  BY <1>3, <1>4, FS_Injection
<1> QED BY <1>2, <1>5, <1>6, <1>7, <1>8 DEF R

-----------------------------------------------------------------------------
LEMMA ResolvedFinite ==
  ASSUME TypeInv, NEW k
  PROVE  IsFiniteSet(Resolved(k)) /\ Cardinality(Resolved(k)) \in Nat
<1>1. Resolved(k) \subseteq 1 .. Len(requests) /\ IsFiniteSet(1 .. Len(requests))
  BY Shape, FS_Interval DEF Resolved
<1> QED BY <1>1, FS_Subset, FS_CardinalityType

\* The accounts of a key, when no request of it resolves but what an answer
\* pays for.
LEMMA AccountKept ==
  ASSUME TypeInv, NEW k \in Key, TypeInv',
         Cardinality(Resolved(k)) + Cardinality(Where(inbox, Ok(k))) <= confirmed[k],
         Resolved(k)' \subseteq Resolved(k),
         UNCHANGED <<inbox, confirmed>>
  PROVE  Cardinality(Resolved(k)') + Cardinality(Where(inbox', Ok(k))) <= confirmed'[k]
<1> DEFINE R == Resolved(k)
           S == Resolved(k)'
           w == Cardinality(Where(inbox, Ok(k)))
<1>1. IsFiniteSet(R) /\ Cardinality(R) \in Nat /\ S \subseteq R
  BY ResolvedFinite
<1>2. w \in Nat /\ confirmed[k] \in Nat
  BY WhereFinite DEF TypeInv, NetType
<1>3. Cardinality(R) + w <= confirmed[k] /\ confirmed' = confirmed /\ w = Cardinality(Where(inbox', Ok(k)))
  OBVIOUS
<1> HIDE DEF R, S, w
<1>4. Cardinality(S) \in Nat /\ Cardinality(S) <= Cardinality(R)
  BY <1>1, FS_Subset, FS_CardinalityType
<1>5. Cardinality(S) + w <= confirmed'[k]
  BY <1>1, <1>2, <1>3, <1>4
<1> QED BY <1>3, <1>5 DEF S

LEMMA AccountsKept ==
  ASSUME TypeInv, TypeInv', Accounts,
         \A k \in Key : Resolved(k)' \subseteq Resolved(k),
         UNCHANGED <<inbox, confirmed>>
  PROVE  Accounts'
<1> SUFFICES ASSUME NEW k \in Key
             PROVE  Cardinality(Resolved(k)') + Cardinality(Where(inbox', Ok(k))) <= confirmed'[k]
  BY DEF Accounts, Where, Ok
<1> QED BY AccountKept DEF Accounts

LEMMA AccountsGrow ==
  ASSUME TypeInv, TypeInv', Accounts, NEW key, NEW by, Added(key, by), UNCHANGED <<inbox, confirmed>>
  PROVE  Accounts'
<1>1. ASSUME NEW k \in Key
      PROVE  Resolved(k)' \subseteq Resolved(k)
  <2> SUFFICES ASSUME NEW i \in 1 .. Len(requests'), requests'[i].key = k, requests'[i].at = "resolved"
               PROVE  i \in 1 .. Len(requests) /\ requests[i].key = k /\ requests[i].at = "resolved"
    BY Shape DEF Resolved, TypeInv, TableType
  <2>1. Len(requests) \in Nat /\ Len(requests') = Len(requests) + 1
    BY Shape DEF Added
  <2>2. i # Len(requests) + 1
    BY DEF Added
  <2>3. i \in 1 .. Len(requests)
    BY <2>1, <2>2
  <2> QED BY <2>3 DEF Added
<1> QED BY <1>1, AccountsKept

LEMMA AccountsStill ==
  ASSUME TypeInv, TypeInv', Accounts, UNCHANGED <<requests, inbox, confirmed>>
  PROVE  Accounts'
<1>1. \A k \in Key : Resolved(k)' \subseteq Resolved(k)
  BY DEF Resolved
<1> QED BY <1>1, AccountsKept

LEMMA AccountsAlike ==
  ASSUME TypeInv, TypeInv', Accounts, UNCHANGED <<inbox, confirmed>>, Len(requests') = Len(requests),
         \A i \in 1 .. Len(requests) :
            requests'[i].key = requests[i].key /\ (requests'[i].at = "resolved" => requests[i].at = "resolved")
  PROVE  Accounts'
<1>1. ASSUME NEW k \in Key
      PROVE  Resolved(k)' \subseteq Resolved(k)
  <2>1. DOMAIN requests' = 1 .. Len(requests') /\ DOMAIN requests = 1 .. Len(requests)
    BY DEF TypeInv, TableType
  <2> QED BY <2>1 DEF Resolved
<1> QED BY <1>1, AccountsKept

LEMMA AccountsServe ==
  ASSUME TypeInv, TypeInv', Accounts, Serve
  PROVE  Accounts'
<1>1. wire # <<>> /\ UNCHANGED requests
  BY DEF Serve, tables
<1>2. PICK k0 \in Key : k0 = Head(wire)
  BY <1>1, HeadTail DEF TypeInv, NetType
<1>3. PICK ok \in BOOLEAN : ok = (Head(wire)[1] = "unsubscribe" \/ Head(wire)[2] \in Granted)
  OBVIOUS
<1>4. /\ confirmed' = IF ok THEN [confirmed EXCEPT ![k0] = @ + 1] ELSE confirmed
      /\ inbox' \in {inbox, Append(inbox, [key |-> k0, ok |-> ok])}
  BY <1>2, <1>3 DEF Serve
<1>5. PICK a \in Answer : a = [key |-> k0, ok |-> ok]
  BY DEF Answer
<1>6. inbox \in Seq(Answer) /\ inbox' \in Seq(Answer) /\ confirmed \in [Key -> Nat]
  BY DEF TypeInv, NetType
<1>7. ASSUME NEW k \in Key
      PROVE  Cardinality(Resolved(k)') + Cardinality(Where(inbox', Ok(k))) <= confirmed'[k]
  <2>1. Resolved(k)' = Resolved(k)
    BY <1>1 DEF Resolved
  <2>2. Cardinality(Where(inbox', Ok(k))) <= Cardinality(Where(inbox, Ok(k))) + (IF a = Ok(k) THEN 1 ELSE 0)
    <3>1. CASE inbox' = inbox
      BY <1>6, <3>1, WhereFinite
    <3>2. CASE inbox' = Append(inbox, a)
      BY <1>5, <1>6, <3>2, WhereAppend
    <3> QED BY <1>4, <1>5, <3>1, <3>2
  <2>3. a = Ok(k) => ok /\ k = k0
    BY <1>5 DEF Ok
  <2>4. confirmed'[k] \in Nat /\ confirmed[k] \in Nat /\ confirmed'[k] >= confirmed[k] + (IF a = Ok(k) THEN 1 ELSE 0)
    BY <1>4, <1>6, <2>3
  <2>5. /\ Cardinality(Where(inbox', Ok(k))) \in Nat /\ Cardinality(Where(inbox, Ok(k))) \in Nat
        /\ Cardinality(Resolved(k)) \in Nat
    BY <1>6, WhereFinite, ResolvedFinite
  <2>6. Cardinality(Resolved(k)) + Cardinality(Where(inbox, Ok(k))) <= confirmed[k]
    BY DEF Accounts
  <2> QED BY <2>1, <2>2, <2>4, <2>5, <2>6
<1> QED BY <1>7 DEF Accounts, Where, Ok

LEMMA AccountsReceive ==
  ASSUME TypeInv, TypeInv', TalkInv, Accounts, Receive
  PROVE  Accounts'
<1>1. PICK h \in Answer : h = Head(inbox)
  BY ReceiveSettles
<1>2. /\ inbox # <<>> /\ inbox \in Seq(Answer) /\ inbox' \in Seq(Answer) /\ inbox' = Tail(inbox)
      /\ confirmed' = confirmed /\ h.key \in Key /\ h.ok \in BOOLEAN
  BY <1>1, ReceiveSettles DEF TypeInv, NetType, Answer
<1>3. PICK is \in SUBSET (1 .. Len(requests)) :
        /\ is = IF pending[h.key] = 0 THEN {} ELSE {pending[h.key]}
        /\ Settled(is, IF h.ok THEN "resolved" ELSE "rejected")
  BY <1>1, ReceiveSettles
<1>4. DOMAIN requests' = 1 .. Len(requests) /\ DOMAIN requests = 1 .. Len(requests)
  BY <1>3, Shape DEF Settled, TypeInv, TableType
<1>5. ASSUME NEW k \in Key
      PROVE  Resolved(k)' \subseteq Resolved(k) \cup (IF h = Ok(k) THEN is ELSE {})
  <2> SUFFICES ASSUME NEW i \in 1 .. Len(requests), requests'[i].key = k, requests'[i].at = "resolved",
                      ~(requests[i].key = k /\ requests[i].at = "resolved")
               PROVE  h = Ok(k) /\ i \in is
    BY <1>4 DEF Resolved
  <2>1. requests[i].key = k /\ requests[i].at # "resolved"
    BY <1>3 DEF Settled
  <2>2. i \in is /\ h.ok
    BY <1>3, <2>1 DEF Settled
  <2>3. requests[i].key = h.key
    BY <1>2, <1>3, <2>2 DEF TalkInv, Entries
  <2>4. h = [key |-> h.key, ok |-> h.ok]
    BY DEF Answer
  <2> QED BY <2>1, <2>2, <2>3, <2>4 DEF Ok
<1>6. ASSUME NEW k \in Key
      PROVE  Cardinality(Resolved(k)') + Cardinality(Where(inbox', Ok(k))) <= confirmed'[k]
  <2> DEFINE R == Resolved(k)
             S == Resolved(k)'
             w == Cardinality(Where(inbox, Ok(k)))
             v == Cardinality(Where(inbox', Ok(k)))
  <2>1. IsFiniteSet(R) /\ Cardinality(R) \in Nat /\ w \in Nat /\ v \in Nat /\ confirmed[k] \in Nat
    BY <1>2, ResolvedFinite, WhereFinite DEF TypeInv, NetType
  <2>2. v + (IF h = Ok(k) THEN 1 ELSE 0) <= w
    BY <1>1, <1>2, WhereTail
  <2>3. Cardinality(R) + w <= confirmed[k]
    BY DEF Accounts
  <2>4. S \subseteq R \cup (IF h = Ok(k) THEN is ELSE {})
    BY <1>5
  <2> HIDE DEF R, S, w, v
  <2>5. Cardinality(S) \in Nat /\ Cardinality(S) <= Cardinality(R) + (IF h = Ok(k) THEN 1 ELSE 0)
    <3>1. CASE h = Ok(k)
      <4>1. S \subseteq R \cup {pending[h.key]}
        BY <1>3, <2>4, <3>1
      <4> QED BY <2>1, <3>1, <4>1, CardOneMore
    <3>2. CASE h # Ok(k)
      <4>1. S \subseteq R
        BY <2>4, <3>2
      <4>2. IsFiniteSet(S) /\ Cardinality(S) <= Cardinality(R)
        BY <2>1, <4>1, FS_Subset
      <4>3. Cardinality(S) \in Nat
        BY <4>2, FS_CardinalityType
      <4> QED BY <2>1, <3>2, <4>2, <4>3
    <3> QED BY <3>1, <3>2
  <2>6. Cardinality(S) + v <= confirmed[k]
    BY <2>1, <2>2, <2>3, <2>5
  <2> QED BY <1>2, <2>6 DEF S, v
<1> QED BY <1>6 DEF Accounts, Where, Ok

LEMMA AccountsLose ==
  ASSUME TypeInv, TypeInv', TalkInv, Accounts, Lose
  PROVE  Accounts'
<1>1. inbox' = <<>> /\ confirmed' = confirmed /\ Settled(LostBy, "rejected")
  BY LoseSettles
<1>2. DOMAIN requests' = 1 .. Len(requests) /\ DOMAIN requests = 1 .. Len(requests)
  BY <1>1, Shape DEF Settled, TypeInv, TableType
<1>3. ASSUME NEW k \in Key
      PROVE  Resolved(k)' \subseteq Resolved(k)
  BY <1>1, <1>2 DEF Settled, Resolved
<1>4. ASSUME NEW k \in Key
      PROVE  Cardinality(Resolved(k)') + Cardinality(Where(inbox', Ok(k))) <= confirmed'[k]
  <2> DEFINE R == Resolved(k)
             S == Resolved(k)'
             w == Cardinality(Where(inbox, Ok(k)))
  <2>1. IsFiniteSet(R) /\ Cardinality(R) \in Nat /\ w \in Nat /\ confirmed[k] \in Nat
    BY ResolvedFinite, WhereFinite DEF TypeInv, NetType
  <2>2. Where(inbox', Ok(k)) = {}
    BY <1>1 DEF Where
  <2>3. Cardinality(Where(inbox', Ok(k))) = 0
    BY <2>2, FS_EmptySet
  <2>4. Cardinality(R) + w <= confirmed[k] /\ S \subseteq R
    BY <1>3 DEF Accounts
  <2> HIDE DEF R, S, w
  <2>5. Cardinality(S) \in Nat /\ Cardinality(S) <= Cardinality(R)
    BY <2>1, <2>4, FS_Subset, FS_CardinalityType
  <2>6. Cardinality(S) + 0 <= confirmed[k]
    BY <2>1, <2>4, <2>5
  <2> QED BY <1>1, <2>3, <2>6 DEF S
<1> QED BY <1>4 DEF Accounts, Where, Ok

LEMMA InitAccounts == Init => Accounts
<1> SUFFICES ASSUME Init, NEW k \in Key
             PROVE  Cardinality(Resolved(k)) + Cardinality(Where(inbox, Ok(k))) <= confirmed[k]
  BY DEF Accounts
<1>1. Resolved(k) = {} /\ Where(inbox, Ok(k)) = {} /\ confirmed[k] = 0
  BY DEF Init, Resolved, Where
<1> QED BY <1>1, FS_EmptySet

LEMMA StepAccounts == Inv /\ Inv' /\ Accounts /\ [Next]_vars => Accounts'
<1> SUFFICES ASSUME Inv, Inv', Accounts, [Next]_vars
             PROVE  Accounts'
  OBVIOUS
<1>0. /\ TypeInv /\ TalkInv /\ TypeInv' /\ Accounts
      /\ DOMAIN requests = 1 .. Len(requests) /\ DOMAIN loops = 1 .. Len(loops)
  BY Shape DEF Inv
<1>1. ASSUME NEW u \in User, NEW p \in Pattern, Subscribe(u, p)
      PROVE  Accounts'
  <2>1. UNCHANGED <<inbox, confirmed>>
    BY <1>1 DEF Subscribe, net
  <2>2. PICK k \in Key : k = <<"subscribe", p>>
    BY KeyOf
  <2>3. CASE connected /\ Handlers(p) = 0
    <3>1. Asked(k, u)
      BY <1>1, <2>2, <2>3 DEF Subscribe
    <3>2. Added(k, u)
      BY <1>0, <3>1, AskedDoes
    <3> QED BY <1>0, <2>1, <3>2, AccountsGrow
  <2>4. CASE ~(connected /\ Handlers(p) = 0)
    <3>1. UNCHANGED requests
      BY <1>1, <2>4 DEF Subscribe
    <3> QED BY <1>0, <2>1, <3>1, AccountsStill
  <2> QED BY <2>3, <2>4
<1>2. ASSUME NEW u \in User, Acts(u)
      PROVE  Accounts'
  <2>1. ASSUME NEW p \in Uses[u], CallerSubscribes(u, p)
        PROVE  Accounts'
    <3>1. p \in Pattern
      BY SubscriptionsAssumption
    <3> QED BY <1>1, <2>1, <3>1 DEF CallerSubscribes
  <2>2. ASSUME NEW p \in Uses[u], Mount(u, p)
        PROVE  Accounts'
    <3>1. p \in Pattern
      BY SubscriptionsAssumption
    <3>2. CASE connected
      BY <1>1, <2>2, <3>1, <3>2 DEF Mount
    <3>3. CASE ~connected
      <4>1. UNCHANGED <<requests, inbox, confirmed>>
        BY <2>2, <3>3 DEF Mount, net
      <4> QED BY <1>0, <4>1, AccountsStill
    <3> QED BY <3>2, <3>3
  <2>3. CASE Unsubscribe(u)
    <3>1. PICK p : p = stage[u].on
      OBVIOUS
    <3>2. /\ stage[u].at = "held" /\ UNCHANGED <<inbox, confirmed>>
          /\ IF connected /\ Handlers(p) = 1 THEN Asked(<<"unsubscribe", p>>, Nobody) ELSE UNCHANGED requests
      BY <2>3, <3>1 DEF Unsubscribe, net
    <3>3. p \in Pattern
      BY <1>0, <3>1, <3>2, Shape DEF Has
    <3>4. PICK k \in Key : k = <<"unsubscribe", p>>
      BY <3>3, KeyOf
    <3>5. CASE connected /\ Handlers(p) = 1
      <4>1. Added(k, Nobody)
        BY <1>0, <3>2, <3>4, <3>5, AskedDoes
      <4> QED BY <1>0, <3>2, <4>1, AccountsGrow
    <3>6. CASE ~(connected /\ Handlers(p) = 1)
      BY <1>0, <3>2, <3>6, AccountsStill
    <3> QED BY <3>5, <3>6
  <2>4. CASE UnmountEarly(u)
    <3>1. UNCHANGED <<inbox, confirmed>>
      BY <2>4 DEF UnmountEarly, net
    <3> QED BY <1>0, <2>4, <3>1, TypeTalkUnmount, AccountsAlike
  <2> QED BY <1>2, <2>1, <2>2, <2>3, <2>4 DEF Acts
<1>3. ASSUME NEW i \in 1 .. Len(requests), Written(i)
      PROVE  Accounts'
  <2>1. /\ Len(requests') = Len(requests) /\ UNCHANGED <<inbox, confirmed>>
        /\ \A j \in 1 .. Len(requests) :
              requests'[j].key = requests[j].key /\ (requests'[j].at = "resolved" => requests[j].at = "resolved")
    BY <1>0, <1>3, WrittenDoes
  <2> QED BY <1>0, <2>1, AccountsAlike
<1>4. ASSUME NEW i \in 1 .. Len(requests), TimerFires(i)
      PROVE  Accounts'
  <2>1. PICK is : is = IF pending[requests[i].key] = 0 THEN {} ELSE {i}
    OBVIOUS
  <2>2. Settled(is, "rejected") /\ UNCHANGED <<inbox, confirmed>>
    BY <1>0, <1>4, <2>1, TimerSettles
  <2>3. /\ Len(requests') = Len(requests)
        /\ \A j \in 1 .. Len(requests) :
              requests'[j].key = requests[j].key /\ (requests'[j].at = "resolved" => requests[j].at = "resolved")
    BY <2>2 DEF Settled
  <2> QED BY <1>0, <2>2, <2>3, AccountsAlike
<1>5. CASE Serve
  BY <1>0, <1>5, AccountsServe
<1>12. CASE GarbleRequests
  BY <1>0, <1>12, AccountsStill DEF GarbleRequests, tables
<1>6. CASE Receive
  BY <1>0, <1>6, AccountsReceive
<1>7. CASE Connect
  BY <1>0, <1>7, TypeTalkConnect, AccountsStill DEF ConnectDoes
<1>8. CASE Lose
  BY <1>0, <1>8, AccountsLose
<1>9. ASSUME NEW n \in 1 .. Len(loops), LoopEnds(n)
      PROVE  Accounts'
  <2>1. LoopEndsDoes(n)
    BY <1>0, <1>9, TypeTalkLoopEnds
  <2> QED BY <1>0, <2>1, AccountsStill DEF LoopEndsDoes
<1>10. ASSUME NEW n \in 1 .. Len(loops), NEW p \in Pattern, LoopAsks(n, p)
       PROVE  Accounts'
  <2>1. LoopAsksDoes(n, p)
    BY <1>0, <1>10, TypeTalkLoopAsks
  <2>2. Added(<<"subscribe", p>>, n) /\ UNCHANGED <<inbox, confirmed>>
    BY <2>1 DEF LoopAsksDoes
  <2> QED BY <1>0, <2>2, AccountsGrow
<1>11. CASE UNCHANGED vars
  BY <1>0, <1>11, AccountsStill DEF vars, tables, net
<1> QED BY <1>0, <1>2, <1>3, <1>4, <1>5, <1>6, <1>7, <1>8, <1>9, <1>10, <1>11, <1>12 DEF Next

(* ResolvedIsConfirmed (client.ts:403-429): under each name no more requests *)
(* resolve than the server has carried out, whosever answer they take.       *)
THEOREM ResolvedWasConfirmed == Spec => []ResolvedIsConfirmed
<1>1. Inv /\ Accounts => ResolvedIsConfirmed
  <2> SUFFICES ASSUME Inv, Accounts, NEW k \in Key
               PROVE  Cardinality(Resolved(k)) <= confirmed[k]
    BY DEF ResolvedIsConfirmed, Resolved
  <2>1. /\ Cardinality(Resolved(k)) \in Nat /\ Cardinality(Where(inbox, Ok(k))) \in Nat
        /\ confirmed[k] \in Nat
    BY ResolvedFinite, WhereFinite DEF Inv, TypeInv, NetType
  <2>2. Cardinality(Resolved(k)) + Cardinality(Where(inbox, Ok(k))) <= confirmed[k]
    BY DEF Accounts
  <2> QED BY <2>1, <2>2
<1> QED BY <1>1, InitInv, StepInv, InitAccounts, StepAccounts, PTL DEF Spec

-----------------------------------------------------------------------------
(* The least and the largest of a set of numbers.                           *)

LEMMA Least ==
  ASSUME NEW T \in SUBSET Nat, T # {}
  PROVE  \E m \in T : \A k \in T : m <= k
<1> DEFINE R == {ss \in Nat \X Nat : ss[1] < ss[2]}
<1>1. OpToRel(<, Nat) = R
  BY Zenon DEF OpToRel
<1>2. IsWellFoundedOn(R, Nat)
  BY <1>1, NatLessThanWellFounded
<1>3. \E m \in T : \A k \in T : ~ (<<k, m>> \in R)
  <2> HIDE DEF R
  <2> QED BY <1>2, WFMin, Zenon
<1>4. PICK m \in T : \A k \in T : ~ (<<k, m>> \in R)
  BY <1>3
<1>5. ASSUME NEW k \in T PROVE m <= k
  <2>1. <<k, m>> \notin R
    BY <1>4
  <2>2. <<k, m>> \in Nat \X Nat /\ <<k, m>>[1] = k /\ <<k, m>>[2] = m
    OBVIOUS
  <2>3. ~(k < m)
    BY <2>1, <2>2
  <2> QED BY <2>3
<1> QED BY <1>5

LEMMA MaxIs ==
  ASSUME NEW S \in SUBSET Int, NEW i \in S, \A j \in S : j <= i
  PROVE  Max(S) = i
<1>1. \E x \in S : \A y \in S : x >= y
  OBVIOUS
<1>2. Max(S) \in S /\ \A j \in S : Max(S) >= j
  BY <1>1 DEF Max
<1>3. Max(S) \in Int /\ i \in Int /\ Max(S) >= i /\ Max(S) <= i
  BY <1>2
<1> QED BY <1>3

LEMMA MaxOf ==
  ASSUME NEW n \in Nat, NEW S \in SUBSET (1 .. n), S # {}
  PROVE  Max(S) \in S /\ \A j \in S : j <= Max(S)
<1> DEFINE T == {m \in Nat : \A j \in S : j <= m}
<1>1. n \in T /\ T \subseteq Nat
  OBVIOUS
<1> HIDE DEF T
<1>2. PICK m \in T : \A k \in T : m <= k
  BY <1>1, Least
<1>3. m \in Nat /\ \A j \in S : j <= m
  BY <1>2 DEF T
<1>4. m \in S
  <2> SUFFICES ASSUME m \notin S
               PROVE  FALSE
    OBVIOUS
  <2>1. PICK j0 \in S : TRUE
    OBVIOUS
  <2>2. m - 1 \in Nat /\ \A j \in S : j <= m - 1
    BY <1>3, <2>1
  <2>3. m - 1 \in T
    BY <2>2 DEF T
  <2> QED BY <1>2, <1>3, <2>3
<1>5. Max(S) = m
  BY <1>3, <1>4, MaxIs
<1> QED BY <1>3, <1>4, <1>5

-----------------------------------------------------------------------------
\* What will be served, before a step and after it.
LEMMA SendingIs ==
  ASSUME TypeInv, NEW p
  PROVE  /\ Len(requests) \in Nat /\ Sending(p) \in SUBSET (1 .. Len(requests))
         /\ Len(wire) \in Nat /\ OnWire(p) \in SUBSET (1 .. Len(wire))
         /\ Sending(p) = {i \in 1 .. Len(requests) : requests[i].at = "sending" /\ requests[i].key[2] = p}
         /\ OnWire(p) = {i \in 1 .. Len(wire) : wire[i][2] = p}
<1>1. Len(requests) \in Nat /\ DOMAIN requests = 1 .. Len(requests)
  BY Shape
<1>2. Len(wire) \in Nat /\ DOMAIN wire = 1 .. Len(wire)
  BY DEF TypeInv, NetType
<1> QED BY <1>1, <1>2 DEF Sending, OnWire

LEMMA SameServed ==
  ASSUME TypeInv, NEW p \in Pattern, Sending(p)' = Sending(p),
         \A i \in Sending(p) : requests'[i].key = requests[i].key,
         UNCHANGED <<wire, server, unread>>
  PROVE  (Assured(p)' <=> Assured(p)) /\ (Spared(p)' <=> Spared(p))
<1>1. OnWire(p)' = OnWire(p)
  BY DEF OnWire
<1>2. ASSUME Sending(p) # {}
      PROVE  WillBeServed(p)' <=> WillBeServed(p)
  <2>1. Max(Sending(p)) \in Sending(p)
    BY <1>2, SendingIs, MaxOf
  <2>2. requests'[Max(Sending(p))].key = requests[Max(Sending(p))].key
    BY <2>1
  <2> QED BY <1>2, <2>2 DEF WillBeServed
<1>3. ASSUME Sending(p) = {}
      PROVE  WillBeServed(p)' <=> WillBeServed(p)
  BY <1>1, <1>3 DEF WillBeServed
<1>4. WillBeServed(p)' <=> WillBeServed(p)
  BY <1>2, <1>3
<1>5. LastUnread(p)' <=> LastUnread(p)
  BY <1>1 DEF LastUnread
<1> QED BY <1>4, <1>5 DEF Assured, Spared

\* The last request decides.
LEMMA AskedServed ==
  ASSUME TypeInv, TypeInv', NEW key \in Key, NEW by, Added(key, by), UNCHANGED <<wire, server, unread>>
  PROVE  /\ key[1] = "subscribe" => Assured(key[2])'
         /\ key[1] = "unsubscribe" => Spared(key[2])'
         /\ \A q \in Pattern : q # key[2] => (Assured(q)' <=> Assured(q)) /\ (Spared(q)' <=> Spared(q))
<1> DEFINE n == Len(requests)
<1>1. /\ n \in Nat /\ DOMAIN requests' = 1 .. (n + 1) /\ DOMAIN requests = 1 .. n
      /\ \A i \in 1 .. n : requests'[i] = requests[i]
      /\ requests'[n + 1].key = key /\ requests'[n + 1].at = "sending"
  BY Shape DEF Added, TypeInv, TableType
<1>2. \A i \in 1 .. (n + 1) : i \in 1 .. n \/ i = n + 1
  BY <1>1
<1> HIDE DEF n
<1>3. PICK p \in Pattern : p = key[2]
  BY Keys
<1>4. Sending(p)' = Sending(p) \cup {n + 1} /\ Sending(p) \subseteq 1 .. n
  BY <1>1, <1>2, <1>3 DEF Sending
<1>5. Max(Sending(p)') = n + 1
  <2>1. Sending(p)' \in SUBSET Int /\ n + 1 \in Sending(p)' /\ \A j \in Sending(p)' : j <= n + 1
    BY <1>1, <1>4
  <2> QED BY <2>1, MaxIs
<1>6. WillBeServed(p)' <=> key[1] = "subscribe"
  BY <1>1, <1>4, <1>5 DEF WillBeServed
<1>7. ASSUME NEW q \in Pattern, q # p
      PROVE  (Assured(q)' <=> Assured(q)) /\ (Spared(q)' <=> Spared(q))
  <2>1. Sending(q)' = Sending(q)
    BY <1>1, <1>2, <1>3, <1>7 DEF Sending
  <2>2. \A i \in Sending(q) : requests'[i].key = requests[i].key
    BY <1>1 DEF Sending
  <2> QED BY <2>1, <2>2, SameServed
<1> QED BY <1>3, <1>6, <1>7 DEF Assured, Spared

\* What is written was the first to be, and is the last on the wire.
LEMMA WrittenServed ==
  ASSUME TypeInv, TypeInv', NEW i \in 1 .. Len(requests), Written(i), NEW p \in Pattern
  PROVE  (Assured(p)' <=> Assured(p)) /\ (Spared(p)' <=> Spared(p))
<1> DEFINE n == Len(requests)
           k0 == requests[i].key
<1>1. /\ n \in Nat /\ DOMAIN requests' = 1 .. n /\ DOMAIN requests = 1 .. n
      /\ \A j \in 1 .. n : requests'[j].key = requests[j].key
      /\ \A j \in 1 .. n : requests'[j].at = IF j = i THEN "waiting" ELSE requests[j].at
      /\ requests[i].at = "sending" /\ \A j \in 1 .. (i - 1) : requests[j].at # "sending"
  <2>1. n \in Nat /\ DOMAIN requests' = 1 .. Len(requests') /\ DOMAIN requests = 1 .. n
    BY Shape DEF TypeInv, TableType
  <2> QED BY <2>1, WrittenDoes
<1>2. k0 \in Key /\ wire' = Append(wire, k0) /\ server' = server /\ unread' = unread /\ wire \in Seq(Key)
  BY WrittenDoes DEF TypeInv, NetType
<1>3. PICK k \in Key : k = k0
  BY <1>2
<1>4. /\ Len(wire') = Len(wire) + 1 /\ Len(wire) \in Nat /\ wire'[Len(wire) + 1] = k
      /\ \A j \in 1 .. Len(wire) : wire'[j] = wire[j]
      /\ DOMAIN wire' = 1 .. (Len(wire) + 1) /\ DOMAIN wire = 1 .. Len(wire)
  <2>1. wire' = Append(wire, k) /\ wire \in Seq(Key)
    BY <1>2, <1>3
  <2> QED BY <2>1
<1>5. Sending(p)' = Sending(p) \ {i}
  BY <1>1 DEF Sending
<1>6. Sending(p) \in SUBSET (1 .. n)
  BY SendingIs
<1>7. k = requests[i].key
  BY <1>3
<1> HIDE DEF n, k0
<1>8. CASE Sending(p)' # {}
  <2> DEFINE m == Max(Sending(p))
  <2>1. m \in Sending(p) /\ \A j \in Sending(p) : j <= m
    BY <1>1, <1>5, <1>6, <1>8, MaxOf
  <2> HIDE DEF m
  <2>2. PICK j \in Sending(p) : j # i
    BY <1>5, <1>8
  <2>3. j \in 1 .. n /\ requests[j].at = "sending"
    BY <1>1, <2>2 DEF Sending
  <2>4. i \in 1 .. n /\ i < j
    BY <1>1, <2>2, <2>3 DEF n
  <2>5. m \in 1 .. n /\ m # i
    BY <1>6, <2>1, <2>2, <2>3, <2>4
  <2>6. m \in Sending(p)' /\ \A h \in Sending(p)' : h <= m
    BY <1>5, <2>1, <2>5
  <2>7. Max(Sending(p)') = m
    <3>1. Sending(p)' \in SUBSET Int
      BY <1>5, <1>6
    <3> QED BY <2>6, <3>1, MaxIs
  <2>8. requests'[m].key = requests[m].key
    BY <1>1, <2>5
  <2>9. Sending(p) # {} /\ (WillBeServed(p)' <=> WillBeServed(p))
    BY <1>8, <2>1, <2>7, <2>8 DEF WillBeServed, m
  <2> QED BY <1>8, <2>9 DEF Assured, Spared, LastUnread
<1>9. CASE Sending(p)' = {} /\ i \in Sending(p)
  <2>1. Sending(p) = {i} /\ i \in Int /\ k[2] = p
    BY <1>1, <1>5, <1>7, <1>9 DEF Sending
  <2>2. Max(Sending(p)) = i
    <3>1. Sending(p) \in SUBSET Int /\ \A j \in Sending(p) : j <= i
      BY <2>1
    <3> QED BY <1>9, <3>1, MaxIs
  <2>3. Len(wire) + 1 \in OnWire(p)' /\ OnWire(p)' \subseteq 1 .. (Len(wire) + 1)
    BY <1>4, <2>1 DEF OnWire
  <2>4. Max(OnWire(p)') = Len(wire) + 1
    <3>1. OnWire(p)' \in SUBSET Int /\ \A j \in OnWire(p)' : j <= Len(wire) + 1
      BY <1>4, <2>3
    <3> QED BY <2>3, <3>1, MaxIs
  <2>5. WillBeServed(p)' <=> k[1] = "subscribe"
    BY <1>4, <1>9, <2>3, <2>4 DEF WillBeServed
  <2>6. WillBeServed(p) <=> k[1] = "subscribe"
    BY <1>7, <1>9, <2>2 DEF WillBeServed
  <2> QED BY <1>9, <2>3, <2>5, <2>6 DEF Assured, Spared, LastUnread
<1>10. CASE Sending(p)' = {} /\ i \notin Sending(p)
  <2>1. Sending(p) = {}
    BY <1>5, <1>10
  <2>2. k[2] # p
    BY <1>1, <1>7, <1>10 DEF Sending, n
  <2>3. OnWire(p)' = OnWire(p) /\ OnWire(p) \in SUBSET (1 .. Len(wire))
    <3>1. \A j \in 1 .. (Len(wire) + 1) : j \in 1 .. Len(wire) \/ j = Len(wire) + 1
      BY <1>4
    <3> QED BY <1>4, <2>2, <3>1 DEF OnWire
  <2>4. OnWire(p) # {} => wire'[Max(OnWire(p))] = wire[Max(OnWire(p))]
    BY <1>4, <2>3, MaxOf
  <2>5. WillBeServed(p)' <=> WillBeServed(p)
    BY <1>2, <1>10, <2>1, <2>3, <2>4 DEF WillBeServed
  <2> QED BY <1>2, <1>10, <2>1, <2>3, <2>5 DEF Assured, Spared, LastUnread
<1> QED BY <1>8, <1>9, <1>10

\* The server reads the first request on the wire: it does what that says,
\* unless its grants do not allow it, or it loses it.
LEMMA ReadServed ==
  ASSUME TypeInv, TypeInv', NEW k \in Key, wire # <<>>, k = Head(wire), wire' = Tail(wire),
         requests' = requests,
         \/ /\ unread' = unread \ {k[2]}
            /\ server' = IF k[1] = "unsubscribe" THEN server \ {k[2]}
                         ELSE IF k[2] \in Granted THEN server \cup {k[2]} ELSE server
         \/ unread' = unread \cup {k[2]} /\ server' = server,
         NEW p \in Pattern
  PROVE  /\ Spared(p) => Spared(p)'
         /\ p \in Granted /\ Assured(p) => Assured(p)'
<1>2. wire \in Seq(Key) /\ DOMAIN wire' = 1 .. Len(wire') /\ DOMAIN wire = 1 .. Len(wire)
  BY DEF TypeInv, NetType
<1>4. /\ Len(wire') = Len(wire) - 1 /\ Len(wire) \in Nat \ {0} /\ wire[1] = k
      /\ \A i \in 1 .. (Len(wire) - 1) : wire'[i] = wire[i + 1]
  BY <1>2, HeadTail
<1>6. Sending(p)' = Sending(p)
  BY DEF Sending
<1>7. CASE Sending(p) # {}
  BY <1>6, <1>7 DEF WillBeServed, Assured, Spared, LastUnread
<1>8. CASE Sending(p) = {} /\ OnWire(p)' # {}
  <2> DEFINE m == Max(OnWire(p)')
  <2>1. OnWire(p)' \in SUBSET (1 .. (Len(wire) - 1)) /\ Len(wire) - 1 \in Nat
    BY <1>2, <1>4 DEF OnWire
  <2>2. m \in OnWire(p)' /\ \A j \in OnWire(p)' : j <= m
    BY <1>8, <2>1, MaxOf
  <2> HIDE DEF m
  <2>3. m \in 1 .. (Len(wire) - 1) /\ wire'[m] = wire[m + 1] /\ wire[m + 1][2] = p
    BY <1>4, <2>1, <2>2 DEF OnWire
  <2>4. m + 1 \in OnWire(p)
    BY <1>2, <1>4, <2>3 DEF OnWire
  <2>5. ASSUME NEW j \in OnWire(p)
        PROVE  j <= m + 1
    <3>1. j \in 1 .. Len(wire) /\ wire[j][2] = p
      BY <1>2, <2>5 DEF OnWire
    <3>2. CASE j = 1
      BY <2>3, <3>2
    <3>3. CASE j # 1
      <4>1. j - 1 \in 1 .. (Len(wire) - 1) /\ wire'[j - 1] = wire[j]
        BY <1>4, <3>1, <3>3
      <4>2. j - 1 \in OnWire(p)'
        BY <1>2, <1>4, <3>1, <4>1 DEF OnWire
      <4> QED BY <2>2, <2>3, <3>1, <4>2
    <3> QED BY <3>2, <3>3
  <2>6. Max(OnWire(p)) = m + 1
    <3>1. OnWire(p) \in SUBSET Int
      BY SendingIs
    <3> QED BY <2>4, <2>5, <3>1, MaxIs
  <2>7. OnWire(p) # {}
    BY <2>4
  <2>8. WillBeServed(p)' <=> WillBeServed(p)
    BY <1>6, <1>8, <2>3, <2>6, <2>7 DEF WillBeServed, m
  <2> QED BY <1>8, <2>7, <2>8 DEF Assured, Spared, LastUnread
<1>9. CASE Sending(p) = {} /\ OnWire(p)' = {}
  <2>1. ASSUME NEW j \in OnWire(p)
        PROVE  j = 1
    <3>1. j \in 1 .. Len(wire) /\ wire[j][2] = p
      BY <1>2, <2>1 DEF OnWire
    <3>2. ASSUME j # 1
          PROVE  FALSE
      <4>1. j - 1 \in 1 .. (Len(wire) - 1) /\ wire'[j - 1] = wire[j]
        BY <1>4, <3>1, <3>2
      <4>2. j - 1 \in OnWire(p)'
        BY <1>2, <1>4, <3>1, <4>1 DEF OnWire
      <4> QED BY <1>9, <4>2
    <3> QED BY <3>2
  <2>2. /\ WillBeServed(p)' <=> p \in server'
        /\ LastUnread(p)' <=> p \in unread'
    BY <1>6, <1>9 DEF WillBeServed, LastUnread
  <2>3. k[1] \in {"subscribe", "unsubscribe"}
    BY Keys
  <2>4. CASE k[2] = p
    <3>1. 1 \in OnWire(p)
      BY <1>2, <1>4, <2>4 DEF OnWire
    <3>2. OnWire(p) = {1}
      BY <2>1, <3>1
    <3>3. Max(OnWire(p)) = 1
      <4>1. 1 \in {1} /\ {1} \in SUBSET Int /\ \A j \in {1} : j <= 1
        OBVIOUS
      <4> QED BY <3>2, <4>1, MaxIs
    <3>4. WillBeServed(p) <=> k[1] = "subscribe"
      BY <1>4, <1>9, <3>2, <3>3 DEF WillBeServed
    <3>5. ~LastUnread(p)
      BY <3>1 DEF LastUnread
    <3> QED BY <2>2, <2>3, <2>4, <3>4, <3>5 DEF Assured, Spared
  <2>5. CASE k[2] # p
    <3>1. 1 \notin OnWire(p)
      BY <1>2, <1>4, <2>5 DEF OnWire
    <3>2. OnWire(p) = {}
      BY <2>1, <3>1
    <3>3. /\ WillBeServed(p) <=> p \in server
          /\ LastUnread(p) <=> p \in unread
      BY <1>9, <3>2 DEF WillBeServed, LastUnread
    <3>4. (p \in server' <=> p \in server) /\ (p \in unread' <=> p \in unread)
      BY <2>5
    <3> QED BY <2>2, <3>3, <3>4 DEF Assured, Spared
  <2> QED BY <2>4, <2>5
<1> QED BY <1>7, <1>8, <1>9

-----------------------------------------------------------------------------
(* What is served, and what has handlers.                                   *)

LEMMA NoneServed ==
  ASSUME TypeInv, Down, ~connected, NEW p \in Pattern
  PROVE  Spared(p) /\ Sending(p) = {} /\ OnWire(p) = {}
<1>1. wire = <<>> /\ server = {} /\ \A i \in 1 .. Len(requests) : requests[i].at # "sending"
  BY DEF Down
<1>2. Sending(p) = {} /\ OnWire(p) = {}
  BY <1>1, Shape DEF Sending, OnWire
<1> QED BY <1>1, <1>2 DEF Spared, WillBeServed

\* No handler comes or goes, and no loop takes another pattern.
LEMMA ServeKept ==
  ASSUME TypeInv, TypeInv', ServeInv, connected' = connected,
         \A p \in Pattern : Handlers(p)' = Handlers(p),
         Len(loops') = Len(loops),
         \A n \in 1 .. Len(loops) : loops'[n].todo = loops[n].todo /\ loops'[n].at \in {loops[n].at, "next"},
         connected => \A p \in Pattern : /\ Spared(p) => Spared(p)'
                                         /\ p \in Granted /\ Assured(p) => Assured(p)',
         ~connected => /\ UNCHANGED <<wire, server, unread>> /\ Len(requests') = Len(requests)
                       /\ \A i \in 1 .. Len(requests) : requests'[i].at = "sending" => requests[i].at = "sending"
  PROVE  ServeInv'
<1>1. Down'
  BY DEF ServeInv, Down
<1>2. Todo'
  <2> SUFFICES ASSUME NEW n \in 1 .. Len(loops), NEW p \in loops[n].todo
               PROVE  Handlers(p)' > 0
    BY DEF Todo
  <2>1. p \in Pattern
    BY Shape
  <2> QED BY <2>1 DEF ServeInv, Todo
<1>3. ASSUME connected
      PROVE  Up'
  <2>1. Len(loops) \in Nat /\ Len(loops) > 0 /\ Up
    BY <1>3, Shape DEF ServeInv, Up
  <2>2. \A p \in Pattern : ToCome(p) => ToCome(p)'
    BY <2>1 DEF ToCome
  <2>3. Len(loops') > 0
    BY <2>1
  <2>4. ASSUME NEW p \in Pattern, Handlers(p)' = 0
        PROVE  Spared(p)'
    BY <1>3, <2>1, <2>4 DEF Up
  <2>5. ASSUME NEW p \in Pattern \cap Granted, Handlers(p)' > 0
        PROVE  Assured(p)' \/ ToCome(p)'
    BY <1>3, <2>1, <2>2, <2>5 DEF Up
  <2> QED BY <2>3, <2>4, <2>5 DEF Up
<1>4. ~connected => Up'
  BY DEF Up
<1> QED BY <1>1, <1>2, <1>3, <1>4 DEF ServeInv

\* What waits or is done does not change what will be served.
LEMMA ServedAlike ==
  ASSUME TypeInv, TypeInv', UNCHANGED <<wire, server, unread>>, Len(requests') = Len(requests),
         \A i \in 1 .. Len(requests) :
            /\ requests'[i].key = requests[i].key
            /\ requests'[i].at = "sending" <=> requests[i].at = "sending",
         NEW p \in Pattern
  PROVE  (Assured(p)' <=> Assured(p)) /\ (Spared(p)' <=> Spared(p))
<1>1. DOMAIN requests' = 1 .. Len(requests) /\ DOMAIN requests = 1 .. Len(requests)
  BY Shape DEF TypeInv, TableType
<1>2. Sending(p)' = Sending(p)
  BY <1>1 DEF Sending
<1>3. \A i \in Sending(p) : requests'[i].key = requests[i].key
  BY <1>1 DEF Sending
<1> QED BY <1>2, <1>3, SameServed

LEMMA ServeSubscribe ==
  ASSUME TypeInv, TypeInv', ServeInv, NEW u \in User, NEW p \in Pattern, stage[u] = Off, Subscribe(u, p)
  PROVE  ServeInv'
<1>1. /\ UNCHANGED <<connected, left, wire, server, unread>>
      /\ loops' = IF Handlers(p) = 0 THEN Visits(p) ELSE loops
      /\ IF connected /\ Handlers(p) = 0
         THEN Asked(<<"subscribe", p>>, u) /\ stage' = [stage EXCEPT ![u] = [at |-> "asking", on |-> p]]
         ELSE stage' = [stage EXCEPT ![u] = [at |-> "held", on |-> p]] /\ UNCHANGED requests
  BY DEF Subscribe, net
<1>2. PICK at \in {"asking", "held"} : stage' = [stage EXCEPT ![u] = [at |-> at, on |-> p]]
  BY <1>1
<1>3. Handlers(p)' = Handlers(p) + 1 /\ \A q \in Pattern \ {p} : Handlers(q)' = Handlers(q)
  BY <1>1, <1>2, SubscribeDoes
<1>4. Handlers(p) \in Nat /\ Handlers(p)' > 0
  BY <1>3, HandlersAre
<1>5. /\ Len(loops') = Len(loops) /\ Len(loops) \in Nat
      /\ \A n \in 1 .. Len(loops) :
            /\ loops'[n].at = loops[n].at
            /\ loops[n].todo \subseteq loops'[n].todo /\ loops'[n].todo \subseteq loops[n].todo \cup {p}
            /\ loops[n].todo \subseteq Pattern
  BY <1>1, VisitsDoes, Shape
<1>6. Todo'
  <2> SUFFICES ASSUME NEW n \in 1 .. Len(loops), NEW q \in loops'[n].todo
               PROVE  Handlers(q)' > 0
    BY <1>5 DEF Todo
  <2>1. CASE q = p
    BY <1>4, <2>1
  <2>2. CASE q # p
    <3>1. q \in loops[n].todo /\ q \in Pattern \ {p}
      BY <1>5, <2>2
    <3> QED BY <1>3, <3>1 DEF ServeInv, Todo
  <2> QED BY <2>1, <2>2
<1>7. \A q \in Pattern : Len(loops) > 0 /\ ToCome(q) => ToCome(q)'
  BY <1>5 DEF ToCome
<1>8. CASE connected /\ Handlers(p) = 0
  <2>1. PICK k \in Key : k = <<"subscribe", p>> /\ k[1] = "subscribe" /\ k[2] = p
    BY KeyOf
  <2>2. Added(k, u)
    BY <1>1, <1>8, <2>1, AskedDoes
  <2>3. Assured(p)' /\ \A q \in Pattern : q # p => (Assured(q)' <=> Assured(q)) /\ (Spared(q)' <=> Spared(q))
    BY <1>1, <2>1, <2>2, AskedServed
  <2>4. Down'
    BY <1>1, <1>8 DEF Down
  <2>5. Up /\ Len(loops) > 0
    BY <1>8 DEF ServeInv, Up
  <2>6. ASSUME NEW q \in Pattern, Handlers(q)' = 0
        PROVE  Spared(q)'
    <3>1. q # p
      BY <1>4, <2>6
    <3> QED BY <1>3, <1>8, <2>3, <2>5, <2>6, <3>1 DEF Up
  <2>7. ASSUME NEW q \in Pattern \cap Granted, Handlers(q)' > 0
        PROVE  Assured(q)' \/ ToCome(q)'
    <3>1. CASE q = p
      BY <2>3, <3>1
    <3>2. CASE q # p
      BY <1>3, <1>7, <1>8, <2>3, <2>5, <2>7, <3>2 DEF Up
    <3> QED BY <3>1, <3>2
  <2> QED BY <1>5, <1>6, <2>4, <2>5, <2>6, <2>7 DEF ServeInv, Up
<1>9. CASE ~(connected /\ Handlers(p) = 0)
  <2>1. UNCHANGED requests
    BY <1>1, <1>9
  <2>2. \A q \in Pattern : (Assured(q)' <=> Assured(q)) /\ (Spared(q)' <=> Spared(q))
    BY <1>1, <2>1 DEF Assured, Spared, LastUnread, WillBeServed, Sending, OnWire
  <2>3. Down'
    BY <1>1, <2>1 DEF ServeInv, Down
  <2>4. ASSUME connected
        PROVE  Up'
    <3>1. Up /\ Len(loops) > 0 /\ Handlers(p) > 0
      BY <1>4, <1>9, <2>4 DEF ServeInv, Up
    <3>2. ASSUME NEW q \in Pattern, Handlers(q)' = 0
          PROVE  Spared(q)'
      <4>1. q # p
        BY <1>4, <3>2
      <4> QED BY <1>3, <2>2, <2>4, <3>1, <3>2, <4>1 DEF Up
    <3>3. ASSUME NEW q \in Pattern \cap Granted, Handlers(q)' > 0
          PROVE  Assured(q)' \/ ToCome(q)'
      <4>1. Handlers(q) > 0
        BY <1>3, <3>1, <3>3
      <4> QED BY <1>7, <2>2, <2>4, <3>1, <4>1 DEF Up
    <3> QED BY <1>5, <3>1, <3>2, <3>3 DEF Up
  <2>5. ~connected => Up'
    BY <1>1 DEF Up
  <2> QED BY <1>6, <2>3, <2>4, <2>5 DEF ServeInv
<1> QED BY <1>8, <1>9

LEMMA ServeUnsubscribe ==
  ASSUME TypeInv, TypeInv', ServeInv, NEW u \in User, Unsubscribe(u)
  PROVE  ServeInv'
<1>0. PICK p : p = stage[u].on
  OBVIOUS
<1>1. /\ UNCHANGED <<connected, left, wire, server, unread>>
      /\ loops' = IF Handlers(p) = 1 THEN Skips(p) ELSE loops
      /\ stage[u].at = "held" /\ stage' = [stage EXCEPT ![u] = Off]
      /\ IF connected /\ Handlers(p) = 1 THEN Asked(<<"unsubscribe", p>>, Nobody) ELSE UNCHANGED requests
  BY <1>0 DEF Unsubscribe, net
<1>2. p \in Pattern
  BY <1>0, <1>1, Shape DEF Has
<1>3. /\ Handlers(p)' = Handlers(p) - 1 /\ \A q \in Pattern \ {p} : Handlers(q)' = Handlers(q)
      /\ Handlers(p) > 0
  <2>1. stage[u].at \in {"asking", "held"}
    BY <1>1
  <2> QED BY <1>0, <1>1, <1>2, <2>1, UnsubscribeDoes
<1>4. Handlers(p) \in Nat
  BY <1>2, HandlersAre
<1>5. /\ Len(loops') = Len(loops) /\ Len(loops) \in Nat
      /\ \A n \in 1 .. Len(loops) :
            /\ loops'[n].at = loops[n].at
            /\ loops'[n].todo \subseteq loops[n].todo /\ loops[n].todo \ {p} \subseteq loops'[n].todo
            /\ Handlers(p) = 1 => p \notin loops'[n].todo
            /\ Handlers(p) # 1 => loops'[n].todo = loops[n].todo
            /\ loops[n].todo \subseteq Pattern
  BY <1>1, <1>2, SkipsDoes, Shape
<1>6. Todo'
  <2> SUFFICES ASSUME NEW n \in 1 .. Len(loops), NEW q \in loops'[n].todo
               PROVE  Handlers(q)' > 0
    BY <1>5 DEF Todo
  <2>1. q \in loops[n].todo /\ q \in Pattern
    BY <1>5
  <2>2. Handlers(q) > 0
    BY <2>1 DEF ServeInv, Todo
  <2>3. CASE q = p
    BY <1>3, <1>4, <1>5, <2>3
  <2>4. CASE q # p
    BY <1>3, <2>1, <2>2, <2>4
  <2> QED BY <2>3, <2>4
<1>7. \A q \in Pattern \ {p} : Len(loops) > 0 /\ ToCome(q) => ToCome(q)'
  BY <1>5 DEF ToCome
<1>8. CASE connected /\ Handlers(p) = 1
  <2>1. PICK k \in Key : k = <<"unsubscribe", p>> /\ k[1] = "unsubscribe" /\ k[2] = p
    BY <1>2, KeyOf
  <2>2. Added(k, Nobody)
    BY <1>1, <1>8, <2>1, AskedDoes
  <2>3. Spared(p)' /\ \A q \in Pattern : q # p => (Assured(q)' <=> Assured(q)) /\ (Spared(q)' <=> Spared(q))
    BY <1>1, <2>1, <2>2, AskedServed
  <2>4. Down'
    BY <1>1, <1>8 DEF Down
  <2>5. Up /\ Len(loops) > 0
    BY <1>8 DEF ServeInv, Up
  <2>6. ASSUME NEW q \in Pattern, Handlers(q)' = 0
        PROVE  Spared(q)'
    <3>1. CASE q = p
      BY <2>3, <3>1
    <3>2. CASE q # p
      BY <1>3, <1>8, <2>3, <2>5, <2>6, <3>2 DEF Up
    <3> QED BY <3>1, <3>2
  <2>7. ASSUME NEW q \in Pattern \cap Granted, Handlers(q)' > 0
        PROVE  Assured(q)' \/ ToCome(q)'
    <3>1. q # p
      BY <1>3, <1>8, <2>7
    <3> QED BY <1>3, <1>7, <1>8, <2>3, <2>5, <2>7, <3>1 DEF Up
  <2> QED BY <1>5, <1>6, <2>4, <2>5, <2>6, <2>7 DEF ServeInv, Up
<1>9. CASE ~(connected /\ Handlers(p) = 1)
  <2>1. UNCHANGED requests
    BY <1>1, <1>9
  <2>2. \A q \in Pattern : (Assured(q)' <=> Assured(q)) /\ (Spared(q)' <=> Spared(q))
    BY <1>1, <2>1 DEF Assured, Spared, LastUnread, WillBeServed, Sending, OnWire
  <2>3. Down'
    BY <1>1, <2>1 DEF ServeInv, Down
  <2>4. ASSUME connected
        PROVE  Up'
    <3>1. Up /\ Len(loops) > 0 /\ Handlers(p) > 1 /\ Handlers(p)' > 0
      BY <1>3, <1>4, <1>9, <2>4 DEF ServeInv, Up
    <3>2. ToCome(p) => ToCome(p)'
      BY <1>5, <3>1 DEF ToCome
    <3>3. ASSUME NEW q \in Pattern, Handlers(q)' = 0
          PROVE  Spared(q)'
      <4>1. q # p
        BY <3>1, <3>3
      <4> QED BY <1>3, <2>2, <2>4, <3>1, <3>3, <4>1 DEF Up
    <3>4. ASSUME NEW q \in Pattern \cap Granted, Handlers(q)' > 0
          PROVE  Assured(q)' \/ ToCome(q)'
      <4>1. Handlers(q) > 0
        BY <1>3, <3>1, <3>4
      <4>2. ToCome(q) => ToCome(q)'
        BY <1>7, <3>1, <3>2
      <4> QED BY <2>2, <2>4, <3>1, <4>1, <4>2 DEF Up
    <3> QED BY <1>5, <3>1, <3>3, <3>4 DEF Up
  <2>5. ~connected => Up'
    BY <1>1 DEF Up
  <2> QED BY <1>6, <2>3, <2>4, <2>5 DEF ServeInv
<1> QED BY <1>8, <1>9

LEMMA ServeConnect ==
  ASSUME TypeInv, TypeInv', ServeInv, ConnectDoes
  PROVE  ServeInv'
<1> DEFINE n == Len(loops)
<1>1. /\ ~connected /\ connected' /\ n \in Nat
      /\ loops' \in Seq(Loop) /\ Len(loops') = n + 1
      /\ \A m \in 1 .. n : loops'[m] = loops[m] /\ loops[m].todo \subseteq Pattern
      /\ loops'[n + 1].todo = {p \in Pattern : Handlers(p) > 0} /\ loops'[n + 1].at = "next"
      /\ UNCHANGED <<stage, left, requests, pending, wire, inbox, server, confirmed, unread, robbed, losses>>
  BY Shape DEF ConnectDoes
<1> HIDE DEF n
<1>2. \A p \in Pattern : Handlers(p)' = Handlers(p)
  BY <1>1 DEF Handlers, Holders
<1>3. \A p \in Pattern : Spared(p)'
  <2> SUFFICES ASSUME NEW p \in Pattern
               PROVE  Spared(p)'
    OBVIOUS
  <2>1. Spared(p)
    BY <1>1, NoneServed DEF ServeInv
  <2> QED BY <1>1, <2>1 DEF Assured, Spared, LastUnread, WillBeServed, Sending, OnWire
<1>4. Todo'
  <2> SUFFICES ASSUME NEW m \in 1 .. (n + 1), NEW p \in loops'[m].todo
               PROVE  Handlers(p)' > 0
    BY <1>1 DEF Todo
  <2>1. CASE m = n + 1
    BY <1>1, <1>2, <2>1
  <2>2. CASE m # n + 1
    <3>1. m \in 1 .. n /\ p \in loops[m].todo /\ p \in Pattern
      BY <1>1, <2>2
    <3>2. Handlers(p) > 0
      BY <3>1 DEF ServeInv, Todo, n
    <3> QED BY <1>2, <3>1, <3>2
  <2> QED BY <2>1, <2>2
<1>5. \A p \in Pattern : Handlers(p)' > 0 => ToCome(p)'
  BY <1>1, <1>2 DEF ToCome
<1>6. Up'
  BY <1>1, <1>3, <1>5 DEF Up
<1>7. Down'
  BY <1>1 DEF Down
<1> QED BY <1>4, <1>6, <1>7 DEF ServeInv

LEMMA ServeLoopAsks ==
  ASSUME TypeInv, TypeInv', ServeInv, NEW n \in 1 .. Len(loops), NEW p \in Pattern, LoopAsksDoes(n, p)
  PROVE  ServeInv'
<1>1. /\ connected /\ p \in loops[n].todo /\ Len(loops') = Len(loops) /\ Len(loops) \in Nat
      /\ \A m \in 1 .. Len(loops) : m # n => loops'[m] = loops[m]
      /\ loops'[n].todo = loops[n].todo \ {p} /\ loops'[n].at = "waiting"
      /\ \A m \in 1 .. Len(loops) : loops[m].todo \subseteq Pattern
      /\ UNCHANGED <<connected, stage, left, wire, server, unread>>
  BY Shape DEF LoopAsksDoes
<1>2. Added(<<"subscribe", p>>, n)
  BY DEF LoopAsksDoes
<1>3. PICK k \in Key : k = <<"subscribe", p>> /\ k[1] = "subscribe" /\ k[2] = p
  BY KeyOf
<1>4. Added(k, n)
  BY <1>2, <1>3
<1>5. Assured(p)' /\ \A q \in Pattern : q # p => (Assured(q)' <=> Assured(q)) /\ (Spared(q)' <=> Spared(q))
  BY <1>1, <1>3, <1>4, AskedServed
<1>6. \A q \in Pattern : Handlers(q)' = Handlers(q)
  BY <1>1 DEF Handlers, Holders
<1>7. Handlers(p) > 0 /\ Up
  BY <1>1 DEF ServeInv, Todo
<1>8. Todo'
  <2> SUFFICES ASSUME NEW m \in 1 .. Len(loops), NEW q \in loops'[m].todo
               PROVE  Handlers(q)' > 0
    BY <1>1 DEF Todo
  <2>1. q \in loops[m].todo /\ q \in Pattern
    BY <1>1
  <2>2. Handlers(q) > 0
    BY <2>1 DEF ServeInv, Todo
  <2> QED BY <1>6, <2>1, <2>2
<1>9. \A q \in Pattern : q # p /\ ToCome(q) => ToCome(q)'
  BY <1>1 DEF ToCome
<1>10. Up'
  <2>1. ASSUME NEW q \in Pattern, Handlers(q)' = 0
        PROVE  Spared(q)'
    <3>1. Handlers(q) = 0 /\ q # p
      BY <1>6, <1>7, <2>1
    <3> QED BY <1>1, <1>5, <1>7, <3>1 DEF Up
  <2>2. ASSUME NEW q \in Pattern \cap Granted, Handlers(q)' > 0
        PROVE  Assured(q)' \/ ToCome(q)'
    <3>1. CASE q = p
      BY <1>5, <3>1
    <3>2. CASE q # p
      BY <1>1, <1>5, <1>6, <1>7, <1>9, <2>2, <3>2 DEF Up
    <3> QED BY <3>1, <3>2
  <2>3. Len(loops') > 0
    BY <1>1
  <2> QED BY <2>1, <2>2, <2>3 DEF Up
<1>11. Down'
  BY <1>1 DEF Down
<1> QED BY <1>8, <1>10, <1>11 DEF ServeInv

\* A loop that ends on a connection has nothing to come.
LEMMA ServeLoopEnds ==
  ASSUME TypeInv, TypeInv', ServeInv, NEW n \in 1 .. Len(loops), LoopEndsDoes(n)
  PROVE  ServeInv'
<1>1. /\ loops[n].todo = {} \/ ~connected
      /\ Len(loops') = Len(loops) /\ Len(loops) \in Nat
      /\ \A m \in 1 .. Len(loops) : m # n => loops'[m] = loops[m]
      /\ loops'[n].todo = {}
      /\ \A m \in 1 .. Len(loops) : loops[m].todo \subseteq Pattern
      /\ UNCHANGED <<connected, stage, left, requests, wire, server, unread>>
  BY Shape DEF LoopEndsDoes
<1>2. \A q \in Pattern : /\ Handlers(q)' = Handlers(q)
                         /\ (Assured(q)' <=> Assured(q)) /\ (Spared(q)' <=> Spared(q))
  BY <1>1 DEF Handlers, Holders, Assured, Spared, LastUnread, WillBeServed, Sending, OnWire
<1>3. Todo'
  <2> SUFFICES ASSUME NEW m \in 1 .. Len(loops), NEW q \in loops'[m].todo
               PROVE  Handlers(q)' > 0
    BY <1>1 DEF Todo
  <2>1. q \in loops[m].todo /\ q \in Pattern
    BY <1>1
  <2>2. Handlers(q) > 0
    BY <2>1 DEF ServeInv, Todo
  <2> QED BY <1>2, <2>1, <2>2
<1>4. Down'
  BY <1>1 DEF ServeInv, Down
<1>5. ASSUME connected
      PROVE  Up'
  <2>1. Up /\ Len(loops) > 0 /\ loops[n].todo = {}
    BY <1>1, <1>5 DEF ServeInv, Up
  <2>2. \A q \in Pattern : ToCome(q) => ToCome(q)'
    BY <1>1, <2>1 DEF ToCome
  <2>3. ASSUME NEW q \in Pattern, Handlers(q)' = 0
        PROVE  Spared(q)'
    BY <1>2, <1>5, <2>1, <2>3 DEF Up
  <2>4. ASSUME NEW q \in Pattern \cap Granted, Handlers(q)' > 0
        PROVE  Assured(q)' \/ ToCome(q)'
    BY <1>2, <1>5, <2>1, <2>2, <2>4 DEF Up
  <2>5. Len(loops') > 0
    BY <1>1, <2>1
  <2> QED BY <2>3, <2>4, <2>5 DEF Up
<1>6. ~connected => Up'
  BY <1>1 DEF Up
<1> QED BY <1>3, <1>4, <1>5, <1>6 DEF ServeInv

LEMMA ServeLose ==
  ASSUME TypeInv, TypeInv', TalkInv, ServeInv, Lose
  PROVE  ServeInv'
<1>1. ~connected' /\ wire' = <<>> /\ server' = {} /\ unread' = {} /\ Settled(LostBy, "rejected")
  BY LoseSettles
<1>2. /\ Len(requests') = Len(requests) /\ Len(loops') = Len(loops)
      /\ \A n \in 1 .. Len(loops) : loops'[n].todo = loops[n].todo /\ loops[n].todo \subseteq Pattern
      /\ \A p \in Pattern : Handlers(p)' = Handlers(p)
  BY <1>1, Shape DEF Settled
<1>3. \A i \in 1 .. Len(requests) : requests'[i].at # "sending"
  <2> SUFFICES ASSUME NEW i \in 1 .. Len(requests)
               PROVE  requests'[i].at # "sending"
    OBVIOUS
  <2>1. CASE requests[i].at = "sending"
    <3>1. i \in LostBy /\ IsOpen(i)
      BY <2>1 DEF LostBy, IsOpen
    <3>2. requests'[i].at = "rejected"
      BY <1>1, <3>1 DEF Settled
    <3> QED BY <3>2
  <2>2. CASE requests[i].at # "sending"
    <3>1. requests'[i].at \in {"rejected", requests[i].at}
      BY <1>1 DEF Settled
    <3> QED BY <2>2, <3>1
  <2> QED BY <2>1, <2>2
<1>4. Down' /\ Up'
  BY <1>1, <1>2, <1>3 DEF Down, Up
<1>5. Todo'
  BY <1>2 DEF ServeInv, Todo
<1> QED BY <1>4, <1>5 DEF ServeInv

\* An answer and a timer settle a request that was written.
LEMMA ServeSettled ==
  ASSUME TypeInv, TypeInv', ServeInv, NEW is, NEW o \in {"resolved", "rejected"}, Settled(is, o),
         UNCHANGED <<connected, wire, server, unread>>,
         \A i \in 1 .. Len(requests) : i \in is => requests[i].at # "sending"
  PROVE  ServeInv'
<1>1. /\ Len(requests') = Len(requests) /\ Len(loops') = Len(loops)
      /\ \A n \in 1 .. Len(loops) : loops'[n].todo = loops[n].todo /\ loops'[n].at \in {loops[n].at, "next"}
      /\ \A p \in Pattern : Handlers(p)' = Handlers(p)
  BY DEF Settled
<1>2. \A i \in 1 .. Len(requests) :
        /\ requests'[i].key = requests[i].key
        /\ requests'[i].at = "sending" <=> requests[i].at = "sending"
  BY DEF Settled, IsOpen
<1>3. \A p \in Pattern : (Assured(p)' <=> Assured(p)) /\ (Spared(p)' <=> Spared(p))
  BY <1>1, <1>2, ServedAlike
<1> QED BY <1>1, <1>2, <1>3, ServeKept

LEMMA InitServe == Init => ServeInv
<1> SUFFICES ASSUME Init
             PROVE  ServeInv
  OBVIOUS
<1>1. Len(requests) = 0 /\ Len(loops) = 0 /\ wire = <<>> /\ server = {} /\ unread = {} /\ ~connected
  BY DEF Init
<1> QED BY <1>1 DEF ServeInv, Down, Todo, Up

LEMMA StepServe == Inv /\ Inv' /\ ServeInv /\ [Next]_vars => ServeInv'
<1> SUFFICES ASSUME Inv, Inv', ServeInv, [Next]_vars
             PROVE  ServeInv'
  OBVIOUS
<1>0. /\ TypeInv /\ TalkInv /\ TypeInv' /\ ServeInv
      /\ DOMAIN requests = 1 .. Len(requests) /\ DOMAIN loops = 1 .. Len(loops)
  BY Shape DEF Inv
<1>1. ASSUME UNCHANGED <<connected, loops, requests, wire, server, unread>>,
             \A p \in Pattern : Handlers(p)' = Handlers(p)
      PROVE  ServeInv'
  <2>1. \A p \in Pattern : (Assured(p)' <=> Assured(p)) /\ (Spared(p)' <=> Spared(p))
    BY <1>1 DEF Assured, Spared, LastUnread, WillBeServed, Sending, OnWire
  <2>2. /\ Len(loops') = Len(loops) /\ connected' = connected
        /\ \A n \in 1 .. Len(loops) : loops'[n].todo = loops[n].todo /\ loops'[n].at \in {loops[n].at, "next"}
        /\ UNCHANGED <<wire, server, unread>> /\ Len(requests') = Len(requests)
        /\ \A i \in 1 .. Len(requests) : requests'[i].at = "sending" => requests[i].at = "sending"
    BY <1>1
  <2> QED BY <1>0, <1>1, <2>1, <2>2, ServeKept
<1>2. ASSUME NEW u \in User, Acts(u)
      PROVE  ServeInv'
  <2>1. ASSUME NEW p \in Uses[u], CallerSubscribes(u, p)
        PROVE  ServeInv'
    <3>1. p \in Pattern
      BY SubscriptionsAssumption
    <3> QED BY <1>0, <2>1, <3>1, ServeSubscribe DEF CallerSubscribes
  <2>2. ASSUME NEW p \in Uses[u], Mount(u, p)
        PROVE  ServeInv'
    <3>1. p \in Pattern /\ stage[u] = Off
      BY <2>2, SubscriptionsAssumption DEF Mount
    <3>2. CASE connected
      BY <1>0, <2>2, <3>1, <3>2, ServeSubscribe DEF Mount
    <3>3. CASE ~connected
      <4>1. /\ stage' = [stage EXCEPT ![u] = [at |-> "mounted", on |-> p]]
            /\ UNCHANGED <<connected, left, requests, loops, wire, server, unread>>
        BY <2>2, <3>3 DEF Mount, net
      <4>2. stage \in [User -> Stage] /\ stage[u].at = "none"
        BY <1>0, <3>1 DEF TypeInv, TableType, Off
      <4>3. \A q \in Pattern : Holders(q)' = Holders(q)
        BY <4>1, <4>2 DEF Holders
      <4>4. \A q \in Pattern : Handlers(q)' = Handlers(q)
        BY <4>1, <4>3 DEF Handlers
      <4> QED BY <1>1, <4>1, <4>4
    <3> QED BY <3>2, <3>3
  <2>3. CASE Unsubscribe(u)
    BY <1>0, <2>3, ServeUnsubscribe
  <2>4. CASE UnmountEarly(u)
    <3>1. \A q \in Pattern : Handlers(q)' = Handlers(q)
      BY <1>0, <2>4, UnmountDoes
    <3>2. UNCHANGED <<connected, loops, wire, server, unread>>
      BY <2>4 DEF UnmountEarly, net
    <3>3. /\ Len(requests') = Len(requests)
          /\ \A i \in 1 .. Len(requests) : requests'[i].key = requests[i].key /\ requests'[i].at = requests[i].at
      BY <1>0, <2>4, TypeTalkUnmount
    <3>4. \A p \in Pattern : (Assured(p)' <=> Assured(p)) /\ (Spared(p)' <=> Spared(p))
      BY <1>0, <3>2, <3>3, ServedAlike
    <3>5. /\ Len(loops') = Len(loops)
          /\ \A n \in 1 .. Len(loops) : loops'[n].todo = loops[n].todo /\ loops'[n].at \in {loops[n].at, "next"}
      BY <3>2
    <3> QED BY <1>0, <3>1, <3>2, <3>3, <3>4, <3>5, ServeKept
  <2> QED BY <1>2, <2>1, <2>2, <2>3, <2>4 DEF Acts
<1>3. ASSUME NEW i \in 1 .. Len(requests), Written(i)
      PROVE  ServeInv'
  <2>1. /\ UNCHANGED <<connected, stage, left, loops, server>> /\ requests[i].at = "sending"
    BY <1>0, <1>3, WrittenDoes
  <2>2. connected
    BY <2>1 DEF ServeInv, Down
  <2>3. \A p \in Pattern : (Assured(p)' <=> Assured(p)) /\ (Spared(p)' <=> Spared(p))
    BY <1>0, <1>3, WrittenServed
  <2>4. \A p \in Pattern : Handlers(p)' = Handlers(p)
    BY <2>1 DEF Handlers, Holders
  <2>5. /\ Len(loops') = Len(loops) /\ connected' = connected
        /\ \A n \in 1 .. Len(loops) : loops'[n].todo = loops[n].todo /\ loops'[n].at \in {loops[n].at, "next"}
    BY <2>1
  <2> QED BY <1>0, <2>2, <2>3, <2>4, <2>5, ServeKept
<1>4. ASSUME NEW i \in 1 .. Len(requests), TimerFires(i)
      PROVE  ServeInv'
  <2>1. PICK is : is = IF pending[requests[i].key] = 0 THEN {} ELSE {i}
    OBVIOUS
  <2>2. Settled(is, "rejected") /\ UNCHANGED <<connected, wire, server, unread>> /\ requests[i].timer
    BY <1>0, <1>4, <2>1, TimerSettles
  <2>3. \A j \in 1 .. Len(requests) : j \in is => requests[j].at # "sending"
    BY <1>0, <2>1, <2>2 DEF TalkInv, Untimed
  <2> QED BY <1>0, <2>2, <2>3, ServeSettled
<1>5. CASE Serve
  <2>1. wire # <<>> /\ UNCHANGED <<connected, stage, left, loops, requests>>
    BY <1>5 DEF Serve, tables
  <2>2. connected
    BY <2>1 DEF ServeInv, Down
  <2>3. \A p \in Pattern : /\ Spared(p) => Spared(p)'
                           /\ p \in Granted /\ Assured(p) => Assured(p)'
    <3>1. PICK k \in Key : k = Head(wire)
      BY <1>0, <2>1, HeadTail DEF TypeInv, NetType
    <3>2. /\ wire' = Tail(wire) /\ requests' = requests /\ unread' = unread \ {k[2]}
          /\ server' = IF k[1] = "unsubscribe" THEN server \ {k[2]}
                       ELSE IF k[2] \in Granted THEN server \cup {k[2]} ELSE server
      BY <1>5, <2>1, <3>1 DEF Serve
    <3> QED BY <1>0, <2>1, <3>1, <3>2, ReadServed
  <2>4. \A p \in Pattern : Handlers(p)' = Handlers(p)
    BY <2>1 DEF Handlers, Holders
  <2>5. /\ Len(loops') = Len(loops) /\ connected' = connected
        /\ \A n \in 1 .. Len(loops) : loops'[n].todo = loops[n].todo /\ loops'[n].at \in {loops[n].at, "next"}
    BY <2>1
  <2> QED BY <1>0, <2>2, <2>3, <2>4, <2>5, ServeKept
<1>12. CASE GarbleRequests
  <2>1. wire # <<>> /\ UNCHANGED <<connected, stage, left, loops, requests, server>>
    BY <1>12 DEF GarbleRequests, tables
  <2>2. connected
    BY <2>1 DEF ServeInv, Down
  <2>3. \A p \in Pattern : /\ Spared(p) => Spared(p)'
                           /\ p \in Granted /\ Assured(p) => Assured(p)'
    <3>1. PICK k \in Key : k = Head(wire)
      BY <1>0, <2>1, HeadTail DEF TypeInv, NetType
    <3>2. wire' = Tail(wire) /\ unread' = unread \cup {k[2]}
      BY <1>12, <3>1 DEF GarbleRequests
    <3> QED BY <1>0, <2>1, <3>1, <3>2, ReadServed
  <2>4. \A p \in Pattern : Handlers(p)' = Handlers(p)
    BY <2>1 DEF Handlers, Holders
  <2>5. /\ Len(loops') = Len(loops) /\ connected' = connected
        /\ \A n \in 1 .. Len(loops) : loops'[n].todo = loops[n].todo /\ loops'[n].at \in {loops[n].at, "next"}
    BY <2>1
  <2> QED BY <1>0, <2>2, <2>3, <2>4, <2>5, ServeKept
<1>6. CASE Receive
  <2>1. PICK h \in Answer : h = Head(inbox)
    BY <1>0, <1>6, ReceiveSettles
  <2>2. h.key \in Key
    BY DEF Answer
  <2>3. PICK is : is = IF pending[h.key] = 0 THEN {} ELSE {pending[h.key]}
    OBVIOUS
  <2>4. PICK o \in {"resolved", "rejected"} : o = IF h.ok THEN "resolved" ELSE "rejected"
    OBVIOUS
  <2>5. Settled(is, o) /\ UNCHANGED <<connected, wire, server, unread>>
    BY <1>0, <1>6, <2>1, <2>3, <2>4, ReceiveSettles
  <2>6. \A i \in 1 .. Len(requests) : i \in is => requests[i].at # "sending"
    BY <1>0, <2>2, <2>3 DEF TalkInv, Entries
  <2> QED BY <1>0, <2>5, <2>6, ServeSettled
<1>7. CASE Connect
  BY <1>0, <1>7, TypeTalkConnect, ServeConnect
<1>8. CASE Lose
  BY <1>0, <1>8, ServeLose
<1>9. ASSUME NEW n \in 1 .. Len(loops), LoopEnds(n)
      PROVE  ServeInv'
  BY <1>0, <1>9, TypeTalkLoopEnds, ServeLoopEnds
<1>10. ASSUME NEW n \in 1 .. Len(loops), NEW p \in Pattern, LoopAsks(n, p)
       PROVE  ServeInv'
  BY <1>0, <1>10, TypeTalkLoopAsks, ServeLoopAsks
<1>11. CASE UNCHANGED vars
  <2>1. UNCHANGED <<connected, loops, requests, wire, server, unread, stage, left>>
    BY <1>11 DEF vars, tables, net
  <2>2. \A p \in Pattern : Handlers(p)' = Handlers(p)
    BY <2>1 DEF Handlers, Holders
  <2> QED BY <1>1, <2>1, <2>2
<1> QED BY <1>0, <1>2, <1>3, <1>4, <1>5, <1>6, <1>7, <1>8, <1>9, <1>10, <1>11, <1>12 DEF Next

-----------------------------------------------------------------------------
LEMMA AlwaysServe == Spec => [](Inv /\ ServeInv)
BY InitInv, StepInv, InitServe, StepServe, PTL DEF Spec

(* HandlersServed (client.ts:181-213, 313-321): once a connection's          *)
(* resubscribe() has ended, a granted pattern that has handlers is or will   *)
(* be served, whoever came and went while it went on, unless it was the last *)
(* request about that pattern that the server could not read.                *)
THEOREM EveryHandlerServed == Spec => []HandlersServed
<1>1. Inv /\ ServeInv => HandlersServed
  <2> SUFFICES ASSUME Inv, ServeInv, Resubscribed, NEW p \in Pattern \cap Granted, Handlers(p) > 0
               PROVE  Assured(p)
    BY DEF HandlersServed, Assured
  <2>1. connected /\ loops[Len(loops)].at = "done"
    BY DEF Resubscribed, Last
  <2>2. ~ToCome(p)
    BY <2>1 DEF ToCome
  <2> QED BY <2>1, <2>2 DEF ServeInv, Up
<1> QED BY <1>1, AlwaysServe, PTL

(* IdleNotServed (client.ts:200-210): and a pattern without handlers is not, *)
(* with the same exception: no loop asks for what has lost its last handler. *)
THEOREM NoneServedInVain == Spec => []IdleNotServed
<1>1. Inv /\ ServeInv => IdleNotServed
  BY DEF IdleNotServed, Resubscribed, ServeInv, Up, Spared
<1> QED BY <1>1, AlwaysServe, PTL

=============================================================================

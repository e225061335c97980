------------------------ MODULE RustOperationsProofs ------------------------
(***************************************************************************)
(* RustOperations, for any callers, patterns, channels, grants, capacity,   *)
(* calls and faults: types and tables, that no more operations return Ok    *)
(* than were carried out, and that the server serves every pattern with     *)
(* handlers.                                                                *)
(***************************************************************************)
EXTENDS RustOperations, FiniteSetTheorems, TLAPS

-----------------------------------------------------------------------------
(* Names and keys.                                                           *)

LEMMA Keys ==
  /\ \A p \in Pattern : <<"subscribe", p>> \in Key /\ <<"unsubscribe", p>> \in Key
  /\ \A ch \in Channel : <<"publish", ch>> \in Key
  /\ \A n \in Number : <<"ping", n>> \in Key
  /\ <<"none">> \notin Key
  /\ \A k \in Key : k = <<k[1], k[2]>>
  /\ \A k \in Key : k[1] \in {"subscribe", "unsubscribe"} => k[2] \in Pattern
BY DEF Key, Number

-----------------------------------------------------------------------------
(* What is true between two steps.                                           *)

\* A call that is not under way has left nothing behind, and the call of a
\* request is the one that its stage needs.
InStep(t) ==
    /\ At(t, "idle") => call[t] = NoCall
    /\ ~At(t, "idle") => call[t].key \in Key
    /\ answer[t] # "none" => call[t].at \in {"send", "wait"}
    /\ request[t].at = "none" => request[t] = NoRequest
    /\ request[t].at # "none" =>
          t \in Callers /\ request[t].on \in Pattern /\ request[t].id \in Number
    /\ request[t].at = "subscribing" => call[t].key = <<"subscribe", request[t].on>>
    /\ request[t].at = "publishing" => call[t].key[1] = "publish"
    /\ request[t].at = "awaiting" => At(t, "idle")
    /\ request[t].at = "leaving" => call[t].key = <<"unsubscribe", request[t].on>>

AllInStep == \A t \in Tasks : InStep(t)

\* Who has a handler of p in the table for a Subscription that it holds or is
\* about to, and who has one for a request.
Holding(p) == {c \in Callers :
    p \in held[c] \/ (call[c].key = <<"subscribe", p>> /\ request[c].at = "none")}
Awaiting(p) == {c \in Callers :
    request[c].on = p /\ request[c].at \in {"subscribing", "publishing", "awaiting"}}

\* Each of them has a handler of its own, so one that goes leaves the others theirs.
Counted == \A p \in Pattern : Cardinality(Holding(p)) + Cardinality(Awaiting(p)) <= handlers[p]

Inv == /\ ClientType /\ CallType /\ NetType /\ HistoryType
       /\ EntriesWait /\ AllInStep /\ Counted

LEMMA CardOneMore ==
  ASSUME NEW S, IsFiniteSet(S), NEW c, NEW T \in SUBSET (S \cup {c})
  PROVE  IsFiniteSet(T) /\ Cardinality(T) \in Nat /\ Cardinality(T) <= Cardinality(S) + 1
<1>1. /\ IsFiniteSet(S \cup {c}) /\ Cardinality(S) \in Nat
      /\ Cardinality(S \cup {c}) \in Nat /\ Cardinality(S \cup {c}) <= Cardinality(S) + 1
  BY FS_AddElement, FS_CardinalityType
<1>2. IsFiniteSet(T) /\ Cardinality(T) \in Nat /\ Cardinality(T) <= Cardinality(S \cup {c})
  BY <1>1, FS_Subset, FS_CardinalityType
<1> QED BY <1>1, <1>2

LEMMA CardOneLess ==
  ASSUME NEW S, IsFiniteSet(S), NEW c \in S, NEW T \in SUBSET (S \ {c})
  PROVE  IsFiniteSet(T) /\ Cardinality(T) \in Nat /\ Cardinality(T) <= Cardinality(S) - 1
<1>1. /\ IsFiniteSet(S \ {c}) /\ Cardinality(S) \in Nat
      /\ Cardinality(S \ {c}) = Cardinality(S) - 1
  BY FS_RemoveElement, FS_CardinalityType
<1>2. IsFiniteSet(T) /\ Cardinality(T) \in Nat /\ Cardinality(T) <= Cardinality(S \ {c})
  BY <1>1, FS_Subset, FS_CardinalityType
<1> QED BY <1>1, <1>2

\* One handler more for one more who has one, one less for one who goes.
Change(H, A, n, H2, A2, n2, c) ==
    \/ n2 = n /\ H2 \subseteq H /\ A2 \subseteq A
    \/ n2 = n + 1 /\ H2 \subseteq H \cup {c} /\ A2 \subseteq A
    \/ n2 = n + 1 /\ H2 \subseteq H /\ A2 \subseteq A \cup {c}
    \/ n2 = n - 1 /\ c \in H /\ H2 \subseteq H \ {c} /\ A2 \subseteq A
    \/ n2 = n - 1 /\ c \in A /\ H2 \subseteq H /\ A2 \subseteq A \ {c}

LEMMA CountKept ==
  ASSUME NEW H, NEW A, NEW n \in Nat, H \subseteq Callers, A \subseteq Callers,
         Cardinality(H) + Cardinality(A) <= n,
         NEW H2, NEW A2, NEW n2, NEW c, Change(H, A, n, H2, A2, n2, c)
  PROVE  n2 \in Nat /\ Cardinality(H2) + Cardinality(A2) <= n2
<1>1. /\ IsFiniteSet(H) /\ IsFiniteSet(A)
      /\ Cardinality(H) \in Nat /\ Cardinality(A) \in Nat
  BY OperationsAssumption, FS_Subset, FS_CardinalityType
<1>2. /\ H2 \subseteq H => Cardinality(H2) \in Nat /\ Cardinality(H2) <= Cardinality(H)
      /\ A2 \subseteq A => Cardinality(A2) \in Nat /\ Cardinality(A2) <= Cardinality(A)
  BY <1>1, FS_Subset, FS_CardinalityType
<1>3. H2 \subseteq H \cup {c} => Cardinality(H2) \in Nat /\ Cardinality(H2) <= Cardinality(H) + 1
  BY <1>1, CardOneMore
<1>4. A2 \subseteq A \cup {c} => Cardinality(A2) \in Nat /\ Cardinality(A2) <= Cardinality(A) + 1
  BY <1>1, CardOneMore
<1>5. c \in H /\ H2 \subseteq H \ {c} => Cardinality(H2) \in Nat /\ Cardinality(H2) <= Cardinality(H) - 1
  BY <1>1, CardOneLess
<1>6. c \in A /\ A2 \subseteq A \ {c} => Cardinality(A2) \in Nat /\ Cardinality(A2) <= Cardinality(A) - 1
  BY <1>1, CardOneLess
<1> QED BY <1>1, <1>2, <1>3, <1>4, <1>5, <1>6 DEF Change

LEMMA CountedHandled ==
  ASSUME ClientType, CallType, AllInStep, Counted
  PROVE  Handled
<1>1. ASSUME NEW p \in Pattern, NEW c \in Holding(p) \cup Awaiting(p)
      PROVE  handlers[p] > 0
  <2>1. Holding(p) \subseteq Callers /\ Awaiting(p) \subseteq Callers
    BY DEF Holding, Awaiting
  <2>2. IsFiniteSet(Holding(p)) /\ IsFiniteSet(Awaiting(p))
    BY <2>1, OperationsAssumption, FS_Subset
  <2>3. Cardinality(Holding(p)) \in Nat /\ Cardinality(Awaiting(p)) \in Nat
    BY <2>2, FS_CardinalityType
  <2>4. Cardinality(Holding(p)) # 0 \/ Cardinality(Awaiting(p)) # 0
    BY <2>2, FS_EmptySet
  <2> QED BY <2>3, <2>4 DEF Counted, ClientType
<1>2. ASSUME NEW c \in Callers
      PROVE  /\ held[c] \subseteq Pattern /\ \A p \in held[c] : c \in Holding(p)
             /\ request[c].at \in {"subscribing", "publishing", "awaiting"} =>
                  request[c].on \in Pattern /\ c \in Awaiting(request[c].on)
  BY DEF Tasks, Holding, Awaiting, ClientType, AllInStep, InStep
<1> QED BY <1>1, <1>2 DEF Handled

LEMMA InitInv == Init => Inv
<1> SUFFICES ASSUME Init PROVE Inv
  OBVIOUS
<1> USE OperationsAssumption DEF Init
<1>1. /\ ClientType /\ CallType /\ NetType /\ HistoryType
      /\ EntriesWait /\ AllInStep
  BY DEF ClientType, CallType, NetType, HistoryType, EntriesWait, AllInStep, InStep, At,
         Tasks, NoCall, NoRequest, Phases, Places, Answers, Stages, Replies
<1>2. ASSUME NEW p \in Pattern
      PROVE  Cardinality(Holding(p)) + Cardinality(Awaiting(p)) <= handlers[p]
  <2>1. Holding(p) = {} /\ Awaiting(p) = {}
    BY DEF Holding, Awaiting, Tasks, NoCall, NoRequest
  <2>2. Cardinality({}) = 0
    BY FS_EmptySet
  <2> QED BY <2>1, <2>2
<1> QED BY <1>1, <1>2 DEF Inv, Counted

-----------------------------------------------------------------------------
(* What the helpers of a call do.                                            *)

LEMMA ToldShape ==
  ASSUME CallType, NEW key \in Key, NEW what \in Answers
  PROVE  /\ Told(key, what) \in [Tasks -> Answers]
         /\ \A s \in Tasks : Told(key, what)[s] = IF pending[key] = s THEN what ELSE answer[s]
BY DEF Told, CallType

\* Calls of others, and what is not of calls, are as they were.
Moves(t, nc, nr) ==
    /\ nc \in [key : Key \cup {<<"none">>}, at : Places]
    /\ nr \in [at : Stages, id : 0 .. MaxCalls, on : Pattern \cup {Nobody}, got : Replies]
    /\ call' = [call EXCEPT ![t] = nc] /\ request' = [request EXCEPT ![t] = nr]

LEMMA MovesShape ==
  ASSUME CallType, NEW t \in Tasks, NEW nc, NEW nr, Moves(t, nc, nr)
  PROVE  /\ call' \in [Tasks -> [key : Key \cup {<<"none">>}, at : Places]]
         /\ request' \in [Tasks -> [at : Stages, id : 0 .. MaxCalls, on : Pattern \cup {Nobody}, got : Replies]]
         /\ call'[t] = nc /\ request'[t] = nr
         /\ \A s \in Tasks \ {t} : call'[s] = call[s] /\ request'[s] = request[s]
BY DEF CallType, Moves

\* How a call ends: for good, or as the next step of a request.
Over(t) == Ends(t, TRUE) \/ Ends(t, FALSE)

LEMMA EndsShape ==
  ASSUME CallType, AllInStep, NEW t \in Tasks, Over(t)
  PROVE  \E nc, nr :
           /\ Moves(t, nc, nr)
           /\ \/ nc = NoCall /\ nr = NoRequest
              \/ /\ request[t].at = "publishing"
                 /\ nc = NoCall /\ nr = [request[t] EXCEPT !.at = "awaiting"]
              \/ /\ request[t].at = "subscribing"
                 /\ nr = [request[t] EXCEPT !.at = "publishing"]
                 /\ \E ch \in Channel : nc = [key |-> <<"publish", ch>>, at |-> "register"]
<1> USE OperationsAssumption
<1>1. NoCall \in [key : Key \cup {<<"none">>}, at : Places]
  BY DEF NoCall, Places
<1>2. /\ request[t] \in [at : Stages, id : 0 .. MaxCalls, on : Pattern \cup {Nobody}, got : Replies]
      /\ NoRequest \in [at : Stages, id : 0 .. MaxCalls, on : Pattern \cup {Nobody}, got : Replies]
      /\ request \in [Tasks -> [at : Stages, id : 0 .. MaxCalls, on : Pattern \cup {Nobody}, got : Replies]]
      /\ call \in [Tasks -> [key : Key \cup {<<"none">>}, at : Places]]
  BY DEF CallType, NoRequest, Stages, Replies
<1>3. CASE Ends(t, TRUE) /\ request[t].at = "subscribing"
  <2>1. PICK ch \in Channel :
          /\ call' = [call EXCEPT ![t] = [key |-> <<"publish", ch>>, at |-> "register"]]
          /\ request' = [request EXCEPT ![t].at = "publishing"]
    BY <1>3 DEF Ends
  <2>2. [key |-> <<"publish", ch>>, at |-> "register"] \in [key : Key \cup {<<"none">>}, at : Places]
    BY Keys DEF Places
  <2>3. /\ request' = [request EXCEPT ![t] = [request[t] EXCEPT !.at = "publishing"]]
        /\ [request[t] EXCEPT !.at = "publishing"] \in
             [at : Stages, id : 0 .. MaxCalls, on : Pattern \cup {Nobody}, got : Replies]
    BY <1>2, <2>1 DEF Stages
  <2> QED BY <1>3, <2>1, <2>2, <2>3 DEF Moves
<1>4. CASE ~(Ends(t, TRUE) /\ request[t].at = "subscribing")
  <2>1. /\ call' = [call EXCEPT ![t] = NoCall]
        /\ \/ request' = [request EXCEPT ![t] = NoRequest]
           \/ /\ request[t].at = "publishing"
              /\ request' = [request EXCEPT ![t] = [request[t] EXCEPT !.at = "awaiting"]]
    BY <1>2, <1>4 DEF Over, Ends
  <2>2. [request[t] EXCEPT !.at = "awaiting"] \in
             [at : Stages, id : 0 .. MaxCalls, on : Pattern \cup {Nobody}, got : Replies]
    BY <1>2 DEF Stages
  <2> QED BY <1>1, <1>2, <2>1, <2>2 DEF Moves
<1> QED BY <1>3, <1>4

\* A call at a place that it has not begun from is not one of a pending entry.
LEMMA NoEntry ==
  ASSUME EntriesWait, NEW t \in Tasks, call[t].at \notin {"send", "wait"} \/ answer[t] # "none"
  PROVE  \A k \in Key : pending[k] # t
BY DEF EntriesWait

\* A step that leaves calls and handlers alone.
LEMMA CallsKept ==
  ASSUME Inv, UNCHANGED <<callVars, handlers, held>>
  PROVE  CallType' /\ EntriesWait' /\ AllInStep' /\ Counted'
<1>1. CallType' /\ EntriesWait' /\ AllInStep'
  BY DEF Inv, callVars, CallType, EntriesWait, AllInStep, InStep, At
<1>2. \A p \in Pattern : Holding(p)' = Holding(p) /\ Awaiting(p)' = Awaiting(p)
  BY DEF callVars, Holding, Awaiting
<1> QED BY <1>1, <1>2 DEF Inv, Counted

\* A step of t that takes no entry and no answer for others keeps the tables.
LEMMA MovesInStep ==
  ASSUME Inv, NEW t \in Tasks, NEW nc, NEW nr, Moves(t, nc, nr),
         pending' \in [Key -> Tasks \cup {Nobody, Gone}], answer' \in [Tasks -> Answers],
         \A k \in Key, s \in Tasks \ {t} : pending'[k] = s => pending[k] = s /\ answer'[s] = answer[s],
         \A s \in Tasks \ {t} :
             answer'[s] # "none" => answer[s] # "none" \/ \E k \in Key : pending[k] = s,
         \A k \in Key :
             pending'[k] = t => nc.key = k /\ nc.at \in {"send", "wait"} /\ answer'[t] = "none",
         InStep(t)'
  PROVE  CallType' /\ EntriesWait' /\ AllInStep'
<1>1. CallType'
  BY MovesShape DEF Inv, CallType
<1>2. ASSUME NEW s \in Tasks \ {t} PROVE InStep(s)'
  <2>1. /\ call'[s] = call[s] /\ request'[s] = request[s] /\ InStep(s)
        /\ answer'[s] # "none" => call[s].at \in {"send", "wait"}
    BY MovesShape DEF Inv, AllInStep, InStep, EntriesWait
  <2> QED BY <2>1 DEF InStep, At
<1>3. ASSUME NEW k \in Key, NEW s \in Tasks, pending'[k] = s
      PROVE  call'[s].key = k /\ call'[s].at \in {"send", "wait"} /\ answer'[s] = "none"
  <2>1. CASE s = t
    BY <1>3, <2>1, MovesShape DEF Inv
  <2>2. CASE s # t
    BY <1>3, <2>2, MovesShape DEF Inv, EntriesWait
  <2> QED BY <2>1, <2>2
<1> QED BY <1>1, <1>2, <1>3 DEF EntriesWait, AllInStep

LEMMA CountedStep ==
  ASSUME Inv, NEW c,
         \A p \in Pattern : Change(Holding(p), Awaiting(p), handlers[p],
                                   Holding(p)', Awaiting(p)', handlers'[p], c)
  PROVE  Counted' /\ \A p \in Pattern : handlers'[p] \in Nat
<1>1. ASSUME NEW p \in Pattern
      PROVE  /\ handlers'[p] \in Nat
             /\ Cardinality(Holding(p)') + Cardinality(Awaiting(p)') <= handlers'[p]
  <2>1. /\ handlers[p] \in Nat /\ Holding(p) \subseteq Callers /\ Awaiting(p) \subseteq Callers
        /\ Cardinality(Holding(p)) + Cardinality(Awaiting(p)) <= handlers[p]
    BY DEF Inv, ClientType, Counted, Holding, Awaiting
  <2>2. Change(Holding(p), Awaiting(p), handlers[p], Holding(p)', Awaiting(p)', handlers'[p], c)
    OBVIOUS
  <2> QED BY <2>1, <2>2, CountKept
<1> QED BY <1>1 DEF Counted

\* A step of t that changes no handlers, and gives t nothing that it did not have.
LEMMA MovesCounted ==
  ASSUME Inv, NEW t \in Tasks, NEW nc, NEW nr, Moves(t, nc, nr), handlers' = handlers,
         held' \in [Callers -> SUBSET Pattern], \A c \in Callers \ {t} : held'[c] = held[c],
         \A p \in Pattern : t \in Callers =>
             /\ (p \in held'[t] \/ (nc.key = <<"subscribe", p>> /\ nr.at = "none")) => t \in Holding(p)
             /\ (nr.on = p /\ nr.at \in {"subscribing", "publishing", "awaiting"}) => t \in Awaiting(p)
  PROVE  Counted'
<1>1. ASSUME NEW p \in Pattern
      PROVE  Holding(p)' \subseteq Holding(p) /\ Awaiting(p)' \subseteq Awaiting(p)
  <2>1. ASSUME NEW c \in Callers
        PROVE  (c \in Holding(p)' => c \in Holding(p)) /\ (c \in Awaiting(p)' => c \in Awaiting(p))
    <3>1. CASE c = t
      BY <3>1, MovesShape DEF Inv, Holding, Awaiting
    <3>2. CASE c # t
      <4>1. c \in Tasks \ {t}
        BY <3>2 DEF Tasks
      <4>2. call'[c] = call[c] /\ request'[c] = request[c] /\ held'[c] = held[c]
        BY <4>1, MovesShape DEF Inv
      <4> QED BY <4>2 DEF Holding, Awaiting
    <3> QED BY <3>1, <3>2
  <2> QED BY <2>1 DEF Holding, Awaiting
<1> QED BY <1>1, CountedStep DEF Change

-----------------------------------------------------------------------------
(* Every step keeps it: what a call does.                                    *)

LEMMA BeginsMoves ==
  ASSUME CallType, NEW t \in Tasks, NEW key \in Key, NEW place \in Places, Begins(t, key, place)
  PROVE  /\ request' = request => Moves(t, [key |-> key, at |-> place], request[t])
         /\ \A nr \in [at : Stages, id : 0 .. MaxCalls, on : Pattern \cup {Nobody}, got : Replies] :
              request' = [request EXCEPT ![t] = nr] => Moves(t, [key |-> key, at |-> place], nr)
BY DEF CallType, Begins, Moves

LEMMA GoesMoves ==
  ASSUME CallType, NEW t \in Tasks, NEW place \in Places, Goes(t, place), UNCHANGED request
  PROVE  Moves(t, [key |-> call[t].key, at |-> place], request[t])
<1>1. call' = [call EXCEPT ![t] = [key |-> call[t].key, at |-> place]]
  <2>1. call[t] \in [key : Key \cup {<<"none">>}, at : Places]
    BY DEF CallType
  <2>2. [call[t] EXCEPT !.at = place] = [key |-> call[t].key, at |-> place]
    BY <2>1
  <2> QED BY <2>2 DEF Goes
<1>2. /\ request[t] \in [at : Stages, id : 0 .. MaxCalls, on : Pattern \cup {Nobody}, got : Replies]
      /\ request = [request EXCEPT ![t] = request[t]]
      /\ [key |-> call[t].key, at |-> place] \in [key : Key \cup {<<"none">>}, at : Places]
  BY DEF CallType
<1> QED BY <1>1, <1>2 DEF Moves

LEMMA RegisterInv ==
  ASSUME Inv, NEW t \in Tasks, Register(t)
  PROVE  Inv'
<1> DEFINE nc == [key |-> call[t].key, at |-> "send"]
<1>1. /\ call[t].at = "register" /\ call[t].key \in Key /\ InStep(t)
      /\ call[t] = [key |-> call[t].key, at |-> "register"]
  BY DEF Inv, AllInStep, InStep, Register, At, CallType
<1>2. Moves(t, nc, request[t])
  BY GoesMoves DEF Register, Inv, Places
<1>3. /\ pending' = [pending EXCEPT ![call[t].key] = t]
      /\ answer' \in [Tasks -> Answers]
      /\ \A s \in Tasks : answer'[s] = IF s = t THEN "none"
                                       ELSE IF pending[call[t].key] = s THEN "dropped" ELSE answer[s]
  BY <1>1, ToldShape DEF Register, Inv, Answers
<1>4. \A k \in Key : pending[k] # t
  BY <1>1, NoEntry DEF Inv
<1>5. InStep(t)'
  BY <1>1, <1>2, <1>3, MovesShape DEF Inv, InStep, At
<1>6. CallType' /\ EntriesWait' /\ AllInStep'
  <2>1. pending' \in [Key -> Tasks \cup {Nobody, Gone}]
    BY <1>1, <1>3 DEF Inv, CallType
  <2>2. ASSUME NEW k \in Key, NEW s \in Tasks \ {t}, pending'[k] = s
        PROVE  pending[k] = s /\ answer'[s] = answer[s]
    BY <1>1, <1>3, <2>2 DEF Inv, CallType, EntriesWait
  <2>3. \A k \in Key : pending'[k] = t => nc.key = k /\ nc.at \in {"send", "wait"} /\ answer'[t] = "none"
    BY <1>1, <1>3, <1>4 DEF Inv, CallType
  <2> QED BY <1>1, <1>2, <1>3, <1>5, <2>1, <2>2, <2>3, MovesInStep
<1>7. Counted'
  BY <1>1, <1>2, MovesCounted DEF Register, clientVars, Inv, ClientType, Holding, Awaiting
<1>8. ClientType' /\ NetType' /\ HistoryType'
  BY DEF Register, clientVars, netVars, history, Inv, ClientType, NetType, HistoryType
<1> QED BY <1>6, <1>7, <1>8 DEF Inv

\* What happens to a call that ends, wherever it ends.
LEMMA EndsInv ==
  ASSUME Inv, NEW t \in Tasks, Over(t), ~At(t, "idle"),
         pending' \in [Key -> Tasks \cup {Nobody, Gone}], answer' \in [Tasks -> Answers],
         \A k \in Key, s \in Tasks : pending'[k] = s => s # t /\ pending[k] = s /\ answer'[s] = answer[s],
         \A s \in Tasks \ {t} :
             answer'[s] # "none" => answer[s] # "none" \/ \E k \in Key : pending[k] = s,
         answer'[t] = "none", handlers' = handlers,
         held' \in [Callers -> SUBSET Pattern], \A c \in Callers \ {t} : held'[c] = held[c],
         t \in Callers => \A p \in held'[t] : t \in Holding(p)
  PROVE  CallType' /\ EntriesWait' /\ AllInStep' /\ Counted'
<1>1. PICK nc, nr :
        /\ Moves(t, nc, nr)
        /\ \/ nc = NoCall /\ nr = NoRequest
           \/ /\ request[t].at = "publishing"
              /\ nc = NoCall /\ nr = [request[t] EXCEPT !.at = "awaiting"]
           \/ /\ request[t].at = "subscribing"
              /\ nr = [request[t] EXCEPT !.at = "publishing"]
              /\ \E ch \in Channel : nc = [key |-> <<"publish", ch>>, at |-> "register"]
  BY EndsShape DEF Inv
<1>2. /\ (InStep(t) /\ t \in Callers) \/ request[t] = NoRequest
      /\ request[t] \in [at : Stages, id : 0 .. MaxCalls, on : Pattern \cup {Nobody}, got : Replies]
  BY DEF Inv, AllInStep, InStep, CallType
<1>3. InStep(t)'
  BY <1>1, <1>2, MovesShape, Keys DEF Inv, InStep, At, NoCall, NoRequest
<1>4. CallType' /\ EntriesWait' /\ AllInStep'
  BY <1>1, <1>3, MovesInStep
<1>5. Counted'
  <2>1. ASSUME NEW p \in Pattern, t \in Callers
        PROVE  /\ ~(nc.key = <<"subscribe", p>> /\ nr.at = "none")
               /\ (nr.on = p /\ nr.at \in {"subscribing", "publishing", "awaiting"}) => t \in Awaiting(p)
    BY <1>1, <1>2, <2>1 DEF NoCall, NoRequest, Awaiting
  <2> QED BY <1>1, <2>1, MovesCounted
<1> QED BY <1>4, <1>5

LEMMA SendInv ==
  ASSUME Inv, NEW t \in Tasks, Send(t)
  PROVE  Inv'
<1>1. /\ call[t].at = "send" /\ call[t].key \in Key /\ InStep(t)
      /\ call[t].key # <<"none">> /\ ~At(t, "idle")
  BY Keys DEF Inv, AllInStep, InStep, Send, At, CallType
<1>2. CASE HasSender
  <2> DEFINE nc == [key |-> call[t].key, at |-> "wait"]
  <2>1. /\ Moves(t, nc, request[t]) /\ UNCHANGED <<pending, answer, request>>
        /\ wire' = Append(wire, [key |-> call[t].key, id |-> request[t].id])
        /\ excused' = Excused(t) /\ Len(wire) < Capacity
    BY <1>2, GoesMoves DEF Send, Inv, Places
  <2>2. InStep(t)'
    BY <1>1, <2>1, MovesShape DEF Inv, InStep, At
  <2>3. CallType' /\ EntriesWait' /\ AllInStep'
    <3>1. \A k \in Key : pending[k] = t => nc.key = k /\ answer[t] = "none"
      BY <1>1 DEF Inv, EntriesWait
    <3>2. pending' \in [Key -> Tasks \cup {Nobody, Gone}] /\ answer' \in [Tasks -> Answers]
      BY <2>1 DEF Inv, CallType
    <3> QED BY <2>1, <2>2, <3>1, <3>2, MovesInStep
  <2>4. Counted'
    BY <1>1, <2>1, MovesCounted DEF Send, clientVars, Inv, ClientType, Holding, Awaiting
  <2>5. NetType'
    <3>1. excused' \in SUBSET Pattern
      <4>1. call[t].key[1] = "subscribe" => call[t].key[2] \in Pattern
        BY <1>1, Keys
      <4>2. excused \in SUBSET Pattern
        BY DEF Inv, NetType
      <4> QED BY <2>1, <4>1, <4>2 DEF Excused
    <3>2. [key |-> call[t].key, id |-> request[t].id] \in [key : Key, id : 0 .. MaxCalls]
      BY <1>1 DEF Inv, CallType
    <3>3. /\ wire' \in Seq([key : Key, id : 0 .. MaxCalls])
          /\ Len(wire') = Len(wire) + 1 /\ Len(wire) \in Nat
      BY <2>1, <3>2 DEF Inv, NetType
    <3> QED BY <2>1, <3>1, <3>3, OperationsAssumption DEF Send, Inv, NetType
  <2>6. ClientType' /\ HistoryType'
    BY DEF Send, clientVars, history, Inv, ClientType, HistoryType
  <2> QED BY <2>3, <2>4, <2>5, <2>6 DEF Inv
<1>3. CASE ~HasSender
  <2>1. /\ pending' = IF pending[call[t].key] = t
                      THEN [pending EXCEPT ![call[t].key] = Gone] ELSE pending
        /\ answer' = [answer EXCEPT ![t] = "none"]
        /\ Over(t) /\ UNCHANGED <<phase, todo, handlers, held, wire, excused, inbox, events, server>>
        /\ UNCHANGED <<confirmed, succeeded, calls, faults>>
    BY <1>3 DEF Send, Over, clientVars, history
  <2>2. /\ pending' \in [Key -> Tasks \cup {Nobody, Gone}] /\ answer' \in [Tasks -> Answers]
        /\ \A s \in Tasks \ {t} : answer'[s] = answer[s]
        /\ answer'[t] = "none"
    BY <1>1, <2>1 DEF Inv, CallType, Answers
  <2>3. ASSUME NEW k \in Key, NEW s \in Tasks, pending'[k] = s
        PROVE  s # t /\ pending[k] = s
    <3>1. pending[k] = t => k = call[t].key
      BY DEF Inv, EntriesWait
    <3> QED BY <1>1, <2>1, <2>3, <3>1, OperationsAssumption DEF Inv, CallType
  <2>4. /\ handlers' = handlers /\ held' \in [Callers -> SUBSET Pattern]
        /\ \A c \in Callers \ {t} : held'[c] = held[c]
        /\ t \in Callers => \A p \in held'[t] : t \in Holding(p)
    BY <2>1 DEF Inv, ClientType, Holding
  <2>5. CallType' /\ EntriesWait' /\ AllInStep' /\ Counted'
    BY <1>1, <2>1, <2>2, <2>3, <2>4, EndsInv
  <2> QED BY <2>1, <2>5 DEF Inv, ClientType, NetType, HistoryType
<1> QED BY <1>2, <1>3

LEMMA ReturnInv ==
  ASSUME Inv, NEW t \in Tasks, Return(t)
  PROVE  Inv'
<1> DEFINE key == call[t].key
<1>1. /\ call[t].at = "wait" /\ key \in Key /\ InStep(t) /\ ~At(t, "idle")
      /\ answer[t] # "none" /\ \A k \in Key : pending[k] # t
  BY NoEntry DEF Inv, AllInStep, InStep, Return, At, CallType
<1>2. /\ held' = IF t \in Callers /\ key[1] = "subscribe" /\ answer[t] = "ok" /\ request[t] = NoRequest
                 THEN [held EXCEPT ![t] = @ \cup {key[2]}] ELSE held
      /\ succeeded' = IF answer[t] = "ok" THEN [succeeded EXCEPT ![key] = @ + 1] ELSE succeeded
      /\ answer' = [answer EXCEPT ![t] = "none"]
      /\ Over(t)
      /\ UNCHANGED <<phase, todo, handlers, pending, netVars, confirmed, calls, faults>>
  BY DEF Return, Over, Ends
<1>3. /\ pending' \in [Key -> Tasks \cup {Nobody, Gone}] /\ answer' \in [Tasks -> Answers]
      /\ \A s \in Tasks \ {t} : answer'[s] = answer[s]
      /\ answer'[t] = "none"
  BY <1>1, <1>2 DEF Inv, CallType, Answers
<1>4. \A k \in Key, s \in Tasks : pending'[k] = s => s # t /\ pending[k] = s
  BY <1>1, <1>2
<1>5. /\ handlers' = handlers /\ held' \in [Callers -> SUBSET Pattern]
      /\ \A c \in Callers \ {t} : held'[c] = held[c]
      /\ t \in Callers => \A p \in held'[t] : t \in Holding(p)
  <2>1. CASE t \in Callers /\ key[1] = "subscribe" /\ answer[t] = "ok" /\ request[t] = NoRequest
    <3>1. request[t].at = "none" /\ key = <<"subscribe", key[2]>>
      BY <1>1, <2>1, Keys DEF NoRequest
    <3>2. key[2] \in Pattern
      BY <1>1, <2>1, Keys
    <3> QED BY <1>2, <2>1, <3>1, <3>2 DEF Inv, ClientType, Holding
  <2>2. CASE ~(t \in Callers /\ key[1] = "subscribe" /\ answer[t] = "ok" /\ request[t] = NoRequest)
    BY <1>2, <2>2 DEF Inv, ClientType, Holding
  <2> QED BY <2>1, <2>2
<1>6. CallType' /\ EntriesWait' /\ AllInStep' /\ Counted'
  BY <1>1, <1>2, <1>3, <1>4, <1>5, EndsInv
<1>7. ClientType' /\ NetType'
  BY <1>2, <1>5 DEF netVars, Inv, ClientType, NetType
<1>8. HistoryType'
  BY <1>1, <1>2 DEF Inv, HistoryType
<1> QED BY <1>6, <1>7, <1>8 DEF Inv

LEMMA TimeoutInv ==
  ASSUME Inv, NEW t \in Tasks, Timeout(t)
  PROVE  Inv'
<1>1. call[t].at = "wait" /\ call[t].key \in Key /\ ~At(t, "idle")
  BY DEF Inv, AllInStep, InStep, Timeout, At
<1>2. /\ pending' = [pending EXCEPT ![call[t].key] = Nobody]
      /\ answer' = [Told(call[t].key, "dropped") EXCEPT ![t] = "none"]
      /\ Over(t) /\ UNCHANGED <<clientVars, netVars, history>>
  BY DEF Timeout, Over
<1>3. /\ answer' \in [Tasks -> Answers] /\ answer'[t] = "none"
      /\ \A s \in Tasks \ {t} : answer'[s] = IF pending[call[t].key] = s THEN "dropped" ELSE answer[s]
  BY <1>1, <1>2, ToldShape DEF Inv, Answers
<1>4. pending' \in [Key -> Tasks \cup {Nobody, Gone}]
  BY <1>2 DEF Inv, CallType
<1>5. ASSUME NEW k \in Key, NEW s \in Tasks, pending'[k] = s
      PROVE  s # t /\ pending[k] = s /\ answer'[s] = answer[s]
  BY <1>1, <1>2, <1>3, <1>5, OperationsAssumption DEF Inv, CallType, EntriesWait
<1>6. \A s \in Tasks \ {t} : answer'[s] # "none" => answer[s] # "none" \/ \E k \in Key : pending[k] = s
  BY <1>1, <1>3
<1>7. /\ handlers' = handlers /\ held' \in [Callers -> SUBSET Pattern]
      /\ \A c \in Callers \ {t} : held'[c] = held[c]
      /\ t \in Callers => \A p \in held'[t] : t \in Holding(p)
  BY <1>2 DEF clientVars, Inv, ClientType, Holding
<1>8. CallType' /\ EntriesWait' /\ AllInStep' /\ Counted'
  BY <1>1, <1>2, <1>3, <1>4, <1>5, <1>6, <1>7, EndsInv
<1>9. ClientType' /\ NetType' /\ HistoryType'
  BY <1>2 DEF clientVars, netVars, history, Inv, ClientType, NetType, HistoryType
<1> QED BY <1>8, <1>9 DEF Inv

-----------------------------------------------------------------------------
(* What callers ask for.                                                     *)

\* A caller that begins a call has no entry, no answer and no other call.
LEMMA Idle ==
  ASSUME Inv, NEW t \in Tasks, At(t, "idle")
  PROVE  /\ call[t] = NoCall /\ answer[t] = "none" /\ \A k \in Key : pending[k] # t
         /\ \A p \in Pattern : call[t].key # <<"subscribe", p>>
BY NoEntry DEF Inv, AllInStep, InStep, At, NoCall

\* And its tables are untouched.
LEMMA BeginsInStep ==
  ASSUME Inv, NEW t \in Tasks, At(t, "idle"), NEW nc, NEW nr, Moves(t, nc, nr),
         UNCHANGED <<pending, answer>>, InStep(t)'
  PROVE  CallType' /\ EntriesWait' /\ AllInStep'
<1>1. /\ pending' \in [Key -> Tasks \cup {Nobody, Gone}] /\ answer' \in [Tasks -> Answers]
      /\ \A k \in Key : pending'[k] # t
  BY Idle DEF Inv, CallType
<1> QED BY <1>1, MovesInStep

LEMMA CallsBound ==
  ASSUME Inv, NEW c \in Callers, NEW operation, Calls(c, operation)
  PROVE  /\ At(c, "idle") /\ request[c] = NoRequest
         /\ calls' \in Number /\ HistoryType' /\ c \in Tasks
BY OperationsAssumption DEF Calls, Inv, HistoryType, Number, Tasks

LEMMA SubscribeInv ==
  ASSUME Inv, NEW c \in Callers, NEW p \in Pattern, SubscribeCalled(c, p)
  PROVE  Inv'
<1>1. /\ At(c, "idle") /\ request[c] = NoRequest /\ HistoryType' /\ c \in Tasks /\ p \notin held[c]
      /\ call[c] = NoCall /\ answer[c] = "none" /\ \A q \in Pattern : call[c].key # <<"subscribe", q>>
  BY CallsBound, Idle DEF SubscribeCalled
<1>2. /\ handlers' = [handlers EXCEPT ![p] = @ + 1]
      /\ UNCHANGED <<phase, todo, pending, answer, request, netVars>>
      /\ \/ Begins(c, <<"subscribe", p>>, "asked") /\ UNCHANGED held
         \/ held' = [held EXCEPT ![c] = @ \cup {p}] /\ UNCHANGED call
  BY DEF SubscribeCalled
<1>3. /\ ClientType' /\ NetType' /\ held' \in [Callers -> SUBSET Pattern]
      /\ \A d \in Callers \ {c} : held'[d] = held[d]
      /\ held'[c] \subseteq held[c] \cup {p}
      /\ handlers'[p] = handlers[p] + 1 /\ \A q \in Pattern \ {p} : handlers'[q] = handlers[q]
  <2>1. /\ handlers' \in [Pattern -> Nat]
        /\ handlers'[p] = handlers[p] + 1 /\ \A q \in Pattern \ {p} : handlers'[q] = handlers[q]
    BY <1>2 DEF Inv, ClientType
  <2>2. /\ held' \in [Callers -> SUBSET Pattern]
        /\ \A d \in Callers \ {c} : held'[d] = held[d]
        /\ held'[c] \subseteq held[c] \cup {p}
    BY <1>2 DEF Inv, ClientType
  <2> QED BY <1>2, <2>1, <2>2 DEF netVars, Inv, ClientType, NetType
<1>4. /\ CallType' /\ EntriesWait' /\ AllInStep'
      /\ \A d \in Callers \ {c} : call'[d] = call[d]
      /\ call'[c] = call[c] \/ call'[c] = [key |-> <<"subscribe", p>>, at |-> "asked"]
  <2>1. CASE Begins(c, <<"subscribe", p>>, "asked")
    <3>1. Moves(c, [key |-> <<"subscribe", p>>, at |-> "asked"], request[c])
      BY <1>1, <1>2, <2>1, BeginsMoves, Keys DEF Inv, Places
    <3>2. /\ call'[c] = [key |-> <<"subscribe", p>>, at |-> "asked"]
          /\ \A d \in Tasks \ {c} : call'[d] = call[d]
      BY <1>1, <3>1, MovesShape DEF Inv
    <3>3. InStep(c)'
      <4>1. request'[c] = NoRequest /\ answer'[c] = "none"
        BY <1>1, <1>2
      <4>2. call'[c].key = <<"subscribe", p>> /\ call'[c].at = "asked"
        BY <3>2
      <4>3. <<"subscribe", p>> \in Key
        BY Keys
      <4> QED BY <4>1, <4>2, <4>3 DEF InStep, At, NoRequest
    <3> QED BY <1>1, <1>2, <3>1, <3>2, <3>3, BeginsInStep DEF Tasks
  <2>2. CASE UNCHANGED call
    BY <1>2, <2>2 DEF Inv, CallType, EntriesWait, AllInStep, InStep, At
  <2> QED BY <1>2, <2>1, <2>2
<1>5. ASSUME NEW q \in Pattern
      PROVE  Change(Holding(q), Awaiting(q), handlers[q], Holding(q)', Awaiting(q)', handlers'[q], c)
  <2>1. Awaiting(q)' = Awaiting(q)
    BY <1>2 DEF Awaiting
  <2>2. Holding(q)' \subseteq Holding(q) \cup {c}
    BY <1>2, <1>3, <1>4 DEF Holding
  <2>3. q # p => Holding(q)' \subseteq Holding(q)
    BY <1>2, <1>3, <1>4 DEF Holding
  <2> QED BY <1>3, <2>1, <2>2, <2>3 DEF Change
<1>6. Counted'
  BY <1>5, CountedStep
<1> QED BY <1>1, <1>3, <1>4, <1>6 DEF Inv

LEMMA BeginsShape ==
  ASSUME CallType, NEW t \in Tasks, NEW key, NEW place, Begins(t, key, place)
  PROVE  /\ call'[t].key = key /\ call'[t].at = place
         /\ \A s \in Tasks \ {t} : call'[s] = call[s]
BY DEF CallType, Begins

LEMMA UnsubscribeInv ==
  ASSUME Inv, NEW c \in Callers, NEW p \in Pattern, UnsubscribeCalled(c, p)
  PROVE  Inv'
<1>1. /\ At(c, "idle") /\ request[c] = NoRequest /\ HistoryType' /\ c \in Tasks /\ p \in held[c]
      /\ call[c] = NoCall /\ answer[c] = "none" /\ \A q \in Pattern : call[c].key # <<"subscribe", q>>
  BY CallsBound, Idle DEF UnsubscribeCalled
<1>2. /\ handlers' = [handlers EXCEPT ![p] = @ - 1]
      /\ UNCHANGED <<phase, todo, pending, answer, request, netVars>>
      /\ held' = [held EXCEPT ![c] = @ \ {p}]
      /\ Begins(c, <<"unsubscribe", p>>, "asked") \/ UNCHANGED call
  BY DEF UnsubscribeCalled
<1>3. /\ held' \in [Callers -> SUBSET Pattern] /\ held'[c] = held[c] \ {p}
      /\ \A d \in Callers \ {c} : held'[d] = held[d]
  BY <1>2 DEF Inv, ClientType
<1>4. /\ handlers'[p] = handlers[p] - 1 /\ \A q \in Pattern \ {p} : handlers'[q] = handlers[q]
  BY <1>2 DEF Inv, ClientType
<1>5. /\ CallType' /\ EntriesWait' /\ AllInStep'
      /\ \A d \in Callers \ {c} : call'[d] = call[d]
      /\ \A q \in Pattern : call'[c].key # <<"subscribe", q>>
  <2>1. CASE Begins(c, <<"unsubscribe", p>>, "asked")
    <3>1. Moves(c, [key |-> <<"unsubscribe", p>>, at |-> "asked"], request[c])
      <4>1. <<"unsubscribe", p>> \in Key
        BY Keys
      <4> QED BY <1>1, <1>2, <2>1, <4>1, BeginsMoves DEF Inv, Places
    <3>2. /\ call'[c].key = <<"unsubscribe", p>> /\ call'[c].at = "asked"
          /\ \A d \in Tasks \ {c} : call'[d] = call[d]
      BY <1>1, <2>1, BeginsShape DEF Inv
    <3>3. InStep(c)'
      <4>1. request'[c] = NoRequest /\ answer'[c] = "none"
        BY <1>1, <1>2
      <4>2. <<"unsubscribe", p>> \in Key
        BY Keys
      <4> QED BY <3>2, <4>1, <4>2 DEF InStep, At, NoRequest
    <3> QED BY <1>1, <1>2, <3>1, <3>2, <3>3, BeginsInStep DEF Tasks
  <2>2. CASE UNCHANGED call
    BY <1>1, <1>2, <2>2 DEF Inv, CallType, EntriesWait, AllInStep, InStep, At
  <2> QED BY <1>2, <2>1, <2>2
<1>6. ASSUME NEW q \in Pattern
      PROVE  Change(Holding(q), Awaiting(q), handlers[q], Holding(q)', Awaiting(q)', handlers'[q], c)
  <2>1. Awaiting(q)' = Awaiting(q)
    BY <1>2 DEF Awaiting
  <2>2. Holding(q)' \subseteq Holding(q) /\ (q = p => c \in Holding(q) /\ c \notin Holding(q)')
    BY <1>1, <1>2, <1>3, <1>5 DEF Holding
  <2> QED BY <1>4, <2>1, <2>2 DEF Change
<1>7. Counted' /\ \A q \in Pattern : handlers'[q] \in Nat
  BY <1>6, CountedStep
<1>8. handlers' \in [Pattern -> Nat]
  BY <1>2, <1>7 DEF Inv, ClientType
<1>9. ClientType' /\ NetType'
  BY <1>2, <1>3, <1>8 DEF netVars, Inv, ClientType, NetType
<1> QED BY <1>1, <1>5, <1>7, <1>9 DEF Inv

LEMMA PublishInv ==
  ASSUME Inv, NEW c \in Callers, NEW key \in Key, key[1] \notin {"subscribe", "unsubscribe"},
         At(c, "idle"), request[c] = NoRequest, HistoryType',
         Begins(c, key, "register"), UNCHANGED <<clientVars, pending, answer, request, netVars>>
  PROVE  Inv'
<1> DEFINE nc == [key |-> key, at |-> "register"]
<1>1. c \in Tasks /\ answer[c] = "none" /\ Moves(c, nc, request[c])
  BY Idle, BeginsMoves DEF Tasks, Inv, Places
<1>2. call'[c].key = key /\ call'[c].at = "register"
  BY <1>1, BeginsShape DEF Inv
<1>3. InStep(c)'
  BY <1>1, <1>2 DEF InStep, At, NoRequest
<1>4. CallType' /\ EntriesWait' /\ AllInStep'
  BY <1>1, <1>3, BeginsInStep
<1>5. Counted'
  <2>1. \A q \in Pattern : key # <<"subscribe", q>>
    OBVIOUS
  <2>2. /\ handlers' = handlers /\ held' \in [Callers -> SUBSET Pattern]
        /\ \A d \in Callers : held'[d] = held[d]
    BY DEF clientVars, Inv, ClientType
  <2>3. \A q \in Pattern : /\ q \in held[c] => c \in Holding(q)
                           /\ ~(request[c].at \in {"subscribing", "publishing", "awaiting"})
    BY DEF Holding, NoRequest
  <2> QED BY <1>1, <2>1, <2>2, <2>3, MovesCounted
<1>6. ClientType' /\ NetType'
  BY DEF clientVars, netVars, Inv, ClientType, NetType
<1> QED BY <1>4, <1>5, <1>6 DEF Inv

LEMMA StateCheckedInv ==
  ASSUME Inv, NEW c \in Callers, StateChecked(c)
  PROVE  Inv'
<1>1. /\ call[c].at = "asked" /\ c \in Tasks /\ ~At(c, "idle") /\ call[c].key \in Key
      /\ answer[c] = "none" /\ \A k \in Key : pending[k] # c
  BY NoEntry DEF StateChecked, At, Inv, AllInStep, InStep, Tasks
<1>2. UNCHANGED <<phase, todo, handlers, pending, answer, netVars, history>>
  BY DEF StateChecked
<1>3. pending' \in [Key -> Tasks \cup {Nobody, Gone}] /\ answer' \in [Tasks -> Answers]
  BY <1>2 DEF Inv, CallType
<1>4. CASE Connected
  <2> DEFINE nc == [key |-> call[c].key, at |-> "register"]
  <2>1. Goes(c, "register") /\ UNCHANGED <<held, request>>
    BY <1>4 DEF StateChecked
  <2>2. Moves(c, nc, request[c])
    BY <1>1, <2>1, GoesMoves DEF Inv, Places
  <2>3. InStep(c)'
    BY <1>1, <1>2, <2>1, <2>2, MovesShape DEF Inv, AllInStep, InStep, At
  <2>4. CallType' /\ EntriesWait' /\ AllInStep'
    BY <1>1, <1>2, <1>3, <2>2, <2>3, MovesInStep
  <2>5. Counted'
    BY <1>1, <1>2, <2>1, <2>2, MovesCounted DEF Inv, ClientType, Holding, Awaiting
  <2> QED BY <1>2, <2>1, <2>4, <2>5 DEF netVars, history, Inv, ClientType, NetType, HistoryType
<1>5. CASE ~Connected
  <2>1. /\ Over(c)
        /\ held' = IF call[c].key[1] = "subscribe" /\ request[c] = NoRequest
                   THEN [held EXCEPT ![c] = @ \cup {call[c].key[2]}] ELSE held
    BY <1>5 DEF StateChecked, Over
  <2>2. /\ held' \in [Callers -> SUBSET Pattern] /\ \A d \in Callers \ {c} : held'[d] = held[d]
        /\ \A p \in held'[c] : c \in Holding(p)
    <3>1. CASE call[c].key[1] = "subscribe" /\ request[c] = NoRequest
      <4>1. request[c].at = "none" /\ call[c].key = <<"subscribe", call[c].key[2]>>
        BY <1>1, <3>1, Keys DEF NoRequest
      <4>2. call[c].key[2] \in Pattern
        BY <1>1, <3>1, Keys
      <4> QED BY <2>1, <3>1, <4>1, <4>2 DEF Inv, ClientType, Holding
    <3>2. CASE ~(call[c].key[1] = "subscribe" /\ request[c] = NoRequest)
      BY <2>1, <3>2 DEF Inv, ClientType, Holding
    <3> QED BY <3>1, <3>2
  <2>3. CallType' /\ EntriesWait' /\ AllInStep' /\ Counted'
    BY <1>1, <1>2, <1>3, <2>1, <2>2, EndsInv
  <2> QED BY <1>2, <2>2, <2>3 DEF netVars, history, Inv, ClientType, NetType, HistoryType
<1> QED BY <1>4, <1>5

LEMMA RequestInv ==
  ASSUME Inv, NEW c \in Callers, NEW p \in Pattern, NEW ch \in Channel, RequestCalled(c, p, ch)
  PROVE  Inv'
<1> DEFINE nr == [at |-> IF handlers[p] = 0 THEN "subscribing" ELSE "publishing",
                  id |-> calls', on |-> p, got |-> "none"]
<1>1. /\ At(c, "idle") /\ request[c] = NoRequest /\ HistoryType' /\ c \in Tasks
      /\ calls' \in 0 .. MaxCalls /\ calls' \in Number
      /\ call[c] = NoCall /\ answer[c] = "none"
  BY CallsBound, Idle DEF RequestCalled, Number
<1>2. /\ handlers' = [handlers EXCEPT ![p] = @ + 1]
      /\ request' = [request EXCEPT ![c] = nr]
      /\ UNCHANGED <<phase, todo, held, pending, answer, netVars>>
  BY DEF RequestCalled
<1>3. nr \in [at : Stages, id : 0 .. MaxCalls, on : Pattern \cup {Nobody}, got : Replies]
  BY <1>1 DEF Stages, Replies
<1>4. /\ handlers' \in [Pattern -> Nat]
      /\ handlers'[p] = handlers[p] + 1 /\ \A q \in Pattern \ {p} : handlers'[q] = handlers[q]
  BY <1>2 DEF Inv, ClientType
<1>5. PICK nc \in [key : Key \cup {<<"none">>}, at : Places] :
        /\ Moves(c, nc, nr)
        /\ nc.at \in {"asked", "register"} /\ nc.key \in Key
        /\ nr.at = "subscribing" => nc.key = <<"subscribe", p>>
        /\ nr.at = "publishing" => nc.key[1] = "publish"
  <2>1. CASE handlers[p] = 0
    <3>1. <<"subscribe", p>> \in Key /\ Begins(c, <<"subscribe", p>>, "asked")
      BY <2>1, Keys DEF RequestCalled
    <3>2. Moves(c, [key |-> <<"subscribe", p>>, at |-> "asked"], nr)
      BY <1>1, <1>2, <1>3, <3>1, BeginsMoves DEF Inv, Places
    <3>3. nr.at = "subscribing"
      BY <2>1
    <3> HIDE DEF nr
    <3> QED BY <3>1, <3>2, <3>3 DEF Places
  <2>2. CASE handlers[p] # 0
    <3>1. <<"publish", ch>> \in Key /\ Begins(c, <<"publish", ch>>, "register")
      BY <2>2, Keys DEF RequestCalled
    <3>2. Moves(c, [key |-> <<"publish", ch>>, at |-> "register"], nr)
      BY <1>1, <1>2, <1>3, <3>1, BeginsMoves DEF Inv, Places
    <3>3. nr.at = "publishing"
      BY <2>2
    <3> HIDE DEF nr
    <3> QED BY <3>1, <3>2, <3>3 DEF Places
  <2> QED BY <2>1, <2>2
<1>6. /\ call'[c] = nc /\ request'[c] = nr /\ nr.on = p /\ nr.id = calls' /\ nr.at \in {"subscribing", "publishing"}
      /\ \A d \in Tasks \ {c} : call'[d] = call[d] /\ request'[d] = request[d]
  BY <1>1, <1>5, MovesShape DEF Inv
<1>7. InStep(c)'
  <2> HIDE DEF nr
  <2> QED BY <1>1, <1>2, <1>5, <1>6 DEF InStep, At
<1>8. CallType' /\ EntriesWait' /\ AllInStep'
  BY <1>1, <1>2, <1>5, <1>7, BeginsInStep
<1>9. ASSUME NEW q \in Pattern
      PROVE  Change(Holding(q), Awaiting(q), handlers[q], Holding(q)', Awaiting(q)', handlers'[q], c)
  <2> HIDE DEF nr
  <2>1. \A d \in Callers \ {c} : call'[d] = call[d] /\ request'[d] = request[d]
    BY <1>6 DEF Tasks
  <2>2. Holding(q)' \subseteq Holding(q)
    BY <1>2, <1>6, <2>1 DEF Holding
  <2>3. Awaiting(q)' \subseteq Awaiting(q) \cup {c} /\ (q # p => Awaiting(q)' \subseteq Awaiting(q))
    BY <1>6, <2>1 DEF Awaiting
  <2> QED BY <1>4, <2>2, <2>3 DEF Change
<1>10. Counted'
  BY <1>9, CountedStep
<1>11. ClientType' /\ NetType'
  BY <1>2, <1>4 DEF netVars, Inv, ClientType, NetType
<1> QED BY <1>1, <1>8, <1>10, <1>11 DEF Inv

LEMMA RequestReturnsInv ==
  ASSUME Inv, NEW c \in Callers, RequestReturns(c)
  PROVE  Inv'
<1> DEFINE p == request[c].on
<1>1. /\ request[c].at = "awaiting" /\ c \in Tasks /\ p \in Pattern /\ At(c, "idle")
      /\ request[c] \in [at : Stages, id : 0 .. MaxCalls, on : Pattern \cup {Nobody}, got : Replies]
  BY DEF RequestReturns, Inv, AllInStep, InStep, Tasks, CallType
<1>2. /\ call[c] = NoCall /\ answer[c] = "none" /\ \A q \in Pattern : call[c].key # <<"subscribe", q>>
  BY <1>1, Idle
<1>3. /\ handlers' = [handlers EXCEPT ![p] = @ - 1]
      /\ UNCHANGED <<phase, todo, held, pending, answer, netVars, history>>
  BY DEF RequestReturns
<1>4. /\ handlers'[p] = handlers[p] - 1 /\ \A q \in Pattern \ {p} : handlers'[q] = handlers[q]
  BY <1>1, <1>3 DEF Inv, ClientType
<1>5. PICK nc, nr :
        /\ Moves(c, nc, nr)
        /\ \/ nc = NoCall /\ nr = NoRequest
           \/ /\ nc = [key |-> <<"unsubscribe", p>>, at |-> "asked"]
              /\ nr = [request[c] EXCEPT !.at = "leaving"]
  <2>1. CASE handlers[p] = 1
    <3>1. /\ request' = [request EXCEPT ![c] = [request[c] EXCEPT !.at = "leaving"]]
          /\ Begins(c, <<"unsubscribe", p>>, "asked")
      BY <2>1 DEF RequestReturns
    <3>2. [request[c] EXCEPT !.at = "leaving"] \in
            [at : Stages, id : 0 .. MaxCalls, on : Pattern \cup {Nobody}, got : Replies]
      BY <1>1 DEF Stages
    <3>3. <<"unsubscribe", p>> \in Key
      BY <1>1, Keys
    <3> QED BY <1>1, <3>1, <3>2, <3>3, BeginsMoves DEF Inv, Places
  <2>2. CASE handlers[p] # 1
    <3>1. request' = [request EXCEPT ![c] = NoRequest] /\ call' = call
      BY <2>2 DEF RequestReturns
    <3>2. /\ NoRequest \in [at : Stages, id : 0 .. MaxCalls, on : Pattern \cup {Nobody}, got : Replies]
          /\ NoCall \in [key : Key \cup {<<"none">>}, at : Places]
      BY OperationsAssumption DEF NoRequest, NoCall, Stages, Replies, Places
    <3>3. call' = [call EXCEPT ![c] = NoCall]
      BY <1>1, <1>2, <3>1 DEF Inv, CallType
    <3> QED BY <3>1, <3>2, <3>3 DEF Moves
  <2> QED BY <2>1, <2>2
<1>6. /\ call'[c] = nc /\ request'[c] = nr
      /\ \A d \in Tasks \ {c} : call'[d] = call[d] /\ request'[d] = request[d]
  BY <1>1, <1>5, MovesShape DEF Inv
<1>7. /\ nr.at = "none" \/ (nr.at = "leaving" /\ nr.on = p)
      /\ \A q \in Pattern : nc.key # <<"subscribe", q>>
  BY <1>1, <1>5 DEF NoCall, NoRequest
<1>8. InStep(c)'
  <2>1. <<"unsubscribe", p>> \in Key
    BY <1>1, Keys
  <2>2. CASE nc = NoCall /\ nr = NoRequest
    BY <1>2, <1>3, <1>6, <2>2 DEF InStep, At, NoCall, NoRequest
  <2>3. CASE nc = [key |-> <<"unsubscribe", p>>, at |-> "asked"] /\ nr = [request[c] EXCEPT !.at = "leaving"]
    <3>1. /\ nr.at = "leaving" /\ nr.on = p /\ nr.id \in Number
          /\ nc.key = <<"unsubscribe", p>> /\ nc.at = "asked"
      BY <1>1, <2>3 DEF Inv, AllInStep, InStep
    <3> QED BY <1>1, <1>2, <1>3, <1>6, <2>1, <3>1 DEF InStep, At
  <2> QED BY <1>5, <2>2, <2>3
<1>9. CallType' /\ EntriesWait' /\ AllInStep'
  BY <1>1, <1>3, <1>5, <1>8, BeginsInStep
<1>10. ASSUME NEW q \in Pattern
       PROVE  Change(Holding(q), Awaiting(q), handlers[q], Holding(q)', Awaiting(q)', handlers'[q], c)
  <2>1. \A d \in Callers \ {c} : call'[d] = call[d] /\ request'[d] = request[d]
    BY <1>6 DEF Tasks
  <2>2. Holding(q)' \subseteq Holding(q)
    BY <1>3, <1>6, <1>7, <2>1 DEF Holding
  <2>3. Awaiting(q)' \subseteq Awaiting(q) \ {c} /\ (q = p => c \in Awaiting(q))
    BY <1>1, <1>6, <1>7, <2>1 DEF Awaiting
  <2> QED BY <1>4, <2>2, <2>3 DEF Change
<1>11. Counted' /\ \A q \in Pattern : handlers'[q] \in Nat
  BY <1>10, CountedStep
<1>12. handlers' \in [Pattern -> Nat]
  BY <1>3, <1>11 DEF Inv, ClientType
<1>13. ClientType' /\ NetType' /\ HistoryType'
  BY <1>3, <1>12 DEF netVars, history, Inv, ClientType, NetType, HistoryType
<1> QED BY <1>9, <1>11, <1>13 DEF Inv

LEMMA AsksInv ==
  ASSUME Inv, NEW c \in Callers, Asks(c)
  PROVE  Inv'
<1>1. Uses[c] \subseteq Pattern
  BY OperationsAssumption
<1>2. ASSUME NEW ch \in Channel, PublishCalled(c, ch) PROVE Inv'
  <2>1. <<"publish", ch>> \in Key
    BY Keys
  <2>2. /\ At(c, "idle") /\ request[c] = NoRequest /\ HistoryType'
        /\ Begins(c, <<"publish", ch>>, "register")
        /\ UNCHANGED <<clientVars, pending, answer, request, netVars>>
    BY <1>2, CallsBound DEF PublishCalled
  <2>3. <<"publish", ch>>[1] \notin {"subscribe", "unsubscribe"}
    OBVIOUS
  <2> QED BY <2>1, <2>2, <2>3, PublishInv
<1>3. ASSUME PingCalled(c) PROVE Inv'
  <2>1. /\ At(c, "idle") /\ request[c] = NoRequest /\ HistoryType' /\ calls' \in Number
        /\ Begins(c, <<"ping", calls'>>, "register")
        /\ UNCHANGED <<clientVars, pending, answer, request, netVars>>
    BY <1>3, CallsBound DEF PingCalled
  <2>2. <<"ping", calls'>> \in Key
    BY <2>1, Keys
  <2>3. <<"ping", calls'>>[1] \notin {"subscribe", "unsubscribe"}
    OBVIOUS
  <2> QED BY <2>1, <2>2, <2>3, PublishInv
<1> QED BY <1>1, <1>2, <1>3, SubscribeInv, UnsubscribeInv, RequestInv, StateCheckedInv,
           RequestReturnsInv DEF Asks

-----------------------------------------------------------------------------
(* The server, the stream and connection_task.                               *)

LEMMA MinOfTwo ==
  ASSUME NEW a \in Int, NEW b \in Int
  PROVE  Min({a, b}) \in {a, b} /\ Min({a, b}) <= a /\ Min({a, b}) <= b
<1> DEFINE m == IF a <= b THEN a ELSE b
<1>1. m \in {a, b} /\ \A x \in {a, b} : m <= x
  OBVIOUS
<1>2. Min({a, b}) \in {a, b} /\ \A x \in {a, b} : Min({a, b}) <= x
  BY <1>1 DEF Min
<1> QED BY <1>2

LEMMA HeadTail ==
  ASSUME NEW S, NEW q \in Seq(S), q # <<>>
  PROVE  /\ Head(q) \in S /\ Tail(q) \in Seq(S) /\ Len(Tail(q)) = Len(q) - 1 /\ Len(q) \in Nat \ {0}
         /\ Head(q) = q[1] /\ \A i \in 1 .. (Len(q) - 1) : Tail(q)[i] = q[i + 1]
OBVIOUS

LEMMA Empty ==
  ASSUME NEW S
  PROVE  <<>> \in Seq(S) /\ Len(<<>>) = 0
OBVIOUS

\* One or two messages are gone from the front.
Shortened(q, r) ==
    \E n \in {1, 2} : n <= Len(q) /\ Len(r) = Len(q) - n /\ \A i \in 1 .. Len(r) : r[i] = q[i + n]

LEMMA Shorter ==
  ASSUME NEW S, NEW q \in Seq(S), NEW n \in 1 .. Min({2, Len(q)})
  PROVE  SubSeq(q, n + 1, Len(q)) \in Seq(S) /\ Shortened(q, SubSeq(q, n + 1, Len(q)))
<1>1. n \in {1, 2} /\ n <= Len(q) /\ Len(q) \in Nat
  <2>1. Len(q) \in Int /\ Len(q) >= 0
    OBVIOUS
  <2>2. Min({2, Len(q)}) \in Int /\ Min({2, Len(q)}) <= 2 /\ Min({2, Len(q)}) <= Len(q)
    BY <2>1, MinOfTwo
  <2> QED BY <2>1, <2>2
<1>2. \A i \in (n + 1) .. Len(q) : q[i] \in S
  BY <1>1
<1>3. /\ SubSeq(q, n + 1, Len(q)) \in Seq(S)
      /\ Len(SubSeq(q, n + 1, Len(q))) = Len(q) - n
      /\ \A i \in 1 .. (Len(q) - n) : SubSeq(q, n + 1, Len(q))[i] = q[i + n]
  BY <1>1, <1>2
<1> QED BY <1>1, <1>3 DEF Shortened

LEMMA ServeInv ==
  ASSUME Inv, Serve
  PROVE  Inv'
<1> DEFINE key == Head(wire).key
           ok == key[1] \in {"unsubscribe", "ping"} \/ key[2] \in Granted
<1>1. wire # <<>> /\ Head(wire) \in [key : Key, id : 0 .. MaxCalls] /\ key \in Key
  <2>1. wire # <<>> /\ wire \in Seq([key : Key, id : 0 .. MaxCalls])
    BY DEF Serve, Inv, NetType
  <2>2. Head(wire) \in [key : Key, id : 0 .. MaxCalls]
    BY <2>1, HeadTail
  <2> QED BY <2>1, <2>2
<1>2. /\ wire' = Tail(wire) /\ inbox' = Append(inbox, [key |-> key, ok |-> ok])
      /\ server' = CASE key[1] = "subscribe" /\ ok -> server \cup {key[2]}
                      [] key[1] = "unsubscribe" -> server \ {key[2]}
                      [] OTHER -> server
      /\ events' = IF key[1] = "publish" /\ ok
                   THEN events \cup Echoes(key[2], Head(wire).id) ELSE events
      /\ confirmed' = IF ok THEN [confirmed EXCEPT ![key] = @ + 1] ELSE confirmed
      /\ UNCHANGED <<clientVars, callVars, excused, succeeded, calls, faults>>
  BY DEF Serve
<1>3. wire' \in Seq([key : Key, id : 0 .. MaxCalls]) /\ Len(wire') <= Capacity
  BY <1>1, <1>2, OperationsAssumption DEF Inv, NetType
<1>4. inbox' \in Seq([key : Key, ok : BOOLEAN])
  <2>1. [key |-> key, ok |-> ok] \in [key : Key, ok : BOOLEAN]
    BY <1>1
  <2> QED BY <1>2, <2>1 DEF Inv, NetType
<1>5. server' \in SUBSET Pattern
  <2>1. key[1] = "subscribe" => key[2] \in Pattern
    BY <1>1, Keys
  <2>2. server \in SUBSET Pattern
    BY DEF Inv, NetType
  <2> HIDE DEF key, ok
  <2> QED BY <1>2, <2>1, <2>2
<1>6. events' \in SUBSET [id : Number, what : {"echo", "reply"}]
  <2>1. Echoes(key[2], Head(wire).id) \in SUBSET [id : Number, what : {"echo", "reply"}]
    BY <1>1, OperationsAssumption DEF Echoes, Number
  <2>2. events \in SUBSET [id : Number, what : {"echo", "reply"}]
    BY DEF Inv, NetType
  <2> HIDE DEF key, ok
  <2> QED BY <1>2, <2>1, <2>2
<1>7. HistoryType'
  BY <1>1, <1>2 DEF Inv, HistoryType
<1>8. CallType' /\ EntriesWait' /\ AllInStep' /\ Counted' /\ ClientType'
  BY <1>2, CallsKept DEF clientVars, Inv, ClientType
<1> QED BY <1>2, <1>3, <1>4, <1>5, <1>6, <1>7, <1>8 DEF Inv, NetType

\* Who is told is no longer in a table.
LEMMA ReceiveInv ==
  ASSUME Inv, Receive
  PROVE  Inv'
<1> DEFINE key == Head(inbox).key
           what == IF Head(inbox).ok THEN "ok" ELSE "denied"
<1>1. inbox # <<>> /\ key \in Key /\ what \in Answers
  <2>1. inbox # <<>> /\ inbox \in Seq([key : Key, ok : BOOLEAN])
    BY DEF Receive, Inv, NetType
  <2>2. Head(inbox) \in [key : Key, ok : BOOLEAN]
    BY <2>1, HeadTail
  <2> QED BY <2>1, <2>2 DEF Answers
<1>2. /\ answer' = Told(key, what) /\ pending' = [pending EXCEPT ![key] = Nobody]
      /\ inbox' = Tail(inbox)
      /\ UNCHANGED <<clientVars, call, request, wire, events, server, excused, history>>
  BY DEF Receive
<1> HIDE DEF what
<1>3. /\ answer' \in [Tasks -> Answers]
      /\ \A s \in Tasks : answer'[s] = IF pending[key] = s THEN what ELSE answer[s]
  BY <1>1, <1>2, ToldShape DEF Inv
<1>4. CallType'
  BY <1>1, <1>2, <1>3 DEF Inv, CallType
<1>5. EntriesWait'
  BY <1>1, <1>2, <1>3, OperationsAssumption DEF Inv, CallType, EntriesWait
<1>6. ASSUME NEW s \in Tasks PROVE InStep(s)'
  <2>1. InStep(s) /\ (pending[key] = s => call[s].at \in {"send", "wait"})
    BY <1>1 DEF Inv, AllInStep, EntriesWait
  <2> QED BY <1>2, <1>3, <2>1 DEF InStep, At
<1>7. Counted'
  BY <1>2 DEF clientVars, Inv, Counted, Holding, Awaiting
<1>8. ClientType' /\ NetType' /\ HistoryType'
  BY <1>1, <1>2 DEF clientVars, history, Inv, ClientType, NetType, HistoryType
<1> QED BY <1>4, <1>5, <1>6, <1>7, <1>8 DEF Inv, AllInStep

\* A step that tells those who make requests something, and no more.
LEMMA GotInv ==
  ASSUME Inv, request' \in [Tasks -> [at : Stages, id : 0 .. MaxCalls, on : Pattern \cup {Nobody}, got : Replies]],
         \A t \in Tasks : \/ request'[t] = request[t]
                          \/ /\ request[t] # NoRequest /\ request'[t].at = request[t].at
                             /\ request'[t].on = request[t].on /\ request'[t].id = request[t].id,
         UNCHANGED <<call, handlers, held>>,
         \A t \in Tasks : answer'[t] # "none" => answer[t] # "none" \/ \E k \in Key : pending[k] = t
  PROVE  AllInStep' /\ Counted'
<1>1. ASSUME NEW t \in Tasks
      PROVE  InStep(t)' /\ request'[t].at = request[t].at /\ request'[t].on = request[t].on
  <2>1. InStep(t) /\ (answer'[t] # "none" => call[t].at \in {"send", "wait"})
    BY DEF Inv, AllInStep, InStep, EntriesWait
  <2> QED BY <2>1 DEF InStep, At
<1>2. \A p \in Pattern : Holding(p)' = Holding(p) /\ Awaiting(p)' = Awaiting(p)
  BY <1>1 DEF Holding, Awaiting, Tasks
<1> QED BY <1>1, <1>2 DEF AllInStep, Inv, Counted

LEMMA DispatchInv ==
  ASSUME Inv, NEW e \in events, Dispatch(e)
  PROVE  Inv'
<1>1. /\ request' = [t \in Tasks |->
           IF request[t].id = e.id /\ request[t].got = "none"
           THEN [request[t] EXCEPT !.got = e.what] ELSE request[t]]
      /\ events' = events \ {e}
      /\ UNCHANGED <<clientVars, pending, call, answer, wire, inbox, server, excused, history>>
  BY DEF Dispatch
<1>2. e \in [id : Number, what : {"echo", "reply"}] /\ e.id # 0
  BY DEF Inv, NetType, Number
<1>3. ASSUME NEW t \in Tasks
      PROVE  /\ request'[t] \in [at : Stages, id : 0 .. MaxCalls, on : Pattern \cup {Nobody}, got : Replies]
             /\ \/ request'[t] = request[t]
                \/ /\ request[t] # NoRequest /\ request'[t].at = request[t].at
                   /\ request'[t].on = request[t].on /\ request'[t].id = request[t].id
  <2>1. request[t] \in [at : Stages, id : 0 .. MaxCalls, on : Pattern \cup {Nobody}, got : Replies]
    BY DEF Inv, CallType
  <2>2. CASE request[t].id = e.id /\ request[t].got = "none"
    <3>1. request'[t] = [request[t] EXCEPT !.got = e.what]
      BY <1>1, <2>2
    <3>2. request[t] # NoRequest
      BY <1>2, <2>2 DEF NoRequest
    <3> QED BY <1>2, <2>1, <3>1, <3>2 DEF Replies
  <2>3. CASE ~(request[t].id = e.id /\ request[t].got = "none")
    BY <1>1, <2>1, <2>3
  <2> QED BY <2>2, <2>3
<1>4. request' \in [Tasks -> [at : Stages, id : 0 .. MaxCalls, on : Pattern \cup {Nobody}, got : Replies]]
  BY <1>1, <1>3
<1>5. AllInStep' /\ Counted'
  BY <1>1, <1>3, <1>4, GotInv DEF clientVars
<1>6. CallType' /\ EntriesWait'
  BY <1>1, <1>4 DEF Inv, CallType, EntriesWait
<1>7. ClientType' /\ NetType' /\ HistoryType'
  BY <1>1 DEF clientVars, history, Inv, ClientType, NetType, HistoryType
<1> QED BY <1>5, <1>6, <1>7 DEF Inv

LEMMA DrainInv ==
  ASSUME Inv, Drain
  PROVE  Inv'
<1>1. /\ phase' = "drained" /\ pending' = [k \in Key |-> Nobody] /\ request' = Unblocked
      /\ answer' = [t \in Tasks |->
           IF ~Waits(t) THEN answer[t]
           ELSE IF call[t].key[1] = "ping" THEN "ok" ELSE "not_connected"]
      /\ UNCHANGED <<todo, handlers, held, call, netVars, history>>
  BY DEF Drain
<1>2. ASSUME NEW t \in Tasks
      PROVE  /\ request'[t] \in [at : Stages, id : 0 .. MaxCalls, on : Pattern \cup {Nobody}, got : Replies]
             /\ \/ request'[t] = request[t]
                \/ /\ request[t] # NoRequest /\ request'[t].at = request[t].at
                   /\ request'[t].on = request[t].on /\ request'[t].id = request[t].id
  <2>1. request[t] \in [at : Stages, id : 0 .. MaxCalls, on : Pattern \cup {Nobody}, got : Replies]
    BY DEF Inv, CallType
  <2>2. request'[t] = request[t] \/ (request[t] # NoRequest /\ request'[t] = [request[t] EXCEPT !.got = "null"])
    BY <1>1 DEF Unblocked
  <2> QED BY <2>1, <2>2 DEF Replies
<1>3. request' \in [Tasks -> [at : Stages, id : 0 .. MaxCalls, on : Pattern \cup {Nobody}, got : Replies]]
  BY <1>1, <1>2 DEF Unblocked
<1>4. \A t \in Tasks : answer'[t] # "none" => answer[t] # "none" \/ \E k \in Key : pending[k] = t
  BY <1>1 DEF Waits
<1>5. AllInStep' /\ Counted'
  BY <1>1, <1>2, <1>3, <1>4, GotInv
<1>6. CallType' /\ EntriesWait'
  BY <1>1, <1>3, OperationsAssumption DEF Inv, CallType, EntriesWait, Answers
<1>7. ClientType' /\ NetType' /\ HistoryType'
  BY <1>1 DEF netVars, history, Phases, Inv, ClientType, NetType, HistoryType
<1> QED BY <1>5, <1>6, <1>7 DEF Inv

LEMMA ResubscribeInv ==
  ASSUME Inv, NEW p \in Pattern, Resubscribe(p)
  PROVE  Inv'
<1> DEFINE nc == [key |-> <<"subscribe", p>>, at |-> "register"]
<1>1. /\ Task \in Tasks /\ Task \notin Callers /\ At(Task, "idle") /\ answer[Task] = "none"
      /\ request[Task].at = "none"
  BY Idle, OperationsAssumption DEF Resubscribe, Tasks, Inv, AllInStep, InStep
<1>2. /\ todo' = todo \ {p} /\ Begins(Task, <<"subscribe", p>>, "register")
      /\ UNCHANGED <<phase, handlers, held, pending, answer, request, netVars, history>>
  BY DEF Resubscribe
<1>3. <<"subscribe", p>> \in Key
  BY Keys
<1>4. Moves(Task, nc, request[Task])
  BY <1>1, <1>2, <1>3, BeginsMoves DEF Inv, Places
<1>5. InStep(Task)'
  <2>1. call'[Task].key = <<"subscribe", p>> /\ call'[Task].at = "register"
    BY <1>1, <1>2, BeginsShape DEF Inv
  <2> QED BY <1>1, <1>2, <1>3, <2>1 DEF InStep, At, Inv, AllInStep
<1>6. CallType' /\ EntriesWait' /\ AllInStep'
  BY <1>1, <1>2, <1>4, <1>5, BeginsInStep
<1>7. Counted'
  BY <1>1, <1>2, <1>4, MovesCounted DEF Inv, ClientType
<1>8. ClientType' /\ NetType' /\ HistoryType'
  BY <1>2 DEF netVars, history, Inv, ClientType, NetType, HistoryType
<1> QED BY <1>6, <1>7, <1>8 DEF Inv

\* What else happens is not about calls.
LEMMA RestInv ==
  ASSUME Inv,
         \/ \E c \in Callers : Reply(c)
         \/ GarbleRequests \/ GarbleAnswers \/ Greet \/ SetConnected \/ ListPatterns
         \/ StartMain \/ Lose \/ Cleanup \/ SetReconnecting
  PROVE  Inv'
<1>1. UNCHANGED <<callVars, handlers, held>>
  BY DEF Reply, GarbleRequests, GarbleAnswers, Greet, SetConnected, ListPatterns, StartMain,
         Lose, Cleanup, SetReconnecting, clientVars
<1>2. CallType' /\ EntriesWait' /\ AllInStep' /\ Counted'
  BY <1>1, CallsKept
<1> USE OperationsAssumption
<1>3. ClientType'
  BY <1>1 DEF Inv, ClientType, Phases, Reply, GarbleRequests, GarbleAnswers, Greet, SetConnected,
              ListPatterns, StartMain, Lose, Cleanup, SetReconnecting, clientVars
<1>4. HistoryType'
  BY <1>1 DEF Inv, HistoryType, Reply, GarbleRequests, GarbleAnswers, Greet, SetConnected,
              ListPatterns, StartMain, Lose, Cleanup, SetReconnecting, history
<1>5. NetType'
  <2>1. ASSUME NEW c \in Callers, Reply(c) PROVE NetType'
    <3>1. [id |-> request[c].id, what |-> "reply"] \in [id : Number, what : {"echo", "reply"}]
      BY <2>1 DEF Reply, Inv, AllInStep, InStep, CallType, Tasks, Number
    <3> QED BY <2>1, <3>1 DEF Reply, Inv, NetType
  <2>2. CASE GarbleRequests
    <3>1. PICK n \in 1 .. Min({2, Len(wire)}) : wire' = SubSeq(wire, n + 1, Len(wire))
      BY <2>2 DEF GarbleRequests, Garbled
    <3>2. wire' \in Seq([key : Key, id : 0 .. MaxCalls]) /\ Len(wire') <= Len(wire)
      <4>1. wire \in Seq([key : Key, id : 0 .. MaxCalls])
        BY DEF Inv, NetType
      <4>2. wire' \in Seq([key : Key, id : 0 .. MaxCalls]) /\ Shortened(wire, wire')
        BY <3>1, <4>1, Shorter
      <4> QED BY <4>1, <4>2 DEF Shortened
    <3>3. excused' \in SUBSET Pattern /\ UNCHANGED <<inbox, events, server>>
      BY <2>2 DEF GarbleRequests, Inv, NetType
    <3> QED BY <3>2, <3>3 DEF Inv, NetType
  <2>3. CASE GarbleAnswers
    <3>1. PICK n \in 1 .. Min({2, Len(inbox)}) : inbox' = SubSeq(inbox, n + 1, Len(inbox))
      BY <2>3 DEF GarbleAnswers, Garbled
    <3>2. inbox' \in Seq([key : Key, ok : BOOLEAN])
      BY <3>1, Shorter DEF Inv, NetType
    <3> QED BY <2>3, <3>2 DEF GarbleAnswers, Inv, NetType
  <2>4. CASE Lose \/ Cleanup
    <3>1. /\ wire' = wire \/ wire' = <<>>
          /\ inbox' = inbox \/ inbox' = <<>>
          /\ server' \in SUBSET Pattern /\ events' \subseteq events /\ excused' = excused
      BY <2>4 DEF Lose, Cleanup, Inv, NetType
    <3>2. wire' \in Seq([key : Key, id : 0 .. MaxCalls]) /\ Len(wire') <= Capacity
      <4>1. Len(wire) <= Capacity /\ wire \in Seq([key : Key, id : 0 .. MaxCalls])
        BY DEF Inv, NetType
      <4>2. 0 <= Capacity
        OBVIOUS
      <4> QED BY <3>1, <4>1, <4>2, Empty
    <3>3. inbox' \in Seq([key : Key, ok : BOOLEAN])
      BY <3>1, Empty DEF Inv, NetType
    <3> QED BY <3>1, <3>2, <3>3 DEF Inv, NetType
  <2>5. CASE Greet \/ SetConnected \/ ListPatterns \/ StartMain \/ SetReconnecting
    BY <2>5 DEF Greet, SetConnected, ListPatterns, StartMain, SetReconnecting, netVars, Inv, NetType
  <2> QED BY <2>1, <2>2, <2>3, <2>4, <2>5
<1> QED BY <1>2, <1>3, <1>4, <1>5 DEF Inv

LEMMA StepInv ==
  ASSUME Inv, [Next]_vars
  PROVE  Inv'
<1>1. CASE UNCHANGED vars
  <2>1. UNCHANGED <<callVars, handlers, held>>
    BY <1>1 DEF vars, clientVars
  <2> QED BY <1>1, <2>1, CallsKept DEF vars, clientVars, netVars, history, Inv, ClientType, NetType, HistoryType
<1>2. CASE Next
  BY <1>2, RegisterInv, SendInv, ReturnInv, TimeoutInv, AsksInv, ResubscribeInv, ServeInv,
     ReceiveInv, DispatchInv, DrainInv, RestInv DEF Next, Operates
<1> QED BY <1>1, <1>2

\* Every field keeps its type, no table holds an entry of a call that no longer
\* waits, and no unsubscribe() or returning request takes a handler that is
\* another's (client.rs:171-236, 453-487).
THEOREM TypeCorrect == Spec => []TypeOK
<1>1. Spec => []Inv
  BY InitInv, StepInv, PTL DEF Spec
<1>2. Inv => TypeOK
  BY CountedHandled DEF Inv, TypeOK
<1> QED BY <1>1, <1>2, PTL

-----------------------------------------------------------------------------
(* How often a message is in a queue.                                        *)

Where(q, m) == {i \in 1 .. Len(q) : q[i] = m}

LEMMA WhereFinite ==
  ASSUME NEW S, NEW q \in Seq(S), NEW m
  PROVE  IsFiniteSet(Where(q, m)) /\ Cardinality(Where(q, m)) \in Nat
<1>1. IsFiniteSet(1 .. Len(q)) /\ Where(q, m) \subseteq 1 .. Len(q)
  BY FS_Interval DEF Where
<1> QED BY <1>1, FS_Subset, FS_CardinalityType

LEMMA WhereAppend ==
  ASSUME NEW S, NEW q \in Seq(S), NEW e \in S, NEW m
  PROVE  Cardinality(Where(Append(q, e), m)) <= Cardinality(Where(q, m)) + (IF e = m THEN 1 ELSE 0)
<1>1. /\ Append(q, e) \in Seq(S) /\ Len(Append(q, e)) = Len(q) + 1 /\ Len(q) \in Nat
      /\ \A i \in 1 .. Len(q) : Append(q, e)[i] = q[i]
      /\ Append(q, e)[Len(q) + 1] = e
  OBVIOUS
<1>2. CASE e = m
  <2>1. Where(Append(q, e), m) \subseteq Where(q, m) \cup {Len(q) + 1}
    BY <1>1 DEF Where
  <2> QED BY <1>2, <2>1, CardOneMore, WhereFinite
<1>3. CASE e # m
  <2>1. Where(Append(q, e), m) \subseteq Where(q, m)
    BY <1>1, <1>3 DEF Where
  <2> QED BY <1>3, <2>1, FS_Subset, WhereFinite
<1> QED BY <1>2, <1>3

LEMMA WhereShorter ==
  ASSUME NEW S, NEW q \in Seq(S), NEW r \in Seq(S), NEW n \in Nat, Len(r) = Len(q) - n,
         \A i \in 1 .. Len(r) : r[i] = q[i + n], NEW m
  PROVE  Cardinality(Where(r, m)) <= Cardinality({i \in Where(q, m) : i > n})
<1> DEFINE T == {i \in Where(q, m) : i > n}
           f == [i \in Where(r, m) |-> i + n]
<1>1. IsFiniteSet(T)
  BY WhereFinite, FS_Subset
<1>2. Len(q) \in Nat /\ Len(r) \in Nat
  OBVIOUS
<1>3. f \in Injection(Where(r, m), T)
  <2>1. \A i \in Where(r, m) : i \in Nat /\ i + n \in T
    BY <1>2 DEF Where
  <2>2. f \in [Where(r, m) -> T]
    BY <2>1
  <2>3. \A i, j \in Where(r, m) : f[i] = f[j] => i = j
    BY <2>1
  <2> QED BY <2>2, <2>3 DEF Injection, IsInjective
<1> HIDE DEF f, T
<1>4. Cardinality(Where(r, m)) <= Cardinality(T)
  BY <1>1, <1>3, FS_Injection
<1> QED BY <1>4 DEF T

LEMMA WhereTail ==
  ASSUME NEW S, NEW q \in Seq(S), q # <<>>, NEW m
  PROVE  Cardinality(Where(Tail(q), m)) + (IF Head(q) = m THEN 1 ELSE 0) <= Cardinality(Where(q, m))
<1>1. /\ Tail(q) \in Seq(S) /\ Len(Tail(q)) = Len(q) - 1 /\ Len(q) \in Nat \ {0}
      /\ Head(q) = q[1] /\ \A i \in 1 .. Len(Tail(q)) : Tail(q)[i] = q[i + 1]
  BY HeadTail
<1>2. Cardinality(Where(Tail(q), m)) <= Cardinality({i \in Where(q, m) : i > 1})
  BY <1>1, WhereShorter
<1>3. Cardinality(Where(Tail(q), m)) <= Cardinality(Where(q, m) \ {1})
  <2>1. {i \in Where(q, m) : i > 1} = Where(q, m) \ {1}
    BY <1>1 DEF Where
  <2> QED BY <1>2, <2>1
<1>4. IsFiniteSet(Where(q, m)) /\ Cardinality(Where(q, m)) \in Nat /\ Cardinality(Where(Tail(q), m)) \in Nat
  BY <1>1, WhereFinite
<1>5. CASE Head(q) = m
  <2>1. 1 \in Where(q, m)
    BY <1>1, <1>5 DEF Where
  <2>2. Cardinality(Where(q, m) \ {1}) = Cardinality(Where(q, m)) - 1
    BY <1>4, <2>1, FS_RemoveElement
  <2> QED BY <1>3, <1>4, <1>5, <2>2
<1>6. CASE Head(q) # m
  <2>1. 1 \notin Where(q, m)
    BY <1>1, <1>6 DEF Where
  <2>2. Where(q, m) \ {1} = Where(q, m)
    BY <2>1
  <2>3. Cardinality(Where(Tail(q), m)) <= Cardinality(Where(q, m))
    BY <1>3, <2>2
  <2> QED BY <1>4, <1>6, <2>3
<1> QED BY <1>5, <1>6

LEMMA WhereShortened ==
  ASSUME NEW S, NEW q \in Seq(S), NEW r \in Seq(S), Shortened(q, r), NEW m
  PROVE  Cardinality(Where(r, m)) <= Cardinality(Where(q, m))
<1>1. PICK n \in {1, 2} : Len(r) = Len(q) - n /\ \A i \in 1 .. Len(r) : r[i] = q[i + n]
  BY DEF Shortened
<1>2. Cardinality(Where(r, m)) <= Cardinality({i \in Where(q, m) : i > n})
  <2>1. n \in Nat
    OBVIOUS
  <2> QED BY <1>1, <2>1, WhereShorter
<1>3. /\ Cardinality({i \in Where(q, m) : i > n}) \in Nat
      /\ Cardinality({i \in Where(q, m) : i > n}) <= Cardinality(Where(q, m))
  BY WhereFinite, FS_Subset, FS_CardinalityType
<1> QED BY <1>2, <1>3, WhereFinite

-----------------------------------------------------------------------------
(* No more Oks under a name than were carried out under it.                  *)

Ok(k) == [key |-> k, ok |-> TRUE]
ToldOk(k) == {t \in Tasks : call[t].key = k /\ answer[t] = "ok"}

\* What the server has carried out covers what has returned Ok, what is told so
\* and is about to, and what is on its way back.
Accounts == \A k \in Key : k[1] # "ping" =>
    succeeded[k] + Cardinality(ToldOk(k)) + Cardinality(Where(inbox, Ok(k))) <= confirmed[k]

LEMMA ToldFinite ==
  ASSUME NEW k
  PROVE  IsFiniteSet(ToldOk(k)) /\ Cardinality(ToldOk(k)) \in Nat
<1>1. IsFiniteSet(Tasks)
  BY OperationsAssumption, FS_AddElement DEF Tasks
<1> QED BY <1>1, FS_Subset, FS_CardinalityType DEF ToldOk

LEMMA InboxCount ==
  ASSUME Inv, NEW m
  PROVE  Cardinality(Where(inbox, m)) \in Nat
BY WhereFinite DEF Inv, NetType

\* A step after which nobody is newly told Ok, and no answer is new.
LEMMA AccountsKept ==
  ASSUME Inv, Inv', Accounts, UNCHANGED <<succeeded, confirmed>>,
         inbox' = inbox \/ inbox' = <<>> \/ Shortened(inbox, inbox'),
         \A t \in Tasks : answer'[t] = "ok" =>
             \/ answer[t] = "ok" /\ call'[t].key = call[t].key
             \/ call'[t].key[1] = "ping"
  PROVE  Accounts'
<1>1. ASSUME NEW k \in Key, k[1] # "ping"
      PROVE  succeeded'[k] + Cardinality(ToldOk(k)') + Cardinality(Where(inbox', Ok(k))) <= confirmed'[k]
  <2>1. ToldOk(k)' \subseteq ToldOk(k)
    BY <1>1 DEF ToldOk
  <2>2. /\ Cardinality(ToldOk(k)) \in Nat /\ Cardinality(ToldOk(k)') \in Nat
        /\ Cardinality(ToldOk(k)') <= Cardinality(ToldOk(k))
    BY <2>1, ToldFinite, FS_Subset, FS_CardinalityType
  <2>3. inbox \in Seq([key : Key, ok : BOOLEAN]) /\ inbox' \in Seq([key : Key, ok : BOOLEAN])
    BY DEF Inv, NetType
  <2>4. /\ Cardinality(Where(inbox, Ok(k))) \in Nat /\ Cardinality(Where(inbox', Ok(k))) \in Nat
    BY <2>3, WhereFinite
  <2>5. Cardinality(Where(inbox', Ok(k))) <= Cardinality(Where(inbox, Ok(k)))
    <3>1. CASE inbox' = <<>>
      <4>1. Where(inbox', Ok(k)) = {}
        BY <3>1, Empty DEF Where
      <4> QED BY <2>4, <4>1, FS_EmptySet
    <3>2. CASE inbox' = inbox
      BY <2>4, <3>2
    <3>3. CASE Shortened(inbox, inbox')
      BY <2>3, <3>3, WhereShortened
    <3> QED BY <3>1, <3>2, <3>3
  <2>6. /\ succeeded[k] \in Nat /\ confirmed[k] \in Nat
        /\ succeeded[k] + Cardinality(ToldOk(k)) + Cardinality(Where(inbox, Ok(k))) <= confirmed[k]
    BY <1>1 DEF Inv, HistoryType, Accounts
  <2> QED BY <2>2, <2>4, <2>5, <2>6
<1> QED BY <1>1 DEF Accounts

LEMMA InitAccounts == Init => Accounts
<1> SUFFICES ASSUME Init PROVE Accounts
  OBVIOUS
<1>1. ASSUME NEW k \in Key
      PROVE  ToldOk(k) = {} /\ Where(inbox, Ok(k)) = {} /\ succeeded[k] = 0 /\ confirmed[k] = 0
  BY DEF Init, ToldOk, Where
<1> QED BY <1>1, FS_EmptySet DEF Accounts

\* What the server carries out is on its way back as an Ok, if it is one.
LEMMA ServeAccounts ==
  ASSUME Inv, Inv', Accounts, Serve
  PROVE  Accounts'
<1> DEFINE key == Head(wire).key
           ok == key[1] \in {"unsubscribe", "ping"} \/ key[2] \in Granted
           e == [key |-> key, ok |-> ok]
<1>1. key \in Key
  <2>1. wire # <<>> /\ wire \in Seq([key : Key, id : 0 .. MaxCalls])
    BY DEF Serve, Inv, NetType
  <2>2. Head(wire) \in [key : Key, id : 0 .. MaxCalls]
    BY <2>1, HeadTail
  <2> QED BY <2>2
<1>2. /\ inbox' = Append(inbox, e) /\ succeeded' = succeeded
      /\ confirmed' = IF ok THEN [confirmed EXCEPT ![key] = @ + 1] ELSE confirmed
      /\ answer' = answer /\ call' = call
  BY DEF Serve, callVars
<1>3. e \in [key : Key, ok : BOOLEAN]
  BY <1>1
<1> HIDE DEF key
<1>4. ASSUME NEW k \in Key, k[1] # "ping"
      PROVE  succeeded'[k] + Cardinality(ToldOk(k)') + Cardinality(Where(inbox', Ok(k))) <= confirmed'[k]
  <2>1. e = Ok(k) => ok /\ k = key
    BY DEF Ok
  <2>2. /\ confirmed[k] \in Nat /\ confirmed'[k] = IF ok /\ k = key THEN confirmed[k] + 1 ELSE confirmed[k]
        /\ succeeded[k] \in Nat
    BY <1>1, <1>2 DEF Inv, HistoryType
  <2>3. confirmed'[k] >= confirmed[k] + (IF e = Ok(k) THEN 1 ELSE 0)
    BY <2>1, <2>2
  <2>4. /\ Cardinality(Where(inbox', Ok(k))) <= Cardinality(Where(inbox, Ok(k))) + (IF e = Ok(k) THEN 1 ELSE 0)
        /\ Cardinality(Where(inbox, Ok(k))) \in Nat /\ Cardinality(Where(inbox', Ok(k))) \in Nat
    BY <1>2, <1>3, WhereAppend, WhereFinite DEF Inv, NetType
  <2>5. ToldOk(k)' = ToldOk(k) /\ Cardinality(ToldOk(k)) \in Nat
    BY <1>2, ToldFinite DEF ToldOk
  <2>6. succeeded[k] + Cardinality(ToldOk(k)) + Cardinality(Where(inbox, Ok(k))) <= confirmed[k]
    BY <1>4 DEF Accounts
  <2>7. succeeded'[k] = succeeded[k] /\ Cardinality(ToldOk(k)') = Cardinality(ToldOk(k)) /\ confirmed'[k] \in Nat
    BY <1>2, <2>5 DEF Inv, HistoryType
  <2> HIDE DEF e, ok
  <2> QED BY <2>2, <2>3, <2>4, <2>5, <2>6, <2>7
<1> QED BY <1>4 DEF Accounts

\* An Ok that arrives is told to one call at most, and of that name.
LEMMA ReceiveAccounts ==
  ASSUME Inv, Inv', Accounts, Receive
  PROVE  Accounts'
<1> DEFINE key == Head(inbox).key
           what == IF Head(inbox).ok THEN "ok" ELSE "denied"
<1>1. /\ inbox # <<>> /\ inbox \in Seq([key : Key, ok : BOOLEAN])
      /\ Head(inbox) \in [key : Key, ok : BOOLEAN]
  <2>1. inbox # <<>> /\ inbox \in Seq([key : Key, ok : BOOLEAN])
    BY DEF Receive, Inv, NetType
  <2> QED BY <2>1, HeadTail
<1>2. key \in Key /\ what \in Answers /\ (what = "ok" => Head(inbox) = Ok(key))
  BY <1>1 DEF Answers, Ok
<1>3. answer' = Told(key, what) /\ inbox' = Tail(inbox) /\ UNCHANGED <<call, succeeded, confirmed>>
  BY DEF Receive, history
<1> HIDE DEF key, what
<1>4. \A s \in Tasks : answer'[s] = IF pending[key] = s THEN what ELSE answer[s]
  BY <1>2, <1>3, ToldShape DEF Inv
<1>5. \A s \in Tasks : pending[key] = s => call[s].key = key
  BY <1>2 DEF Inv, EntriesWait
<1>6. ASSUME NEW k \in Key, k[1] # "ping"
      PROVE  succeeded'[k] + Cardinality(ToldOk(k)') + Cardinality(Where(inbox', Ok(k))) <= confirmed'[k]
  <2> DEFINE told == Cardinality(ToldOk(k))
             told2 == Cardinality(ToldOk(k)')
             back == Cardinality(Where(inbox, Ok(k)))
             back2 == Cardinality(Where(inbox', Ok(k)))
             one == IF Head(inbox) = Ok(k) THEN 1 ELSE 0
  <2>1. /\ succeeded'[k] = succeeded[k] /\ confirmed'[k] = confirmed[k]
        /\ succeeded[k] \in Nat /\ confirmed[k] \in Nat
        /\ succeeded[k] + told + back <= confirmed[k]
    BY <1>3, <1>6 DEF Inv, HistoryType, Accounts
  <2>2. back \in Nat /\ back2 \in Nat /\ back2 + one <= back
    <3>1. /\ Cardinality(Where(Tail(inbox), Ok(k))) + one <= back
          /\ back \in Nat
      BY <1>1, WhereTail, WhereFinite
    <3>2. inbox' \in Seq([key : Key, ok : BOOLEAN])
      BY DEF Inv, NetType
    <3>3. back2 \in Nat
      BY <3>2, WhereFinite
    <3>4. back2 = Cardinality(Where(Tail(inbox), Ok(k)))
      BY <1>3
    <3> QED BY <3>1, <3>3, <3>4
  <2>3. told \in Nat /\ told2 \in Nat /\ told2 <= told + one
    <3>1. IsFiniteSet(ToldOk(k)) /\ told \in Nat
      BY ToldFinite
    <3>2. CASE Head(inbox) = Ok(k)
      <4>1. ToldOk(k)' \subseteq ToldOk(k) \cup {pending[key]}
        BY <1>3, <1>4 DEF ToldOk
      <4> QED BY <3>1, <3>2, <4>1, CardOneMore
    <3>3. CASE Head(inbox) # Ok(k)
      <4>1. what = "ok" => key # k
        BY <1>2, <3>3
      <4>2. ToldOk(k)' \subseteq ToldOk(k)
        BY <1>3, <1>4, <1>5, <4>1 DEF ToldOk
      <4>3. told2 \in Nat /\ told2 <= told
        BY <3>1, <4>2, FS_Subset, FS_CardinalityType
      <4> QED BY <3>1, <3>3, <4>3
    <3> QED BY <3>2, <3>3
  <2>4. one \in Nat
    OBVIOUS
  <2> HIDE DEF told, told2, back, back2, one
  <2>5. succeeded'[k] + told2 + back2 <= confirmed'[k]
    BY <2>1, <2>2, <2>3, <2>4
  <2> QED BY <2>5 DEF told2, back2
<1> QED BY <1>6 DEF Accounts

\* A call that was told Ok returns so, once.
LEMMA ReturnAccounts ==
  ASSUME Inv, Inv', Accounts, NEW t \in Tasks, Return(t)
  PROVE  Accounts'
<1> DEFINE key == call[t].key
<1>1. key \in Key /\ call[t].at = "wait" /\ answer[t] # "none"
  BY DEF Return, At, Inv, AllInStep, InStep
<1>2. /\ succeeded' = IF answer[t] = "ok" THEN [succeeded EXCEPT ![key] = @ + 1] ELSE succeeded
      /\ answer' = [answer EXCEPT ![t] = "none"] /\ Over(t)
      /\ inbox' = inbox /\ confirmed' = confirmed
  BY DEF Return, Over, netVars
<1>3. \A s \in Tasks \ {t} : answer'[s] = answer[s] /\ call'[s] = call[s]
  BY <1>2, EndsShape, MovesShape DEF Inv, CallType
<1>4. answer'[t] = "none"
  BY <1>2 DEF Inv, CallType
<1>5. ASSUME NEW k \in Key, k[1] # "ping"
      PROVE  succeeded'[k] + Cardinality(ToldOk(k)') + Cardinality(Where(inbox', Ok(k))) <= confirmed'[k]
  <2> DEFINE told == Cardinality(ToldOk(k))
             told2 == Cardinality(ToldOk(k)')
             back == Cardinality(Where(inbox, Ok(k)))
  <2>1. /\ confirmed'[k] = confirmed[k] /\ succeeded[k] \in Nat /\ confirmed[k] \in Nat
        /\ succeeded'[k] = IF answer[t] = "ok" /\ k = key THEN succeeded[k] + 1 ELSE succeeded[k]
        /\ succeeded[k] + told + back <= confirmed[k]
    BY <1>1, <1>2, <1>5 DEF Inv, HistoryType, Accounts
  <2>2. back \in Nat
    BY InboxCount
  <2>3. /\ IsFiniteSet(ToldOk(k)) /\ told \in Nat
        /\ ToldOk(k)' \subseteq ToldOk(k) \ {t}
        /\ answer[t] = "ok" /\ k = key => t \in ToldOk(k)
    BY <1>3, <1>4, ToldFinite DEF ToldOk
  <2>4. /\ told2 \in Nat /\ told2 <= told
        /\ answer[t] = "ok" /\ k = key => told2 <= told - 1
    <3>1. ToldOk(k)' \subseteq ToldOk(k)
      BY <2>3
    <3>2. told2 \in Nat /\ told2 <= told
      BY <2>3, <3>1, FS_Subset, FS_CardinalityType
    <3>3. answer[t] = "ok" /\ k = key => told2 <= told - 1
      BY <2>3, CardOneLess
    <3> QED BY <3>2, <3>3
  <2> HIDE DEF told, told2, back
  <2>5. succeeded'[k] + told2 + back <= confirmed'[k]
    BY <2>1, <2>2, <2>3, <2>4
  <2> QED BY <1>2, <2>5 DEF told2, back
<1> QED BY <1>5 DEF Accounts

\* Nothing else makes an Ok: calls begin without an answer, entries have none,
\* and only a ping is told Ok by a loss.
LEMMA CallAccounts ==
  ASSUME Inv, Inv', Accounts, NEW t \in Tasks, Register(t) \/ Send(t) \/ Timeout(t)
  PROVE  Accounts'
<1>1. call[t].at \in {"register", "send", "wait"} /\ call[t].key \in Key /\ InStep(t)
  BY DEF Register, Send, Timeout, At, Inv, AllInStep, InStep
<1>2. UNCHANGED <<succeeded, confirmed>> /\ inbox' = inbox
  BY DEF Register, Send, Timeout, history, netVars
<1>3. \A s \in Tasks \ {t} : call'[s] = call[s]
  <2>1. CASE Over(t)
    BY <2>1, EndsShape, MovesShape DEF Inv
  <2>2. CASE \E place \in Places : Goes(t, place)
    BY <2>2 DEF Goes, Inv, CallType
  <2>3. Over(t) \/ \E place \in Places : Goes(t, place)
    BY DEF Register, Send, Timeout, Over, Places
  <2> QED BY <2>1, <2>2, <2>3
<1>4. ASSUME NEW s \in Tasks, answer'[s] = "ok"
      PROVE  answer[s] = "ok" /\ call'[s].key = call[s].key
  <2>1. CASE Register(t) \/ Timeout(t)
    <3>1. answer' = [Told(call[t].key, "dropped") EXCEPT ![t] = "none"]
      BY <2>1 DEF Register, Timeout
    <3>2. /\ Told(call[t].key, "dropped") \in [Tasks -> Answers]
          /\ \A r \in Tasks : Told(call[t].key, "dropped")[r] = IF pending[call[t].key] = r THEN "dropped" ELSE answer[r]
      BY <1>1, ToldShape DEF Inv, Answers
    <3> QED BY <1>3, <1>4, <3>1, <3>2
  <2>2. CASE Send(t)
    <3>1. CASE HasSender
      <4>1. Goes(t, "wait") /\ answer' = answer
        BY <2>2, <3>1 DEF Send
      <4>2. call'[t].key = call[t].key
        BY <4>1 DEF Goes, Inv, CallType
      <4> QED BY <1>3, <1>4, <4>1, <4>2
    <3>2. CASE ~HasSender
      <4>1. answer' = [answer EXCEPT ![t] = "none"]
        BY <2>2, <3>2 DEF Send
      <4> QED BY <1>3, <1>4, <4>1 DEF Inv, CallType
    <3> QED BY <3>1, <3>2
  <2> QED BY <2>1, <2>2
<1> QED BY <1>2, <1>4, AccountsKept

\* A step that begins or ends calls of those who have no answer.
LEMMA QuietAccounts ==
  ASSUME Inv, Inv', Accounts, NEW t \in Tasks, answer[t] = "none",
         \A s \in Tasks \ {t} : call'[s] = call[s],
         UNCHANGED <<answer, succeeded, confirmed, inbox>>
  PROVE  Accounts'
BY AccountsKept

LEMMA AsksAccounts ==
  ASSUME Inv, Inv', Accounts, NEW c \in Callers, Asks(c)
  PROVE  Accounts'
<1>1. c \in Tasks
  BY DEF Tasks
<1>2. /\ call[c].at \in {"idle", "asked"}
      /\ UNCHANGED <<answer, succeeded, confirmed, inbox>>
      /\ \/ call' = call \/ Over(c) \/ Goes(c, "register")
         \/ \E key, place : Begins(c, key, place)
  <2>1. ASSUME RequestReturns(c) PROVE At(c, "idle")
    BY <1>1, <2>1 DEF RequestReturns, Inv, AllInStep, InStep
  <2> QED BY <2>1 DEF Asks, SubscribeCalled, UnsubscribeCalled, RequestCalled, PublishCalled, PingCalled,
                      StateChecked, RequestReturns, Calls, At, Over, netVars, history
<1>3. answer[c] = "none"
  BY <1>1, <1>2 DEF Inv, AllInStep, InStep
<1>4. \A s \in Tasks \ {c} : call'[s] = call[s]
  <2>1. CASE Over(c)
    BY <1>1, <2>1, EndsShape, MovesShape DEF Inv
  <2>2. CASE \E key, place : Begins(c, key, place)
    BY <1>1, <2>2, BeginsShape DEF Inv
  <2>3. CASE Goes(c, "register")
    BY <2>3 DEF Goes, Inv, CallType
  <2> QED BY <1>2, <2>1, <2>2, <2>3
<1> QED BY <1>1, <1>2, <1>3, <1>4, QuietAccounts

LEMMA DrainAccounts ==
  ASSUME Inv, Inv', Accounts, Drain
  PROVE  Accounts'
<1>1. /\ UNCHANGED <<call, succeeded, confirmed, inbox>>
      /\ answer' = [t \in Tasks |->
           IF ~Waits(t) THEN answer[t]
           ELSE IF call[t].key[1] = "ping" THEN "ok" ELSE "not_connected"]
  BY DEF Drain, netVars, history
<1> QED BY <1>1, AccountsKept

LEMMA RestAccounts ==
  ASSUME Inv, Inv', Accounts,
         \/ \E c \in Callers : Reply(c)
         \/ \E p \in Pattern : Resubscribe(p)
         \/ \E e \in events : Dispatch(e)
         \/ GarbleRequests \/ GarbleAnswers \/ Greet \/ SetConnected \/ ListPatterns
         \/ StartMain \/ Lose \/ Cleanup \/ SetReconnecting
  PROVE  Accounts'
<1>1. UNCHANGED <<answer, succeeded, confirmed>>
  BY DEF Reply, Resubscribe, Dispatch, GarbleRequests, GarbleAnswers, Greet, SetConnected, ListPatterns,
         StartMain, Lose, Cleanup, SetReconnecting, callVars, history
<1>2. inbox' = inbox \/ inbox' = <<>> \/ Shortened(inbox, inbox')
  <2>1. CASE GarbleAnswers
    <3>1. PICK n \in 1 .. Min({2, Len(inbox)}) : inbox' = SubSeq(inbox, n + 1, Len(inbox))
      BY <2>1 DEF GarbleAnswers, Garbled
    <3> QED BY <3>1, Shorter DEF Inv, NetType
  <2>2. CASE ~GarbleAnswers
    BY <2>2 DEF Reply, Resubscribe, Dispatch, GarbleRequests, Greet, SetConnected, ListPatterns,
           StartMain, Lose, Cleanup, SetReconnecting, netVars
  <2> QED BY <2>1, <2>2
<1>3. ASSUME NEW t \in Tasks, answer[t] = "ok"
      PROVE  call'[t].key = call[t].key
  <2>1. CASE \E p \in Pattern : Resubscribe(p)
    <3>1. PICK p \in Pattern : Resubscribe(p)
      BY <2>1
    <3>2. At(Task, "idle") /\ Begins(Task, <<"subscribe", p>>, "register") /\ Task \in Tasks
      BY <3>1 DEF Resubscribe, Tasks
    <3>3. t # Task
      BY <1>3, <3>2 DEF At, Inv, AllInStep, InStep
    <3> QED BY <3>2, <3>3, BeginsShape DEF Inv
  <2>2. CASE ~\E p \in Pattern : Resubscribe(p)
    BY <2>2 DEF Reply, Dispatch, GarbleRequests, GarbleAnswers, Greet, SetConnected, ListPatterns,
           StartMain, Lose, Cleanup, SetReconnecting, callVars
  <2> QED BY <2>1, <2>2
<1> QED BY <1>1, <1>2, <1>3, AccountsKept

LEMMA StepAccounts ==
  ASSUME Inv, Inv', Accounts, [Next]_vars
  PROVE  Accounts'
<1>1. CASE UNCHANGED vars
  BY <1>1 DEF vars, callVars, netVars, history, Accounts, ToldOk
<1>2. CASE Next
  BY <1>2, CallAccounts, ReturnAccounts, AsksAccounts, ServeAccounts, ReceiveAccounts,
     DrainAccounts, RestAccounts DEF Next, Operates
<1> QED BY <1>1, <1>2

\* Under no name do more operations return Ok after an answer than the server
\* carried out, pings apart: of answers that come late, meet entries of later
\* calls, or are lost, none lets two calls return (client.rs:453-487).
THEOREM OksAreCounted == Spec => []OkIsConfirmed
<1>1. Spec => []Inv
  BY InitInv, StepInv, PTL DEF Spec
<1>2. Inv /\ Accounts /\ [Next]_vars => Accounts'
  BY StepInv, StepAccounts
<1>3. Inv /\ Accounts => OkIsConfirmed
  <2> SUFFICES ASSUME Inv, Accounts, NEW k \in Key, k[1] # "ping"
               PROVE  succeeded[k] <= confirmed[k]
    BY DEF OkIsConfirmed
  <2>1. succeeded[k] + Cardinality(ToldOk(k)) + Cardinality(Where(inbox, Ok(k))) <= confirmed[k]
    BY DEF Accounts
  <2>2. Cardinality(ToldOk(k)) \in Nat /\ Cardinality(Where(inbox, Ok(k))) \in Nat
    BY ToldFinite, InboxCount
  <2> QED BY <2>1, <2>2 DEF Inv, HistoryType
<1> QED BY <1>1, <1>2, <1>3, InitAccounts, PTL DEF Spec

-----------------------------------------------------------------------------
(* Every pattern with handlers is served.                                    *)

\* A call that has its request yet to send.
Asking(t, key) == call[t].key = key /\ call[t].at \in {"asked", "register", "send"}

\* A subscribe is to come; an unsubscribe is.
Coming(p) == p \in todo \/ \E t \in Tasks : Asking(t, <<"subscribe", p>>)
Goer(p) == \E c \in Callers : Asking(c, <<"unsubscribe", p>>)

\* The last of what is queued is a subscribe, or nothing is and the server knows.
Served(p) ==
    \/ Requests(p) = {} /\ p \in server
    \/ \E i \in DOMAIN wire : wire[i].key = <<"subscribe", p>> /\ \A j \in Requests(p) : j <= i

\* An unsubscribe to come is followed by a subscribe, or p is excused.
Good(p) == (Coming(p) \/ Served(p)) /\ (Goer(p) => Coming(p))

Serving == phase \in {"resubscribe", "main"} =>
    \A p \in Pattern \cap Granted : (handlers[p] > 0 /\ p \notin excused) => Good(p)

\* connection_task subscribes in resubscribe(), and does nothing else.
Quiet == /\ phase # "resubscribe" => todo = {} /\ At(Task, "idle")
         /\ At(Task, "idle") \/ call[Task].key[1] = "subscribe"

LEMMA InitServing == Init => Serving /\ Quiet
BY DEF Init, Serving, Quiet, At, Tasks, NoCall

\* A pattern was well served, and loses nothing.
LEMMA ServingKept ==
  ASSUME Serving, phase' \in {"resubscribe", "main"} => phase \in {"resubscribe", "main"},
         ASSUME NEW p \in Pattern \cap Granted, handlers'[p] > 0, p \notin excused',
                phase' \in {"resubscribe", "main"}
         PROVE  \/ Good(p)'
                \/ /\ handlers[p] > 0 /\ p \notin excused
                   /\ Coming(p) => Coming(p)'
                   /\ Served(p) => Served(p)'
                   /\ Goer(p)' => Goer(p)
  PROVE  Serving'
BY DEF Serving, Good

\* A step of t that leaves the queue and the server alone.
LEMMA CallServing ==
  ASSUME Serving, NEW t \in Tasks, UNCHANGED <<phase, todo, wire, server, excused>>,
         \A s \in Tasks \ {t} : call'[s] = call[s],
         ASSUME NEW p \in Pattern, handlers'[p] > 0, phase \in {"resubscribe", "main"}
         PROVE  \/ Asking(t, <<"subscribe", p>>)'
                \/ /\ handlers[p] > 0
                   /\ ~Asking(t, <<"subscribe", p>>)
                   /\ Asking(t, <<"unsubscribe", p>>)' => Asking(t, <<"unsubscribe", p>>)
  PROVE  Serving'
<1>1. ASSUME NEW p \in Pattern \cap Granted, handlers'[p] > 0, p \notin excused',
             phase' \in {"resubscribe", "main"}
      PROVE  \/ Good(p)'
             \/ /\ handlers[p] > 0 /\ p \notin excused
                /\ Coming(p) => Coming(p)'
                /\ Served(p) => Served(p)'
                /\ Goer(p)' => Goer(p)
  <2>1. Served(p)' = Served(p)
    BY DEF Served, Requests
  <2>2. ASSUME NEW s \in Tasks \ {t}, NEW key
        PROVE  Asking(s, key)' = Asking(s, key)
    BY DEF Asking
  <2>3. CASE Asking(t, <<"subscribe", p>>)'
    BY <2>3 DEF Good, Coming
  <2>4. CASE ~Asking(t, <<"subscribe", p>>)'
    <3>1. /\ handlers[p] > 0 /\ ~Asking(t, <<"subscribe", p>>)
          /\ Asking(t, <<"unsubscribe", p>>)' => Asking(t, <<"unsubscribe", p>>)
      BY <1>1, <2>4
    <3>2. Coming(p) => Coming(p)'
      BY <2>2, <3>1 DEF Coming
    <3>3. Goer(p)' => Goer(p)
      BY <2>2, <3>1 DEF Goer, Tasks
    <3> QED BY <1>1, <2>1, <3>1, <3>2, <3>3
  <2> QED BY <2>3, <2>4
<1> QED BY <1>1, ServingKept

\* What other calls are at, when t takes a step.
LEMMA OthersStay ==
  ASSUME Inv, NEW t \in Tasks,
         Over(t) \/ (\E key, place : Begins(t, key, place)) \/ (\E place : Goes(t, place)) \/ call' = call
  PROVE  \A s \in Tasks \ {t} : call'[s] = call[s]
<1>1. CASE Over(t)
  BY <1>1, EndsShape, MovesShape DEF Inv
<1>2. CASE \E key, place : Begins(t, key, place)
  BY <1>2, BeginsShape DEF Inv
<1>3. CASE \E place : Goes(t, place)
  BY <1>3 DEF Goes, Inv, CallType
<1> QED BY <1>1, <1>2, <1>3

\* What a call of Task, or of anybody, is at when it ends.
LEMMA EndsNotAsking ==
  ASSUME Inv, NEW t \in Tasks, Over(t)
  PROVE  /\ \A p \in Pattern : ~Asking(t, <<"subscribe", p>>)' /\ ~Asking(t, <<"unsubscribe", p>>)'
         /\ t = Task => At(t, "idle")'
<1>1. PICK nc, nr :
        /\ Moves(t, nc, nr)
        /\ nc = NoCall \/ /\ request[t].at = "subscribing"
                          /\ \E ch \in Channel : nc = [key |-> <<"publish", ch>>, at |-> "register"]
  BY EndsShape DEF Inv
<1>2. call'[t] = nc
  BY <1>1, MovesShape DEF Inv
<1>3. request[t].at = "subscribing" => t # Task
  BY OperationsAssumption DEF Inv, AllInStep, InStep
<1> QED BY <1>1, <1>2, <1>3 DEF Asking, NoCall, At

LEMMA OperatesServing ==
  ASSUME Inv, Serving, NEW t \in Tasks, Register(t) \/ Return(t) \/ Timeout(t)
  PROVE  Serving'
<1>1. /\ UNCHANGED <<phase, todo, handlers, wire, server, excused>>
      /\ Over(t) \/ Goes(t, "send")
  BY DEF Register, Return, Timeout, Over, clientVars, netVars
<1>2. \A s \in Tasks \ {t} : call'[s] = call[s]
  BY <1>1, OthersStay
<1>3. ASSUME NEW p \in Pattern, handlers'[p] > 0
      PROVE  \/ Asking(t, <<"subscribe", p>>)'
             \/ /\ handlers[p] > 0
                /\ ~Asking(t, <<"subscribe", p>>)
                /\ Asking(t, <<"unsubscribe", p>>)' => Asking(t, <<"unsubscribe", p>>)
  <2>1. CASE Register(t)
    <3>1. call[t].at = "register" /\ call'[t].key = call[t].key /\ call'[t].at = "send"
      BY <2>1 DEF Register, At, Goes, Inv, CallType
    <3> QED BY <1>1, <1>3, <3>1 DEF Asking
  <2>2. CASE Return(t) \/ Timeout(t)
    <3>1. call[t].at = "wait" /\ Over(t)
      BY <2>2 DEF Return, Timeout, At, Over
    <3> QED BY <1>1, <1>3, <3>1, EndsNotAsking DEF Asking
  <2> QED BY <2>1, <2>2
<1> QED BY <1>1, <1>2, <1>3, CallServing

\* The order of what is queued is that of sending.  A subscribe comes last then,
\* and who is about to unsubscribe excuses its pattern; an unsubscribe comes
\* last only if a subscribe is to come.
LEMMA SendServing ==
  ASSUME Inv, Serving, Quiet, NEW t \in Tasks, Send(t)
  PROVE  Serving'
<1> DEFINE key == call[t].key
<1>1. call[t].at = "send" /\ key \in Key
  BY DEF Send, At, Inv, AllInStep, InStep
<1>2. CASE ~HasSender
  BY <1>2 DEF Send, HasSender, clientVars, Serving
<1>3. CASE HasSender
  <2>1. /\ wire' = Append(wire, [key |-> key, id |-> request[t].id])
        /\ excused' = Excused(t) /\ Goes(t, "wait")
        /\ UNCHANGED <<phase, todo, handlers, server>>
    BY <1>3 DEF Send, clientVars
  <2>2. \A s \in Tasks \ {t} : call'[s] = call[s]
    BY <2>1, OthersStay
  <2>3. \A k \in Key : ~Asking(t, k)' /\ (Asking(t, k) <=> k = key)
    BY <1>1, <2>1 DEF Asking, Goes, Inv, CallType
  <2>4. /\ wire \in Seq([key : Key, id : 0 .. MaxCalls]) /\ Len(wire) \in Nat
        /\ DOMAIN wire = 1 .. Len(wire) /\ DOMAIN wire' = 1 .. (Len(wire) + 1)
        /\ \A i \in 1 .. Len(wire) : wire'[i] = wire[i]
        /\ wire'[Len(wire) + 1].key = key
    BY <2>1 DEF Inv, NetType
  <2>5. ASSUME NEW p \in Pattern \cap Granted, handlers'[p] > 0, p \notin excused',
               phase' \in {"resubscribe", "main"}
        PROVE  \/ Good(p)'
               \/ /\ handlers[p] > 0 /\ p \notin excused
                  /\ Coming(p) => Coming(p)'
                  /\ Served(p) => Served(p)'
                  /\ Goer(p)' => Goer(p)
    <3>1. <<"subscribe", p>> \in Key /\ <<"unsubscribe", p>> \in Key
      BY Keys
    <3>2. CASE key = <<"subscribe", p>>
      <4>1. Served(p)'
        <5>1. \A j \in Requests(p)' : j <= Len(wire) + 1
          BY <2>4 DEF Requests
        <5>2. Len(wire) + 1 \in DOMAIN wire' /\ wire'[Len(wire) + 1].key = <<"subscribe", p>>
          BY <2>4, <3>2
        <5> QED BY <5>1, <5>2 DEF Served
      <4>2. ~Goer(p)'
        <5>1. ~Leaving(t, p)
          BY <2>1, <2>5, <3>2 DEF Excused
        <5>2. \A c \in Callers \ {t} : ~Asking(c, <<"unsubscribe", p>>)'
          BY <2>2, <5>1 DEF Leaving, Asking, Tasks
        <5> QED BY <2>3, <3>1, <5>2 DEF Goer
      <4> QED BY <4>1, <4>2 DEF Good
    <3>3. CASE key # <<"subscribe", p>>
      <4>1. p \notin excused
        BY <1>1, <2>1, <2>5, <3>3, Keys DEF Excused
      <4>2. Coming(p) => Coming(p)'
        BY <2>1, <2>2, <2>3, <3>1, <3>3 DEF Coming, Asking
      <4>3. Goer(p)' => Goer(p)
        BY <2>2, <2>3, <3>1 DEF Goer, Asking, Tasks
      <4>4. CASE key = <<"unsubscribe", p>>
        <5>1. t \in Callers
          <6>1. call[Task].key[1] # "subscribe" => At(Task, "idle")
            BY DEF Quiet
          <6> QED BY <1>1, <4>4, <6>1 DEF At, Tasks
        <5>2. Goer(p)
          BY <2>3, <3>1, <4>4, <5>1 DEF Goer
        <5>3. Good(p)
          BY <2>1, <2>5, <4>1 DEF Serving
        <5> QED BY <4>2, <5>2, <5>3 DEF Good
      <4>5. CASE key # <<"unsubscribe", p>>
        <5>1. Requests(p)' = Requests(p)
          BY <2>4, <3>3, <4>5 DEF Requests
        <5>2. ASSUME NEW i \in DOMAIN wire, wire[i].key = <<"subscribe", p>>
              PROVE  i \in DOMAIN wire' /\ wire'[i].key = <<"subscribe", p>>
          BY <2>4, <5>2
        <5>3. Served(p) => Served(p)'
          BY <2>1, <5>1, <5>2 DEF Served
        <5> QED BY <2>1, <2>5, <4>1, <4>2, <4>3, <5>3
      <4> QED BY <4>4, <4>5
    <3> QED BY <3>2, <3>3
  <2> QED BY <2>1, <2>5, ServingKept
<1> QED BY <1>2, <1>3

\* The first handler brings a subscribe with it; the last takes it out of account.
LEMMA AsksServing ==
  ASSUME Inv, Serving, NEW c \in Callers, Asks(c)
  PROVE  Serving'
<1>1. c \in Tasks /\ Uses[c] \subseteq Pattern
  BY OperationsAssumption DEF Tasks
<1>2. /\ UNCHANGED <<phase, todo, wire, server, excused>>
      /\ Over(c) \/ (\E key, place : Begins(c, key, place)) \/ Goes(c, "register") \/ call' = call
  BY DEF Asks, SubscribeCalled, UnsubscribeCalled, RequestCalled, PublishCalled, PingCalled,
         StateChecked, RequestReturns, Over, clientVars, netVars
<1>3. \A s \in Tasks \ {c} : call'[s] = call[s]
  BY <1>1, <1>2, OthersStay
<1>4. ASSUME NEW p \in Pattern, handlers'[p] > 0, phase \in {"resubscribe", "main"}
      PROVE  \/ Asking(c, <<"subscribe", p>>)'
             \/ /\ handlers[p] > 0
                /\ ~Asking(c, <<"subscribe", p>>)
                /\ Asking(c, <<"unsubscribe", p>>)' => Asking(c, <<"unsubscribe", p>>)
  <2> DEFINE Goal == \/ Asking(c, <<"subscribe", p>>)'
                     \/ /\ handlers[p] > 0
                        /\ ~Asking(c, <<"subscribe", p>>)
                        /\ Asking(c, <<"unsubscribe", p>>)' => Asking(c, <<"unsubscribe", p>>)
  <2>1. At(c, "idle") => ~Asking(c, <<"subscribe", p>>)
    BY DEF At, Asking
  <2>2. \A key, place : Begins(c, key, place) => call'[c].key = key /\ call'[c].at = place
    BY <1>1, BeginsShape DEF Inv
  <2>3. ASSUME NEW q \in Pattern, At(c, "idle"),
               handlers' = [handlers EXCEPT ![q] = @ + 1],
               \/ handlers[q] = 0 /\ Begins(c, <<"subscribe", q>>, "asked")
               \/ handlers[q] # 0 /\ call' = call
               \/ handlers[q] # 0 /\ \E ch \in Channel : Begins(c, <<"publish", ch>>, "register")
        PROVE  Goal
    <3>1. handlers \in [Pattern -> Nat]
      BY DEF Inv, ClientType
    <3>2. CASE handlers[q] = 0 /\ Begins(c, <<"subscribe", q>>, "asked")
      <4>1. call'[c].key = <<"subscribe", q>> /\ call'[c].at = "asked"
        BY <2>2, <3>2
      <4>2. q # p => handlers[p] > 0
        BY <1>4, <2>3, <3>1
      <4> QED BY <2>1, <2>3, <4>1, <4>2 DEF Asking
    <3>3. CASE handlers[q] # 0
      <4>1. handlers[p] > 0
        BY <1>4, <2>3, <3>1, <3>3
      <4>2. CASE call' = call
        BY <2>1, <2>3, <4>1, <4>2 DEF Asking
      <4>3. ASSUME NEW ch \in Channel, Begins(c, <<"publish", ch>>, "register")
            PROVE  ~Asking(c, <<"unsubscribe", p>>)'
        <5>1. call'[c].key = <<"publish", ch>>
          BY <2>2, <4>3
        <5> QED BY <5>1 DEF Asking
      <4> QED BY <2>1, <2>3, <3>3, <4>1, <4>2, <4>3
    <3> QED BY <2>3, <3>2, <3>3
  <2>4. ASSUME NEW q \in Pattern, At(c, "idle"),
               handlers' = [handlers EXCEPT ![q] = @ - 1],
               \/ handlers[q] = 1 /\ Begins(c, <<"unsubscribe", q>>, "asked")
               \/ handlers[q] # 1 /\ call' = call
        PROVE  Goal
    <3>1. handlers \in [Pattern -> Nat]
      BY DEF Inv, ClientType
    <3>2. handlers[p] > 0 /\ (handlers[q] = 1 => p # q)
      BY <1>4, <2>4, <3>1
    <3>3. ~Asking(c, <<"unsubscribe", p>>)'
      BY <2>2, <2>4, <3>2 DEF Asking, At
    <3> QED BY <2>1, <2>4, <3>2, <3>3
  <2>5. ASSUME NEW q \in Uses[c], SubscribeCalled(c, q) PROVE Goal
    BY <1>1, <2>3, <2>5 DEF SubscribeCalled, Calls
  <2>6. ASSUME NEW q \in Uses[c], UnsubscribeCalled(c, q) PROVE Goal
    BY <1>1, <2>4, <2>6 DEF UnsubscribeCalled, Calls
  <2>7. ASSUME NEW q \in Uses[c], NEW ch \in Channel, RequestCalled(c, q, ch) PROVE Goal
    BY <1>1, <2>3, <2>7 DEF RequestCalled, Calls
  <2>8. ASSUME (\E ch \in Channel : PublishCalled(c, ch)) \/ PingCalled(c) PROVE Goal
    <3>1. /\ At(c, "idle") /\ handlers' = handlers
          /\ \E key : key[1] # "unsubscribe" /\ Begins(c, key, "register")
      BY <2>8 DEF PublishCalled, PingCalled, Calls, clientVars
    <3>2. ~Asking(c, <<"unsubscribe", p>>)'
      BY <2>2, <3>1 DEF Asking
    <3> QED BY <1>4, <2>1, <3>1, <3>2
  <2>9. ASSUME StateChecked(c) PROVE Goal
    <3>1. Connected
      BY <1>4 DEF Connected
    <3>2. call[c].at = "asked" /\ Goes(c, "register") /\ handlers' = handlers
      BY <2>9, <3>1 DEF StateChecked, At
    <3>3. call'[c].key = call[c].key /\ call'[c].at = "register"
      BY <1>1, <3>2 DEF Goes, Inv, CallType
    <3> QED BY <1>4, <3>2, <3>3 DEF Asking
  <2>10. ASSUME RequestReturns(c) PROVE Goal
    <3>1. At(c, "idle") /\ request[c].on \in Pattern
      BY <1>1, <2>10 DEF RequestReturns, Inv, AllInStep, InStep
    <3> QED BY <2>4, <2>10, <3>1 DEF RequestReturns
  <2> QED BY <2>5, <2>6, <2>7, <2>8, <2>9, <2>10 DEF Asks
<1> QED BY <1>1, <1>2, <1>3, <1>4, CallServing

\* What a queue is when messages have gone from its front, and none of them was
\* a subscribe of p unless the server has carried it out.
LEMMA FrontServed ==
  ASSUME Inv, NEW p \in Pattern, Served(p), NEW n \in Nat, n <= Len(wire),
         Len(wire') = Len(wire) - n, \A i \in 1 .. Len(wire') : wire'[i] = wire[i + n],
         Inv',
         \A i \in 1 .. n : wire[i].key = <<"subscribe", p>> =>
             p \in server' /\ n = 1,
         Requests(p) = {} => p \in server'
  PROVE  Served(p)'
<1>1. /\ DOMAIN wire = 1 .. Len(wire) /\ Len(wire) \in Nat
      /\ DOMAIN wire' = 1 .. Len(wire') /\ Len(wire') \in Nat
  BY DEF Inv, NetType
<1>2. \A j \in Requests(p)' : j + n \in Requests(p) /\ j \in Nat \ {0}
  BY <1>1 DEF Requests
<1>3. CASE Requests(p) = {}
  BY <1>2, <1>3 DEF Served
<1>4. ASSUME NEW i \in DOMAIN wire, wire[i].key = <<"subscribe", p>>, \A j \in Requests(p) : j <= i
      PROVE  Served(p)'
  <2>1. CASE i > n
    <3>1. i - n \in DOMAIN wire' /\ wire'[i - n] = wire[i]
      BY <1>1, <2>1
    <3>2. \A j \in Requests(p)' : j <= i - n
      BY <1>1, <1>2, <1>4
    <3> QED BY <1>4, <3>1, <3>2 DEF Served
  <2>2. CASE i <= n
    <3>1. p \in server' /\ n = 1 /\ i = 1
      BY <1>1, <1>4, <2>2
    <3>2. Requests(p)' = {}
      BY <1>2, <1>4, <3>1
    <3> QED BY <3>1, <3>2 DEF Served
  <2> QED BY <1>1, <2>1, <2>2
<1> QED BY <1>3, <1>4 DEF Served

LEMMA ServeServing ==
  ASSUME Inv, Inv', Serving, Serve
  PROVE  Serving'
<1> DEFINE key == Head(wire).key
           ok == key[1] \in {"unsubscribe", "ping"} \/ key[2] \in Granted
<1>1. /\ wire \in Seq([key : Key, id : 0 .. MaxCalls]) /\ wire # <<>> /\ wire' = Tail(wire)
      /\ server' = CASE key[1] = "subscribe" /\ ok -> server \cup {key[2]}
                      [] key[1] = "unsubscribe" -> server \ {key[2]}
                      [] OTHER -> server
      /\ UNCHANGED <<phase, todo, handlers, call, excused>>
  BY DEF Serve, Inv, NetType, clientVars, callVars
<1>2. /\ key = wire[1].key /\ key \in Key /\ Len(wire) \in Nat \ {0}
      /\ Len(wire') = Len(wire) - 1 /\ \A i \in 1 .. Len(wire') : wire'[i] = wire[i + 1]
  <2>1. Head(wire) \in [key : Key, id : 0 .. MaxCalls]
    BY <1>1, HeadTail
  <2> QED BY <1>1, <2>1, HeadTail
<1>3. ASSUME NEW p \in Pattern \cap Granted
      PROVE  /\ Coming(p)' = Coming(p) /\ Goer(p)' = Goer(p)
             /\ Served(p) => Served(p)'
  <2>1. Coming(p)' = Coming(p) /\ Goer(p)' = Goer(p)
    BY <1>1 DEF Coming, Goer, Asking
  <2>2. key = <<"subscribe", p>> => p \in server'
    BY <1>1
  <2>3. p \in server /\ key # <<"unsubscribe", p>> => p \in server'
    <3>1. key[1] = "unsubscribe" => key = <<"unsubscribe", key[2]>>
      BY <1>2, Keys
    <3> QED BY <1>1, <3>1
  <2>4. 1 \in DOMAIN wire
    BY <1>1, <1>2
  <2>5. Requests(p) = {} => key # <<"unsubscribe", p>>
    BY <1>2, <2>4 DEF Requests
  <2> HIDE DEF key, ok
  <2>6. ASSUME Served(p) PROVE Served(p)'
    <3>1. Requests(p) = {} => p \in server'
      BY <2>3, <2>5, <2>6 DEF Served, Requests
    <3>2. \A i \in 1 .. 1 : wire[i].key = <<"subscribe", p>> => p \in server'
      BY <1>2, <2>2
    <3>3. 1 \in Nat /\ 1 <= Len(wire)
      BY <1>2
    <3> QED BY <1>2, <2>6, <3>1, <3>2, <3>3, FrontServed
  <2> QED BY <2>1, <2>6
<1> QED BY <1>1, <1>3, ServingKept

LEMMA GarbleServing ==
  ASSUME Inv, Inv', Serving, GarbleRequests
  PROVE  Serving'
<1>1. PICK n \in 1 .. Min({2, Len(wire)}) : wire' = SubSeq(wire, n + 1, Len(wire))
  BY DEF GarbleRequests, Garbled
<1>2. PICK m \in {1, 2} : m <= Len(wire) /\ Len(wire') = Len(wire) - m
                         /\ \A i \in 1 .. Len(wire') : wire'[i] = wire[i + m]
  BY <1>1, Shorter DEF Inv, NetType, Shortened
<1>3. /\ excused' = excused \cup
           {p \in Pattern : \E i \in 1 .. (Len(wire) - Len(wire')) : wire[i].key = <<"subscribe", p>>}
      /\ UNCHANGED <<phase, todo, handlers, call, server>>
  BY DEF GarbleRequests, clientVars, callVars
<1>4. ASSUME NEW p \in Pattern \cap Granted, p \notin excused'
      PROVE  /\ p \notin excused /\ Coming(p)' = Coming(p) /\ Goer(p)' = Goer(p)
             /\ Served(p) => Served(p)'
  <2>1. p \notin excused /\ Coming(p)' = Coming(p) /\ Goer(p)' = Goer(p)
    BY <1>3, <1>4 DEF Coming, Goer, Asking
  <2>2. Len(wire) - Len(wire') = m
    BY <1>2 DEF Inv, NetType
  <2>3. \A i \in 1 .. m : wire[i].key # <<"subscribe", p>>
    BY <1>3, <1>4, <2>2
  <2>4. ASSUME Served(p) PROVE Served(p)'
    <3>1. Requests(p) = {} => p \in server'
      <4>1. Requests(p) # {} \/ p \in server
        BY <2>4 DEF Served, Requests
      <4> QED BY <1>3, <4>1
    <3>2. m \in Nat
      OBVIOUS
    <3> QED BY <1>2, <2>3, <2>4, <3>1, <3>2, FrontServed
  <2> QED BY <2>1, <2>4
<1> QED BY <1>3, <1>4, ServingKept

LEMMA RestServing ==
  ASSUME Inv, Serving, Quiet,
         \/ \E c \in Callers : Reply(c)
         \/ \E p \in Pattern : Resubscribe(p)
         \/ \E e \in events : Dispatch(e)
         \/ Receive \/ Drain \/ GarbleAnswers \/ Greet \/ SetConnected \/ ListPatterns
         \/ StartMain \/ Lose \/ Cleanup \/ SetReconnecting
  PROVE  Serving'
<1>1. CASE Drain \/ Greet \/ SetConnected \/ Lose \/ Cleanup \/ SetReconnecting
  BY <1>1 DEF Drain, Greet, SetConnected, Lose, Cleanup, SetReconnecting, Serving
<1>2. CASE ListPatterns
  BY <1>2 DEF ListPatterns, Serving, Good, Coming
<1>3. CASE (\E c \in Callers : Reply(c)) \/ (\E e \in events : Dispatch(e)) \/ Receive \/ GarbleAnswers \/ StartMain
  <2>1. /\ UNCHANGED <<todo, handlers, call, wire, server, excused>>
        /\ phase' = phase \/ phase = "resubscribe"
    BY <1>3 DEF Reply, Dispatch, Receive, GarbleAnswers, StartMain, clientVars, callVars, netVars
  <2>2. \A p \in Pattern : Coming(p)' = Coming(p) /\ Goer(p)' = Goer(p) /\ Served(p)' = Served(p)
    BY <2>1 DEF Coming, Goer, Served, Asking, Requests
  <2> QED BY <2>1, <2>2, ServingKept
<1>4. ASSUME NEW p \in Pattern, Resubscribe(p) PROVE Serving'
  <2>1. /\ At(Task, "idle") /\ Task \in Tasks /\ Task \notin Callers
        /\ todo' = todo \ {p} /\ Begins(Task, <<"subscribe", p>>, "register")
        /\ UNCHANGED <<phase, handlers, wire, server, excused>>
    BY <1>4, OperationsAssumption DEF Resubscribe, Tasks, netVars
  <2>2. /\ call'[Task].key = <<"subscribe", p>> /\ call'[Task].at = "register"
        /\ \A s \in Tasks \ {Task} : call'[s] = call[s]
    BY <2>1, BeginsShape DEF Inv
  <2>3. ASSUME NEW q \in Pattern
        PROVE  (Coming(q) => Coming(q)') /\ (Served(q) => Served(q)') /\ (Goer(q)' => Goer(q))
    <3>1. Served(q) => Served(q)'
      BY <2>1 DEF Served, Requests
    <3>2. Goer(q)' => Goer(q)
      BY <2>1, <2>2 DEF Goer, Asking, Tasks
    <3>3. Coming(q) => Coming(q)'
      <4>1. CASE q = p
        BY <2>1, <2>2, <4>1 DEF Coming, Asking
      <4>2. CASE q # p
        <5>1. ~Asking(Task, <<"subscribe", q>>)
          BY <2>1 DEF At, Asking
        <5>2. \A s \in Tasks \ {Task} : Asking(s, <<"subscribe", q>>)' = Asking(s, <<"subscribe", q>>)
          BY <2>2 DEF Asking
        <5> QED BY <2>1, <4>2, <5>1, <5>2 DEF Coming
      <4> QED BY <4>1, <4>2
    <3> QED BY <3>1, <3>2, <3>3
  <2>4. /\ phase' = phase
        /\ \A q \in Pattern \cap Granted : handlers'[q] = handlers[q] /\ (q \notin excused' => q \notin excused)
    BY <2>1
  <2> QED BY <2>3, <2>4, ServingKept
<1> QED BY <1>1, <1>2, <1>3, <1>4

LEMMA StepServing ==
  ASSUME Inv, Inv', Serving, Quiet, [Next]_vars
  PROVE  Serving'
<1>1. CASE UNCHANGED vars
  BY <1>1 DEF vars, clientVars, callVars, netVars, Serving, Good, Coming, Goer, Served, Asking, Requests
<1>2. CASE Next
  BY <1>2, OperatesServing, SendServing, AsksServing, ServeServing, GarbleServing, RestServing
     DEF Next, Operates
<1> QED BY <1>1, <1>2

LEMMA StepQuiet ==
  ASSUME Inv, Quiet, [Next]_vars
  PROVE  Quiet'
<1>1. Task \in Tasks /\ Task \notin Callers
  BY OperationsAssumption DEF Tasks
<1>2. CASE UNCHANGED <<phase, todo, call>>
  BY <1>2 DEF Quiet, At
<1>3. ASSUME NEW t \in Tasks, Operates(t) PROVE Quiet'
  <2>1. /\ UNCHANGED <<phase, todo>> /\ ~At(t, "idle")
        /\ Over(t) \/ \E place : Goes(t, place)
    BY <1>3 DEF Operates, Register, Send, Return, Timeout, Over, At, clientVars
  <2>2. CASE t # Task
    <3>1. call'[Task] = call[Task]
      BY <1>1, <2>1, <2>2, OthersStay
    <3> QED BY <2>1, <3>1 DEF Quiet, At
  <2>3. CASE t = Task
    <3>1. phase = "resubscribe"
      BY <2>1, <2>3 DEF Quiet
    <3>2. CASE Over(t)
      BY <2>1, <2>3, <3>1, <3>2, EndsNotAsking DEF Quiet, At
    <3>3. ASSUME NEW place, Goes(t, place) PROVE call'[t].key = call[t].key
      BY <3>3 DEF Goes, Inv, CallType
    <3> QED BY <2>1, <2>3, <3>1, <3>2, <3>3 DEF Quiet, At
  <2> QED BY <2>2, <2>3
<1>4. ASSUME NEW c \in Callers, Asks(c) PROVE Quiet'
  <2>1. /\ UNCHANGED <<phase, todo>>
        /\ Over(c) \/ (\E key, place : Begins(c, key, place)) \/ (\E place : Goes(c, place)) \/ call' = call
    BY <1>4 DEF Asks, SubscribeCalled, UnsubscribeCalled, RequestCalled, PublishCalled, PingCalled,
                StateChecked, RequestReturns, Over, clientVars
  <2>2. call'[Task] = call[Task]
    BY <1>1, <2>1, OthersStay DEF Tasks
  <2> QED BY <2>1, <2>2 DEF Quiet, At
<1>5. ASSUME NEW p \in Pattern, Resubscribe(p) PROVE Quiet'
  <2>1. phase' = "resubscribe" /\ call'[Task].key = <<"subscribe", p>>
    BY <1>1, <1>5, BeginsShape DEF Resubscribe, Inv
  <2> QED BY <2>1 DEF Quiet
<1>6. CASE Greet \/ SetConnected \/ ListPatterns \/ StartMain \/ Lose \/ Cleanup \/ Drain \/ SetReconnecting
  BY <1>6 DEF Greet, SetConnected, ListPatterns, StartMain, Lose, Cleanup, Drain, SetReconnecting,
              callVars, Quiet, At
<1>7. CASE (\E c \in Callers : Reply(c)) \/ (\E e \in events : Dispatch(e)) \/ Serve \/ Receive
           \/ GarbleRequests \/ GarbleAnswers
  BY <1>2, <1>7 DEF Reply, Dispatch, Serve, Receive, GarbleRequests, GarbleAnswers, clientVars, callVars
<1> QED BY <1>2, <1>3, <1>4, <1>5, <1>6, <1>7 DEF Next, vars, clientVars, callVars

\* The maximum that WillBeServed takes is the last of what is queued.
LEMMA MaxIs ==
  ASSUME NEW S \in SUBSET Int, NEW i \in S, \A j \in S : j <= i
  PROVE  Max(S) = i
<1>1. \E x \in S : \A y \in S : x >= y
  OBVIOUS
<1>2. Max(S) \in S /\ \A j \in S : Max(S) >= j
  BY <1>1 DEF Max
<1>3. Max(S) \in Int /\ i \in Int /\ Max(S) >= i /\ Max(S) <= i
  BY <1>2
<1> QED BY <1>3

\* Whatever timeouts, losses, resubscriptions and others' comings and goings
\* there were, a pattern with handlers is, or is about to be, subscribed to on
\* the server, unless its last subscribe was garbled or overtook an unsubscribe
\* (client.rs:198-224, 430-451, 545-558).
THEOREM EveryHandlerServed == Spec => []HandlersServed
<1>1. Spec => []Inv
  BY InitInv, StepInv, PTL DEF Spec
<1>2. Inv /\ Serving /\ Quiet /\ [Next]_vars => (Serving /\ Quiet)'
  BY StepInv, StepServing, StepQuiet
<1>3. Inv /\ Serving /\ Quiet => HandlersServed
  <2> SUFFICES ASSUME Inv, Serving, Quiet, NEW p \in Pattern \cap Granted,
                      phase = "main", handlers[p] > 0, ~Busy(p), p \notin excused
               PROVE  WillBeServed(p)
    BY DEF HandlersServed
  <2>1. ~Coming(p)
    <3>1. \A c \in Callers : ~Asking(c, <<"subscribe", p>>)
      BY DEF Busy, Asking
    <3>2. todo = {} /\ ~Asking(Task, <<"subscribe", p>>)
      BY DEF Quiet, At, Asking
    <3> QED BY <3>1, <3>2 DEF Coming, Tasks
  <2>2. Served(p)
    BY <2>1 DEF Serving, Good
  <2>3. ASSUME NEW i \in DOMAIN wire, wire[i].key = <<"subscribe", p>>, \A j \in Requests(p) : j <= i
        PROVE  WillBeServed(p)
    <3>1. i \in Requests(p) /\ Requests(p) \in SUBSET Int
      <4>1. DOMAIN wire \in SUBSET Int
        BY DEF Inv, NetType
      <4> QED BY <2>3, <4>1 DEF Requests
    <3>2. Max(Requests(p)) = i
      BY <2>3, <3>1, MaxIs
    <3> QED BY <2>3, <3>1, <3>2 DEF WillBeServed
  <2> QED BY <2>2, <2>3 DEF Served, WillBeServed
<1> QED BY <1>1, <1>2, <1>3, InitServing, PTL DEF Spec

=============================================================================

---------------------------- MODULE AccessProofs ----------------------------
(***************************************************************************)
(* What Access promises, for any roles, patterns, commands at a time,       *)
(* clients, secrets and keys.                                              *)
(***************************************************************************)
EXTENDS Access, TLAPS

\* What can be granted is neither of the two values that stand for no GrantSet.
LEMMA GrantSetsApart == \A grants \in SUBSET Grant : grants # None /\ grants # Blank
BY AccessAssumption

\* An idle run of the CLI is no change of a role.
LEMMA IdleApart == Idle \notin Change /\ \A r \in Role : Idle.role # r
BY AccessAssumption DEF Idle, Change

LEMMA LineGrants == \A line \in CommandLine : BuildGrants(line) \in SUBSET Grant
<1> SUFFICES ASSUME NEW line \in CommandLine PROVE BuildGrants(line) \in SUBSET Grant
    OBVIOUS
<1>1. line.types \in SUBSET (GrantType \cup {"all"}) /\ line.patterns \in SUBSET Pattern
    BY AccessAssumption
<1>2. TypesNamed(line.types) \in SUBSET GrantType
    BY <1>1 DEF TypesNamed
<1> QED BY <1>1, <1>2 DEF BuildGrants, Grant

-----------------------------------------------------------------------------
(* Types                                                                    *)

LEMMA WrittenType ==
    ASSUME TypeOK, NEW c \in Command, command[c] # Idle
    PROVE  /\ command[c] \in Change
           /\ Written(c) \in [Role -> (SUBSET Grant) \cup {None, Blank}]
           /\ Others(c) \in [Command -> Change \cup {Idle}]
           /\ \A verdict \in {"unknown", "add", "remove"} :
                 Recorded(c, verdict) \in [Role -> [Grant -> {"unknown", "add", "remove"}]]
<1>1. command[c] \in Change
    BY DEF TypeOK
<1>2. Written(c) \in [Role -> (SUBSET Grant) \cup {None, Blank}]
    BY <1>1 DEF Written, TypeOK, Change
<1>3. Overtaken(command[c].role) \in [Command -> Change \cup {Idle}]
  <2> SUFFICES ASSUME NEW d \in Command PROVE Overtaken(command[c].role)[d] \in Change \cup {Idle}
      BY DEF Overtaken
  <2>1. CASE command[d].role = command[c].role
      BY <1>1, <2>1, IdleApart DEF Overtaken, TypeOK, Change
  <2>2. CASE command[d].role # command[c].role
      BY <2>2 DEF Overtaken, TypeOK
  <2> QED BY <2>1, <2>2
<1>4. Others(c) \in [Command -> Change \cup {Idle}]
    BY <1>3 DEF Others
<1>5. ASSUME NEW verdict \in {"unknown", "add", "remove"}
      PROVE  Recorded(c, verdict) \in [Role -> [Grant -> {"unknown", "add", "remove"}]]
    BY <1>1 DEF Recorded, TypeOK, Change
<1> QED BY <1>1, <1>2, <1>4, <1>5

LEMMA TypeStep == TypeOK /\ [Next]_vars => TypeOK'
<1> SUFFICES ASSUME TypeOK, [Next]_vars PROVE TypeOK'
    OBVIOUS
<1>1. ASSUME NEW r \in Role, CreateRole(r) PROVE TypeOK'
    BY <1>1 DEF TypeOK, CreateRole, history
<1>2. ASSUME NEW r \in Role, DeleteRole(r) PROVE TypeOK'
    BY <1>2 DEF TypeOK, DeleteRole, history
<1>3. ASSUME NEW r \in Role, NEW line \in CommandLine, WriteWithSql(r, BuildGrants(line)) PROVE TypeOK'
  <2>1. Overtaken(r) \in [Command -> Change \cup {Idle}]
    <3> SUFFICES ASSUME NEW d \in Command PROVE Overtaken(r)[d] \in Change \cup {Idle}
        BY DEF Overtaken
    <3>1. CASE command[d].role = r
      <4>1. command[d] \in Change
          BY <3>1, IdleApart DEF TypeOK
      <4> QED BY <3>1, <4>1 DEF Overtaken, Change
    <3>2. CASE command[d].role # r
        BY <3>2 DEF Overtaken, TypeOK
    <3> QED BY <3>1, <3>2
  <2> QED BY <1>3, <2>1, LineGrants DEF TypeOK, WriteWithSql
<1>4. ASSUME NEW r \in Role, NEW c \in Command, NEW op \in {"add", "remove"}, NEW line \in CommandLine,
             ReadGrants(c, op, r, line)
      PROVE  TypeOK'
  <2>1. row[r] \in SUBSET Grant
      BY <1>4 DEF TypeOK, ReadGrants, Readable
  <2>2. Changed(op, row[r], BuildGrants(line)) \in SUBSET Grant
      BY <2>1, LineGrants DEF Changed
  <2>3. [op |-> op, role |-> r, grants |-> BuildGrants(line),
         value |-> Changed(op, row[r], BuildGrants(line)), stale |-> FALSE] \in Change
      BY <2>2, LineGrants DEF Change
  <2> QED BY <1>4, <2>3 DEF TypeOK, ReadGrants, store, history
<1>5. ASSUME NEW c \in Command, WriteGrants(c) PROVE TypeOK'
  <2>1. command[c].op \in {"unknown", "add", "remove"}
      BY <1>5, WrittenType DEF WriteGrants, Change
  <2> QED BY <1>5, <2>1, WrittenType DEF TypeOK, WriteGrants
<1>6. ASSUME NEW c \in Command, CommandFails(c) PROVE TypeOK'
    BY <1>6, WrittenType DEF TypeOK, CommandFails
<1>7. ASSUME NEW line \in CommandLine, NEW secret \in Secret, IssueToken(line, secret) PROVE TypeOK'
    BY <1>7, LineGrants DEF TypeOK, IssueToken, SubToken, store, history
<1>8. ASSUME NEW i \in Client, Leave(i) PROVE TypeOK'
    BY <1>8 DEF TypeOK, Leave, store, history
<1>9. ASSUME NEW i \in Client, NEW token \in Token, Login(i, token) PROVE TypeOK'
  <2>1. token \in AdminToken \cup SubToken \cup [kind : {"role"}, role : Role]
      BY DEF Token, TypeOK
  <2>2. Brings(token) \in SUBSET Grant
    <3>1. CASE token \in AdminToken
        BY <3>1 DEF Brings, AdminToken
    <3>2. CASE token \in SubToken
        BY <3>2 DEF Brings, SubToken
    <3>3. CASE token \in [kind : {"role"}, role : Role]
        BY <1>9, <3>3 DEF Brings, Login, Accepted, Readable, TypeOK
    <3> QED BY <2>1, <3>1, <3>2, <3>3
  <2> QED BY <1>9, <2>1, <2>2 DEF TypeOK, Login, store, history
<1>10. ASSUME NEW secret \in Secret, NEW admin \in AdminKey \cup {None}, Restart(secret, admin) PROVE TypeOK'
    BY <1>10 DEF TypeOK, Restart, store
<1>11. CASE UNCHANGED vars
    BY <1>11 DEF TypeOK, vars, store, history
<1> QED BY <1>1, <1>2, <1>3, <1>4, <1>5, <1>6, <1>7, <1>8, <1>9, <1>10, <1>11 DEF Next, Manage

\* The table, the commands, the tokens and the sessions keep their shape.
THEOREM TypeCorrect == Spec => []TypeOK
<1>1. Init => TypeOK
    BY DEF Init, TypeOK
<1> QED BY <1>1, TypeStep, PTL DEF Spec

-----------------------------------------------------------------------------
(* Sessions                                                                 *)

\* A role that was gone when the daemon started stays gone: no ID is generated
\* twice, and no write puts a row back.
GoneStaysGone == \A r \in goneAtStart : r \in created /\ row[r] = None

Entitled == GoneStaysGone /\ SessionsEntitled

\* A change writes to a row only that is there.
LEMMA WrittenKeepsNone ==
    ASSUME TypeOK, NEW c \in Command, command[c] # Idle, NEW r \in Role
    PROVE  Written(c)[r] = None <=> row[r] = None
<1>1. command[c] \in Change
    BY DEF TypeOK
<1> QED BY <1>1, GrantSetsApart DEF Written, TypeOK, Change

LEMMA EntitledStep == TypeOK /\ Entitled /\ [Next]_vars => Entitled'
<1> SUFFICES ASSUME TypeOK, Entitled, [Next]_vars PROVE Entitled'
    OBVIOUS
<1> USE DEF Entitled
<1>1. ASSUME UNCHANGED <<issued, daemon, session, goneAtStart>> PROVE SessionsEntitled'
    BY <1>1 DEF SessionsEntitled
<1>2. ASSUME NEW r \in Role, CreateRole(r) PROVE Entitled'
  <2>1. GoneStaysGone'
      BY <1>2 DEF GoneStaysGone, CreateRole, TypeOK, history
  <2> QED BY <1>1, <1>2, <2>1 DEF CreateRole, history
<1>3. ASSUME NEW r \in Role, DeleteRole(r) PROVE Entitled'
  <2>1. GoneStaysGone'
      BY <1>3 DEF GoneStaysGone, DeleteRole, TypeOK, history
  <2> QED BY <1>1, <1>3, <2>1 DEF DeleteRole, history
<1>4. ASSUME NEW r \in Role, NEW line \in CommandLine, WriteWithSql(r, BuildGrants(line)) PROVE Entitled'
  <2>1. GoneStaysGone'
      BY <1>4 DEF GoneStaysGone, WriteWithSql, TypeOK
  <2> QED BY <1>1, <1>4, <2>1 DEF WriteWithSql
<1>5. ASSUME NEW r \in Role, NEW c \in Command, NEW op \in {"add", "remove"}, NEW line \in CommandLine,
             ReadGrants(c, op, r, line)
      PROVE  Entitled'
    BY <1>1, <1>5 DEF ReadGrants, store, history, GoneStaysGone
<1>6. ASSUME NEW c \in Command, WriteGrants(c) PROVE Entitled'
  <2>1. GoneStaysGone'
      BY <1>6, WrittenKeepsNone DEF GoneStaysGone, WriteGrants, TypeOK
  <2> QED BY <1>1, <1>6, <2>1 DEF WriteGrants
<1>7. ASSUME NEW c \in Command, CommandFails(c) PROVE Entitled'
  <2>1. GoneStaysGone'
      BY <1>7, WrittenKeepsNone DEF GoneStaysGone, CommandFails, TypeOK
  <2> QED BY <1>1, <1>7, <2>1 DEF CommandFails
<1>8. ASSUME NEW line \in CommandLine, NEW secret \in Secret, IssueToken(line, secret) PROVE Entitled'
  <2>1. issued \subseteq issued' /\ UNCHANGED <<daemon, session, goneAtStart>>
      BY <1>8 DEF IssueToken, history
  <2>2. SessionsEntitled'
    <3> SUFFICES ASSUME NEW i \in Client, session[i] # Closed
                 PROVE  LET token == session[i].token IN
                        CASE token.kind = "admin" -> token.key = daemon.admin
                          [] token.kind = "sub"   -> token \in issued' /\ token.secret = daemon.secret
                          [] token.kind = "role"  -> token.role \notin goneAtStart
        BY <2>1 DEF SessionsEntitled
    <3>1. session[i].token.kind \in {"admin", "sub", "role"}
        BY DEF TypeOK, AdminToken, SubToken
    <3> QED BY <2>1, <3>1 DEF SessionsEntitled
  <2> QED BY <1>8, <2>2 DEF IssueToken, store, history, GoneStaysGone
<1>9. ASSUME NEW i \in Client, Leave(i) PROVE Entitled'
  <2>1. SessionsEntitled'
      BY <1>9 DEF Leave, SessionsEntitled, TypeOK, store, history
  <2> QED BY <1>9, <2>1 DEF Leave, store, history, GoneStaysGone
<1>10. ASSUME NEW i \in Client, NEW token \in Token, Login(i, token) PROVE Entitled'
  <2> DEFINE Holds(tok) ==
        CASE tok.kind = "admin" -> tok.key = daemon.admin
          [] tok.kind = "sub"   -> tok \in issued /\ tok.secret = daemon.secret
          [] tok.kind = "role"  -> tok.role \notin goneAtStart
  <2>1. Holds(token)
    <3>1. CASE token \in AdminToken
        BY <1>10, <3>1 DEF Login, Accepted, AdminToken
    <3>2. CASE token \in issued
        BY <1>10, <3>2 DEF Login, Accepted, TypeOK, SubToken
    <3>3. CASE token \in [kind : {"role"}, role : created]
        BY <1>10, <3>3 DEF Login, Accepted, Readable, GoneStaysGone
    <3> QED BY <3>1, <3>2, <3>3 DEF Token
  <2>2. \A j \in Client : session'[j] # Closed => Holds(session'[j].token)
    <3> SUFFICES ASSUME NEW j \in Client, session'[j] # Closed PROVE Holds(session'[j].token)
        OBVIOUS
    <3>1. CASE j = i
      <4>1. session'[j].token = token
          BY <1>10, <3>1 DEF Login, TypeOK
      <4> HIDE DEF Holds
      <4> QED BY <2>1, <4>1
    <3>2. CASE j # i
      <4>1. session'[j] = session[j]
          BY <1>10, <3>2 DEF Login, TypeOK
      <4> QED BY <4>1 DEF SessionsEntitled
    <3> QED BY <3>1, <3>2
  <2> QED BY <1>10, <2>2 DEF SessionsEntitled, Login, store, history, GoneStaysGone
<1>11. ASSUME NEW secret \in Secret, NEW admin \in AdminKey \cup {None}, Restart(secret, admin) PROVE Entitled'
    BY <1>11 DEF Restart, SessionsEntitled, GoneStaysGone, store
<1>12. CASE UNCHANGED vars
    BY <1>1, <1>12 DEF vars, store, history, GoneStaysGone
<1> QED BY <1>2, <1>3, <1>4, <1>5, <1>6, <1>7, <1>8, <1>9, <1>10, <1>11, <1>12 DEF Next, Manage

\* Every open session rests on what its daemon was started with.
THEOREM Sessions == Spec => []SessionsEntitled
<1>1. Init => Entitled
    BY DEF Init, Entitled, GoneStaysGone, SessionsEntitled
<1>2. Entitled => SessionsEntitled
    BY DEF Entitled
<1> QED BY <1>1, <1>2, TypeCorrect, EntitledStep, PTL DEF Spec

-----------------------------------------------------------------------------
(* Reports                                                                  *)

\* A change puts in what it adds, takes out what it removes, and leaves the other
\* grants of the row as they are, unless that was written since it was read.
Sound(now) ==
    /\ now.role \in created
    /\ \A g \in now.grants : g \in now.value <=> now.op = "add"
    /\ (~now.stale /\ row[now.role] # None) =>
          /\ Readable(now.role)
          /\ \A g \in Grant \ now.grants : g \in now.value <=> g \in row[now.role]

Reporting ==
    /\ ReportsHold
    /\ \A r \in Role : row[r] # None => r \in created
    /\ \A r \in Role \ created : \A g \in Grant : reported[r][g] = "unknown"
    /\ \A c \in Command : command[c] # Idle => Sound(command[c])

\* The write of a change, whatever it then says of itself.
LEMMA WriteReports ==
    ASSUME TypeOK, NEW c \in Command, command[c] # Idle, Reporting,
           NEW verdict \in {command[c].op, "unknown"},
           row' = Written(c), reported' = Recorded(c, verdict), command' = Others(c), UNCHANGED created
    PROVE  Reporting'
<1> DEFINE now == command[c]
           q == now.role
<1>1. now \in Change /\ Sound(now)
    BY DEF TypeOK, Reporting
<1>2. /\ q \in Role /\ now.grants \in SUBSET Grant /\ now.value \in SUBSET Grant
      /\ now.op \in {"add", "remove"} /\ now.value # None /\ now.value # Blank
    BY <1>1, GrantSetsApart DEF Change
<1>3. \A r \in Role : r # q => row'[r] = row[r] /\ reported'[r] = reported[r]
    BY <1>2 DEF Written, Recorded, TypeOK
<1>4. row[q] = None => row'[q] = None
    BY DEF Written
<1>5. row[q] # None => row'[q] = now.value
    BY <1>2 DEF Written, TypeOK
<1>6. \A g \in Grant : reported'[q][g] =
          IF g \in now.grants THEN verdict ELSE IF now.stale THEN "unknown" ELSE reported[q][g]
    BY <1>2 DEF Recorded, TypeOK
<1>7. ReportsHold'
  <2> SUFFICES ASSUME NEW r \in Role, row'[r] # None, NEW g \in Grant
               PROVE  /\ reported'[r][g] = "add" => row'[r] \notin {None, Blank} /\ g \in row'[r]
                      /\ reported'[r][g] = "remove" => row'[r] \notin {None, Blank} /\ g \notin row'[r]
      BY DEF ReportsHold, Readable
  <2>1. CASE r # q
      BY <1>3, <2>1 DEF Reporting, ReportsHold, Readable
  <2>2. CASE r = q /\ g \in now.grants
      BY <1>1, <1>2, <1>4, <1>5, <1>6, <2>2 DEF Sound
  <2>3. CASE r = q /\ g \notin now.grants /\ now.stale
      BY <1>6, <2>3
  <2>4. CASE r = q /\ g \notin now.grants /\ ~now.stale
    <3>1. row[q] # None /\ reported'[q][g] = reported[q][g] /\ row'[q] = now.value
        BY <1>4, <1>5, <1>6, <2>4
    <3>2. g \in now.value <=> g \in row[q]
        BY <1>1, <2>4, <3>1 DEF Sound
    <3> QED BY <1>2, <2>4, <3>1, <3>2 DEF Reporting, ReportsHold
  <2> QED BY <2>1, <2>2, <2>3, <2>4
<1>8. \A r \in Role : row'[r] # None => r \in created'
    BY <1>1, <1>3 DEF Sound, Reporting
<1>9. \A r \in Role \ created' : \A g \in Grant : reported'[r][g] = "unknown"
    BY <1>1, <1>3 DEF Sound, Reporting
<1>10. ASSUME NEW d \in Command, command'[d] # Idle PROVE Sound(command[d])'
  <2>1. d # c /\ command'[d] = Overtaken(q)[d]
      BY <1>10 DEF Others, Overtaken
  <2>2. CASE command[d].role = q
    <3>1. command[d] \in Change /\ Sound(command[d])
        BY <1>2, <2>2, IdleApart DEF TypeOK, Reporting
    <3>2. command'[d] = [command[d] EXCEPT !.stale = TRUE]
        BY <2>1, <2>2 DEF Overtaken
    <3> QED BY <3>1, <3>2 DEF Sound, Change
  <2>3. CASE command[d].role # q
    <3>1. command'[d] = command[d] /\ command[d] # Idle
        BY <1>10, <2>1, <2>3 DEF Overtaken
    <3>2. command[d].role \in Role /\ Sound(command[d])
        BY <3>1 DEF TypeOK, Change, Reporting
    <3>3. row'[command[d].role] = row[command[d].role]
        BY <1>3, <2>3, <3>2
    <3> QED BY <3>1, <3>2, <3>3 DEF Sound, Readable
  <2> QED BY <2>2, <2>3
<1> QED BY <1>7, <1>8, <1>9, <1>10 DEF Reporting

LEMMA ReportingStep == TypeOK /\ Reporting /\ [Next]_vars => Reporting'
<1> SUFFICES ASSUME TypeOK, Reporting, [Next]_vars PROVE Reporting'
    OBVIOUS
<1>1. ASSUME UNCHANGED <<row, created, command, reported>> PROVE Reporting'
    BY <1>1 DEF Reporting, ReportsHold, Readable, Sound
<1>2. ASSUME NEW r \in Role, CreateRole(r) PROVE Reporting'
  <2>1. /\ \A q \in Role : q # r => row'[q] = row[q]
        /\ r \notin created /\ created' = created \cup {r} /\ row'[r] = Blank
        /\ UNCHANGED <<command, reported>>
      BY <1>2 DEF CreateRole, TypeOK, history
  <2>2. ReportsHold'
      BY <2>1 DEF Reporting, ReportsHold, Readable
  <2>3. ASSUME NEW c \in Command, command'[c] # Idle PROVE Sound(command[c])'
    <3>1. command[c] \in Change /\ Sound(command[c])
        BY <2>1, <2>3 DEF TypeOK, Reporting
    <3>2. command[c].role \in Role /\ command[c].role # r
        BY <2>1, <3>1 DEF Sound, Change
    <3> QED BY <2>1, <3>1, <3>2 DEF Sound, Readable
  <2> QED BY <2>1, <2>2, <2>3 DEF Reporting
<1>3. ASSUME NEW r \in Role, DeleteRole(r) PROVE Reporting'
  <2>1. /\ \A q \in Role : q # r => row'[q] = row[q]
        /\ row'[r] = None
        /\ UNCHANGED <<created, command, reported>>
      BY <1>3 DEF DeleteRole, TypeOK, history
  <2>2. ReportsHold'
      BY <2>1 DEF Reporting, ReportsHold, Readable
  <2>3. ASSUME NEW c \in Command, command'[c] # Idle PROVE Sound(command[c])'
    <3>1. command[c] \in Change /\ Sound(command[c])
        BY <2>1, <2>3 DEF TypeOK, Reporting
    <3>2. command[c].role \in Role
        BY <3>1 DEF Change
    <3> QED BY <2>1, <3>1, <3>2 DEF Sound, Readable
  <2> QED BY <2>1, <2>2, <2>3 DEF Reporting
<1>4. ASSUME NEW r \in Role, NEW line \in CommandLine, WriteWithSql(r, BuildGrants(line)) PROVE Reporting'
  <2>1. /\ \A q \in Role : q # r => row'[q] = row[q] /\ reported'[q] = reported[q]
        /\ row[r] # None /\ \A g \in Grant : reported'[r][g] = "unknown"
        /\ command' = Overtaken(r) /\ UNCHANGED created
      BY <1>4 DEF WriteWithSql, TypeOK
  <2>2. ReportsHold'
      BY <2>1 DEF Reporting, ReportsHold, Readable
  <2>3. ASSUME NEW c \in Command, command'[c] # Idle PROVE Sound(command[c])'
    <3>1. CASE command[c].role = r
      <4>1. command[c] \in Change /\ Sound(command[c])
          BY <3>1, IdleApart DEF TypeOK, Reporting
      <4>2. command'[c] = [command[c] EXCEPT !.stale = TRUE]
          BY <2>1, <3>1 DEF Overtaken
      <4> QED BY <2>1, <4>1, <4>2 DEF Sound, Change
    <3>2. CASE command[c].role # r
      <4>1. command'[c] = command[c]
          BY <2>1, <3>2 DEF Overtaken
      <4>2. command[c] \in Change /\ Sound(command[c])
          BY <2>3, <4>1 DEF TypeOK, Reporting
      <4>3. row'[command[c].role] = row[command[c].role]
          BY <2>1, <3>2, <4>2 DEF Change
      <4> QED BY <2>1, <4>1, <4>2, <4>3 DEF Sound, Readable
    <3> QED BY <3>1, <3>2
  <2> QED BY <2>1, <2>2, <2>3 DEF Reporting
<1>5. ASSUME NEW r \in Role, NEW c \in Command, NEW op \in {"add", "remove"}, NEW line \in CommandLine,
             ReadGrants(c, op, r, line)
      PROVE  Reporting'
  <2>1. UNCHANGED <<row, created, reported>>
      BY <1>5 DEF ReadGrants, store, history
  <2>2. command'[c] = [op |-> op, role |-> r, grants |-> BuildGrants(line),
                       value |-> Changed(op, row[r], BuildGrants(line)), stale |-> FALSE]
      BY <1>5 DEF ReadGrants, TypeOK
  <2>3. Sound(command[c])'
      BY <1>5, <2>1, <2>2 DEF Sound, ReadGrants, Readable, Changed, Reporting
  <2>4. ASSUME NEW d \in Command, command'[d] # Idle PROVE Sound(command[d])'
    <3>1. CASE d # c
      <4>1. command'[d] = command[d]
          BY <1>5, <3>1 DEF ReadGrants, TypeOK
      <4> QED BY <2>1, <2>4, <4>1 DEF Reporting, Sound, Readable
    <3> QED BY <2>3, <3>1
  <2> QED BY <2>1, <2>4 DEF Reporting, ReportsHold, Readable
<1>6. ASSUME NEW c \in Command, WriteGrants(c) PROVE Reporting'
    BY <1>6, WriteReports DEF WriteGrants
<1>7. ASSUME NEW c \in Command, CommandFails(c) PROVE Reporting'
  <2>1. CASE row' = Written(c) /\ reported' = Recorded(c, "unknown") /\ command' = Others(c)
      BY <1>7, <2>1, WriteReports DEF CommandFails
  <2>2. CASE command' = [command EXCEPT ![c] = Idle] /\ UNCHANGED <<row, reported>>
    <3>1. UNCHANGED <<row, created, reported>>
        BY <1>7, <2>2 DEF CommandFails
    <3>2. \A d \in Command : command'[d] # Idle => command'[d] = command[d]
        BY <2>2 DEF TypeOK
    <3> QED BY <3>1, <3>2 DEF Reporting, ReportsHold, Readable, Sound
  <2> QED BY <1>7, <2>1, <2>2 DEF CommandFails
<1>8. ASSUME NEW line \in CommandLine, NEW secret \in Secret, IssueToken(line, secret) PROVE Reporting'
    BY <1>1, <1>8 DEF IssueToken, store, history
<1>9. ASSUME NEW i \in Client, Leave(i) PROVE Reporting'
    BY <1>1, <1>9 DEF Leave, store, history
<1>10. ASSUME NEW i \in Client, NEW token \in Token, Login(i, token) PROVE Reporting'
    BY <1>1, <1>10 DEF Login, store, history
<1>11. ASSUME NEW secret \in Secret, NEW admin \in AdminKey \cup {None}, Restart(secret, admin) PROVE Reporting'
    BY <1>1, <1>11 DEF Restart, store
<1>12. CASE UNCHANGED vars
    BY <1>1, <1>12 DEF vars, store, history
<1> QED BY <1>2, <1>3, <1>4, <1>5, <1>6, <1>7, <1>8, <1>9, <1>10, <1>11, <1>12 DEF Next, Manage

\* What a command has reported stays true while the role exists.
THEOREM Reports == Spec => []ReportsHold
<1>1. Init => Reporting
    BY DEF Init, Reporting, ReportsHold
<1>2. Reporting => ReportsHold
    BY DEF Reporting
<1> QED BY <1>1, <1>2, TypeCorrect, ReportingStep, PTL DEF Spec
=============================================================================

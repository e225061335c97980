------------------------------- MODULE Access -------------------------------
(***************************************************************************)
(* Who may do what, and for how long: the table of roles                   *)
(* (src/src/storage/postgres.rs), the commands that change it              *)
(* (src/src/bin/catbus.rs), tokens (src/src/auth/tokens.rs), and the       *)
(* sessions a daemon opens on them (transport.rs, websocket.rs, and the    *)
(* run of src/src/bin/catbusd.rs that they belong to).                     *)
(*                                                                         *)
(* A statement of the database is one step.  A change of a role's grants   *)
(* is two: what is read is changed in the command's memory and written     *)
(* back.  Several commands run at a time, each may fail between the two,   *)
(* and one that fails at its write may have written.  Signing and encoding *)
(* are left out: a sub token is what was signed, and the secret.           *)
(***************************************************************************)
EXTENDS FiniteSets

CONSTANTS
    Role,       \* role IDs, each generated at random and never twice
    Pattern,    \* channel patterns
    CommandLine,\* what is typed: [types |-> ..., patterns |-> ...]
    Command,    \* runs of the CLI at a time
    Client,     \* those that present tokens to the daemon
    Secret,     \* signing secrets, of the CLI and of the daemon
    AdminKey,   \* admin keys
    None,       \* no row, no key
    Blank       \* the column default '[]', which is no GrantSet

GrantType == {"read", "write", "create"}
Grant == GrantType \X Pattern

ASSUME AccessAssumption ==
    /\ CommandLine \subseteq [types : SUBSET (GrantType \cup {"all"}), patterns : SUBSET Pattern]
    /\ None \notin AdminKey \cup Role /\ None # Blank
    /\ \A grants \in SUBSET Grant : grants # None /\ grants # Blank

VARIABLES
    row,        \* per role, the `grants` column, or None without a row
    created,    \* the role IDs generated so far
    command,    \* per run of the CLI, the change under way
    issued,     \* sub tokens that `catbus grant` has printed
    daemon,     \* the secret and the admin key that catbusd was started with
    session,    \* per client, its open session
    reported,   \* history: per role, what commands said last of each grant
    goneAtStart \* history: roles that had been deleted when catbusd started

store == <<row, created>>
history == <<reported, goneAtStart>>
vars == <<store, command, issued, daemon, session, history>>

Idle == [op |-> "idle", role |-> None, grants |-> {}, value |-> {}, stale |-> FALSE]
Change == [op : {"add", "remove"}, role : Role, grants : SUBSET Grant,
           value : SUBSET Grant, stale : BOOLEAN]

SubToken == [kind : {"sub"}, grants : SUBSET Grant, secret : Secret]
AdminToken == [kind : {"admin"}, key : AdminKey]
Closed == [token |-> None, grants |-> {}]
Readable(r) == row[r] \notin {None, Blank}

\* build_grants: every type named, "all" standing for three, on every pattern.
TypesNamed(types) == IF "all" \in types THEN GrantType ELSE types
BuildGrants(line) == TypesNamed(line.types) \X line.patterns

Init ==
    /\ row = [r \in Role |-> None]
    /\ created = {}
    /\ command = [c \in Command |-> Idle]
    /\ issued = {}
    /\ daemon \in [secret : Secret, admin : AdminKey \cup {None}]
    /\ session = [i \in Client |-> Closed]
    /\ reported = [r \in Role |-> [g \in Grant |-> "unknown"]]
    /\ goneAtStart = {}

-----------------------------------------------------------------------------
(* Commands of one statement                                                *)

\* catbus role create: a fresh ID, the grants left to the column's default.
CreateRole(r) ==
    /\ r \notin created
    /\ created' = created \cup {r}
    /\ row' = [row EXCEPT ![r] = Blank]
    /\ UNCHANGED <<command, issued, daemon, session, history>>

\* Every change under way has read the row before it was written.
Overtaken(r) ==
    [c \in Command |->
        IF command[c].role = r THEN [command[c] EXCEPT !.stale = TRUE] ELSE command[c]]

\* catbus role delete.  Without a row it fails, and nothing changes.
DeleteRole(r) ==
    /\ row[r] # None
    /\ row' = [row EXCEPT ![r] = None]
    /\ UNCHANGED <<created, command, issued, daemon, session, history>>

\* Not the program: an operator writes a well-formed value into the row.
WriteWithSql(r, grants) ==
    /\ row[r] # None
    /\ row' = [row EXCEPT ![r] = grants]
    /\ reported' = [reported EXCEPT ![r] = [g \in Grant |-> "unknown"]]
    /\ command' = Overtaken(r)
    /\ UNCHANGED <<created, issued, daemon, session, goneAtStart>>

\* catbus grant without --to: a token of its own, signed with the CLI's secret.
IssueToken(line, secret) ==
    /\ issued' = issued \cup {[kind |-> "sub", grants |-> BuildGrants(line), secret |-> secret]}
    /\ UNCHANGED <<store, command, daemon, session, history>>

-----------------------------------------------------------------------------
(* catbus grant --to and catbus revoke: add_grants and remove_grants        *)

\* Mutant: what is written is what was asked for.
ChangedOnly(op, old, grants) == IF op = "add" THEN grants ELSE old \ grants

Changed(op, old, grants) == IF op = "add" THEN old \cup grants ELSE old \ grants

\* The read.  A row that is missing or cannot be read ends the command there.
ReadGrants(c, op, r, line) ==
    /\ command[c] = Idle /\ Readable(r)
    /\ LET grants == BuildGrants(line) IN
          command' = [command EXCEPT ![c] =
              [op |-> op, role |-> r, grants |-> grants,
               value |-> Changed(op, row[r], grants), stale |-> FALSE]]
    /\ UNCHANGED <<store, issued, daemon, session, history>>

\* The UPDATE; it touches no row, and succeeds, when the role is gone.
Written(c) ==
    LET r == command[c].role IN
    IF row[r] = None THEN row ELSE [row EXCEPT ![r] = command[c].value]

\* What a change puts on record.  One that was read before another's write may
\* have undone that, whatever the other had said.
Recorded(c, verdict) ==
    LET now == command[c] IN
    [reported EXCEPT ![now.role] =
        [g \in Grant |->
            IF g \in now.grants THEN verdict
            ELSE IF now.stale THEN "unknown" ELSE @[g]]]

Others(c) == [Overtaken(command[c].role) EXCEPT ![c] = Idle]

\* Mutant: the write puts a missing row back.
WriteGrantsUpserting(c) ==
    /\ command[c] # Idle
    /\ row' = [row EXCEPT ![command[c].role] = command[c].value]
    /\ reported' = Recorded(c, command[c].op)
    /\ command' = Others(c)
    /\ UNCHANGED <<created, issued, daemon, session, goneAtStart>>

\* The write, and the report: "Added grants to role", "Removed grants from role".
WriteGrants(c) ==
    /\ command[c] # Idle
    /\ row' = Written(c)
    /\ reported' = Recorded(c, command[c].op)
    /\ command' = Others(c)
    /\ UNCHANGED <<created, issued, daemon, session, goneAtStart>>

\* The command dies, or its statement fails, with or without its effect.
CommandFails(c) ==
    /\ command[c] # Idle
    /\ \/ /\ row' = Written(c)
          /\ reported' = Recorded(c, "unknown")
          /\ command' = Others(c)
       \/ /\ command' = [command EXCEPT ![c] = Idle]
          /\ UNCHANGED <<row, reported>>
    /\ UNCHANGED <<created, issued, daemon, session, goneAtStart>>

-----------------------------------------------------------------------------
(* The daemon and its sessions                                              *)

Token ==
    AdminToken \cup issued \cup [kind : {"role"}, role : created]

\* Token::parse and the lookup: does the daemon accept the token, and the
\* grants it brings.  A role's are read here, once.
Accepted(token) ==
    CASE token.kind = "admin" -> token.key = daemon.admin
      [] token.kind = "sub"   -> token.secret = daemon.secret
      [] token.kind = "role"  -> Readable(token.role)

Brings(token) ==
    CASE token.kind = "admin" -> {}
      [] token.kind = "sub"   -> token.grants
      [] token.kind = "role"  -> row[token.role]

Login(i, token) ==
    /\ session[i] = Closed /\ Accepted(token)
    /\ session' = [session EXCEPT ![i] = [token |-> token, grants |-> Brings(token)]]
    /\ UNCHANGED <<store, command, issued, daemon, history>>

Leave(i) ==
    /\ session[i] # Closed
    /\ session' = [session EXCEPT ![i] = Closed]
    /\ UNCHANGED <<store, command, issued, daemon, history>>

\* catbusd stops, with every session, and is started again, perhaps with
\* another secret or key.
Restart(secret, admin) ==
    /\ daemon' = [secret |-> secret, admin |-> admin]
    /\ session' = [i \in Client |-> Closed]
    /\ goneAtStart' = {r \in created : row[r] = None}
    /\ UNCHANGED <<store, command, issued, reported>>

-----------------------------------------------------------------------------
Manage(r) ==
    \/ CreateRole(r) \/ DeleteRole(r)
    \/ \E line \in CommandLine : WriteWithSql(r, BuildGrants(line))
    \/ \E c \in Command, op \in {"add", "remove"}, line \in CommandLine : ReadGrants(c, op, r, line)

Next ==
    \/ \E r \in Role : Manage(r)
    \/ \E c \in Command : WriteGrants(c) \/ CommandFails(c)
    \/ \E line \in CommandLine, secret \in Secret : IssueToken(line, secret)
    \/ \E i \in Client : Leave(i) \/ \E token \in Token : Login(i, token)
    \/ \E secret \in Secret, admin \in AdminKey \cup {None} : Restart(secret, admin)

Spec == Init /\ [][Next]_vars

-----------------------------------------------------------------------------
(* Properties                                                               *)

\* Every field has its type, and what is under way is a change of some role.
TypeOK ==
    /\ row \in [Role -> (SUBSET Grant) \cup {None, Blank}] /\ created \in SUBSET Role
    /\ command \in [Command -> Change \cup {Idle}]
    /\ issued \in SUBSET SubToken
    /\ daemon \in [secret : Secret, admin : AdminKey \cup {None}]
    /\ session \in [Client -> {Closed} \cup
           [token : AdminToken \cup SubToken \cup [kind : {"role"}, role : Role], grants : SUBSET Grant]]
    /\ reported \in [Role -> [Grant -> {"unknown", "add", "remove"}]]
    /\ goneAtStart \in SUBSET Role

\* What a command has reported stays true while the role exists: a grant said to
\* be added is in the row, one said to be removed is not, until a later command
\* about that grant, or the write of a command that had read the row before
\* (postgres.rs:345-401 has no transaction around its two statements).
ReportsHold ==
    \A r \in Role : row[r] # None =>
        \A g \in Grant :
            /\ reported[r][g] = "add" => Readable(r) /\ g \in row[r]
            /\ reported[r][g] = "remove" => Readable(r) /\ g \notin row[r]

\* Every open session rests on what its daemon was started with: the admin key,
\* a sub token signed with its secret, or a role that had not been deleted
\* before it started, whatever commands were under way (tokens.rs:247-268,
\* catbus.rs:276-280: deleting a role ends its use, at the latest with the daemon).
SessionsEntitled ==
    \A i \in Client : session[i] # Closed =>
        LET token == session[i].token IN
        CASE token.kind = "admin" -> token.key = daemon.admin
          [] token.kind = "sub"   -> token \in issued /\ token.secret = daemon.secret
          [] token.kind = "role"  -> token.role \notin goneAtStart

=============================================================================

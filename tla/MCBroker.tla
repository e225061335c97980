------------------------------ MODULE MCBroker ------------------------------
(***************************************************************************)
(* Small instances of Broker: the channels "a" and "a.b", patterns over    *)
(* them, and tokens that may read, write or do anything.                   *)
(***************************************************************************)
EXTENDS Broker

CONSTANTS a, b, s1

NameA  == <<a>>
NameAB == <<a, Dot, b>>

Exact(name) == [prefix |-> name, wildcard |-> FALSE]
Below(name) == [prefix |-> name, wildcard |-> TRUE]

OneName  == {NameAB}

OnePattern  == {Below(NameA)}
Overlapping == {Exact(NameA), Below(NameA)}   \* the same prefix, no name in common

Admin  == [admin |-> TRUE, read |-> {}, write |-> {}]
Member == [admin |-> FALSE, read |-> {Below(NameA)}, write |-> {Below(NameA)}]
Writer == [admin |-> FALSE, read |-> {Exact(NameA)}, write |-> {Below(<<>>)}]

Members  == {Member}
Everyone == {Admin, Member, Writer}

(* Which client sends what.                                                *)
Only(kinds1, kinds2) == [s \in Session |-> IF s = s1 THEN kinds1 ELSE kinds2]

All     == {"Message", "YjsUpdate", "YjsAwareness", "YjsSyncRequest", "Ping",
            "Subscribe", "Unsubscribe"}

PublisherAndMember == Only({"Message", "Subscribe"}, {"Subscribe"})
AllRequests        == Only(All, {})
=============================================================================

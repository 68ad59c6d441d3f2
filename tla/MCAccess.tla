------------------------------ MODULE MCAccess ------------------------------
(* One configured administrator, one other user, a project and a role or    *)
(* group that two clients fight over while a server starts.                *)
EXTENDS Access

CONSTANTS root, bob, web, t1, t2, ops, c1, c2

MCInitialTags == [t \in {t1, t2} |-> IF t = t1 THEN ops ELSE None]

Asked(i, operations) == {[who |-> i, op |-> o] : o \in operations}
Changes(name, value) == [name |-> name, project |-> web, to |-> value]
Grant(name, subject) == [name |-> name, subject |-> subject, tag |-> t1]

MCRequests ==
    Asked(root, {[name |-> "setAdmin", user |-> bob, to |-> a] : a \in {"admin", "member"}}
                    \union {Changes("setPublic", v) : v \in {"public", "private"}}
                    \union {Grant("grant", bob), Grant("grant", web), Grant("revoke", bob)}
                    \union {[name |-> "create", key |-> ops], [name |-> "delete", tag |-> t1],
                            [name |-> "rename", tag |-> t1, key |-> ops]})
        \union Asked(bob, {Grant("grant", bob), [name |-> "page"]})
        \union Asked("guest", {[name |-> "view", project |-> web], [name |-> "page"]})
        \union Asked("nameless", {[name |-> "view", project |-> web]})
        \union Asked("service", {Changes("upload", v) : v \in {"public", "private"}})
=============================================================================

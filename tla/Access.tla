-------------------------------- MODULE Access --------------------------------
(***************************************************************************)
(* Accounts and access control: what a session of the web entitles to (how *)
(* one begins and ends is in SignIn), the actor the server                 *)
(* resolves for every GraphQL request (packages/server/graphql/context.js), *)
(* the guards, the administrators' mutations (admin-service.js), project   *)
(* visibility, and the administrators a starting server creates            *)
(* (bootstrapAdminUsers.js).                                               *)
(*                                                                         *)
(* Every statement runs by itself: a request is a sequence of statements   *)
(* between which those of other requests, of other replicas and of a       *)
(* starting server take effect, and it may fail before any of them.        *)
(* A role and a group are handled alike: both are tags here, and a grant   *)
(* joins one with a user or a project.                                     *)
(***************************************************************************)
EXTENDS FiniteSets, Integers

CONSTANTS Emails,        \* normalized addresses
          AdminEmails,   \* those of WEB_ADMIN_EMAILS
          Projects,
          Tags,          \* the ids rows of roles and groups get, one by one
          Keys,          \* keys of roles and groups
          InitialTags,   \* InitialTags[t]: the key of a tag that exists at first, or None
          Clients,       \* browsers and machines, one request at a time each
          Requests,      \* bound: the operations they ask for, with the identity they carry
          MaxRequests,   \* bound: requests begun
          None

Subjects == Emails \union Projects

(* What a client can ask for: the mutations, a project, a page of /admin. *)
AllOperations ==
    [name : {"setAdmin"}, user : Emails, to : {"admin", "member"}]
        \union [name : {"setPublic", "upload"}, project : Projects, to : {"public", "private"}]
        \union [name : {"grant", "revoke"}, subject : Subjects, tag : Tags]
        \union [name : {"create"}, key : Keys]
        \union [name : {"rename"}, tag : Tags, key : Keys]
        \union [name : {"delete"}, tag : Tags]
        \union [name : {"view"}, project : Projects]
        \union [name : {"page", "pageData"}]

Identities == Emails \union {"guest", "service", "nameless"}

ASSUME AccessAssumption ==
    /\ AdminEmails \subseteq Emails
    /\ Requests \subseteq [who : Identities, op : AllOperations]
    /\ InitialTags \in [Tags -> Keys \union {None}]
    /\ MaxRequests \in Nat
    /\ None \notin Emails \union Keys
    /\ {"guest", "service", "nameless"} \intersect Emails = {}

VARIABLES
    users,     \* users[e]: None without a row, or "member" / "admin" as is_admin says
    public,    \* public[p]: "public" or "private" as is_public says
    tagKey,    \* tagKey[t]: the key of an existing role or group
    retired,   \* the ids whose row has been deleted
    grants,    \* the rows of user_roles, user_groups, project_role_access, project_group_access
    pc,        \* pc[c]: the next step of its request
    who,       \* who[c]: the identity its request carries
    op,        \* op[c]: the operation of its request
    actor,     \* actor[c]: what the server takes it for
    seen,      \* seen[c]: the value in the row the operation has read
    shown,     \* shown[c]: what a view has answered
    boot,      \* the server that starts: "load", "write", "ready" or "failed"
    bootSeen,  \* the rows of the configured administrators it has read
    bootLeft,  \* the configured administrators it has still to process
    begun,     \* requests begun
    rights,    \* history: rights[c]: what c was entitled to at some moment of its request
    promised   \* history: grants answered as made, that nobody has begun to remove

tables == <<users, public, tagKey, retired, grants>>
requests == <<pc, who, op, actor, seen, shown>>
starting == <<boot, bootSeen, bootLeft>>
vars == <<tables, requests, starting, begun, rights, promised>>

Answered == {"done", "failed", "refused", "redirected"}
Running(c) == pc[c] \notin Answered \union {"idle"}
Goto(c, label) == pc' = [pc EXCEPT ![c] = label]
Asks(c, names) == op[c] # None /\ op[c].name \in names
Exists(t) == tagKey[t] # None
KeyTaken(k, others) == \E t \in others : tagKey[t] = k
GrantsOf(t) == {g \in grants : g[2] = t}
GrantAsked(c) == <<op[c].subject, op[c].tag>>

(* Whether an operation is to remove a grant, and whether a request is at it. *)
Removes(o, g) == \/ o.name = "revoke" /\ <<o.subject, o.tag>> = g
                 \/ o.name = "delete" /\ o.tag = g[2]
BeingRemoved(g) == \E c \in Clients : Running(c) /\ Removes(op[c], g)

Promise(g) == promised' = promised \union {h \in {g} : ~BeingRemoved(h)}

(* An UPDATE of users, and what it entitles the requests in flight to. *)
SetUser(e, value) ==
    /\ users' = [users EXCEPT ![e] = value]
    /\ rights' = [c \in Clients |-> IF who[c] = e /\ value = "admin"
                                    THEN rights[c] \union {"admin"} ELSE rights[c]]

SetPublic(p, value) ==
    /\ public' = [public EXCEPT ![p] = value]
    /\ rights' = [c \in Clients |-> IF value = "public" THEN rights[c] \union {p} ELSE rights[c]]

-----------------------------------------------------------------------------
(* Requests.                                                                *)

(* The web redirects whoever opens a page of /admin without a session. *)
NeedsSession(i, o) == o.name = "page" /\ i \in {"guest", "service"}

(* resolveActorFromRequest looks for the row of an address. *)
FirstStep(i, o) ==
    IF NeedsSession(i, o) THEN "redirected" ELSE IF i \in Emails THEN "find" ELSE "authorize"

(* Faulty variant: a request without an identity has no actor at all. *)
ActorMissing(i) ==
    CASE i = "service" -> "admin" [] i = "nameless" -> "member" [] OTHER -> None

(* createGraphqlContext for an identity without an address: a guest, the    *)
(* service of the shared key, or a member without a row.                   *)
ActorWithoutRow(i) ==
    IF i = "service" THEN "admin" ELSE IF i = "nameless" THEN "member" ELSE "guest"

(* graphql-proxy and the page loaders forward the identity of the session,   *)
(* if there is one; a machine that uploads sends the shared key. The role   *)
(* the session carries is the web's own: the server does not ask for it.    *)
Begin(c, i, o) ==
    /\ pc[c] = "idle" /\ begun < MaxRequests
    /\ who' = [who EXCEPT ![c] = i]
    /\ op' = [op EXCEPT ![c] = o]
    /\ actor' = [actor EXCEPT ![c] = ActorWithoutRow(i)]
    /\ Goto(c, FirstStep(i, o))
    /\ rights' = [rights EXCEPT ![c] =
           {p \in Projects : public[p] = "public"}
               \union {a \in {"admin"} : i \in Emails /\ users[i] = a}]
    /\ begun' = begun + 1
    /\ promised' = {g \in promised : ~Removes(o, g)}
    /\ UNCHANGED <<tables, seen, shown, starting>>

-----------------------------------------------------------------------------
(* resolvePersistedActor: the row of the address, created or raised when    *)
(* the address is a configured administrator's.                            *)

Configured(e) == e \in AdminEmails

(* Faulty variant: is_admin is always part of the patch. *)
FindUserPatching(c) ==
    /\ pc[c] = "find"
    /\ actor' = [actor EXCEPT ![c] =
           IF users[who[c]] = "admin" \/ Configured(who[c]) THEN "admin" ELSE "member"]
    /\ Goto(c, CASE users[who[c]] = None -> "insert"
                 [] users[who[c]] = "admin" \/ Configured(who[c]) -> "raise"
                 [] OTHER -> "authorize")
    /\ UNCHANGED <<tables, who, op, seen, shown, starting, begun, rights, promised>>

(* findOrCreateUserRecord up to its write; isAdmin is only ever raised. *)
FindUser(c) ==
    /\ pc[c] = "find"
    /\ actor' = [actor EXCEPT ![c] =
           IF users[who[c]] = "admin" \/ Configured(who[c]) THEN "admin" ELSE "member"]
    /\ Goto(c, IF users[who[c]] = None THEN "insert"
               ELSE IF users[who[c]] = "member" /\ Configured(who[c]) THEN "raise" ELSE "authorize")
    /\ UNCHANGED <<tables, who, op, seen, shown, starting, begun, rights, promised>>

(* The unique index on normalized_email refuses the second of two creations. *)
InsertUser(c) ==
    /\ pc[c] = "insert"
    /\ IF users[who[c]] # None
       THEN Goto(c, "failed") /\ UNCHANGED <<users, rights>>
       ELSE /\ SetUser(who[c], IF Configured(who[c]) THEN "admin" ELSE "member")
            /\ Goto(c, "authorize")
    /\ UNCHANGED <<public, tagKey, retired, grants, who, op, actor, seen, shown,
                   starting, begun, promised>>

RaiseUser(c) ==
    /\ pc[c] = "raise"
    /\ SetUser(who[c], "admin")
    /\ Goto(c, "authorize")
    /\ UNCHANGED <<public, tagKey, retired, grants, who, op, actor, seen, shown,
                   starting, begun, promised>>

(* The guards of the resolvers: a view has none, an upload needs the key or *)
(* an administrator, the rest needs an administrator.                      *)
Allowed(c) == Asks(c, {"view"}) \/ actor[c] = "admin"

Authorize(c) ==
    /\ pc[c] = "authorize"
    /\ Goto(c, IF Allowed(c) THEN "run" ELSE "refused")
    /\ UNCHANGED <<tables, who, op, actor, seen, shown, starting, begun, rights,
                   promised>>

-----------------------------------------------------------------------------
(* The operations, statement by statement. *)

(* requireRecord of setUserAdmin and setProjectPublic, and the read of an    *)
(* ingest before it updates the project of an upload.                      *)
ReadRow(c) ==
    /\ pc[c] = "run" /\ Asks(c, {"setAdmin", "setPublic", "upload"})
    /\ seen' = [seen EXCEPT ![c] =
           IF op[c].name = "setAdmin" THEN users[op[c].user] ELSE public[op[c].project]]
    /\ Goto(c, IF seen'[c] = None THEN "failed" ELSE "write")
    /\ UNCHANGED <<tables, who, op, actor, shown, starting, begun, rights, promised>>

(* record.update sends no statement when the value is the one it has read. *)
WriteAdmin(c) ==
    /\ pc[c] = "write" /\ Asks(c, {"setAdmin"})
    /\ IF seen[c] = op[c].to THEN UNCHANGED <<users, rights>> ELSE SetUser(op[c].user, op[c].to)
    /\ Goto(c, "done")
    /\ UNCHANGED <<public, tagKey, retired, grants, who, op, actor, seen, shown,
                   starting, begun, promised>>

WritePublic(c) ==
    /\ pc[c] = "write" /\ Asks(c, {"setPublic", "upload"})
    /\ IF seen[c] = op[c].to THEN UNCHANGED <<public, rights>>
                             ELSE SetPublic(op[c].project, op[c].to)
    /\ Goto(c, "done")
    /\ UNCHANGED <<users, tagKey, retired, grants, who, op, actor, seen, shown,
                   starting, begun, promised>>

(* requireRecord for the user or project of a grant, and for its tag. *)
RequireBoth(c) ==
    /\ pc[c] = "run" /\ Asks(c, {"grant"})
    /\ Goto(c, IF Exists(op[c].tag) /\ (op[c].subject \in Emails => users[op[c].subject] # None)
               THEN "findJoin" ELSE "failed")
    /\ UNCHANGED <<tables, who, op, actor, seen, shown, starting, begun, rights,
                   promised>>

(* Faulty variant: a row that is there is replaced. *)
FindJoinReplacing(c) ==
    /\ pc[c] = "findJoin"
    /\ grants' = grants \ {GrantAsked(c)}
    /\ Goto(c, "createJoin")
    /\ UNCHANGED <<users, public, tagKey, retired, who, op, actor, seen, shown, starting, begun,
                   rights, promised>>

(* ensureJoinRecord: look for the row ... *)
FindJoin(c) ==
    /\ pc[c] = "findJoin"
    /\ IF GrantAsked(c) \in grants
       THEN Goto(c, "done") /\ Promise(GrantAsked(c))
       ELSE Goto(c, "createJoin") /\ UNCHANGED promised
    /\ UNCHANGED <<tables, who, op, actor, seen, shown, starting, begun, rights>>

(* ... and create it; the unique index refuses a second row, the foreign    *)
(* key a row for a tag that is gone.                                       *)
JoinRefused(g) == g \in grants \/ ~Exists(g[2])

CreateJoin(c) ==
    /\ pc[c] = "createJoin"
    /\ IF JoinRefused(GrantAsked(c))
       THEN Goto(c, "failed") /\ UNCHANGED <<grants, promised>>
       ELSE /\ grants' = grants \union {GrantAsked(c)}
            /\ Promise(GrantAsked(c))
            /\ Goto(c, "done")
    /\ UNCHANGED <<users, public, tagKey, retired, who, op, actor, seen, shown,
                   starting, begun, rights>>

DestroyJoin(c) ==
    /\ pc[c] = "run" /\ Asks(c, {"revoke"})
    /\ grants' = grants \ {GrantAsked(c)}
    /\ Goto(c, "done")
    /\ UNCHANGED <<users, public, tagKey, retired, who, op, actor, seen, shown,
                   starting, begun, rights, promised>>

(* createRole and createGroup; keys are unique among the rows of a table. *)
CreateTag(c) ==
    /\ pc[c] = "run" /\ Asks(c, {"create"})
    /\ IF KeyTaken(op[c].key, Tags)
       THEN Goto(c, "failed") /\ UNCHANGED tagKey
       ELSE /\ \E t \in Tags \ retired : /\ ~Exists(t)
                                         /\ tagKey' = [tagKey EXCEPT ![t] = op[c].key]
            /\ Goto(c, "done")
    /\ UNCHANGED <<users, public, retired, grants, who, op, actor, seen, shown,
                   starting, begun, rights, promised>>

RequireTag(c) ==
    /\ pc[c] = "run" /\ Asks(c, {"rename", "delete"})
    /\ Goto(c, IF ~Exists(op[c].tag) THEN "failed"
               ELSE IF op[c].name = "rename" THEN "rename" ELSE "dropUsers")
    /\ UNCHANGED <<tables, who, op, actor, seen, shown, starting, begun, rights,
                   promised>>

(* An UPDATE of a row that is gone changes nothing, and no row is found to   *)
(* answer with.                                                            *)
RenameTag(c) ==
    /\ pc[c] = "rename"
    /\ IF KeyTaken(op[c].key, Tags \ {op[c].tag}) \/ ~Exists(op[c].tag)
       THEN Goto(c, "failed") /\ UNCHANGED tagKey
       ELSE tagKey' = [tagKey EXCEPT ![op[c].tag] = op[c].key] /\ Goto(c, "done")
    /\ UNCHANGED <<users, public, retired, grants, who, op, actor, seen, shown,
                   starting, begun, rights, promised>>

(* deleteRole and deleteGroup: the grants to users, those to projects, the   *)
(* row again, and the row itself with what refers to it by then.           *)
DropGrants(c) ==
    /\ pc[c] \in {"dropUsers", "dropProjects"}
    /\ grants' = grants \ ((IF pc[c] = "dropUsers" THEN Emails ELSE Projects) \X {op[c].tag})
    /\ Goto(c, IF pc[c] = "dropUsers" THEN "dropProjects" ELSE "requireAgain")
    /\ UNCHANGED <<users, public, tagKey, retired, who, op, actor, seen, shown,
                   starting, begun, rights, promised>>

RequireAgain(c) ==
    /\ pc[c] = "requireAgain"
    /\ Goto(c, IF Exists(op[c].tag) THEN "dropRow" ELSE "failed")
    /\ UNCHANGED <<tables, who, op, actor, seen, shown, starting, begun, rights,
                   promised>>

(* ON DELETE CASCADE *)
Cascaded(t) == grants \ GrantsOf(t)

DropRow(c) ==
    /\ pc[c] = "dropRow"
    /\ tagKey' = [tagKey EXCEPT ![op[c].tag] = None]
    /\ retired' = retired \union {op[c].tag}
    /\ grants' = Cascaded(op[c].tag)
    /\ Goto(c, "done")
    /\ UNCHANGED <<users, public, who, op, actor, seen, shown, starting, begun,
                   rights, promised>>

(* Faulty variant: whoever is not a member sees every project. *)
VisibleToGuests(c, p) == actor[c] # "member" \/ public[p] = "public"

(* An administrator sees every project, a guest the public ones, everybody   *)
(* else every project: listVisibleProjectIds.                              *)
Visible(c, p) == actor[c] # "guest" \/ public[p] = "public"

View(c) ==
    /\ pc[c] = "run" /\ Asks(c, {"view"})
    /\ shown' = [shown EXCEPT ![c] = Visible(c, op[c].project)]
    /\ Goto(c, "done")
    /\ UNCHANGED <<tables, who, op, actor, seen, starting, begun, rights, promised>>

(* A page of /admin asks for the viewer first; when it is an administrator   *)
(* it asks for its data, in a request that resolves the actor again.       *)
Page(c) ==
    /\ pc[c] = "run" /\ Asks(c, {"page", "pageData"})
    /\ IF op[c].name = "page"
       THEN op' = [op EXCEPT ![c] = [name |-> "pageData"]] /\ Goto(c, "find")
       ELSE Goto(c, "done") /\ UNCHANGED op
    /\ UNCHANGED <<tables, who, actor, seen, shown, starting, begun, rights, promised>>

(* A statement fails or the process ends: what has been written stays. *)
Fail(c) ==
    /\ Running(c)
    /\ Goto(c, "failed")
    /\ UNCHANGED <<tables, who, op, actor, seen, shown, starting, begun, rights,
                   promised>>

(* The answer reaches the client. *)
End(c) ==
    /\ pc[c] \in Answered
    /\ Goto(c, "idle")
    /\ who' = [who EXCEPT ![c] = None]
    /\ op' = [op EXCEPT ![c] = None]
    /\ actor' = [actor EXCEPT ![c] = "guest"]
    /\ seen' = [seen EXCEPT ![c] = None]
    /\ shown' = [shown EXCEPT ![c] = FALSE]
    /\ rights' = [rights EXCEPT ![c] = {}]
    /\ UNCHANGED <<tables, starting, begun, promised>>

-----------------------------------------------------------------------------
(* synchronizeBootstrapAdminUsers, in a process that starts beside others. *)

BootLoad ==
    /\ boot = "load"
    /\ bootSeen' = [e \in AdminEmails |-> users[e]]
    /\ bootLeft' = AdminEmails
    /\ boot' = "write"
    /\ UNCHANGED <<tables, requests, begun, rights, promised>>

BootRefused(e) == bootSeen[e] = None /\ users[e] # None

(* One configured administrator: created, raised, or left as it is. *)
BootWrite(e) ==
    /\ boot = "write" /\ e \in bootLeft /\ ~BootRefused(e)
    /\ bootLeft' = bootLeft \ {e}
    /\ IF bootSeen[e] = "admin" THEN UNCHANGED <<users, rights>> ELSE SetUser(e, "admin")
    /\ UNCHANGED <<public, tagKey, retired, grants, requests, boot, bootSeen, begun,
                   promised>>

(* A request has created the row since it was looked for: the process ends. *)
BootFail(e) ==
    /\ boot = "write" /\ e \in bootLeft /\ BootRefused(e)
    /\ boot' = "failed"
    /\ UNCHANGED <<tables, requests, bootSeen, bootLeft, begun, rights, promised>>

BootReady ==
    /\ boot = "write" /\ bootLeft = {}
    /\ boot' = "ready"
    /\ UNCHANGED <<tables, requests, bootSeen, bootLeft, begun, rights, promised>>

(* Faulty variant: it goes on with the rows it has read. *)
BootResume ==
    /\ boot = "failed"
    /\ boot' = "write"
    /\ UNCHANGED <<tables, requests, bootSeen, bootLeft, begun, rights, promised>>

(* The deployment starts it again. *)
BootRestart ==
    /\ boot = "failed"
    /\ boot' = "load"
    /\ UNCHANGED <<tables, requests, bootSeen, bootLeft, begun, rights, promised>>

-----------------------------------------------------------------------------
(* An address may have an account before it is configured. *)
Init ==
    /\ users \in [Emails -> {None, "member", "admin"}]
    /\ public = [p \in Projects |-> "private"]
    /\ tagKey = InitialTags
    /\ retired = {}
    /\ grants = {}
    /\ pc = [c \in Clients |-> "idle"]
    /\ who = [c \in Clients |-> None]
    /\ op = [c \in Clients |-> None]
    /\ actor = [c \in Clients |-> "guest"]
    /\ seen = [c \in Clients |-> None]
    /\ shown = [c \in Clients |-> FALSE]
    /\ boot = "load"
    /\ bootSeen = [e \in AdminEmails |-> None]
    /\ bootLeft = {}
    /\ begun = 0
    /\ rights = [c \in Clients |-> {}]
    /\ promised = {}

Resolve(c) == FindUser(c) \/ InsertUser(c) \/ RaiseUser(c) \/ Authorize(c)

Operate(c) == \/ ReadRow(c) \/ WriteAdmin(c) \/ WritePublic(c)
              \/ RequireBoth(c) \/ FindJoin(c) \/ CreateJoin(c) \/ DestroyJoin(c)
              \/ CreateTag(c) \/ RequireTag(c) \/ RenameTag(c)
              \/ DropGrants(c) \/ RequireAgain(c) \/ DropRow(c)
              \/ View(c) \/ Page(c)

Boot == BootLoad \/ BootReady \/ BootRestart \/ \E e \in AdminEmails : BootWrite(e) \/ BootFail(e)

Next == \/ \E c \in Clients : (\E r \in Requests : Begin(c, r.who, r.op)) \/ Resolve(c) \/ Operate(c)
                                  \/ Fail(c) \/ End(c)
        \/ Boot

Spec == Init /\ [][Next]_vars

(* A process that starts goes on and is started again; requests end. *)
FairSpec == Spec /\ WF_vars(Boot) /\ \A c \in Clients : WF_vars(Resolve(c) \/ Operate(c) \/ End(c))
-----------------------------------------------------------------------------
(* Every variable holds a value of its type. *)
TypeOK ==
    /\ users \in [Emails -> {"member", "admin", None}]
    /\ public \in [Projects -> {"public", "private"}]
    /\ tagKey \in [Tags -> Keys \union {None}]
    /\ retired \subseteq Tags
    /\ grants \subseteq Subjects \X Tags
    /\ pc \in [Clients -> Answered \union {"idle", "find", "insert", "raise", "authorize", "run",
                 "write", "findJoin", "createJoin", "rename", "dropUsers", "dropProjects",
                 "requireAgain", "dropRow"}]
    /\ who \in [Clients -> Identities \union {None}]
    /\ op \in [Clients -> AllOperations \union {None}]
    /\ actor \in [Clients -> {"guest", "member", "admin"}]
    /\ seen \in [Clients -> {"member", "admin", "public", "private", None}]
    /\ shown \in [Clients -> BOOLEAN]
    /\ boot \in {"load", "write", "ready", "failed"}
    /\ bootSeen \in [AdminEmails -> {"member", "admin", None}]
    /\ bootLeft \subseteq AdminEmails
    /\ begun \in 0..MaxRequests
    /\ rights \in [Clients -> SUBSET (Projects \union {"admin"})]
    /\ promised \subseteq Subjects \X Tags

(* A request acts as an administrator only when its account was one, in the *)
(* database, at some moment since the request began, however old its        *)
(* session; and a guest is shown a project only if it was public at some    *)
(* such moment. Keys and configured administrators aside.                  *)
AnsweredByRights ==
    \A c \in Clients :
        /\ actor[c] = "admin" => who[c] \in AdminEmails \union {"service"} \/ "admin" \in rights[c]
        /\ who[c] = "guest" /\ shown[c] => op[c].project \in rights[c]

(* Nobody but a configured address becomes an administrator except by the   *)
(* request of one: no request that carries an older row writes it back.    *)
RaisedByAdminsOnly ==
    [][\A e \in Emails \ AdminEmails :
          users[e] # "admin" /\ users'[e] = "admin" =>
              \E c \in Clients : /\ pc[c] = "write" /\ actor[c] = "admin"
                                 /\ op[c] = [name |-> "setAdmin", user |-> e, to |-> "admin"]]_vars

(* A role or group that has been deleted does not come back, and grants     *)
(* refer to existing ones only, whatever is granted during the deletion.   *)
DeletedTagsStayGone ==
    /\ \A t \in retired : ~Exists(t)
    /\ \A g \in grants : Exists(g[2])

(* A grant that has been answered as made is there until somebody asks to   *)
(* remove it or to delete its role or group, through duplicate requests,   *)
(* renames, keys used again and requests that fail half-way.               *)
PromisedGrantsKept == promised \subseteq grants

(* What the tables say of roles and groups is what administrators were told *)
(* of them.                                                                 *)
GrantsSound == DeletedTagsStayGone /\ PromisedGrantsKept

(* "Admins manage visibility directly on each project": a project changes    *)
(* from what an administrator has set only when one sets it again.         *)
VisibilityStands ==
    [][\A p \in Projects : public'[p] # public[p] =>
          \E c \in Clients : pc[c] = "write" /\ op[c].name = "setPublic"]_vars

(* A server that finds the row of an administrator created by a request in   *)
(* the meantime fails to start, and then starts.                           *)
StartSucceeds == boot = "load" ~> boot = "ready"
=============================================================================

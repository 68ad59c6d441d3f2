---------------------------- MODULE AccessProofs ----------------------------
(***************************************************************************)
(* For all users, projects, tags, clients and requests: requests act by    *)
(* rights of their time, nobody is raised by a stale row, and grants are   *)
(* those that administrators were told of.                                 *)
(***************************************************************************)
EXTENDS Access, TLAPS

Deleting == {"dropUsers", "dropProjects", "requireAgain", "dropRow"}
Joining == {"findJoin", "createJoin"}
Resolving == {"find", "insert", "raise"}
Operating == {"run", "write", "rename"} \union Joining \union Deleting

(* What a step of a request expects of the steps before it. *)
StepOf(c) ==
    /\ pc[c] # "idle" => op[c] \in AllOperations /\ who[c] \in Identities
    /\ pc[c] \in Resolving => who[c] \in Emails
    /\ pc[c] = "raise" => who[c] \in AdminEmails
    /\ pc[c] \in Operating => Allowed(c)
    /\ pc[c] \in Joining => op[c].name = "grant"
    /\ pc[c] \in Deleting => op[c].name = "delete"
    /\ pc[c] = "rename" => op[c].name = "rename"
    /\ pc[c] = "write" => op[c].name \in {"setAdmin", "setPublic", "upload"}
    /\ Running(c) /\ op[c].name = "page" => who[c] \notin {"guest", "service"}
    /\ actor[c] = "admin" => who[c] \in Emails \union {"service"}

StepsOK == \A c \in Clients : StepOf(c)

Typed == TypeOK /\ StepsOK

(* rights holds what the tables entitle a request to now. *)
RightsCurrent ==
    \A c \in Clients :
        pc[c] # "idle" =>
            /\ who[c] \in Emails /\ users[who[c]] = "admin" => "admin" \in rights[c]
            /\ \A p \in Projects : public[p] = "public" => p \in rights[c]

(* Only a view shows something, and to a guest as one. *)
ShownByViews ==
    \A c \in Clients :
        /\ shown[c] => pc[c] # "idle" /\ op[c].name = "view"
        /\ who[c] = "guest" /\ pc[c] # "idle" => actor[c] = "guest"

RightsInv == RightsCurrent /\ ShownByViews /\ AnsweredByRights

(* What a request in flight is to remove is not promised. *)
RemovalsUnpromised ==
    \A c \in Clients : \A g \in promised : Running(c) => ~Removes(op[c], g)

GrantsInv == GrantsSound /\ RemovalsUnpromised

-----------------------------------------------------------------------------
(* The fields that an operation has by its name. *)
LEMMA OperationFields ==
    ASSUME NEW o \in AllOperations
    PROVE  /\ o.name = "setAdmin" => /\ o.user \in Emails /\ o.to \in {"admin", "member"}
                                     /\ o = [name |-> "setAdmin", user |-> o.user, to |-> o.to]
           /\ o.name \in {"setPublic", "upload"} => o.project \in Projects /\ o.to \in {"public", "private"}
           /\ o.name \in {"grant", "revoke"} => o.subject \in Subjects /\ o.tag \in Tags
           /\ o.name \in {"create", "rename"} => o.key \in Keys
           /\ o.name \in {"rename", "delete"} => o.tag \in Tags
           /\ o.name = "view" => o.project \in Projects
  BY DEF AllOperations

LEMMA PageData == [name |-> "pageData"] \in AllOperations
  BY DEF AllOperations

LEMMA Apart ==
    /\ None \notin Keys /\ AdminEmails \subseteq Emails
    /\ "guest" \notin Emails /\ "service" \notin Emails /\ "nameless" \notin Emails
  BY AccessAssumption DEF AccessAssumption

LEMMA RequestFields ==
    ASSUME NEW r \in Requests
    PROVE  r.who \in Identities /\ r.op \in AllOperations
  BY AccessAssumption DEF AccessAssumption

(* Every step of the specification is one of these. *)
LEMMA TypedInit == Init => Typed
<1> SUFFICES ASSUME Init PROVE Typed OBVIOUS
<1>1. TypeOK BY AccessAssumption DEF Init, TypeOK, AccessAssumption
<1>2. StepsOK BY DEF Init, StepsOK, StepOf, Resolving, Operating, Joining, Deleting, Running
<1> QED BY <1>1, <1>2 DEF Typed

-----------------------------------------------------------------------------
(* Types, and the steps of requests.                                        *)

LEMMA TypedBegin ==
    ASSUME Typed, NEW c \in Clients, NEW i \in Identities, NEW o \in AllOperations, Begin(c, i, o)
    PROVE  Typed'
<1>1. /\ FirstStep(i, o) \in {"redirected", "find", "authorize"}
      /\ ActorWithoutRow(i) \in {"guest", "member", "admin"}
      /\ begun + 1 \in 0..MaxRequests
  BY AccessAssumption DEF AccessAssumption, FirstStep, ActorWithoutRow, Typed, TypeOK, Begin
<1>2. TypeOK' BY <1>1 DEF Typed, TypeOK, Begin, Goto, Answered, tables, starting
<1>3. ASSUME NEW d \in Clients PROVE StepOf(d)'
  <2>1. CASE d # c
    BY <1>3, <2>1 DEF Typed, TypeOK, StepsOK, StepOf, Begin, Goto, Running, Allowed, Asks
  <2>2. CASE d = c
    BY <2>2, Apart DEF Typed, TypeOK, StepsOK, StepOf, Begin, Goto, Running, Allowed, Asks, Resolving,
       Operating, Joining, Deleting, Answered, FirstStep, NeedsSession, ActorWithoutRow, Identities
  <2> QED BY <2>1, <2>2
<1> QED BY <1>2, <1>3 DEF Typed, StepsOK

LEMMA TypedStep ==
    ASSUME Typed, NEW c \in Clients, Resolve(c) \/ Operate(c) \/ Fail(c) \/ End(c)
    PROVE  Typed'
<1> USE DEF Typed, TypeOK, StepsOK, StepOf, Goto, Running, Allowed, Asks, tables, starting, Answered,
        Resolving, Operating, Joining, Deleting
<1>1. CASE FindUser(c) BY <1>1 DEF FindUser, Configured
<1>2. CASE InsertUser(c) BY <1>2 DEF InsertUser, SetUser
<1>3. CASE RaiseUser(c) BY <1>3 DEF RaiseUser, SetUser
<1>4. CASE Authorize(c) BY <1>4 DEF Authorize
<1>5. CASE ReadRow(c) BY <1>5, OperationFields DEF ReadRow
<1>6. CASE WriteAdmin(c) BY <1>6, OperationFields DEF WriteAdmin, SetUser
<1>7. CASE WritePublic(c) BY <1>7, OperationFields DEF WritePublic, SetPublic
<1>8. CASE RequireBoth(c) BY <1>8 DEF RequireBoth
<1>9. CASE FindJoin(c) BY <1>9 DEF FindJoin, Promise, GrantAsked
<1>10. CASE CreateJoin(c) BY <1>10, OperationFields DEF CreateJoin, Promise, GrantAsked, JoinRefused
<1>11. CASE DestroyJoin(c) BY <1>11 DEF DestroyJoin, GrantAsked
<1>12. CASE CreateTag(c) BY <1>12, OperationFields DEF CreateTag
<1>13. CASE RequireTag(c) BY <1>13 DEF RequireTag
<1>14. CASE RenameTag(c) BY <1>14, OperationFields DEF RenameTag
<1>15. CASE DropGrants(c) BY <1>15 DEF DropGrants
<1>16. CASE RequireAgain(c) BY <1>16 DEF RequireAgain
<1>17. CASE DropRow(c) BY <1>17, OperationFields DEF DropRow, Cascaded, GrantsOf
<1>18. CASE View(c)
  <2>1. Visible(c, op[c].project) \in BOOLEAN BY DEF Visible
  <2> QED BY <1>18, <2>1 DEF View
<1>19. CASE Page(c) BY <1>19, PageData DEF Page
<1>20. CASE Fail(c) BY <1>20 DEF Fail
<1>21. CASE End(c) BY <1>21 DEF End
<1> QED BY <1>1, <1>2, <1>3, <1>4, <1>5, <1>6, <1>7, <1>8, <1>9, <1>10,
        <1>11, <1>12, <1>13, <1>14, <1>15, <1>16, <1>17, <1>18, <1>19, <1>20,
        <1>21 DEF Resolve, Operate

LEMMA TypedBoot == Typed /\ Boot => Typed'
<1> SUFFICES ASSUME Typed, Boot PROVE Typed' OBVIOUS
<1>1. TypeOK'
  BY Apart DEF Typed, TypeOK, Boot, BootLoad, BootWrite, BootFail, BootReady, BootRestart, SetUser,
           tables, requests
<1>2. UNCHANGED requests BY DEF Boot, BootLoad, BootWrite, BootFail, BootReady, BootRestart
<1>3. StepsOK' BY <1>2 DEF Typed, StepsOK, StepOf, requests, Running, Allowed, Asks
<1> QED BY <1>1, <1>3 DEF Typed

LEMMA TypedNext == Typed /\ [Next]_vars => Typed'
<1> SUFFICES ASSUME Typed, [Next]_vars PROVE Typed' OBVIOUS
<1>1. CASE \E c \in Clients, r \in Requests : Begin(c, r.who, r.op)
  BY <1>1, TypedBegin, RequestFields
<1>2. CASE \E c \in Clients : Resolve(c) \/ Operate(c) \/ Fail(c) \/ End(c) BY <1>2, TypedStep
<1>3. CASE Boot BY <1>3, TypedBoot
<1>4. CASE UNCHANGED vars
  BY <1>4 DEF vars, tables, requests, starting, Typed, TypeOK, StepsOK, StepOf, Running, Allowed, Asks
<1> QED BY <1>1, <1>2, <1>3, <1>4 DEF Next

(* Every variable holds a value of its type.                                *)
THEOREM TypeCorrect == Spec => []TypeOK
<1>1. Typed => TypeOK BY DEF Typed
<1> QED BY <1>1, TypedInit, TypedNext, PTL DEF Spec

-----------------------------------------------------------------------------
(* Rights                                                                   *)

LEMMA RightsInit == Init => RightsInv
  BY DEF Init, RightsInv, RightsCurrent, ShownByViews, AnsweredByRights

LEMMA RightsBegin ==
    ASSUME Typed, RightsInv, NEW c \in Clients, NEW i \in Identities, NEW o \in AllOperations, Begin(c, i, o)
    PROVE  RightsInv'
<1>1. RightsCurrent'
  BY Apart DEF RightsInv, RightsCurrent, Typed, TypeOK, Begin, Goto, tables, Identities
<1>2. ShownByViews'
  BY Apart DEF RightsInv, ShownByViews, Typed, TypeOK, Begin, Goto, ActorWithoutRow
<1>3. AnsweredByRights'
  BY Apart DEF RightsInv, ShownByViews, AnsweredByRights, Typed, TypeOK, Begin, Goto, ActorWithoutRow
<1> QED BY <1>1, <1>2, <1>3 DEF RightsInv

LEMMA RightsStep ==
    ASSUME Typed, RightsInv, NEW c \in Clients, Resolve(c) \/ Operate(c) \/ Fail(c) \/ End(c)
    PROVE  RightsInv'
<1> USE DEF Typed, TypeOK, StepsOK, StepOf, RightsInv, RightsCurrent, ShownByViews, AnsweredByRights,
        Goto, Running, Allowed, Asks, tables, starting, Answered, Resolving, Operating, Joining, Deleting
<1>1. CASE FindUser(c) BY <1>1, Apart DEF FindUser, Configured
<1>2. CASE InsertUser(c) BY <1>2 DEF InsertUser, SetUser
<1>3. CASE RaiseUser(c) BY <1>3 DEF RaiseUser, SetUser
<1>4. CASE Authorize(c) BY <1>4 DEF Authorize
<1>5. CASE ReadRow(c) BY <1>5 DEF ReadRow
<1>6. CASE WriteAdmin(c) BY <1>6 DEF WriteAdmin, SetUser
<1>7. CASE WritePublic(c) BY <1>7 DEF WritePublic, SetPublic
<1>8. CASE RequireBoth(c) BY <1>8 DEF RequireBoth
<1>9. CASE FindJoin(c) BY <1>9 DEF FindJoin
<1>10. CASE CreateJoin(c) BY <1>10 DEF CreateJoin
<1>11. CASE DestroyJoin(c) BY <1>11 DEF DestroyJoin
<1>12. CASE CreateTag(c) BY <1>12 DEF CreateTag
<1>13. CASE RequireTag(c) BY <1>13 DEF RequireTag
<1>14. CASE RenameTag(c) BY <1>14 DEF RenameTag
<1>15. CASE DropGrants(c) BY <1>15 DEF DropGrants
<1>16. CASE RequireAgain(c) BY <1>16 DEF RequireAgain
<1>17. CASE DropRow(c) BY <1>17 DEF DropRow
<1>18. CASE View(c) BY <1>18, OperationFields DEF View, Visible
<1>19. CASE Page(c) BY <1>19 DEF Page
<1>20. CASE Fail(c) BY <1>20 DEF Fail
<1>21. CASE End(c) BY <1>21 DEF End
<1> QED BY <1>1, <1>2, <1>3, <1>4, <1>5, <1>6, <1>7, <1>8, <1>9, <1>10,
        <1>11, <1>12, <1>13, <1>14, <1>15, <1>16, <1>17, <1>18, <1>19, <1>20,
        <1>21 DEF Resolve, Operate

LEMMA RightsNext == Typed /\ RightsInv /\ [Next]_vars => RightsInv'
<1> SUFFICES ASSUME Typed, RightsInv, [Next]_vars PROVE RightsInv' OBVIOUS
<1>1. CASE \E c \in Clients, r \in Requests : Begin(c, r.who, r.op)
  BY <1>1, RightsBegin, RequestFields
<1>2. CASE \E c \in Clients : Resolve(c) \/ Operate(c) \/ Fail(c) \/ End(c) BY <1>2, RightsStep
<1>3. CASE Boot
  <2>1. UNCHANGED <<requests, public>>
    BY <1>3 DEF Boot, BootLoad, BootWrite, BootFail, BootReady, BootRestart, tables
  <2>2. \/ UNCHANGED <<users, rights>>
        \/ \E e \in AdminEmails : SetUser(e, "admin")
    BY <1>3 DEF Boot, BootLoad, BootWrite, BootFail, BootReady, BootRestart, tables
  <2> QED BY <2>1, <2>2, Apart DEF RightsInv, RightsCurrent, ShownByViews, AnsweredByRights, SetUser, requests,
                                   Typed, TypeOK
<1>4. CASE UNCHANGED vars
  BY <1>4 DEF vars, tables, requests, RightsInv, RightsCurrent, ShownByViews, AnsweredByRights
<1> QED BY <1>1, <1>2, <1>3, <1>4 DEF Next

(* A request acts as an administrator, and shows a project to a guest, only *)
(* by rights of a moment since it began (resolvePersistedActor, the guards, *)
(* listVisibleProjectIds).                                                  *)
THEOREM RequestsActByRights == Spec => []AnsweredByRights
<1>1. RightsInv => AnsweredByRights BY DEF RightsInv
<1> QED BY <1>1, TypedInit, TypedNext, RightsInit, RightsNext, PTL DEF Spec

(* What makes an administrator.                                             *)
LEMMA RaisedStep ==
    ASSUME Typed, [Next]_vars, NEW e \in Emails \ AdminEmails, users[e] # "admin", users'[e] = "admin"
    PROVE  \E c \in Clients : /\ pc[c] = "write" /\ actor[c] = "admin"
                              /\ op[c] = [name |-> "setAdmin", user |-> e, to |-> "admin"]
<1>1. CASE \E c \in Clients, r \in Requests : Begin(c, r.who, r.op) BY <1>1 DEF Begin, tables
<1>2. CASE \E c \in Clients : Resolve(c) \/ Operate(c) \/ Fail(c) \/ End(c)
  <2>1. PICK c \in Clients : Resolve(c) \/ Operate(c) \/ Fail(c) \/ End(c) BY <1>2
  <2>2. StepOf(c) BY DEF Typed, StepsOK
  <2>3. users' # users OBVIOUS
  <2>4. CASE InsertUser(c) BY <2>2, <2>4 DEF InsertUser, SetUser, Configured, StepOf, Resolving, Typed, TypeOK
  <2>5. CASE RaiseUser(c) BY <2>2, <2>5 DEF RaiseUser, SetUser, StepOf, Typed, TypeOK
  <2>6. CASE WriteAdmin(c)
    <3>1. op[c] \in AllOperations /\ actor[c] = "admin" /\ op[c].name = "setAdmin"
      BY <2>2, <2>6 DEF WriteAdmin, StepOf, Operating, Allowed, Asks
    <3>2. op[c].user = e /\ op[c].to = "admin" BY <2>6 DEF WriteAdmin, SetUser, Typed, TypeOK
    <3> QED BY <2>6, <3>1, <3>2, OperationFields DEF WriteAdmin
  <2> QED
    BY <2>1, <2>3, <2>4, <2>5, <2>6 DEF Resolve, Operate, tables, FindUser, Authorize, ReadRow, WritePublic,
       RequireBoth, FindJoin, CreateJoin, DestroyJoin, CreateTag, RequireTag, RenameTag, DropGrants,
       RequireAgain, DropRow, View, Page, Fail, End
<1>3. CASE Boot
  BY <1>3 DEF Boot, BootLoad, BootWrite, BootFail, BootReady, BootRestart, SetUser, tables, Typed, TypeOK
<1>4. CASE UNCHANGED vars BY <1>4 DEF vars, tables
<1> QED BY <1>1, <1>2, <1>3, <1>4 DEF Next

(* No step but an administrator's setUserAdmin, and the configuration of an *)
(* address, makes an administrator (findOrCreateUserRecord, bootstrap).     *)
THEOREM NobodyRaisedByStaleRow == Spec => RaisedByAdminsOnly
<1> DEFINE ByAdmin == \A e \in Emails \ AdminEmails :
             users[e] # "admin" /\ users'[e] = "admin" =>
                 \E c \in Clients : /\ pc[c] = "write" /\ actor[c] = "admin"
                                    /\ op[c] = [name |-> "setAdmin", user |-> e, to |-> "admin"]
<1>1. Typed /\ [Next]_vars => [ByAdmin]_vars BY RaisedStep
<1>2. RaisedByAdminsOnly <=> [][ByAdmin]_vars BY DEF RaisedByAdminsOnly
<1> HIDE DEF ByAdmin
<1> QED BY <1>1, <1>2, TypedInit, TypedNext, PTL DEF Spec

-----------------------------------------------------------------------------
(* Grants                                                                   *)

LEMMA GrantsInit == Init => GrantsInv
  BY DEF Init, GrantsInv, GrantsSound, DeletedTagsStayGone, PromisedGrantsKept, RemovalsUnpromised

LEMMA GrantsStep ==
    ASSUME Typed, GrantsInv, NEW c \in Clients, Resolve(c) \/ Operate(c) \/ Fail(c) \/ End(c)
    PROVE  GrantsInv'
<1> USE DEF Typed, TypeOK, StepsOK, StepOf, GrantsInv, GrantsSound, DeletedTagsStayGone, PromisedGrantsKept,
        RemovalsUnpromised, Goto, Running, Asks, Exists, Removes, tables, starting, Answered, Operating, Joining, Deleting
<1>1. CASE FindUser(c) BY <1>1 DEF FindUser
<1>2. CASE InsertUser(c) BY <1>2 DEF InsertUser
<1>3. CASE RaiseUser(c) BY <1>3 DEF RaiseUser
<1>4. CASE Authorize(c) BY <1>4 DEF Authorize
<1>5. CASE ReadRow(c) BY <1>5 DEF ReadRow
<1>6. CASE WriteAdmin(c) BY <1>6 DEF WriteAdmin
<1>7. CASE WritePublic(c) BY <1>7 DEF WritePublic
<1>8. CASE RequireBoth(c) BY <1>8 DEF RequireBoth
<1>9. CASE FindJoin(c) BY <1>9 DEF FindJoin, Promise, BeingRemoved, GrantAsked
<1>10. CASE CreateJoin(c) BY <1>10 DEF CreateJoin, Promise, BeingRemoved, GrantAsked, JoinRefused
<1>11. CASE DestroyJoin(c) BY <1>11 DEF DestroyJoin, GrantAsked
<1>12. CASE CreateTag(c) BY <1>12 DEF CreateTag, KeyTaken
<1>13. CASE RequireTag(c) BY <1>13 DEF RequireTag
<1>14. CASE RenameTag(c) BY <1>14, OperationFields, Apart DEF RenameTag, KeyTaken
<1>15. CASE DropGrants(c) BY <1>15 DEF DropGrants
<1>16. CASE RequireAgain(c) BY <1>16 DEF RequireAgain
<1>17. CASE DropRow(c) BY <1>17, OperationFields DEF DropRow, Cascaded, GrantsOf
<1>18. CASE View(c) BY <1>18 DEF View
<1>19. CASE Page(c) BY <1>19 DEF Page
<1>20. CASE Fail(c) BY <1>20 DEF Fail
<1>21. CASE End(c) BY <1>21 DEF End
<1> QED BY <1>1, <1>2, <1>3, <1>4, <1>5, <1>6, <1>7, <1>8, <1>9, <1>10,
        <1>11, <1>12, <1>13, <1>14, <1>15, <1>16, <1>17, <1>18, <1>19, <1>20,
        <1>21 DEF Resolve, Operate

LEMMA GrantsNext == Typed /\ GrantsInv /\ [Next]_vars => GrantsInv'
<1> SUFFICES ASSUME Typed, GrantsInv, [Next]_vars PROVE GrantsInv' OBVIOUS
<1> USE DEF GrantsInv, GrantsSound, DeletedTagsStayGone, PromisedGrantsKept, RemovalsUnpromised, Running, Exists,
        Removes
<1>1. CASE \E c \in Clients, r \in Requests : Begin(c, r.who, r.op)
  BY <1>1 DEF Begin, Goto, tables, Typed, TypeOK
<1>2. CASE \E c \in Clients : Resolve(c) \/ Operate(c) \/ Fail(c) \/ End(c) BY <1>2, GrantsStep
<1>3. CASE Boot
  BY <1>3 DEF Boot, BootLoad, BootWrite, BootFail, BootReady, BootRestart, tables, requests
<1>4. CASE UNCHANGED vars BY <1>4 DEF vars, tables, requests
<1> QED BY <1>1, <1>2, <1>3, <1>4 DEF Next

(* Deleted roles and groups stay gone, grants refer to existing ones, and a *)
(* grant answered as made stays until its removal is asked for              *)
(* (ensureJoinRecord, deleteRole, deleteGroup).                             *)
THEOREM GrantsAreSound == Spec => []GrantsSound
<1>1. GrantsInv => GrantsSound BY DEF GrantsInv
<1> QED BY <1>1, TypedInit, TypedNext, GrantsInit, GrantsNext, PTL DEF Spec
=============================================================================

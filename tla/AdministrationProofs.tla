------------------------ MODULE AdministrationProofs ------------------------
(***************************************************************************)
(* The administrators and the grants of a tenant, the tasks that are       *)
(* executed while both and the catalog change and what they cost, the      *)
(* starts of the processes, and the types of it all.                       *)
(***************************************************************************)
EXTENDS CatalogProofs

-----------------------------------------------------------------------------
(* What a transaction knows of the users *)

\* The tenant is empty for the transaction that sets it up.
EmptyForInit(c) ==
  Kind(c) = "initAdmin" /\ step[c] = "checked" =>
    UsersTable \in shared[c] /\ \A v \in Users : userStatus[v] = "absent"

\* Users are created by somebody.
CreatedLater(c) == Kind(c) = "createUser" => inits > 0

\* The user is there, and locked; roles are not read to set a status.
HoldsUser(c) ==
  /\ Kind(c) \in {"setStatus", "replaceUserRoles"} /\ step[c] \in {"found", "roles", "checked"} =>
       UserRow(request[c].user) \in shared[c] /\ userStatus[request[c].user] # "absent"
  /\ Kind(c) = "setStatus" => step[c] # "roles"

HoldsGrants(c, v) == UserRow(v) \in shared[c] /\ GrantsRow(v) \in shared[c]

\* The user is no administrator, and locked, or another is one, and locked.
AnotherStays(c) ==
  \/ HoldsGrants(c, request[c].user) /\ Admin \notin userRoles[request[c].user]
  \/ \E v \in ActiveAdmins : v # request[c].user /\ HoldsGrants(c, v)

Checked(c) ==
  Kind(c) \in {"setStatus", "replaceUserRoles"} /\ step[c] = "checked" =>
    KeepsAdmin(c) \/ AnotherStays(c)

KnowsUsers(c) ==
  /\ EmptyForInit(c)
  /\ CreatedLater(c)
  /\ HoldsUser(c)
  /\ Checked(c)

UsersInv ==
  /\ userStatus = [u \in Users |-> userStatus[u]]
  /\ userRoles = [u \in Users |-> userRoles[u]]
  /\ inits \in Nat
  /\ AdminRemains
  /\ inits = 0 => \A u \in Users : userStatus[u] = "absent"
  /\ \A c \in Connections : KnowsUsers(c)

\* A step leaves alone the users, and the grants of users, that others have locked
\* for reading, an empty table that another has locked, and keeps users there.
UserDisciplined(c) ==
  /\ inits' >= inits
  /\ \A v \in Users : userStatus[v] # "absent" => userStatus'[v] # "absent"
  /\ \A d \in Connections \ {c} :
       /\ \A v \in Users :
            /\ UserRow(v) \in shared[d] => userStatus'[v] = userStatus[v]
            /\ HoldsGrants(d, v) => userRoles'[v] = userRoles[v]
       /\ UsersTable \in shared[d] /\ (\A v \in Users : userStatus[v] = "absent") =>
            \A v \in Users : userStatus'[v] = "absent"

-----------------------------------------------------------------------------
(* Requests *)

UserKinds == {"initAdmin", "setStatus", "replaceUserRoles", "createUser"}

LEMMA UserRequestIsTyped ==
  ASSUME TxInv, NEW c \in Connections
  PROVE  /\ Kind(c) \in UserKinds => request[c].user \in Users
         /\ Kind(c) = "setStatus" => request[c].status \in {"ACTIVE", "DISABLED"}
<1>1. CASE Kind(c) \in UserKinds
  <2>1. request[c] \in Requests
    BY <1>1, RequestIsMade DEF UserKinds
  <2>2. QED
    BY <1>1, <2>1, UserRequestsAssumption DEF Kind, UserKinds
<1>2. CASE Kind(c) \notin UserKinds
  BY <1>2 DEF UserKinds
<1>3. QED
  BY <1>1, <1>2

-----------------------------------------------------------------------------
(* What others know of the users *)

LEMMA OthersKeepUsers ==
  ASSUME TxInv, UsersInv, inits' \in Nat, NEW c \in Connections, UserDisciplined(c),
         NEW d \in Connections, d # c, TxSame(d)
  PROVE  KnowsUsers(d)'
<1> DEFINE r == request[d]
<1>1. EmptyForInit(d) /\ CreatedLater(d) /\ HoldsUser(d) /\ Checked(d)
  BY DEF UsersInv, KnowsUsers
<1>2. /\ request'[d] = r /\ step'[d] = step[d] /\ shared'[d] = shared[d]
      /\ Kind(d)' = Kind(d) /\ KeepsAdmin(d)' = KeepsAdmin(d)
  BY DEF TxSame, Kind, KeepsAdmin
<1>3. /\ inits' >= inits
      /\ \A v \in Users : userStatus[v] # "absent" => userStatus'[v] # "absent"
      /\ \A v \in Users : UserRow(v) \in shared[d] => userStatus'[v] = userStatus[v]
      /\ \A v \in Users : HoldsGrants(d, v) => userRoles'[v] = userRoles[v]
      /\ UsersTable \in shared[d] /\ (\A v \in Users : userStatus[v] = "absent") =>
           \A v \in Users : userStatus'[v] = "absent"
  BY DEF UserDisciplined
<1>4. Kind(d) \in UserKinds => r.user \in Users
  BY UserRequestIsTyped
<1>5. EmptyForInit(d)'
  BY <1>1, <1>2, <1>3 DEF EmptyForInit
<1>6. CreatedLater(d)'
  BY <1>1, <1>2, <1>3 DEF CreatedLater, UsersInv
<1>7. HoldsUser(d)'
  BY <1>1, <1>2, <1>3, <1>4 DEF HoldsUser, UserKinds
<1>8. Checked(d)'
  <2>1. SUFFICES ASSUME Kind(d) \in {"setStatus", "replaceUserRoles"}, step[d] = "checked",
                        ~ KeepsAdmin(d)
                 PROVE  AnotherStays(d)'
    BY <1>2 DEF Checked
  <2>2. CASE HoldsGrants(d, r.user) /\ Admin \notin userRoles[r.user]
    <3>1. userRoles'[r.user] = userRoles[r.user]
      BY <1>3, <1>4, <2>1, <2>2 DEF UserKinds
    <3>2. QED
      BY <1>2, <2>2, <3>1 DEF AnotherStays, HoldsGrants
  <2>3. CASE \E v \in ActiveAdmins : v # r.user /\ HoldsGrants(d, v)
    <3>1. PICK v \in ActiveAdmins : v # r.user /\ HoldsGrants(d, v)
      BY <2>3
    <3>2. userRoles'[v] = userRoles[v] /\ userStatus'[v] = userStatus[v] /\ v \in Users
      BY <1>3, <3>1 DEF ActiveAdmins, HoldsGrants
    <3>3. v \in ActiveAdmins'
      BY <3>1, <3>2 DEF ActiveAdmins
    <3>4. QED
      BY <1>2, <3>1, <3>3 DEF AnotherStays, HoldsGrants
  <2>4. QED
    BY <1>1, <2>1, <2>2, <2>3 DEF Checked, AnotherStays
<1>9. QED
  BY <1>5, <1>6, <1>7, <1>8 DEF KnowsUsers

\* Who is at no step of the users knows nothing about them.
LEMMA NoUsersAreKnown ==
  ASSUME NEW c \in Connections, step'[c] \notin UserSteps, CreatedLater(c)'
  PROVE  KnowsUsers(c)'
BY DEF KnowsUsers, EmptyForInit, HoldsUser, Checked, UserSteps

-----------------------------------------------------------------------------
(* What the statements of a transaction tell it *)

\* Among several administrators there is another.
LEMMA AnotherAdmin ==
  ASSUME Cardinality(ActiveAdmins) > 1, NEW u
  PROVE  \E v \in ActiveAdmins : v # u
<1>1. SUFFICES ASSUME ActiveAdmins \subseteq {u} PROVE FALSE
  OBVIOUS
<1>2. IsFiniteSet({u}) /\ Cardinality({u}) = 1
  BY FS_Singleton
<1>3. Cardinality(ActiveAdmins) <= 1 /\ Cardinality(ActiveAdmins) \in Nat
  BY <1>1, <1>2, FS_Subset, FS_CardinalityType
<1>4. QED
  BY <1>3

LEMMA UserReadersLearn ==
  ASSUME TxInv, UsersInv, NEW c \in Connections,
         \/ Initialized(c) \/ FindUser(c) \/ ActiveRolesByIDs(c)
         \/ EnsureAnotherActiveAdminExists(c) \/ FindRole(c)
  PROVE  KnowsUsers(c)'
<1> DEFINE r == request[c]
<1>1. EmptyForInit(c) /\ CreatedLater(c) /\ HoldsUser(c) /\ Checked(c)
  BY DEF UsersInv, KnowsUsers
<1>2. /\ step = [e \in Connections |-> step[e]] /\ shared = [e \in Connections |-> shared[e]]
      /\ exclusive = [e \in Connections |-> exclusive[e]]
  BY DEF TxInv
<1>3. /\ request' = request /\ shared[c] \subseteq shared'[c]
      /\ UNCHANGED <<userStatus, userRoles, inits>>
  BY <1>2 DEF Initialized, FindUser, ActiveRolesByIDs, EnsureAnotherActiveAdminExists, FindRole,
              MayEndAdmin, ReadShared, ReadForUpdate, userVars
<1>4. Kind(c)' = Kind(c) /\ KeepsAdmin(c)' = KeepsAdmin(c) /\ ActiveAdmins' = ActiveAdmins
  BY <1>3 DEF Kind, KeepsAdmin, ActiveAdmins
<1>5. CreatedLater(c)'
  BY <1>1, <1>3, <1>4 DEF CreatedLater
<1> USE DEF KnowsUsers, EmptyForInit, HoldsUser, Checked
<1>6. CASE Initialized(c)
  <2>1. /\ step'[c] = "checked" /\ Kind(c) = "initAdmin" /\ UsersTable \in shared'[c]
        /\ \A u \in Users : userStatus[u] = "absent"
    BY <1>2, <1>6 DEF Initialized, ReadShared
  <2>2. QED
    BY <1>3, <1>4, <1>5, <2>1
<1>7. CASE FindUser(c)
  <2>1. /\ step'[c] = "found" /\ UserRow(r.user) \in shared'[c]
        /\ userStatus[r.user] # "absent"
    BY <1>2, <1>7 DEF FindUser, ReadShared
  <2>2. QED
    BY <1>3, <1>5, <2>1
<1>8. CASE ActiveRolesByIDs(c)
  <2>1. /\ step'[c] = "roles"
        /\ (Kind(c) = "replaceUserRoles" /\ step[c] = "found") \/ Kind(c) = "createUser"
    BY <1>2, <1>8 DEF ActiveRolesByIDs, ReadForUpdate
  <2>2. QED
    BY <1>1, <1>3, <1>4, <1>5, <2>1
<1>9. CASE EnsureAnotherActiveAdminExists(c)
  <2>1. /\ step'[c] = "checked" /\ Kind(c) \in {"setStatus", "replaceUserRoles"}
        /\ step[c] \in {"found", "roles"}
    BY <1>2, <1>9 DEF EnsureAnotherActiveAdminExists, MayEndAdmin, ReadShared
  <2>2. UserRow(r.user) \in shared'[c] /\ userStatus[r.user] # "absent"
    BY <1>1, <1>3, <2>1
  <2>3. KeepsAdmin(c) \/ AnotherStays(c)'
    <3>1. CASE Admin \notin userRoles[r.user] /\ GrantsRow(r.user) \in shared'[c]
      BY <1>3, <2>2, <3>1 DEF AnotherStays, HoldsGrants
    <3>2. CASE /\ Cardinality(ActiveAdmins) > 1
               /\ \A v \in ActiveAdmins : {UserRow(v), GrantsRow(v)} \subseteq shared'[c]
      <4>1. PICK v \in ActiveAdmins : v # r.user
        BY <3>2, AnotherAdmin
      <4>2. v \in ActiveAdmins'
        BY <1>4
      <4>3. HoldsGrants(c, v)'
        BY <3>2, <4>1 DEF HoldsGrants
      <4>4. QED
        BY <1>3, <4>1, <4>2, <4>3 DEF AnotherStays
    <3>3. QED
      BY <1>2, <1>9, <3>1, <3>2 DEF EnsureAnotherActiveAdminExists, ReadShared
  <2>4. QED
    BY <1>3, <1>4, <1>5, <2>1, <2>2, <2>3
<1>10. CASE FindRole(c)
  <2>1. step'[c] = "found" /\ Kind(c) \in {"updateRole", "replacePermissions", "deleteRole"}
    BY <1>2, <1>10 DEF FindRole, ReadForUpdate
  <2>2. QED
    BY <1>4, <1>5, <2>1
<1>11. QED
  BY <1>6, <1>7, <1>8, <1>9, <1>10

-----------------------------------------------------------------------------
(* What the writers of users do *)

UserWriters(c) == InitAdmin(c) \/ SetStatus(c) \/ ReplaceUserRoles(c) \/ CreateUser(c)

LEMMA WrittenUserIsThere ==
  ASSUME TxInv, UsersInv, NEW c \in Connections, SetStatus(c) \/ ReplaceUserRoles(c)
  PROVE  /\ request[c].user \in Users /\ userStatus[request[c].user] # "absent"
         /\ inits > 0
<1>1. Kind(c) \in {"setStatus", "replaceUserRoles"} /\ step[c] \in {"found", "roles", "checked"}
  BY DEF SetStatus, ReplaceUserRoles, Unchecked
<1>2. HoldsUser(c)
  BY DEF UsersInv, KnowsUsers
<1>3. request[c].user \in Users
  BY <1>1, UserRequestIsTyped DEF UserKinds
<1>4. userStatus[request[c].user] # "absent"
  BY <1>1, <1>2 DEF HoldsUser
<1>5. QED
  BY <1>3, <1>4 DEF UsersInv

LEMMA UsersAreDisciplined ==
  ASSUME TxInv, UsersInv, NEW c \in Connections, UserWriters(c)
  PROVE  UserDisciplined(c) /\ inits' \in Nat
<1> DEFINE r == request[c]
           w == r.user
<1>1. Kind(c) \in UserKinds /\ w \in Users
  BY UserRequestIsTyped
     DEF UserWriters, InitAdmin, SetStatus, ReplaceUserRoles, CreateUser, UserKinds
<1>2. \A v \in Users : v # w => userStatus'[v] = userStatus[v] /\ userRoles'[v] = userRoles[v]
  BY DEF UserWriters, InitAdmin, SetStatus, ReplaceUserRoles, CreateUser, UsersInv
<1>3. inits' \in Nat /\ inits' >= inits
  BY DEF UserWriters, InitAdmin, SetStatus, ReplaceUserRoles, CreateUser, UsersInv
<1>4. userStatus[w] # "absent" => userStatus'[w] # "absent"
  <2>1. SetStatus(c) => r.status # "absent"
    BY UserRequestIsTyped DEF SetStatus
  <2>2. QED
    BY <1>1, <2>1 DEF UserWriters, InitAdmin, SetStatus, ReplaceUserRoles, CreateUser, UsersInv
<1>5. ASSUME NEW d \in Connections \ {c}
      PROVE  /\ UserRow(w) \in shared[d] => userStatus'[w] = userStatus[w]
             /\ HoldsGrants(d, w) => userRoles'[w] = userRoles[w]
  <2>1. CASE InitAdmin(c) \/ CreateUser(c)
    BY <2>1, CommitsAlone DEF InitAdmin, CreateUser, HoldsGrants
  <2>2. CASE SetStatus(c)
    BY <2>2, CommitsAlone DEF SetStatus
  <2>3. CASE ReplaceUserRoles(c)
    BY <2>3, CommitsAlone DEF ReplaceUserRoles, HoldsGrants
  <2>4. QED
    BY <2>1, <2>2, <2>3 DEF UserWriters
<1>6. ASSUME NEW d \in Connections \ {c}, UsersTable \in shared[d],
             \A v \in Users : userStatus[v] = "absent"
      PROVE  \A v \in Users : userStatus'[v] = "absent"
  <2>1. CASE InitAdmin(c) \/ CreateUser(c)
    BY <1>6, <2>1, CommitsAlone DEF InitAdmin, CreateUser
  <2>2. CASE SetStatus(c) \/ ReplaceUserRoles(c)
    BY <1>6, <2>2, WrittenUserIsThere
  <2>3. QED
    BY <2>1, <2>2 DEF UserWriters
<1>7. QED
  BY <1>2, <1>3, <1>4, <1>5, <1>6 DEF UserDisciplined

\* An administrator remains, whoever writes.
LEMMA WritersKeepAdmin ==
  ASSUME TxInv, UsersInv, NEW c \in Connections, UserWriters(c)
  PROVE  AdminRemains'
<1> DEFINE r == request[c]
           w == r.user
<1>0. /\ inits \in Nat /\ inits <= 1 /\ (inits > 0 => ActiveAdmins # {})
      /\ userStatus = [u \in Users |-> userStatus[u]] /\ userRoles = [u \in Users |-> userRoles[u]]
  BY DEF UsersInv, AdminRemains
<1>1. Kind(c) \in UserKinds /\ w \in Users
  BY UserRequestIsTyped
     DEF UserWriters, InitAdmin, SetStatus, ReplaceUserRoles, CreateUser, UserKinds
<1>2. EmptyForInit(c) /\ CreatedLater(c) /\ HoldsUser(c) /\ Checked(c)
  BY DEF UsersInv, KnowsUsers
<1>3. CASE InitAdmin(c)
  <2>1. \A v \in Users : userStatus[v] = "absent"
    BY <1>2, <1>3 DEF InitAdmin, EmptyForInit
  <2>2. inits = 0
    BY <1>0, <2>1 DEF ActiveAdmins
  <2>3. inits' = 1 /\ userStatus'[w] = "ACTIVE" /\ userRoles'[w] = {Admin}
    BY <1>0, <1>1, <1>3, <2>2 DEF InitAdmin
  <2>4. w \in ActiveAdmins'
    BY <1>1, <2>3 DEF ActiveAdmins
  <2>5. QED
    BY <2>3, <2>4 DEF AdminRemains
<1>4. CASE SetStatus(c)
  <2>1. /\ inits' = inits /\ userRoles' = userRoles
        /\ userStatus' = [userStatus EXCEPT ![w] = r.status]
        /\ Kind(c) = "setStatus" /\ step[c] \in {"found", "checked"}
    BY <1>2, <1>4 DEF SetStatus, Unchecked, HoldsUser
  <2>2. ActiveAdmins # {}
    BY <1>0, <1>4, WrittenUserIsThere
  <2>3. CASE step[c] = "checked"
    <3>1. PICK v \in ActiveAdmins : v # w \/ Admin \notin userRoles[w]
      BY <1>2, <2>1, <2>2, <2>3 DEF Checked, KeepsAdmin, AnotherStays
    <3>2. v \in ActiveAdmins'
      BY <1>0, <2>1, <3>1 DEF ActiveAdmins
    <3>3. QED
      BY <1>0, <2>1, <3>2 DEF AdminRemains
  <2>4. CASE step[c] = "found"
    <3>1. ~ MayEndAdmin(c)
      BY <1>4, <2>4 DEF SetStatus, Unchecked
    <3>2. r.status # "DISABLED" \/ userStatus[w] = "DISABLED"
      BY <2>1, <2>4, <3>1 DEF MayEndAdmin
    <3>3. r.status \in {"ACTIVE", "DISABLED"}
      BY <2>1, UserRequestIsTyped
    <3>4. PICK v \in ActiveAdmins : TRUE
      BY <2>2
    <3>5. v \in ActiveAdmins'
      BY <1>0, <2>1, <3>2, <3>3, <3>4 DEF ActiveAdmins
    <3>6. QED
      BY <1>0, <2>1, <3>5 DEF AdminRemains
  <2>5. QED
    BY <2>1, <2>3, <2>4
<1>5. CASE ReplaceUserRoles(c)
  <2>1. /\ inits' = inits /\ userStatus' = userStatus
        /\ userRoles' = [userRoles EXCEPT ![w] = r.roles]
        /\ Kind(c) = "replaceUserRoles" /\ step[c] \in {"roles", "checked"}
    BY <1>5 DEF ReplaceUserRoles
  <2>2. ActiveAdmins # {}
    BY <1>0, <1>5, WrittenUserIsThere
  <2>3. \E v \in ActiveAdmins : v # w \/ Admin \in r.roles
    <3>1. CASE step[c] = "checked"
      BY <1>2, <2>1, <2>2, <3>1 DEF Checked, KeepsAdmin, AnotherStays, ActiveAdmins
    <3>2. CASE step[c] = "roles"
      <4>1. userStatus[w] # "ACTIVE"
        BY <1>5, <2>1, <3>2 DEF ReplaceUserRoles, Unchecked, MayEndAdmin
      <4>2. QED
        BY <2>2, <4>1 DEF ActiveAdmins
    <3>3. QED
      BY <2>1, <3>1, <3>2
  <2>4. PICK v \in ActiveAdmins : v # w \/ Admin \in r.roles
    BY <2>3
  <2>5. v \in ActiveAdmins'
    BY <1>0, <2>1, <2>4 DEF ActiveAdmins
  <2>6. QED
    BY <1>0, <2>1, <2>5 DEF AdminRemains
<1>6. CASE CreateUser(c)
  <2>1. /\ inits' = inits /\ userStatus[w] = "absent"
        /\ userStatus' = [userStatus EXCEPT ![w] = "ACTIVE"]
        /\ userRoles' = [userRoles EXCEPT ![w] = r.roles]
    BY <1>6 DEF CreateUser
  <2>2. ActiveAdmins \subseteq ActiveAdmins'
    BY <1>0, <2>1 DEF ActiveAdmins
  <2>3. QED
    BY <1>0, <2>1, <2>2 DEF AdminRemains
<1>7. QED
  BY <1>3, <1>4, <1>5, <1>6 DEF UserWriters

LEMMA WritersKeepUsers ==
  ASSUME TxInv, UsersInv, NEW c \in Connections, UserWriters(c)
  PROVE  UsersInv'
<1>1. UserDisciplined(c) /\ inits' \in Nat
  BY UsersAreDisciplined
<1>2. End(c)
  BY DEF UserWriters, InitAdmin, SetStatus, ReplaceUserRoles, CreateUser, Commit
<1>3. TxMove(c, {step[c]}, {})
  BY <1>2, EndIsMove
<1>4. \A d \in Connections : d # c => TxSame(d)
  BY <1>3, MoveIsLocal
<1>5. \A d \in Connections : d # c => KnowsUsers(d)'
  BY <1>1, <1>4, OthersKeepUsers
<1>6. KnowsUsers(c)'
  <2>1. Kind(c)' = "none" /\ step'[c] = "idle"
    BY <1>2, EndedIsNobody DEF End, TxInv
  <2>2. QED
    BY <2>1, NoUsersAreKnown DEF CreatedLater, UserSteps
<1>7. inits' = 0 => \A u \in Users : userStatus'[u] = "absent"
  <2>1. CASE InitAdmin(c)
    BY <2>1 DEF InitAdmin, UsersInv
  <2>2. CASE CreateUser(c)
    BY <2>2 DEF CreateUser, UsersInv, KnowsUsers, CreatedLater
  <2>3. CASE SetStatus(c) \/ ReplaceUserRoles(c)
    BY <2>3, WrittenUserIsThere DEF SetStatus, ReplaceUserRoles
  <2>4. QED
    BY <2>1, <2>2, <2>3 DEF UserWriters
<1>8. /\ userStatus' = [u \in Users |-> userStatus'[u]]
      /\ userRoles' = [u \in Users |-> userRoles'[u]]
  BY DEF UserWriters, InitAdmin, SetStatus, ReplaceUserRoles, CreateUser, UsersInv
<1>9. QED
  BY <1>1, <1>5, <1>6, <1>7, <1>8, WritersKeepAdmin DEF UsersInv

-----------------------------------------------------------------------------
(* An administrator remains *)

UsersSame == UNCHANGED <<userStatus, userRoles, inits>>

LEMMA SameUsers ==
  ASSUME UsersInv, UsersSame, \A c \in Connections : KnowsUsers(c)'
  PROVE  UsersInv'
BY DEF UsersInv, UsersSame, AdminRemains, ActiveAdmins

\* Other transactions do not come to the steps of the users.
LEMMA OthersKeepAdmin ==
  ASSUME TxInv, UsersInv, UsersSame, NEW c \in Connections, KnowsUsers(c)',
         \A d \in Connections : d # c => TxSame(d)
  PROVE  UsersInv'
<1>1. UserDisciplined(c) /\ inits' \in Nat
  BY DEF UsersSame, UsersInv, UserDisciplined
<1>2. \A d \in Connections : d # c => KnowsUsers(d)'
  BY <1>1, OthersKeepUsers
<1>3. QED
  BY <1>2, SameUsers

LEMMA StutterKeepsUsers ==
  ASSUME UsersInv, UNCHANGED txVars, UsersSame
  PROVE  UsersInv'
<1>1. UNCHANGED <<request, step, shared>> /\ UNCHANGED <<userStatus, userRoles, inits>>
  BY DEF txVars, UsersSame
<1>2. ASSUME NEW d \in Connections PROVE KnowsUsers(d)'
  <2>1. KnowsUsers(d)
    BY DEF UsersInv
  <2>2. EmptyForInit(d)' /\ CreatedLater(d)' /\ HoldsUser(d)'
    BY <1>1, <2>1 DEF KnowsUsers, EmptyForInit, CreatedLater, HoldsUser, Kind
  <2>3. Checked(d)'
    BY <1>1, <2>1 DEF KnowsUsers, Checked, KeepsAdmin, AnotherStays, HoldsGrants, ActiveAdmins, Kind
  <2>4. QED
    BY <2>2, <2>3 DEF KnowsUsers
<1>3. QED
  BY <1>2, SameUsers

LEMMA StepKeepsUsers ==
  ASSUME TxInv, UsersInv, [Next]_vars
  PROVE  UsersInv'
<1>1. ASSUME NEW c \in Connections, Step(c) PROVE UsersInv'
  <2>0. ASSUME NEW from, NEW to, TxMove(c, from, to), UsersSame, to \cap UserSteps = {}
        PROVE  UsersInv'
    <3>1. \A d \in Connections : d # c => TxSame(d)
      BY <2>0, MoveIsLocal
    <3>2. (request'[c] = request[c] /\ step'[c] \in to) \/ TxIdle(c)'
      BY <2>0, MoveGoesOn
    <3>3. step'[c] \notin UserSteps
      BY <2>0, <3>2 DEF TxIdle, UserSteps
    <3>4. CreatedLater(c)'
      BY <2>0, <3>2 DEF TxIdle, NoRequest, CreatedLater, Kind, UsersSame, UsersInv, KnowsUsers
    <3>5. QED
      BY <2>0, <3>1, <3>3, <3>4, NoUsersAreKnown, OthersKeepAdmin
  <2>1. CASE BeginRequest(c)
    <3>1. Begin(c, Admitted)
      BY <2>1 DEF BeginRequest
    <3>2. /\ step'[c] = "begun" /\ request'[c] \in Admitted
          /\ \A d \in Connections : d # c => TxSame(d)
      BY <3>1, BeginKeepsTx
    <3>3. UsersSame
      BY <2>1 DEF BeginRequest, UsersSame, userVars
    <3>4. CreatedLater(c)'
      <4>1. request'[c].kind = "createUser" => \E u \in Users : userStatus[u] = "ACTIVE"
        BY <3>2 DEF Admitted, Starts
      <4>2. (\E u \in Users : userStatus[u] = "ACTIVE") => inits > 0
        BY DEF UsersInv
      <4>3. QED
        BY <3>3, <4>1, <4>2 DEF CreatedLater, Kind, UsersSame
    <3>5. KnowsUsers(c)'
      BY <3>2, <3>4, NoUsersAreKnown DEF UserSteps
    <3>6. QED
      BY <3>2, <3>3, <3>5, OthersKeepAdmin
  <2>2. CASE RollbackRequest(c)
    <3>1. TxMove(c, {step[c]}, {})
      BY <2>2, EndIsMove DEF RollbackRequest, Rollback
    <3>2. QED
      BY <2>0, <2>2, <3>1 DEF RollbackRequest, UsersSame, userVars
  <2>3. CASE UserStep(c)
    <3>1. CASE UserWriters(c)
      BY <3>1, WritersKeepUsers
    <3>2. CASE \/ Initialized(c) \/ FindUser(c) \/ ActiveRolesByIDs(c)
               \/ EnsureAnotherActiveAdminExists(c) \/ FindRole(c)
      <4>1. UsersSame
        BY <3>2 DEF Initialized, FindUser, ActiveRolesByIDs, EnsureAnotherActiveAdminExists,
                    FindRole, UsersSame, userVars
      <4>2. \A d \in Connections : d # c => TxSame(d)
        BY <2>3, UserMove, MoveIsLocal
      <4>3. QED
        BY <3>2, <4>1, <4>2, UserReadersLearn, OthersKeepAdmin
    <3>3. CASE CreateRole(c) \/ UpdateRole(c) \/ ReplaceRolePermissions(c) \/ DeleteRole(c)
      <4>1. UsersSame /\ End(c)
        BY <3>3 DEF CreateRole, UpdateRole, ReplaceRolePermissions, DeleteRole, UsersSame, Commit
      <4>2. TxMove(c, {step[c]}, {})
        BY <4>1, EndIsMove
      <4>3. QED
        BY <2>0, <4>1, <4>2
    <3>4. QED
      BY <2>3, <3>1, <3>2, <3>3 DEF UserStep, UserWriters
  <2>4. CASE CatalogStep(c) /\ UNCHANGED userVars
    BY <2>0, <2>4, CatalogMove DEF UserSteps, CatalogSteps, UsersSame, userVars
  <2>5. CASE MemberStep(c) /\ UNCHANGED userVars
    BY <2>0, <2>5, MemberMove DEF MemberSteps, UserSteps, UsersSame, userVars
  <2>6. CASE AdmissionStep(c) /\ UNCHANGED userVars
    BY <2>0, <2>6, AdmissionMove DEF AccessSteps, AdmissionSteps, ContextSteps, UserSteps,
                                     UsersSame, userVars
  <2>7. CASE AttemptStep(c) /\ UNCHANGED userVars
    <3>1. UsersSame /\ Executing \cap UserSteps = {}
      BY <2>7 DEF Executing, UserSteps, UsersSame, userVars
    <3>2. QED
      BY <2>0, <2>7, <3>1, AttemptMove, StutterKeepsUsers
  <2>8. CASE SettingStep(c) /\ UNCHANGED userVars
    BY <2>0, <2>8, SettingMove DEF SettingSteps, UserSteps, UsersSame, userVars
  <2>9. CASE StartStep(c)
    <3>1. UsersSame
      BY <2>9 DEF StartStep, FindRolePermissions, SeedBuiltInRoles, UsersSame, userVars
    <3>2. QED
      BY <2>0, <2>9, <3>1, StartMove DEF StartSteps, UserSteps
  <2>10. CASE MaintenanceStep(c)
    <3>1. UsersSame
      BY <2>10 DEF MaintenanceStep, PlatformInitialized, ProvisionTenant, BeginRound, ListingFails,
                   ListTenants, ServeTenant, NextStage, UsersSame, userVars
    <3>2. QED
      BY <2>0, <2>10, <3>1, MaintenanceMove DEF MaintenanceSteps, UserSteps
  <2>11. CASE ScanStep(c) /\ UNCHANGED userVars
    BY <2>0, <2>11, ScanMove DEF ScanSteps, UserSteps, UsersSame, userVars
  <2>12. QED
    BY <1>1, <2>1, <2>2, <2>3, <2>4, <2>5, <2>6, <2>7, <2>8, <2>9, <2>10, <2>11 DEF Step
<1>2. CASE Deploy \/ ObjectsChange \/ UNCHANGED vars
  <2>1. UNCHANGED txVars /\ UsersSame
    BY <1>2 DEF Deploy, DeployCipher, DeployCaps, ObjectsChange, vars, UsersSame, userVars
  <2>2. QED
    BY <2>1, StutterKeepsUsers
<1>3. QED
  BY <1>1, <1>2 DEF Next

LEMMA UsersBegin == Init => UsersInv
<1> SUFFICES ASSUME Init PROVE UsersInv
  OBVIOUS
<1>1. PICK empty \in BOOLEAN, granted \in SUBSET Permissions :
        UsersInit(IF empty THEN {} ELSE Administrators, granted)
  BY DEF Init
<1> DEFINE admins == IF empty THEN {} ELSE Administrators
<1>2. /\ userStatus = [u \in Users |-> IF u \in admins THEN "ACTIVE" ELSE "absent"]
      /\ userRoles = [u \in Users |-> IF u \in admins THEN {Admin} ELSE {}]
      /\ inits = IF admins = {} THEN 0 ELSE 1
  BY <1>1 DEF UsersInit
<1>3. admins \subseteq Users
  BY UsersAssumption
<1>4. \A c \in Connections : KnowsUsers(c)
  BY DEF Init, TxInit, KnowsUsers, EmptyForInit, CreatedLater, HoldsUser, Checked, Kind, NoRequest
<1>5. AdminRemains
  <2>1. admins \subseteq ActiveAdmins
    BY <1>2, <1>3 DEF ActiveAdmins
  <2>2. QED
    BY <1>2, <2>1 DEF AdminRemains
<1>6. QED
  BY <1>2, <1>4, <1>5 DEF UsersInv

LEMMA UsersHold == Spec => []UsersInv
BY UsersBegin, StepKeepsUsers, LocksExclude, PTL DEF Spec

\* A tenant is set up once, and from then on keeps an active administrator, whatever
\* is disabled, demoted and created side by side: who ends the activity of one has
\* locked another, whose rows nobody writes meanwhile.
THEOREM AdministratorRemains == Spec => []AdminRemains
<1>1. UsersInv => AdminRemains
  BY DEF UsersInv
<1>2. QED
  BY <1>1, UsersHold, PTL

-----------------------------------------------------------------------------
(* What is granted is live *)

\* The roles to be granted are ACTIVE and locked.
HoldsRoles(c) ==
  Kind(c) \in {"replaceUserRoles", "createUser"} /\ step[c] \in {"roles", "checked"} =>
    /\ request[c].roles \subseteq ActiveRoles
    /\ \A r \in request[c].roles : RoleRow(r) \in exclusive[c]

\* A role is locked for a change.
HoldsRole(c) ==
  Kind(c) \in {"updateRole", "replacePermissions", "deleteRole"} /\ step[c] = "found" =>
    RoleRow(request[c].role) \in exclusive[c]

\* The models to be granted are there and locked.
HoldsModels(c) ==
  /\ step[c] \in AccessSteps => Kind(c) = "replaceAccess"
  /\ step[c] = "found models" => \A m \in request[c].models :
       ModelRow(m) \in shared[c] /\ models[m] # Deleted

KnowsGrants(c) == HoldsRoles(c) /\ HoldsRole(c) /\ HoldsModels(c)

GrantsInv ==
  /\ roleStatus = [r \in CustomRoles |-> roleStatus[r]]
  /\ modelAccess = [u \in Users |-> modelAccess[u]]
  /\ \A c \in Connections : KnowsGrants(c)

\* A step leaves alone the roles that others have locked, and the models that
\* others have locked for reading.
GrantsDisciplined(c) ==
  \A d \in Connections \ {c} :
    /\ \A r \in CustomRoles : RoleRow(r) \in exclusive[d] => roleStatus'[r] = roleStatus[r]
    /\ \A m \in Models : ModelRow(m) \in shared[d] => models'[m] = models[m]

LEMMA OthersKeepGrants ==
  ASSUME TxInv, GrantsInv, NEW c \in Connections, GrantsDisciplined(c),
         NEW d \in Connections, d # c, TxSame(d)
  PROVE  KnowsGrants(d)'
<1> DEFINE q == request[d]
<1>1. HoldsRoles(d) /\ HoldsRole(d) /\ HoldsModels(d)
  BY DEF GrantsInv, KnowsGrants
<1>2. /\ q' = q /\ step'[d] = step[d] /\ shared'[d] = shared[d] /\ exclusive'[d] = exclusive[d]
      /\ Kind(d)' = Kind(d)
  BY DEF TxSame, Kind
<1>3. /\ \A r \in CustomRoles : RoleRow(r) \in exclusive[d] => roleStatus'[r] = roleStatus[r]
      /\ \A m \in Models : ModelRow(m) \in shared[d] => models'[m] = models[m]
  BY DEF GrantsDisciplined
<1>4. HoldsRoles(d)'
  <2>1. SUFFICES ASSUME Kind(d) \in {"replaceUserRoles", "createUser"},
                        step[d] \in {"roles", "checked"}, NEW r \in q.roles
                 PROVE  r \in ActiveRoles' /\ RoleRow(r) \in exclusive[d]
    BY <1>2 DEF HoldsRoles
  <2>2. r \in ActiveRoles /\ RoleRow(r) \in exclusive[d]
    BY <1>1, <2>1 DEF HoldsRoles
  <2>3. QED
    BY <1>3, <2>2 DEF ActiveRoles
<1>5. HoldsRole(d)'
  BY <1>1, <1>2 DEF HoldsRole
<1>6. HoldsModels(d)'
  <2>1. step[d] = "found models" => q.models \subseteq Models
    <3>1. Kind(d) = "replaceAccess" => q \in Requests
      BY RequestIsMade
    <3>2. QED
      BY <1>1, <3>1, AdmissionRequestsAssumption DEF HoldsModels, AccessSteps, Kind
  <2>2. QED
    BY <1>1, <1>2, <1>3, <2>1 DEF HoldsModels
<1>7. QED
  BY <1>4, <1>5, <1>6 DEF KnowsGrants

LEMMA NoGrantsAreKnown ==
  ASSUME NEW c \in Connections, step'[c] \notin UserSteps, step'[c] \notin AccessSteps
  PROVE  KnowsGrants(c)'
BY DEF KnowsGrants, HoldsRoles, HoldsRole, HoldsModels, UserSteps, AccessSteps

\* A model that another has locked for reading is not written.
LEMMA SharedModelsStay ==
  ASSUME TxInv, CatalogInv, NEW c \in Connections, CatalogStep(c),
         NEW d \in Connections \ {c}, NEW m \in Models, ModelRow(m) \in shared[d]
  PROVE  models'[m] = models[m]
<1> DEFINE w == request[c].model
<1>1. CASE UNCHANGED models
  BY <1>1
<1>2. CASE CreateModel(c)
  <2>1. m # w
    BY <1>2, CommitsAlone DEF CreateModel
  <2>2. QED
    BY <1>2, <2>1 DEF CreateModel, CatalogInv, CatalogTypeOK
<1>3. CASE UpdateModel(c) \/ DeleteModel(c)
  <2>1. ModelRow(w) \in exclusive[c]
    BY <1>3 DEF UpdateModel, DeleteModel, CatalogInv, Knows, HoldsModel
  <2>2. m # w
    BY <2>1, HeldAlone
  <2>3. QED
    BY <1>3, <2>2 DEF UpdateModel, DeleteModel, CatalogInv, CatalogTypeOK
<1>4. QED
  BY <1>1, <1>2, <1>3
     DEF CatalogStep, CreateProvider, UpdateProvider, DeleteProvider, LockProvider,
         CountLinkedModels, LockAllProviders, Rotate, FindProviderToTest, RecordTestResult,
         LockModel, EnsureProviderUsable, EnsureUniqueName, LockDefaultProvider,
         LockDefaultModel, UpdateTaskDefaults, ClearTaskDefaults, catalogVars

\* A role that another has locked is not written.
LEMMA RolesAreDisciplined ==
  ASSUME TxInv, GrantsInv, NEW c \in Connections, UserStep(c), UNCHANGED models
  PROVE  GrantsDisciplined(c) /\ roleStatus' = [r \in CustomRoles |-> roleStatus'[r]]
<1> DEFINE w == request[c].role
<1>1. CASE UNCHANGED roleStatus
  BY <1>1 DEF GrantsDisciplined, GrantsInv
<1>2. CASE CreateRole(c) \/ UpdateRole(c) \/ DeleteRole(c)
  <2>1. \A r \in CustomRoles : r # w => roleStatus'[r] = roleStatus[r]
    BY <1>2 DEF CreateRole, UpdateRole, DeleteRole, GrantsInv
  <2>2. \A d \in Connections \ {c} : RoleRow(w) \notin exclusive[d]
    <3>1. CASE CreateRole(c)
      BY <3>1, CommitsAlone DEF CreateRole
    <3>2. CASE UpdateRole(c) \/ DeleteRole(c)
      <4>1. RoleRow(w) \in exclusive[c]
        BY <3>2 DEF UpdateRole, DeleteRole, GrantsInv, KnowsGrants, HoldsRole
      <4>2. QED
        BY <4>1, HeldAlone
    <3>3. QED
      BY <1>2, <3>1, <3>2
  <2>3. roleStatus' = [r \in CustomRoles |-> roleStatus'[r]]
    BY <1>2 DEF CreateRole, UpdateRole, DeleteRole, GrantsInv
  <2>4. QED
    BY <2>1, <2>2, <2>3 DEF GrantsDisciplined
<1>3. QED
  BY <1>1, <1>2 DEF UserStep, Initialized, InitAdmin, FindUser, ActiveRolesByIDs,
       EnsureAnotherActiveAdminExists, SetStatus, ReplaceUserRoles, CreateUser, FindRole,
       ReplaceRolePermissions, userVars

LEMMA UserStepKeepsGrants ==
  ASSUME TxInv, GrantsInv, NEW c \in Connections, UserStep(c), UNCHANGED <<models, modelAccess>>
  PROVE  GrantsInv'
<1>1. GrantsDisciplined(c) /\ roleStatus' = [r \in CustomRoles |-> roleStatus'[r]]
  BY RolesAreDisciplined
<1>2. \A d \in Connections : d # c => TxSame(d)
  BY UserMove, MoveIsLocal
<1>3. \A d \in Connections : d # c => KnowsGrants(d)'
  BY <1>1, <1>2, OthersKeepGrants
<1>4. KnowsGrants(c)'
  <2>0. /\ HoldsRoles(c)
        /\ step = [e \in Connections |-> step[e]] /\ shared = [e \in Connections |-> shared[e]]
        /\ exclusive = [e \in Connections |-> exclusive[e]]
    BY DEF GrantsInv, KnowsGrants, TxInv
  <2>1. CASE End(c)
    <3>1. step'[c] = "idle"
      BY <2>0, <2>1 DEF End
    <3>2. QED
      BY <3>1, NoGrantsAreKnown DEF UserSteps, AccessSteps
  <2> USE DEF KnowsGrants, HoldsRoles, HoldsRole, HoldsModels, AccessSteps
  <2>2. CASE Initialized(c)
    <3>1. step'[c] = "checked" /\ Kind(c)' = "initAdmin"
      BY <2>0, <2>2 DEF Initialized, ReadShared, Kind
    <3>2. QED
      BY <3>1
  <2>3. CASE FindUser(c)
    <3>1. step'[c] = "found" /\ Kind(c)' \in {"setStatus", "replaceUserRoles"}
      BY <2>0, <2>3 DEF FindUser, ReadShared, Kind
    <3>2. QED
      BY <3>1
  <2>4. CASE ActiveRolesByIDs(c)
    <3>1. /\ step'[c] = "roles" /\ request' = request /\ ActiveRoles' = ActiveRoles
          /\ request[c].roles \subseteq ActiveRoles
          /\ \A r \in request[c].roles : RoleRow(r) \in exclusive'[c]
      BY <2>0, <2>4 DEF ActiveRolesByIDs, ReadForUpdate, userVars, ActiveRoles
    <3>2. QED
      BY <3>1
  <2>5. CASE EnsureAnotherActiveAdminExists(c)
    <3>1. /\ step'[c] = "checked" /\ request' = request /\ ActiveRoles' = ActiveRoles
          /\ exclusive' = exclusive
          /\ Kind(c) = "setStatus" \/ (Kind(c) = "replaceUserRoles" /\ step[c] = "roles")
      BY <2>0, <2>5 DEF EnsureAnotherActiveAdminExists, MayEndAdmin, ReadShared, userVars,
                        ActiveRoles
    <3>2. Kind(c)' = Kind(c)
      BY <3>1 DEF Kind
    <3>3. QED
      BY <2>0, <3>1, <3>2
  <2>6. CASE FindRole(c)
    <3>1. /\ step'[c] = "found" /\ request' = request
          /\ RoleRow(request[c].role) \in exclusive'[c]
      BY <2>0, <2>6 DEF FindRole, ReadForUpdate
    <3>2. QED
      BY <3>1
  <2>7. QED
    BY <2>1, <2>2, <2>3, <2>4, <2>5, <2>6
       DEF UserStep, InitAdmin, SetStatus, ReplaceUserRoles, CreateUser, CreateRole, UpdateRole,
           ReplaceRolePermissions, DeleteRole, Commit
<1>5. QED
  BY <1>1, <1>3, <1>4 DEF GrantsInv

\* Nothing of what is granted changes but the grants of models.
GrantsSame ==
  /\ UNCHANGED <<roleStatus, models>>
  /\ modelAccess' = [u \in Users |-> modelAccess'[u]]

LEMMA ElsewhereKeepsGrants ==
  ASSUME TxInv, GrantsInv, GrantsSame, NEW c \in Connections,
         \A d \in Connections : d # c => TxSame(d), KnowsGrants(c)'
  PROVE  GrantsInv'
<1>1. GrantsDisciplined(c)
  BY DEF GrantsSame, GrantsDisciplined
<1>2. \A d \in Connections : d # c => KnowsGrants(d)'
  BY <1>1, OthersKeepGrants
<1>3. roleStatus' = [r \in CustomRoles |-> roleStatus'[r]]
  BY DEF GrantsSame, GrantsInv
<1>4. QED
  BY <1>2, <1>3 DEF GrantsInv, GrantsSame

\* A move to a step of another component forgets what is granted.
LEMMA ForeignMoveKeepsGrants ==
  ASSUME TxInv, GrantsInv, GrantsSame, NEW c \in Connections, NEW from, NEW to,
         TxMove(c, from, to), to \cap UserSteps = {}, to \cap AccessSteps = {}
  PROVE  GrantsInv'
<1>1. \A d \in Connections : d # c => TxSame(d)
  BY MoveIsLocal
<1>2. (request'[c] = request[c] /\ step'[c] \in to) \/ TxIdle(c)'
  BY MoveGoesOn
<1>3. step'[c] \notin UserSteps /\ step'[c] \notin AccessSteps
  BY <1>2 DEF TxIdle, UserSteps, AccessSteps
<1>4. QED
  BY <1>1, <1>3, NoGrantsAreKnown, ElsewhereKeepsGrants

LEMMA StutterKeepsGrants ==
  ASSUME GrantsInv, UNCHANGED txVars, UNCHANGED <<roleStatus, models, modelAccess>>
  PROVE  GrantsInv'
BY DEF GrantsInv, KnowsGrants, HoldsRoles, HoldsRole, HoldsModels, ActiveRoles, Kind, txVars

\* The catalog leaves alone what is locked in order to be granted.
LEMMA CatalogStepKeepsGrants ==
  ASSUME TxInv, CatalogInv, GrantsInv, NEW c \in Connections, CatalogStep(c),
         UNCHANGED <<roleStatus, modelAccess>>
  PROVE  GrantsInv'
<1>1. GrantsDisciplined(c)
  BY SharedModelsStay DEF GrantsDisciplined
<1>2. TxMove(c, {"begun"} \cup CatalogSteps, CatalogSteps)
  BY CatalogMove
<1>3. \A d \in Connections : d # c => TxSame(d)
  BY <1>2, MoveIsLocal
<1>4. (request'[c] = request[c] /\ step'[c] \in CatalogSteps) \/ TxIdle(c)'
  BY <1>2, MoveGoesOn
<1>5. KnowsGrants(c)'
  BY <1>4, NoGrantsAreKnown DEF TxIdle, CatalogSteps, UserSteps, AccessSteps
<1>6. \A d \in Connections : d # c => KnowsGrants(d)'
  BY <1>1, <1>3, OthersKeepGrants
<1>7. QED
  BY <1>5, <1>6 DEF GrantsInv

LEMMA AdmissionStepKeepsGrants ==
  ASSUME TxInv, GrantsInv, NEW c \in Connections, AdmissionStep(c),
         UNCHANGED <<roleStatus, models>>
  PROVE  GrantsInv'
<1>0. /\ step = [e \in Connections |-> step[e]] /\ shared = [e \in Connections |-> shared[e]]
      /\ modelAccess = [u \in Users |-> modelAccess[u]]
      /\ step[c] \in AccessSteps => Kind(c) = "replaceAccess"
  BY DEF GrantsInv, KnowsGrants, TxInv, HoldsModels
<1>1. GrantsSame
  BY <1>0 DEF GrantsSame, AdmissionStep, FindGrantee, ModelsByIDs, ReplaceUserModelAccess,
       Authenticate, AdmitTask, CreateTask, FindTask, FindTaskProvider, FindTaskModel,
       FailEligibleTask, MarkDeadLettered, admissionVars
<1>2. CASE FindGrantee(c)
  <2>1. step'[c] = "found grantee" /\ Kind(c)' = "replaceAccess"
        /\ \A d \in Connections : d # c => TxSame(d)
    BY <1>0, <1>2 DEF FindGrantee, ReadShared, Kind, TxSame
  <2>2. KnowsGrants(c)'
    BY <2>1 DEF KnowsGrants, HoldsRoles, HoldsRole, HoldsModels
  <2>3. QED
    BY <1>1, <2>1, <2>2, ElsewhereKeepsGrants
<1>3. CASE ModelsByIDs(c)
  <2>1. /\ step'[c] = "found models" /\ Kind(c)' = "replaceAccess" /\ request' = request
        /\ \A m \in request[c].models : ModelRow(m) \in shared'[c] /\ models[m] # Deleted
        /\ \A d \in Connections : d # c => TxSame(d)
    BY <1>0, <1>3 DEF ModelsByIDs, ReadShared, Kind, TxSame, AccessSteps
  <2>2. models' = models
    OBVIOUS
  <2>3. KnowsGrants(c)'
    BY <2>1, <2>2 DEF KnowsGrants, HoldsRoles, HoldsRole, HoldsModels
  <2>4. QED
    BY <1>1, <2>1, <2>3, ElsewhereKeepsGrants
<1>4. CASE ReplaceUserModelAccess(c)
  <2>1. TxMove(c, {step[c]}, {})
    BY <1>4 DEF ReplaceUserModelAccess, Commit, TxMove
  <2>2. QED
    BY <1>1, <2>1, ForeignMoveKeepsGrants
<1>5. CASE Authenticate(c) \/ AdmitTask(c) \/ CreateTask(c)
  <2>1. TxMove(c, {"begun"} \cup AdmissionSteps, AdmissionSteps)
    BY <1>5, ReadIsMove, CommitIsMove DEF Authenticate, AdmitTask, CreateTask, AdmissionSteps
  <2>2. QED
    BY <1>1, <2>1, ForeignMoveKeepsGrants DEF AdmissionSteps, UserSteps, AccessSteps
<1>6. CASE FindTask(c) \/ FindTaskProvider(c) \/ FindTaskModel(c)
  <2>1. TxMove(c, {"begun"} \cup ContextSteps, ContextSteps)
    BY <1>6, ReadIsMove DEF FindTask, FindTaskProvider, FindTaskModel, ContextSteps
  <2>2. QED
    BY <1>1, <2>1, ForeignMoveKeepsGrants DEF ContextSteps, UserSteps, AccessSteps
<1>7. CASE FailEligibleTask(c) \/ MarkDeadLettered(c)
  <2>1. TxMove(c, {step[c]}, {})
    BY <1>7 DEF FailEligibleTask, MarkDeadLettered, TxMove
  <2>2. QED
    BY <1>1, <2>1, ForeignMoveKeepsGrants
<1>8. QED
  BY <1>2, <1>3, <1>4, <1>5, <1>6, <1>7 DEF AdmissionStep

\* What an execution touches beside its task: nothing of this.
LEMMA AttemptIsElsewhere ==
  ASSUME NEW c \in Connections, AttemptStep(c)
  PROVE  UNCHANGED <<modelAccess, asAdmin, plan>>
BY DEF AttemptStep, Interrupt, ClaimRunning, BaseURLInvalid, CredentialUnavailable,
       InputsUnavailable, BeginAttempt, CallProvider, AdapterStep, InvalidRequest, TransportFails,
       HTTPFails, ResponseTooLarge, BeginReading, DecodeImage, BodyFails, EndOfBody,
       GeminiBodyFails, ParseGemini, Called, FinalizeAttempt, EndInterrupted, EndFailed,
       PersistSuccessfulResult, OutputInvalid, CostOverflows, EndUnpersisted, CompleteTask,
       RecoverTimedOut, Leave, admissionVars


LEMMA StepKeepsGrants ==
  ASSUME TxInv, CatalogInv, GrantsInv, [Next]_vars
  PROVE  GrantsInv'
<1>0. modelAccess = [u \in Users |-> modelAccess[u]]
  BY DEF GrantsInv
<1>1. ASSUME NEW c \in Connections, Step(c) PROVE GrantsInv'
  <2>1. CASE BeginRequest(c)
    <3>1. Begin(c, Admitted) /\ GrantsSame
      BY <1>0, <2>1 DEF BeginRequest, GrantsSame, userVars, catalogVars, admissionVars
    <3>2. step'[c] = "begun" /\ \A d \in Connections : d # c => TxSame(d)
      BY <3>1, BeginKeepsTx
    <3>3. KnowsGrants(c)'
      BY <3>2, NoGrantsAreKnown DEF UserSteps, AccessSteps
    <3>4. QED
      BY <3>1, <3>2, <3>3, ElsewhereKeepsGrants
  <2>2. CASE RollbackRequest(c)
    <3>1. TxMove(c, {step[c]}, {}) /\ GrantsSame
      BY <1>0, <2>2 DEF RollbackRequest, Rollback, ForgetAdmission, TxMove, GrantsSame, userVars,
                        catalogVars
    <3>2. QED
      BY <3>1, ForeignMoveKeepsGrants
  <2>3. CASE UserStep(c) /\ UNCHANGED <<catalogVars, admissionVars>>
    BY <2>3, UserStepKeepsGrants DEF catalogVars, admissionVars
  <2>4. CASE CatalogStep(c) /\ UNCHANGED <<userVars, admissionVars>>
    BY <2>4, CatalogStepKeepsGrants DEF userVars, admissionVars
  <2>5. CASE MemberStep(c) /\ UNCHANGED <<userVars, catalogVars, admissionVars>>
    <3>1. TxMove(c, {"begun"} \cup MemberSteps, MemberSteps) /\ GrantsSame
      BY <1>0, <2>5, MemberMove DEF GrantsSame, userVars, catalogVars, admissionVars
    <3>2. QED
      BY <3>1, ForeignMoveKeepsGrants DEF MemberSteps, UserSteps, AccessSteps
  <2>6. CASE AdmissionStep(c) /\ UNCHANGED <<userVars, catalogVars>>
    BY <2>6, AdmissionStepKeepsGrants DEF userVars, catalogVars
  <2>7. CASE AttemptStep(c) /\ UNCHANGED <<userVars, catalogVars>>
    <3>1. UNCHANGED <<roleStatus, models, modelAccess>> /\ GrantsSame
      BY <1>0, <2>7, AttemptIsElsewhere DEF GrantsSame, userVars, catalogVars
    <3>2. CASE UNCHANGED txVars
      BY <3>1, <3>2, StutterKeepsGrants
    <3>3. CASE TxMove(c, {"begun", "validated context"} \cup Executing, Executing)
      <4>1. Executing \cap UserSteps = {} /\ Executing \cap AccessSteps = {}
        BY DEF Executing, UserSteps, AccessSteps
      <4>2. QED
        BY <3>1, <3>3, <4>1, ForeignMoveKeepsGrants
    <3>4. QED
      BY <2>7, <3>2, <3>3, AttemptMove
  <2>8. CASE SettingStep(c) /\ UNCHANGED <<userVars, catalogVars, admissionVars>>
    <3>1. TxMove(c, {"begun"} \cup SettingSteps, SettingSteps) /\ GrantsSame
      BY <1>0, <2>8, SettingMove DEF GrantsSame, userVars, catalogVars, admissionVars
    <3>2. QED
      BY <3>1, ForeignMoveKeepsGrants DEF SettingSteps, UserSteps, AccessSteps
  <2>9. CASE StartStep(c) /\ UNCHANGED catalogVars
    <3>1. GrantsSame
      BY <1>0, <2>9 DEF StartStep, AcquireMigrationLock, MigrationApplied,
         ExecuteMigrationStatement, BackfillGrants, Define, RecordMigration,
         VerifyMigrationSchema, ReleaseMigrationLock, VerifyWorkerReadiness, FindRolePermissions,
         SeedBuiltInRoles, GrantsSame, userVars, catalogVars, admissionVars
    <3>2. TxMove(c, {"begun"} \cup StartSteps, StartSteps)
      BY <2>9, StartMove
    <3>3. QED
      BY <3>1, <3>2, ForeignMoveKeepsGrants DEF StartSteps, UserSteps, AccessSteps
  <2>10. CASE MaintenanceStep(c) /\ UNCHANGED <<catalogVars, admissionVars>>
    <3>1. UNCHANGED userVars
      BY <2>10 DEF MaintenanceStep, PlatformInitialized, ProvisionTenant, BeginRound,
                   ListingFails, ListTenants, ServeTenant, NextStage
    <3>2. TxMove(c, {"begun"} \cup MaintenanceSteps, MaintenanceSteps) /\ GrantsSame
      BY <1>0, <2>10, <3>1, MaintenanceMove DEF GrantsSame, userVars, catalogVars, admissionVars
    <3>3. QED
      BY <3>2, ForeignMoveKeepsGrants DEF MaintenanceSteps, UserSteps, AccessSteps
  <2>11. CASE ScanStep(c) /\ UNCHANGED <<userVars, catalogVars, admissionVars>>
    <3>1. TxMove(c, {"begun"} \cup ScanSteps, ScanSteps) /\ GrantsSame
      BY <1>0, <2>11, ScanMove DEF GrantsSame, userVars, catalogVars, admissionVars
    <3>2. QED
      BY <3>1, ForeignMoveKeepsGrants DEF ScanSteps, UserSteps, AccessSteps
  <2>12. QED
    BY <1>1, <2>1, <2>2, <2>3, <2>4, <2>5, <2>6, <2>7, <2>8, <2>9, <2>10, <2>11 DEF Step
<1>2. CASE Deploy \/ ObjectsChange \/ UNCHANGED vars
  <2>1. UNCHANGED txVars /\ UNCHANGED <<roleStatus, models, modelAccess>>
    BY <1>2 DEF Deploy, DeployCipher, DeployCaps, ObjectsChange, vars, userVars, catalogVars,
                admissionVars
  <2>2. QED
    BY <2>1, StutterKeepsGrants
<1>3. QED
  BY <1>1, <1>2 DEF Next

LEMMA GrantsBegin == Init => GrantsInv
<1> SUFFICES ASSUME Init PROVE GrantsInv
  OBVIOUS
<1>1. PICK empty \in BOOLEAN, granted \in SUBSET Permissions :
        /\ UsersInit(IF empty THEN {} ELSE Administrators, granted)
        /\ AdmissionInit(empty)
  BY DEF Init
<1>2. \A c \in Connections : step[c] = "idle"
  BY DEF Init, TxInit
<1>3. \A c \in Connections : KnowsGrants(c)
  BY <1>2 DEF KnowsGrants, HoldsRoles, HoldsRole, HoldsModels, AccessSteps
<1>4. QED
  BY <1>1, <1>3 DEF GrantsInv, UsersInit, AdmissionInit

LEMMA GrantsHold == Spec => []GrantsInv
BY GrantsBegin, StepKeepsGrants, LocksExclude, CatalogHolds, PTL DEF Spec

\* A step grants what is live.
GrantsLive ==
  \A u \in Users :
    /\ userRoles'[u] \subseteq userRoles[u] \cup ActiveRoles'
    /\ \A m \in modelAccess'[u] \ modelAccess[u] : models'[m] # Deleted

LEMMA WritersGrantLiveRoles ==
  ASSUME TxInv, UsersInv, GrantsInv, NEW c \in Connections, UserStep(c),
         UNCHANGED <<models, modelAccess>>
  PROVE  GrantsLive
<1>0. /\ userRoles = [u \in Users |-> userRoles[u]] /\ HoldsRoles(c)
  BY DEF UsersInv, GrantsInv, KnowsGrants
<1>1. CASE UNCHANGED userRoles
  BY <1>1 DEF GrantsLive
<1>2. CASE InitAdmin(c)
  <2>1. \A u \in Users : userRoles'[u] \subseteq userRoles[u] \cup {Admin}
    BY <1>0, <1>2 DEF InitAdmin
  <2>2. QED
    BY <2>1 DEF GrantsLive, ActiveRoles
<1>3. CASE ReplaceUserRoles(c) \/ CreateUser(c)
  <2>1. request[c].roles \subseteq ActiveRoles
    BY <1>0, <1>3 DEF ReplaceUserRoles, CreateUser, HoldsRoles
  <2>2. roleStatus' = roleStatus
    BY <1>3 DEF ReplaceUserRoles, CreateUser
  <2>3. \A u \in Users : userRoles'[u] \subseteq userRoles[u] \cup request[c].roles
    BY <1>0, <1>3 DEF ReplaceUserRoles, CreateUser
  <2>4. QED
    BY <2>1, <2>2, <2>3 DEF GrantsLive, ActiveRoles
<1>4. QED
  BY <1>1, <1>2, <1>3 DEF UserStep, Initialized, FindUser, ActiveRolesByIDs,
       EnsureAnotherActiveAdminExists, SetStatus, CreateRole, FindRole, UpdateRole,
       ReplaceRolePermissions, DeleteRole, userVars

LEMMA WritersGrantLiveModels ==
  ASSUME GrantsInv, NEW c \in Connections, AdmissionStep(c), UNCHANGED <<models, userRoles>>
  PROVE  GrantsLive
<1>0. modelAccess = [u \in Users |-> modelAccess[u]] /\ HoldsModels(c)
  BY DEF GrantsInv, KnowsGrants
<1>1. CASE UNCHANGED modelAccess
  BY <1>1 DEF GrantsLive
<1>2. CASE ReplaceUserModelAccess(c)
  <2>1. \A m \in request[c].models : models[m] # Deleted
    BY <1>0, <1>2 DEF ReplaceUserModelAccess, HoldsModels
  <2>2. \A u \in Users : modelAccess'[u] \subseteq modelAccess[u] \cup request[c].models
    BY <1>0, <1>2 DEF ReplaceUserModelAccess
  <2>3. QED
    BY <2>1, <2>2 DEF GrantsLive
<1>3. QED
  BY <1>1, <1>2 DEF AdmissionStep, FindGrantee, ModelsByIDs, Authenticate, AdmitTask, CreateTask,
       FindTask, FindTaskProvider, FindTaskModel, FailEligibleTask, MarkDeadLettered,
       admissionVars

\* Backfilled are the models that are there, for everybody.
LEMMA StartsGrantLiveModels ==
  ASSUME NEW c \in Connections, StartStep(c), UNCHANGED models
  PROVE  GrantsLive
<1>1. UNCHANGED userRoles
  BY DEF StartStep, FindRolePermissions, SeedBuiltInRoles, userVars
<1>2. CASE UNCHANGED modelAccess
  BY <1>1, <1>2 DEF GrantsLive
<1>3. CASE BackfillGrants
  <2>1. ASSUME NEW u \in Users, NEW m \in modelAccess'[u] \ modelAccess[u]
        PROVE  models[m] # Deleted
    BY <1>3, <2>1 DEF BackfillGrants
  <2>2. QED
    BY <1>1, <2>1 DEF GrantsLive
<1>4. QED
  BY <1>2, <1>3 DEF StartStep, AcquireMigrationLock, MigrationApplied, ExecuteMigrationStatement,
       Define, RecordMigration, VerifyMigrationSchema, ReleaseMigrationLock,
       VerifyWorkerReadiness, FindRolePermissions, SeedBuiltInRoles, admissionVars

LEMMA StepsGrantWhatIsLive ==
  ASSUME TxInv, UsersInv, GrantsInv, [Next]_vars
  PROVE  GrantsLive
<1>0. ASSUME UNCHANGED <<userRoles, modelAccess>> PROVE GrantsLive
  BY <1>0 DEF GrantsLive
<1>1. ASSUME NEW c \in Connections, Step(c) PROVE GrantsLive
  <2>1. CASE UserStep(c) /\ UNCHANGED <<catalogVars, admissionVars>>
    BY <2>1, WritersGrantLiveRoles DEF catalogVars, admissionVars
  <2>2. CASE AdmissionStep(c) /\ UNCHANGED <<userVars, catalogVars>>
    BY <2>2, WritersGrantLiveModels DEF userVars, catalogVars
  <2>3. CASE StartStep(c) /\ UNCHANGED catalogVars
    BY <2>3, StartsGrantLiveModels DEF catalogVars
  <2>4. CASE AttemptStep(c) /\ UNCHANGED userVars
    BY <1>0, <2>4, AttemptIsElsewhere DEF userVars
  <2>5. CASE MaintenanceStep(c) /\ UNCHANGED admissionVars
    BY <1>0, <2>5 DEF MaintenanceStep, PlatformInitialized, ProvisionTenant, BeginRound,
                      ListingFails, ListTenants, ServeTenant, NextStage, userVars, admissionVars
  <2>6. CASE BeginRequest(c) \/ RollbackRequest(c)
    BY <1>0, <2>6 DEF BeginRequest, RollbackRequest, ForgetAdmission, userVars, admissionVars
  <2>7. CASE UNCHANGED <<userVars, admissionVars>>
    BY <1>0, <2>7 DEF userVars, admissionVars
  <2>8. QED
    BY <1>1, <2>1, <2>2, <2>3, <2>4, <2>5, <2>6, <2>7 DEF Step
<1>2. CASE Deploy \/ ObjectsChange \/ UNCHANGED vars
  BY <1>0, <1>2 DEF Deploy, DeployCipher, DeployCaps, ObjectsChange, vars, userVars,
                    admissionVars
<1>3. QED
  BY <1>1, <1>2 DEF Next

\* Nobody is given a role that is not ACTIVE or a model that has been deleted: the
\* roles are locked for writing, and the models for reading, from the check to the
\* commit.
THEOREM GrantedIsLive == Spec => GrantsAreLive
<1>1. TxInv /\ UsersInv /\ GrantsInv /\ [Next]_vars =>
        [\A u \in Users :
           /\ userRoles'[u] \subseteq userRoles[u] \cup ActiveRoles'
           /\ \A m \in modelAccess'[u] \ modelAccess[u] : models'[m] # Deleted]_vars
  BY StepsGrantWhatIsLive DEF GrantsLive
<1>2. QED
  BY <1>1, LocksExclude, UsersHold, GrantsHold, PTL DEF Spec, GrantsAreLive


-----------------------------------------------------------------------------
(* Tasks, and what a worker has read of them *)

\* What is added to a record leaves alone what it says already.
LEMMA AddedFields ==
  ASSUME NEW f, NEW g
  PROVE  /\ DOMAIN With(f, g) = DOMAIN f \cup DOMAIN g
         /\ \A x \in DOMAIN f : With(f, g)[x] = f[x]
         /\ \A x \in DOMAIN g \ DOMAIN f : With(f, g)[x] = g[x]
BY DEF With


\* A worker that has read a task, and its provider, knows both by the row.
ContextRead(c) ==
  step[c] \in {"task found", "provider found"} =>
    /\ task[Task(c)] \in TaskRecords
    /\ {"provider", "model"} \subseteq DOMAIN context[c]
    /\ context[c].provider = task[Task(c)].provider
    /\ context[c].model = task[Task(c)].model

KnowsTask(c) ==
  /\ step[c] \in ContextSteps \cup Executing => Kind(c) = "execute"
  /\ step[c] = "admitted" => plan[c] \in TaskRecords
  /\ ContextRead(c)

TasksInv ==
  /\ task \in [Tasks -> TaskRecords \cup {NoTask}]
  /\ plan = [c \in Connections |-> plan[c]]
  /\ context = [c \in Connections |-> context[c]]
  /\ \A c \in Connections : KnowsTask(c)

\* A task is never given another provider or another model.
TasksSteady ==
  /\ task' \in [Tasks -> TaskRecords \cup {NoTask}]
  /\ \A t \in Tasks : task[t] \in TaskRecords =>
       /\ task'[t] \in TaskRecords
       /\ task'[t].provider = task[t].provider /\ task'[t].model = task[t].model

\* What a connection has planned and read is left alone.
ReadSame(d) == plan'[d] = plan[d] /\ context'[d] = context[d]

LEMMA TaskRequestIsTyped ==
  ASSUME TxInv, NEW c \in Connections, Kind(c) \in {"createTask", "execute", "recoverTimedOut"}
  PROVE  Task(c) \in Tasks
<1>1. request[c] \in Requests
  BY RequestIsMade
<1>2. QED
  BY <1>1, AdmissionRequestsAssumption DEF Kind, Task

LEMMA OthersKeepTasks ==
  ASSUME TxInv, TasksInv, TasksSteady, NEW d \in Connections, TxSame(d), ReadSame(d)
  PROVE  KnowsTask(d)'
<1>1. KnowsTask(d)
  BY DEF TasksInv
<1>2. /\ request'[d] = request[d] /\ step'[d] = step[d] /\ Kind(d)' = Kind(d)
      /\ Task(d)' = Task(d) /\ plan'[d] = plan[d] /\ context'[d] = context[d]
  BY DEF TxSame, ReadSame, Kind, Task
<1>3. step[d] \in {"task found", "provider found"} => Task(d) \in Tasks
  BY <1>1, TaskRequestIsTyped DEF KnowsTask, ContextSteps
<1>4. ContextRead(d)'
  BY <1>1, <1>2, <1>3 DEF KnowsTask, ContextRead, TasksSteady
<1>5. QED
  BY <1>1, <1>2, <1>4 DEF KnowsTask

LEMMA TasksKeep ==
  ASSUME TxInv, TasksInv, TasksSteady, NEW c \in Connections, KnowsTask(c)',
         plan' = [e \in Connections |-> plan'[e]],
         context' = [e \in Connections |-> context'[e]],
         \A d \in Connections : d # c => TxSame(d) /\ ReadSame(d)
  PROVE  TasksInv'
<1>1. \A d \in Connections : d # c => KnowsTask(d)'
  BY OthersKeepTasks
<1>2. QED
  BY <1>1 DEF TasksInv, TasksSteady

\* Who is at no step of a task knows nothing of one.
LEMMA NoTaskIsKnown ==
  ASSUME NEW c \in Connections, step'[c] \notin AdmissionSteps \cup ContextSteps \cup Executing
  PROVE  KnowsTask(c)'
BY DEF KnowsTask, ContextRead, AdmissionSteps, ContextSteps

LEMMA SameTasksAreSteady ==
  ASSUME TasksInv, UNCHANGED task
  PROVE  TasksSteady
BY DEF TasksInv, TasksSteady

\* A change of the status, or of the number of attempts, leaves the rest alone.
LEMMA UpdatesAreSteady ==
  ASSUME TasksInv, NEW t \in Tasks, NEW row, task' = [task EXCEPT ![t] = row],
         task[t] = NoTask => row = NoTask,
         task[t] \in TaskRecords =>
           /\ row \in TaskRecords
           /\ row.provider = task[t].provider /\ row.model = task[t].model
  PROVE  TasksSteady
BY DEF TasksInv, TasksSteady

LEMMA StatusOfRecord ==
  ASSUME NEW row \in TaskRecords,
         NEW status \in {"QUEUED", "RUNNING", "SUCCEEDED", "FAILED", "TIMED_OUT"}
  PROVE  LET new == [row EXCEPT !.status = status] IN
         /\ new \in TaskRecords
         /\ new.provider = row.provider /\ new.model = row.model
BY DEF TaskRecords

LEMMA StatusOfNoTask == [NoTask EXCEPT !.status = "absent"] = NoTask /\ NoTask.status = "absent"
BY DEF NoTask

LEMMA FailsIsSteady ==
  ASSUME TasksInv, NEW t \in Tasks, Fails(t, {"QUEUED", "RUNNING"})
  PROVE  TasksSteady
<1> DEFINE status == IF task[t].status \in {"QUEUED", "RUNNING"} THEN "FAILED" ELSE task[t].status
           row == [task[t] EXCEPT !.status = status]
<1>1. task' = [task EXCEPT ![t] = row]
  BY DEF Fails
<1>2. ASSUME task[t] = NoTask PROVE row = NoTask
  BY <1>2, StatusOfNoTask
<1>3. ASSUME task[t] \in TaskRecords
      PROVE  row \in TaskRecords /\ row.provider = task[t].provider /\ row.model = task[t].model
  <2>1. status \in {"QUEUED", "RUNNING", "SUCCEEDED", "FAILED", "TIMED_OUT"}
    BY <1>3 DEF TaskRecords
  <2> HIDE DEF status
  <2>2. QED
    BY <1>3, <2>1, StatusOfRecord
<1> HIDE DEF row
<1>4. QED
  BY <1>1, <1>2, <1>3, UpdatesAreSteady

LEMMA BecomesIsSteady ==
  ASSUME TasksInv, NEW t \in Tasks, NEW to \in {"SUCCEEDED", "FAILED", "TIMED_OUT"}, Becomes(t, to)
  PROVE  TasksSteady
<1> DEFINE status == IF task[t].status = "RUNNING" THEN to ELSE task[t].status
           row == [task[t] EXCEPT !.status = status]
<1>1. task' = [task EXCEPT ![t] = row]
  BY DEF Becomes
<1>2. ASSUME task[t] = NoTask PROVE row = NoTask
  BY <1>2, StatusOfNoTask
<1>3. ASSUME task[t] \in TaskRecords
      PROVE  row \in TaskRecords /\ row.provider = task[t].provider /\ row.model = task[t].model
  <2>1. status \in {"QUEUED", "RUNNING", "SUCCEEDED", "FAILED", "TIMED_OUT"}
    BY <1>3 DEF TaskRecords
  <2> HIDE DEF status
  <2>2. QED
    BY <1>3, <2>1, StatusOfRecord
<1> HIDE DEF row
<1>4. QED
  BY <1>1, <1>2, <1>3, UpdatesAreSteady


LEMMA PlannedIsTyped ==
  ASSUME TxInv, CatalogInv, NEW c \in Connections, AdmitTask(c)
  PROVE  CreateInput(c) \in TaskRecords
<1> DEFINE p == Chosen(c).provider
           m == Chosen(c).model
           needs == CreateInput(c).needs
<1>1. request[c] \in Requests /\ Kind(c) = "createTask"
  BY RequestIsMade DEF AdmitTask
<1>2. p \in Providers /\ m \in Models
  <2>1. CASE Asks(c, "model")
    <3>1. request[c].provider \in Providers /\ request[c].model \in Models
      BY <1>1, <2>1, AdmissionRequestsAssumption DEF Asks, Kind
    <3>2. QED
      BY <2>1, <3>1 DEF Chosen
  <2>2. CASE ~ Asks(c, "model")
    <3>1. Chosen(c) = defaults /\ defaults # NoDefault
      BY <2>2 DEF AdmitTask, Chosen, LoadTaskDefaults
    <3>2. defaults \in [provider : Providers, model : Models]
      BY <3>1 DEF CatalogInv, CatalogTypeOK
    <3>3. QED
      BY <3>1, <3>2
  <2>3. QED
    BY <2>1, <2>2
<1>3. needs \subseteq Features
  <2>1. models[m] \in ModelRecords /\ models[m] # Deleted
    BY <1>2 DEF CatalogInv, CatalogTypeOK, AdmitTask, Usable
  <2>2. models[m].supports \subseteq Features
    BY <2>1 DEF ModelRecords
  <2>3. QED
    BY <2>2 DEF AdmitTask
<1>4. CreateInput(c) = [status |-> "QUEUED", attempt |-> 1, provider |-> p, model |-> m,
                        needs |-> needs]
  BY DEF CreateInput
<1> HIDE DEF p, m, needs
<1>5. QED
  BY <1>2, <1>3, <1>4 DEF TaskRecords

\* A move to a step at which nothing is known of tasks.
LEMMA ForeignMoveKeepsTasks ==
  ASSUME TxInv, TasksInv, TasksSteady, NEW c \in Connections, NEW from, NEW to,
         TxMove(c, from, to), to \cap (AdmissionSteps \cup ContextSteps \cup Executing) = {},
         plan' = [e \in Connections |-> plan'[e]],
         context' = [e \in Connections |-> context'[e]],
         \A d \in Connections : d # c => ReadSame(d)
  PROVE  TasksInv'
<1>1. \A d \in Connections : d # c => TxSame(d)
  BY MoveIsLocal
<1>2. (request'[c] = request[c] /\ step'[c] \in to) \/ TxIdle(c)'
  BY MoveGoesOn
<1>3. step'[c] \notin AdmissionSteps \cup ContextSteps \cup Executing
  BY <1>2 DEF TxIdle, AdmissionSteps, ContextSteps, Executing
<1>4. KnowsTask(c)'
  BY <1>3, NoTaskIsKnown
<1>5. QED
  BY <1>1, <1>4, TasksKeep

LEMMA AdmissionIsSteady ==
  ASSUME TxInv, TasksInv, NEW c \in Connections, AdmissionStep(c)
  PROVE  TasksSteady
<1>1. CASE UNCHANGED task
  BY <1>1, SameTasksAreSteady
<1>2. CASE CreateTask(c)
  <2>1. Task(c) \in Tasks /\ plan[c] \in TaskRecords /\ task[Task(c)] = NoTask
    BY <1>2, TaskRequestIsTyped DEF CreateTask, TasksInv, KnowsTask, Task
  <2>2. NoTask \notin TaskRecords
    BY DEF NoTask, TaskRecords
  <2>3. task' = [task EXCEPT ![Task(c)] = plan[c]]
    BY <1>2 DEF CreateTask, Task
  <2>4. QED
    BY <2>1, <2>2, <2>3 DEF TasksInv, TasksSteady
<1>3. CASE FailEligibleTask(c) \/ MarkDeadLettered(c)
  <2>1. Kind(c) = "execute"
    BY <1>3 DEF FailEligibleTask, MarkDeadLettered, TasksInv, KnowsTask, ContextSteps
  <2>2. Task(c) \in Tasks
    BY <2>1, TaskRequestIsTyped
  <2>3. Fails(Task(c), {"QUEUED", "RUNNING"})
    BY <1>3 DEF FailEligibleTask, MarkDeadLettered, Task
  <2>4. QED
    BY <2>2, <2>3, FailsIsSteady
<1>4. QED
  BY <1>1, <1>2, <1>3 DEF AdmissionStep, FindGrantee, ModelsByIDs, ReplaceUserModelAccess,
       Authenticate, AdmitTask, FindTask, FindTaskProvider, FindTaskModel, admissionVars

LEMMA AdmissionReads ==
  ASSUME TxInv, TasksInv, NEW c \in Connections, AdmissionStep(c)
  PROVE  /\ plan' = [e \in Connections |-> plan'[e]]
         /\ context' = [e \in Connections |-> context'[e]]
         /\ \A d \in Connections : d # c => ReadSame(d)
         /\ \A d \in Connections : d # c => TxSame(d)
<1>1. \A d \in Connections : d # c => TxSame(d)
  BY AdmissionMove, MoveIsLocal
<1>2. /\ plan = [e \in Connections |-> plan[e]]
      /\ context = [e \in Connections |-> context[e]]
  BY DEF TasksInv
<1>3. QED
  BY <1>1, <1>2 DEF ReadSame, AdmissionStep, FindGrantee, ModelsByIDs, ReplaceUserModelAccess,
       Authenticate, AdmitTask, CreateTask, FindTask, FindTaskProvider, FindTaskModel,
       FailEligibleTask, MarkDeadLettered, admissionVars

LEMMA AdmissionStepKeepsTasks ==
  ASSUME TxInv, CatalogInv, TasksInv, NEW c \in Connections, AdmissionStep(c)
  PROVE  TasksInv'
<1>0. /\ step = [e \in Connections |-> step[e]]
      /\ plan = [e \in Connections |-> plan[e]]
      /\ context = [e \in Connections |-> context[e]]
      /\ task \in [Tasks -> TaskRecords \cup {NoTask}]
      /\ KnowsTask(c)
  BY DEF TxInv, TasksInv
<1>1. SUFFICES KnowsTask(c)'
  BY AdmissionIsSteady, AdmissionReads, TasksKeep
<1>2. CASE End(c) \/ FindGrantee(c) \/ ModelsByIDs(c) \/ Authenticate(c)
  <2>1. step'[c] \in {"idle", "found grantee", "found models", "authenticated"}
    BY <1>0, <1>2 DEF End, FindGrantee, ModelsByIDs, Authenticate, Read, ReadShared
  <2>2. QED
    BY <2>1 DEF KnowsTask, ContextRead, ContextSteps, Executing
<1>3. CASE AdmitTask(c)
  <2>1. step'[c] = "admitted" /\ plan'[c] = CreateInput(c)
    BY <1>0, <1>3 DEF AdmitTask, Read
  <2>2. plan'[c] \in TaskRecords
    BY <1>3, <2>1, PlannedIsTyped
  <2>3. QED
    BY <2>1, <2>2 DEF KnowsTask, ContextRead, ContextSteps, Executing
<1>4. CASE FindTask(c)
  <2>1. /\ step'[c] = "task found" /\ Kind(c)' = "execute" /\ Task(c)' = Task(c)
        /\ context'[c] = task[Task(c)] /\ task' = task
    BY <1>0, <1>4 DEF FindTask, Read, Kind, Task
  <2>2. Task(c) \in Tasks
    BY <1>4, TaskRequestIsTyped DEF FindTask
  <2>3. task[Task(c)] \in TaskRecords
    <3>1. task[Task(c)] \in TaskRecords \cup {NoTask} /\ task[Task(c)].status = "QUEUED"
      BY <1>0, <1>4, <2>2 DEF FindTask, Task
    <3>2. QED
      BY <3>1, StatusOfNoTask
  <2>4. {"provider", "model"} \subseteq DOMAIN task[Task(c)]
    BY <2>3 DEF TaskRecords
  <2>5. QED
    BY <2>1, <2>3, <2>4 DEF KnowsTask, ContextRead
<1>5. CASE FindTaskProvider(c)
  <2> DEFINE next == [enabled |-> providers[context[c].provider] = "ENABLED",
                      key |-> apiKey[context[c].provider]]
             t == Task(c)
  <2>1. /\ step[c] = "task found" /\ step'[c] = "provider found"
        /\ Kind(c)' = Kind(c) /\ Task(c)' = t
        /\ context'[c] = With(context[c], next) /\ task' = task
    BY <1>0, <1>5 DEF FindTaskProvider, Read, Kind, Task
  <2>2. /\ task[t] \in TaskRecords
        /\ {"provider", "model"} \subseteq DOMAIN context[c]
        /\ context[c].provider = task[t].provider
        /\ context[c].model = task[t].model
        /\ Kind(c) = "execute"
    BY <1>0, <2>1 DEF KnowsTask, ContextRead, ContextSteps
  <2>3. /\ {"provider", "model"} \subseteq DOMAIN context'[c]
        /\ context'[c].provider = context[c].provider
        /\ context'[c].model = context[c].model
    <3> HIDE DEF next
    <3>1. /\ DOMAIN With(context[c], next) = DOMAIN context[c] \cup DOMAIN next
          /\ \A x \in DOMAIN context[c] : With(context[c], next)[x] = context[c][x]
      BY AddedFields
    <3>2. QED
      BY <2>1, <2>2, <3>1
  <2>4. QED
    BY <2>1, <2>2, <2>3 DEF KnowsTask, ContextRead
<1>6. CASE FindTaskModel(c)
  <2>1. /\ step[c] = "provider found" /\ step'[c] = "validated context" /\ Kind(c)' = Kind(c)
    BY <1>0, <1>6 DEF FindTaskModel, Read, Kind
  <2>2. Kind(c) = "execute"
    BY <1>0, <2>1 DEF KnowsTask, ContextSteps
  <2>3. QED
    BY <2>1, <2>2 DEF KnowsTask, ContextRead
<1>7. QED
  BY <1>2, <1>3, <1>4, <1>5, <1>6 DEF AdmissionStep, ReplaceUserModelAccess, CreateTask,
       FailEligibleTask, MarkDeadLettered, Commit


-----------------------------------------------------------------------------
(* Executions, and the tasks they are about *)

\* Only the recovery of a task begins where an execution goes on.
LEMMA AttemptGoesOn ==
  ASSUME NEW c \in Connections, AttemptStep(c)
  PROVE  \/ step[c] \in {"validated context"} \cup Executing
         \/ RecoverTimedOut(c)
BY DEF AttemptStep, Interrupt, ClaimRunning, BaseURLInvalid, CredentialUnavailable,
       InputsUnavailable, BeginAttempt, CallProvider, AdapterStep, InvalidRequest, TransportFails,
       HTTPFails, ResponseTooLarge, BeginReading, DecodeImage, BodyFails, EndOfBody,
       GeminiBodyFails, ParseGemini, Called, Speaks, FinalizeAttempt, EndInterrupted, EndFailed,
       PersistSuccessfulResult, OutputInvalid, CostOverflows, EndUnpersisted, CompleteTask,
       Executing

LEMMA ExecutedTaskIsThere ==
  ASSUME TxInv, TasksInv, NEW c \in Connections, AttemptStep(c)
  PROVE  Task(c) \in Tasks
<1>1. step[c] \in ContextSteps \cup Executing => Kind(c) = "execute"
  BY DEF TasksInv, KnowsTask
<1>2. Kind(c) \in {"execute", "recoverTimedOut"}
  BY <1>1, AttemptGoesOn DEF ContextSteps, RecoverTimedOut
<1>3. QED
  BY <1>2, TaskRequestIsTyped

LEMMA RetryIsSteady ==
  ASSUME TasksInv, NEW t \in Tasks,
         task' = [task EXCEPT ![t] = IF @.status = "RUNNING" THEN Requeued(@) ELSE @]
  PROVE  TasksSteady
<1> DEFINE new == Requeued(task[t])
           row == IF task[t].status = "RUNNING" THEN new ELSE task[t]
<1>1. task' = [task EXCEPT ![t] = row]
  OBVIOUS
<1>2. task[t] = NoTask => row = NoTask
  BY StatusOfNoTask
<1>3. ASSUME task[t] \in TaskRecords
      PROVE  row \in TaskRecords /\ row.provider = task[t].provider /\ row.model = task[t].model
  <2> DEFINE half == [task[t] EXCEPT !.status = "QUEUED"]
  <2>1. /\ half \in TaskRecords
        /\ half.provider = task[t].provider /\ half.model = task[t].model
    BY <1>3, StatusOfRecord
  <2>2. new = [half EXCEPT !.attempt = task[t].attempt + 1]
    BY DEF Requeued
  <2>3. task[t].attempt + 1 \in Nat
    BY <1>3 DEF TaskRecords
  <2> HIDE DEF half, new
  <2>4. new \in TaskRecords /\ new.provider = task[t].provider /\ new.model = task[t].model
    BY <2>1, <2>2, <2>3 DEF TaskRecords
  <2>5. QED
    BY <1>3, <2>4
<1> HIDE DEF row
<1>4. QED
  BY <1>1, <1>2, <1>3, UpdatesAreSteady

LEMMA ClaimIsSteady ==
  ASSUME TasksInv, NEW t \in Tasks, task[t].status = "QUEUED",
         task' = [task EXCEPT ![t].status = "RUNNING"]
  PROVE  TasksSteady
<1> DEFINE row == [task[t] EXCEPT !.status = "RUNNING"]
<1>1. task[t] # NoTask /\ task' = [task EXCEPT ![t] = row]
  BY StatusOfNoTask
<1>2. task[t] \in TaskRecords =>
        row \in TaskRecords /\ row.provider = task[t].provider /\ row.model = task[t].model
  BY StatusOfRecord
<1> HIDE DEF row
<1>3. QED
  BY <1>1, <1>2, UpdatesAreSteady

LEMMA AttemptIsSteady ==
  ASSUME TxInv, TasksInv, NEW c \in Connections, AttemptStep(c), cut[c] \in Endings \cup {"no"}
  PROVE  TasksSteady
<1>0. Task(c) \in Tasks
  BY ExecutedTaskIsThere
<1>1. CASE UNCHANGED task
  BY <1>1, SameTasksAreSteady
<1>2. CASE ClaimRunning(c)
  BY <1>0, <1>1, <1>2, ClaimIsSteady DEF ClaimRunning
<1>3. CASE EndInterrupted(c)
  <2>1. \/ UNCHANGED task
        \/ Becomes(Task(c), "FAILED")
        \/ Becomes(Task(c), "TIMED_OUT")
    BY <1>3 DEF EndInterrupted, Endings
  <2>2. QED
    BY <1>0, <1>1, <2>1, BecomesIsSteady
<1>4. CASE EndFailed(c)
  <2>1. CASE answer[c] = "retryable" /\ task[Task(c)].attempt < MaxAttempts
    <3>1. task' = [task EXCEPT ![Task(c)] =
                     IF @.status = "RUNNING" THEN Requeued(@) ELSE @]
      BY <1>4, <2>1 DEF EndFailed
    <3>2. QED
      BY <1>0, <3>1, RetryIsSteady
  <2>2. CASE ~ (answer[c] = "retryable" /\ task[Task(c)].attempt < MaxAttempts)
    <3>1. Becomes(Task(c), "FAILED")
      BY <1>4, <2>2 DEF EndFailed
    <3>2. QED
      BY <1>0, <3>1, BecomesIsSteady
  <2>3. QED
    BY <2>1, <2>2
<1>5. CASE EndUnpersisted(c) \/ CompleteTask(c) \/ RecoverTimedOut(c)
  <2>1. \E to \in {"SUCCEEDED", "FAILED", "TIMED_OUT"} : Becomes(Task(c), to)
    BY <1>5 DEF EndUnpersisted, CompleteTask, RecoverTimedOut
  <2>2. QED
    BY <1>0, <2>1, BecomesIsSteady
<1>6. CASE CallProvider(c)
  <2>1. UNCHANGED task
    BY <1>6 DEF CallProvider, AdapterStep, InvalidRequest, TransportFails,
       HTTPFails, ResponseTooLarge, BeginReading, DecodeImage, BodyFails, EndOfBody,
       GeminiBodyFails, ParseGemini, admissionVars
  <2>2. QED
    BY <1>1, <2>1
<1>7. CASE BeginAttempt(c)
  BY <1>1, <1>7 DEF BeginAttempt, admissionVars
<1>8. QED
  BY <1>1, <1>2, <1>3, <1>4, <1>5, <1>6, <1>7 DEF AttemptStep, Interrupt, BaseURLInvalid,
     CredentialUnavailable, InputsUnavailable, FinalizeAttempt, PersistSuccessfulResult,
     OutputInvalid, CostOverflows, admissionVars

LEMMA AttemptReads ==
  ASSUME TxInv, TasksInv, NEW c \in Connections, AttemptStep(c)
  PROVE  /\ plan' = [e \in Connections |-> plan'[e]]
         /\ context' = [e \in Connections |-> context'[e]]
         /\ \A d \in Connections : d # c => ReadSame(d)
         /\ \A d \in Connections : d # c => TxSame(d)
<1>1. ASSUME NEW d \in Connections, d # c PROVE TxSame(d)
  <2>1. CASE UNCHANGED txVars
    BY <2>1, StutterKeepsTx
  <2>2. QED
    BY <1>1, <2>1, AttemptMove, MoveIsLocal
<1>2. /\ plan = [e \in Connections |-> plan[e]]
      /\ context = [e \in Connections |-> context[e]]
  BY DEF TasksInv
<1>3. plan' = plan
  BY AttemptIsElsewhere
<1>4. \/ context' = context
      \/ \E read : context' = [context EXCEPT ![c] = read]
  <2>1. CASE BeginAttempt(c)
    BY <2>1 DEF BeginAttempt, admissionVars
  <2>2. CASE CallProvider(c)
    BY <2>2 DEF CallProvider, AdapterStep, InvalidRequest, TransportFails,
       HTTPFails, ResponseTooLarge, BeginReading, DecodeImage, BodyFails, EndOfBody,
       GeminiBodyFails, ParseGemini, admissionVars
  <2>3. CASE Leave(c)
    BY <2>3 DEF Leave
  <2>4. QED
    BY <2>1, <2>2, <2>3 DEF AttemptStep, Interrupt, ClaimRunning, BaseURLInvalid,
       CredentialUnavailable, InputsUnavailable, FinalizeAttempt, EndInterrupted, EndFailed,
       PersistSuccessfulResult, OutputInvalid, CostOverflows, EndUnpersisted, CompleteTask,
       RecoverTimedOut, admissionVars
<1>5. QED
  BY <1>1, <1>2, <1>3, <1>4 DEF ReadSame

\* What leaves an execution at its step is the end of its context, or an image
\* that is read.
LEMMA AttemptKeepsStep ==
  ASSUME TxInv, NEW c \in Connections, AttemptStep(c), UNCHANGED txVars
  PROVE  step[c] \in Executing
<1>1. step = [e \in Connections |-> step[e]]
  BY DEF TxInv
<1>2. CASE Interrupt(c)
  BY <1>2 DEF Interrupt
<1>3. CASE ~ Interrupt(c)
  <2>1. CASE ClaimRunning(c) \/ RecoverTimedOut(c)
    BY <1>1, <2>1 DEF ClaimRunning, RecoverTimedOut, Leave, End, Read, txVars
  <2>2. CASE CallProvider(c)
    BY <2>2 DEF CallProvider, AdapterStep, InvalidRequest, TransportFails, HTTPFails,
       ResponseTooLarge, BeginReading, DecodeImage, BodyFails, EndOfBody, GeminiBodyFails,
       ParseGemini, Speaks, Executing
  <2>3. QED
    BY <1>3, <2>1, <2>2 DEF AttemptStep, BaseURLInvalid, CredentialUnavailable,
       InputsUnavailable, BeginAttempt, FinalizeAttempt, EndInterrupted, EndFailed,
       PersistSuccessfulResult, OutputInvalid, CostOverflows, EndUnpersisted, CompleteTask,
       Executing
<1>4. QED
  BY <1>2, <1>3

LEMMA AttemptStepKeepsTasks ==
  ASSUME TxInv, TasksInv, NEW c \in Connections, AttemptStep(c), cut[c] \in Endings \cup {"no"}
  PROVE  TasksInv'
<1>1. SUFFICES KnowsTask(c)'
  BY AttemptIsSteady, AttemptReads, TasksKeep
<1>2. step[c] \in ContextSteps \cup Executing => Kind(c) = "execute"
  BY DEF TasksInv, KnowsTask
<1>3. CASE RecoverTimedOut(c)
  <2>1. TxMove(c, {step[c]}, {})
    BY <1>3 DEF RecoverTimedOut, Leave, TxMove
  <2>2. step'[c] = "idle"
    BY <2>1, MoveGoesOn DEF TxIdle
  <2>3. QED
    BY <2>2, NoTaskIsKnown DEF AdmissionSteps, ContextSteps, Executing
<1>4. CASE Kind(c) = "execute"
  <2>1. \/ step'[c] \in Executing /\ Kind(c)' = "execute"
        \/ step'[c] = "idle"
    <3>1. CASE UNCHANGED txVars
      BY <1>4, <3>1, AttemptKeepsStep DEF txVars, Kind
    <3>2. CASE TxMove(c, {"begun", "validated context"} \cup Executing, Executing)
      BY <1>4, <3>2, MoveGoesOn DEF TxIdle, Kind
    <3>3. QED
      BY <3>1, <3>2, AttemptMove
  <2>2. QED
    BY <2>1 DEF KnowsTask, ContextRead, ContextSteps, Executing
<1>5. QED
  BY <1>2, <1>3, <1>4, AttemptGoesOn DEF ContextSteps


-----------------------------------------------------------------------------
(* Every step, seen from the tasks and their executions *)

TaskSteps == AdmissionSteps \cup ContextSteps \cup Executing

\* The steps of all that are neither admission nor execution.
Elsewhere(c) ==
  \/ Begin(c, Admitted)
  \/ \E from, to : TxMove(c, from, to) /\ (from \cup to) \cap TaskSteps = {}

ExecutionSame == UNCHANGED <<task, plan, context, attemptVars>>

LEMMA StepOfTask ==
  ASSUME NEW c \in Connections, Step(c)
  PROVE  \/ Elsewhere(c) /\ ExecutionSame
         \/ RollbackRequest(c)
         \/ AdmissionStep(c) /\ UNCHANGED <<catalogVars, attemptVars>>
         \/ AttemptStep(c) /\ UNCHANGED catalogVars
<1> USE DEF TaskSteps, AdmissionSteps, ContextSteps, Executing
<1>0. ASSUME NEW from, NEW to, TxMove(c, from, to), (from \cup to) \cap TaskSteps = {}
      PROVE  Elsewhere(c)
  BY <1>0 DEF Elsewhere
<1>1. CASE BeginRequest(c)
  BY <1>1 DEF BeginRequest, Elsewhere, ExecutionSame, admissionVars
<1>2. CASE UserStep(c) /\ UNCHANGED <<admissionVars, attemptVars>>
  BY <1>0, <1>2, UserMove DEF UserSteps, ExecutionSame, admissionVars
<1>3. CASE CatalogStep(c) /\ UNCHANGED <<admissionVars, attemptVars>>
  BY <1>0, <1>3, CatalogMove DEF CatalogSteps, ExecutionSame, admissionVars
<1>4. CASE MemberStep(c) /\ UNCHANGED <<admissionVars, attemptVars>>
  BY <1>0, <1>4, MemberMove DEF MemberSteps, ExecutionSame, admissionVars
<1>5. CASE SettingStep(c) /\ UNCHANGED <<admissionVars, attemptVars>>
  BY <1>0, <1>5, SettingMove DEF SettingSteps, ExecutionSame, admissionVars
<1>6. CASE StartStep(c) /\ UNCHANGED attemptVars
  <2>1. UNCHANGED <<task, plan, context>>
    BY <1>6 DEF StartStep, AcquireMigrationLock, MigrationApplied, ExecuteMigrationStatement,
       RecordMigration, VerifyMigrationSchema, ReleaseMigrationLock, VerifyWorkerReadiness,
       FindRolePermissions, SeedBuiltInRoles, admissionVars
  <2>2. QED
    BY <1>0, <1>6, <2>1, StartMove DEF StartSteps, ExecutionSame
<1>7. CASE MaintenanceStep(c) /\ UNCHANGED <<admissionVars, attemptVars>>
  BY <1>0, <1>7, MaintenanceMove DEF MaintenanceSteps, ExecutionSame, admissionVars
<1>8. CASE ScanStep(c) /\ UNCHANGED <<admissionVars, attemptVars>>
  BY <1>0, <1>8, ScanMove DEF ScanSteps, ExecutionSame, admissionVars
<1>9. QED
  BY <1>1, <1>2, <1>3, <1>4, <1>5, <1>6, <1>7, <1>8 DEF Step

LEMMA OthersOfTask ==
  ASSUME [Next]_vars, \A c \in Connections : ~ Step(c)
  PROVE  UNCHANGED txVars /\ ExecutionSame
BY DEF Next, Deploy, DeployCipher, DeployCaps, ObjectsChange, vars, ExecutionSame, admissionVars

\* Elsewhere one is at no step of a task and comes to none, and others stay where
\* they are.
LEMMA ElsewhereIsElsewhere ==
  ASSUME TxInv, NEW c \in Connections, Elsewhere(c)
  PROVE  /\ step[c] \notin TaskSteps /\ step'[c] \notin TaskSteps
         /\ \A d \in Connections : d # c => TxSame(d)
<1> USE DEF TaskSteps, AdmissionSteps, ContextSteps, Executing
<1>1. CASE Begin(c, Admitted)
  BY <1>1, BeginKeepsTx DEF Begin
<1>2. ASSUME NEW from, NEW to, TxMove(c, from, to), (from \cup to) \cap TaskSteps = {}
      PROVE  /\ step[c] \notin TaskSteps /\ step'[c] \notin TaskSteps
             /\ \A d \in Connections : d # c => TxSame(d)
  <2>1. \A d \in Connections : d # c => TxSame(d)
    BY <1>2, MoveIsLocal
  <2>2. step'[c] \in to \/ step'[c] = "idle"
    BY <1>2, MoveGoesOn DEF TxIdle
  <2>3. QED
    BY <1>2, <2>1, <2>2 DEF TxMove
<1>3. QED
  BY <1>1, <1>2 DEF Elsewhere

LEMMA RollbackOfTask ==
  ASSUME TxInv, NEW c \in Connections, RollbackRequest(c)
  PROVE  step'[c] \notin TaskSteps /\ \A d \in Connections : d # c => TxSame(d)
<1>1. step[c] # "idle" /\ End(c)
  BY DEF RollbackRequest, Rollback
<1>2. TxIdle(c)' /\ \A d \in Connections : d # c => TxSame(d)
  BY <1>1, EndKeepsTx
<1>3. QED
  BY <1>2 DEF TxIdle, TaskSteps, AdmissionSteps, ContextSteps, Executing

\* Why the context of an execution has ended, if it has.
CutInv == cut \in [Connections -> Endings \cup {"no"}]

LEMMA CutHolds == Spec => []CutInv
<1>1. Init => CutInv
  BY DEF Init, AttemptsInit, CutInv
<1>2. ASSUME CutInv, [Next]_vars PROVE CutInv'
  <2>1. ASSUME UNCHANGED cut PROVE CutInv'
    BY <1>2, <2>1 DEF CutInv
  <2>2. ASSUME NEW c \in Connections, cut' = [cut EXCEPT ![c] = "no"] PROVE CutInv'
    BY <1>2, <2>2 DEF CutInv
  <2>3. ASSUME NEW c \in Connections, AttemptStep(c) PROVE CutInv'
    <3>1. CASE Interrupt(c)
      BY <1>2, <3>1 DEF Interrupt, CutInv
    <3>2. CASE Leave(c)
      BY <2>2, <3>2 DEF Leave
    <3>3. CASE UNCHANGED cut
      BY <2>1, <3>3
    <3>4. CASE CallProvider(c)
      BY <2>1, <3>4 DEF CallProvider
    <3>5. QED
      BY <2>3, <3>1, <3>2, <3>3, <3>4
         DEF AttemptStep, ClaimRunning, BaseURLInvalid, CredentialUnavailable, InputsUnavailable,
             BeginAttempt, FinalizeAttempt, EndInterrupted, EndFailed, PersistSuccessfulResult,
             OutputInvalid, CostOverflows, EndUnpersisted, CompleteTask, RecoverTimedOut,
             attemptVars
  <2>4. ASSUME NEW c \in Connections, Step(c) PROVE CutInv'
    BY <2>1, <2>2, <2>3, <2>4, StepOfTask
       DEF ExecutionSame, RollbackRequest, ForgetAttempt, attemptVars
  <2>5. QED
    BY <1>2, <2>1, <2>4, OthersOfTask DEF ExecutionSame, attemptVars
<1>3. QED
  BY <1>1, <1>2, PTL DEF Spec

LEMMA StepKeepsTasks ==
  ASSUME TxInv, CatalogInv, CutInv, TasksInv, [Next]_vars
  PROVE  TasksInv'
<1>0. /\ plan = [e \in Connections |-> plan[e]]
      /\ context = [e \in Connections |-> context[e]]
      /\ TaskSteps = AdmissionSteps \cup ContextSteps \cup Executing
  BY DEF TasksInv, TaskSteps
<1>1. ASSUME NEW c \in Connections, Step(c) PROVE TasksInv'
  <2>1. CASE Elsewhere(c) /\ ExecutionSame
    <3>1. /\ TasksSteady
          /\ plan' = [e \in Connections |-> plan'[e]]
          /\ context' = [e \in Connections |-> context'[e]]
          /\ \A d \in Connections : d # c => ReadSame(d)
      BY <1>0, <2>1, SameTasksAreSteady DEF ExecutionSame, ReadSame
    <3>2. step'[c] \notin TaskSteps /\ \A d \in Connections : d # c => TxSame(d)
      BY <2>1, ElsewhereIsElsewhere
    <3>3. KnowsTask(c)'
      BY <1>0, <3>2, NoTaskIsKnown
    <3>4. QED
      BY <3>1, <3>2, <3>3, TasksKeep
  <2>2. CASE RollbackRequest(c)
    <3>1. /\ TasksSteady
          /\ plan' = [e \in Connections |-> plan'[e]]
          /\ context' = [e \in Connections |-> context'[e]]
          /\ \A d \in Connections : d # c => ReadSame(d)
      BY <1>0, <2>2, SameTasksAreSteady DEF RollbackRequest, ForgetAdmission, ReadSame
    <3>2. step'[c] \notin TaskSteps /\ \A d \in Connections : d # c => TxSame(d)
      BY <2>2, RollbackOfTask
    <3>3. KnowsTask(c)'
      BY <1>0, <3>2, NoTaskIsKnown
    <3>4. QED
      BY <3>1, <3>2, <3>3, TasksKeep
  <2>3. CASE AdmissionStep(c)
    BY <2>3, AdmissionStepKeepsTasks
  <2>4. CASE AttemptStep(c)
    BY <2>4, AttemptStepKeepsTasks DEF CutInv
  <2>5. QED
    BY <1>1, <2>1, <2>2, <2>3, <2>4, StepOfTask
<1>2. CASE \A c \in Connections : ~ Step(c)
  <2>1. UNCHANGED txVars /\ ExecutionSame
    BY <1>2, OthersOfTask
  <2>2. TasksSteady
    BY <2>1, SameTasksAreSteady DEF ExecutionSame
  <2>3. \A d \in Connections : TxSame(d) /\ ReadSame(d)
    BY <2>1, StutterKeepsTx DEF ReadSame, ExecutionSame
  <2>4. \A d \in Connections : KnowsTask(d)'
    BY <2>2, <2>3, OthersKeepTasks
  <2>5. QED
    BY <1>0, <2>1, <2>4 DEF TasksInv, ExecutionSame
<1>3. QED
  BY <1>1, <1>2

LEMMA TasksBegin == Init => TasksInv
<1> SUFFICES ASSUME Init PROVE TasksInv
  OBVIOUS
<1>1. PICK empty \in BOOLEAN : AdmissionInit(empty)
  BY DEF Init
<1>2. \A c \in Connections : step[c] = "idle"
  BY DEF Init, TxInit
<1>3. \A c \in Connections : KnowsTask(c)
  BY <1>2 DEF KnowsTask, ContextRead, ContextSteps, Executing
<1>4. task \in [Tasks -> TaskRecords \cup {NoTask}]
  BY <1>1, AdmissionAssumption DEF AdmissionInit
<1>5. QED
  BY <1>1, <1>3, <1>4 DEF TasksInv, AdmissionInit

LEMMA TasksHold == Spec => []TasksInv
BY TasksBegin, StepKeepsTasks, LocksExclude, CatalogHolds, CutHolds, PTL DEF Spec

\* A context that passes is usable.
ContextUsable(c) ==
  step[c] # "validated context" /\ step'[c] = "validated context" =>
    LET t == task[request[c].task] IN
    /\ providers[t.provider] = "ENABLED"
    /\ models[t.model].status = "ENABLED" /\ models[t.model].provider = t.provider

LEMMA PassedContextIsUsable ==
  ASSUME TxInv, CatalogInv, TasksInv, NEW c \in Connections, FindTaskModel(c)
  PROVE  ContextUsable(c)
<1> DEFINE t == task[Task(c)]
           m == models[t.model]
<1>1. /\ t \in TaskRecords
      /\ context[c].provider = t.provider /\ context[c].model = t.model
  BY DEF FindTaskModel, TasksInv, KnowsTask, ContextRead
<1>2. m # Deleted /\ m.status = "ENABLED" /\ m.provider = t.provider
  BY <1>1 DEF FindTaskModel, Fits
<1>3. t.model \in Models
  BY <1>1 DEF TaskRecords
<1>4. providers[m.provider] = "ENABLED"
  BY <1>2, <1>3 DEF CatalogInv, ModelsHaveProviders
<1>5. QED
  BY <1>2, <1>4 DEF ContextUsable, Task

LEMMA StepsPassUsableContexts ==
  ASSUME TxInv, CatalogInv, TasksInv, [Next]_vars, NEW c \in Connections
  PROVE  ContextUsable(c)
<1>1. CASE step'[c] = step[c]
  BY <1>1 DEF ContextUsable
<1>2. ASSUME NEW d \in Connections, Step(d) PROVE ContextUsable(c)
  <2>1. \/ d # c /\ TxSame(c)
        \/ d = c /\ step'[c] \notin ContextSteps
        \/ d = c /\ AdmissionStep(c)
    <3>1. CASE AdmissionStep(d)
      BY <3>1, AdmissionReads
    <3>2. CASE AttemptStep(d)
      <4>1. \A e \in Connections : e # d => TxSame(e)
        BY <3>2, AttemptReads
      <4>2. UNCHANGED txVars \/ step'[d] \in Executing \cup {"idle"}
        BY <3>2, AttemptMove, MoveGoesOn DEF TxIdle
      <4>3. UNCHANGED txVars => step'[d] \in Executing
        BY <3>2, AttemptKeepsStep DEF txVars
      <4>4. Executing \cap ContextSteps = {} /\ "idle" \notin ContextSteps
        BY DEF Executing, ContextSteps
      <4>5. QED
        BY <4>1, <4>2, <4>3, <4>4
    <3>3. CASE RollbackRequest(d) \/ Elsewhere(d)
      BY <3>3, RollbackOfTask, ElsewhereIsElsewhere DEF TaskSteps
    <3>4. QED
      BY <1>2, <3>1, <3>2, <3>3, StepOfTask
  <2>2. CASE AdmissionStep(c)
    <3>1. step = [e \in Connections |-> step[e]]
      BY DEF TxInv
    <3>2. CASE FindTaskModel(c)
      BY <3>2, PassedContextIsUsable
    <3>3. CASE ~ FindTaskModel(c)
      <4>1. step'[c] # "validated context"
        BY <2>2, <3>1, <3>3 DEF AdmissionStep, FindGrantee, ModelsByIDs, ReplaceUserModelAccess,
           Authenticate, AdmitTask, CreateTask, FindTask, FindTaskProvider, FailEligibleTask,
           MarkDeadLettered, Read, ReadShared, Commit, End
      <4>2. QED
        BY <4>1 DEF ContextUsable
    <3>4. QED
      BY <3>2, <3>3
  <2>3. QED
    BY <1>1, <2>1, <2>2 DEF TxSame, ContextSteps, ContextUsable
<1>3. CASE \A d \in Connections : ~ Step(d)
  BY <1>1, <1>3, OthersOfTask DEF txVars
<1>4. QED
  BY <1>2, <1>3

\* A context that passes has a provider and a model that are ENABLED at that moment,
\* though the provider was read earlier and nothing is locked: the model that is
\* read last is ENABLED, and so is the provider of such a model, at any time.
THEOREM ContextsAreUsable == Spec => ValidatedContextIsUsable
<1>1. TxInv /\ CatalogInv /\ TasksInv /\ [Next]_vars =>
        [\A c \in Connections :
           step[c] # "validated context" /\ step'[c] = "validated context" =>
             LET t == task[request[c].task] IN
             /\ providers[t.provider] = "ENABLED"
             /\ models[t.model].status = "ENABLED" /\ models[t.model].provider = t.provider]_vars
  BY StepsPassUsableContexts DEF ContextUsable
<1>2. QED
  BY <1>1, LocksExclude, CatalogHolds, TasksHold, PTL DEF Spec, ValidatedContextIsUsable


-----------------------------------------------------------------------------
(* The ledger of the calls *)

Calling == {"attempting", "reading", "called"}
RowStates == {"ATTEMPTING", "SUCCESS", "FAILURE", "TIMEOUT", "CANCELLED"}

\* A row of the ledger is there with what it says.
RowSays(t, i, status) == i \in 1 .. Len(ledger[t]) /\ ledger[t][i] = status

\* A worker has no row before its call, one that is ATTEMPTING during the call, and
\* one that is SUCCESS when it has outputs to store.
KnowsRow(c) ==
  /\ step[c] \in ContextSteps \cup {"running"} => "row" \notin DOMAIN context[c]
  /\ step[c] \in Calling => RowSays(Task(c), context[c].row, "ATTEMPTING")
  /\ step[c] = "answered" /\ cut[c] = "no" /\ answer[c] = "success" =>
       RowSays(Task(c), context[c].row, "SUCCESS")

\* Two calls have two rows.
OwnRows(c, d) ==
  step[c] \in Calling /\ step[d] \in Calling /\ Task(c) = Task(d) =>
    context[c].row # context[d].row

StoredIsLedgered == \A t \in Tasks : stored[t] # 0 => RowSays(t, stored[t], "SUCCESS")

LedgerInv ==
  /\ ledger \in [Tasks -> Seq(RowStates)]
  /\ stored = [t \in Tasks |-> stored[t]]
  /\ answer = [c \in Connections |-> answer[c]]
  /\ StoredIsLedgered
  /\ \A c \in Connections : KnowsRow(c)
  /\ \A c, d \in Connections : c # d => OwnRows(c, d)

\* Rows are added, and one's own is finalized: none that is final, none of others.
LedgerKept(c) ==
  /\ ledger' \in [Tasks -> Seq(RowStates)]
  /\ \A t \in Tasks : \A i \in 1 .. Len(ledger[t]) :
       /\ i \in 1 .. Len(ledger'[t])
       /\ ledger[t][i] # "ATTEMPTING" => ledger'[t][i] = ledger[t][i]
       /\ \A d \in Connections \ {c} :
            step[d] \in Calling /\ t = Task(d) /\ i = context[d].row =>
              ledger'[t][i] = ledger[t][i]

\* What a connection knows of its call is left alone.
CallSame(d) == TxSame(d) /\ ReadSame(d) /\ cut'[d] = cut[d] /\ answer'[d] = answer[d]

LEMMA RowsStay ==
  ASSUME NEW c \in Connections, LedgerKept(c), NEW t \in Tasks, NEW i, RowSays(t, i, "SUCCESS")
  PROVE  RowSays(t, i, "SUCCESS")'
BY DEF LedgerKept, RowSays

LEMMA OthersKeepRows ==
  ASSUME TxInv, TasksInv, LedgerInv, NEW c \in Connections, LedgerKept(c),
         NEW d \in Connections, d # c, CallSame(d)
  PROVE  KnowsRow(d)'
<1>1. KnowsRow(d) /\ (step[d] \in ContextSteps \cup Executing => Kind(d) = "execute")
  BY DEF LedgerInv, TasksInv, KnowsTask
<1>2. /\ step'[d] = step[d] /\ context'[d] = context[d] /\ Task(d)' = Task(d)
      /\ cut'[d] = cut[d] /\ answer'[d] = answer[d]
  BY DEF CallSame, TxSame, ReadSame, Task
<1>3. step[d] \in Calling \cup {"answered"} => Task(d) \in Tasks
  BY <1>1, TaskRequestIsTyped DEF Calling, Executing
<1>4. step[d] \in Calling => RowSays(Task(d), context[d].row, "ATTEMPTING")'
  <2>1. SUFFICES ASSUME step[d] \in Calling
                 PROVE  RowSays(Task(d), context[d].row, "ATTEMPTING")'
    OBVIOUS
  <2>2. RowSays(Task(d), context[d].row, "ATTEMPTING")
    BY <1>1, <2>1 DEF KnowsRow
  <2>3. QED
    BY <1>2, <1>3, <2>1, <2>2 DEF LedgerKept, RowSays
<1>5. step[d] = "answered" /\ cut[d] = "no" /\ answer[d] = "success" =>
        RowSays(Task(d), context[d].row, "SUCCESS")'
  BY <1>1, <1>2, <1>3 DEF KnowsRow, LedgerKept, RowSays
<1>6. QED
  BY <1>1, <1>2, <1>4, <1>5 DEF KnowsRow

\* The row of a call is the one it has had, or a new one.
RowIsOwn(c) ==
  step'[c] \in Calling =>
    /\ Task(c)' = Task(c)
    /\ \/ step[c] \in Calling /\ context'[c] = context[c]
       \/ context'[c].row = Len(ledger[Task(c)]) + 1

LEMMA LedgerKeeps ==
  ASSUME TxInv, TasksInv, LedgerInv, NEW c \in Connections, LedgerKept(c), KnowsRow(c)',
         RowIsOwn(c), StoredIsLedgered', stored' = [t \in Tasks |-> stored'[t]],
         answer' = [d \in Connections |-> answer'[d]],
         \A d \in Connections : d # c => CallSame(d)
  PROVE  LedgerInv'
<1>1. \A d \in Connections : d # c => KnowsRow(d)'
  BY OthersKeepRows
<1>2. ASSUME NEW d \in Connections, NEW e \in Connections, d # e, d # c, e # c
      PROVE  OwnRows(d, e)'
  <2>1. OwnRows(d, e)
    BY <1>2 DEF LedgerInv
  <2>2. QED
    BY <1>2, <2>1 DEF OwnRows, CallSame, TxSame, ReadSame, Task
<1>3. ASSUME NEW d \in Connections, d # c PROVE OwnRows(c, d)' /\ OwnRows(d, c)'
  <2>1. SUFFICES ASSUME step'[c] \in Calling, step'[d] \in Calling, Task(c)' = Task(d)'
                 PROVE  context'[c].row # context'[d].row
    BY DEF OwnRows
  <2>2. /\ step[d] \in Calling /\ context'[d] = context[d] /\ Task(d)' = Task(d)
        /\ Task(c)' = Task(c)
    BY <1>3, <2>1 DEF CallSame, TxSame, ReadSame, Task, RowIsOwn
  <2>3. CASE step[c] \in Calling /\ context'[c] = context[c]
    <3>1. OwnRows(c, d)
      BY <1>3 DEF LedgerInv
    <3>2. QED
      BY <2>1, <2>2, <2>3, <3>1 DEF OwnRows
  <2>4. CASE context'[c].row = Len(ledger[Task(c)]) + 1
    <3>1. KnowsRow(d) /\ KnowsTask(d)
      BY DEF LedgerInv, TasksInv
    <3>2. Task(d) \in Tasks
      BY <2>2, <3>1, TaskRequestIsTyped DEF KnowsTask, Calling, Executing
    <3>3. context[d].row \in 1 .. Len(ledger[Task(d)])
      BY <2>2, <3>1 DEF KnowsRow, RowSays
    <3>4. Len(ledger[Task(d)]) \in Nat
      BY <3>2 DEF LedgerInv
    <3>5. QED
      BY <2>1, <2>2, <2>4, <3>3, <3>4
  <2>5. QED
    BY <2>1, <2>3, <2>4 DEF RowIsOwn
<1>4. QED
  BY <1>1, <1>2, <1>3 DEF LedgerInv, LedgerKept

LEMMA SameLedgerIsKept ==
  ASSUME LedgerInv, UNCHANGED ledger, NEW c
  PROVE  LedgerKept(c)
BY DEF LedgerInv, LedgerKept

LEMMA StoredStays ==
  ASSUME LedgerInv, NEW c \in Connections, LedgerKept(c), UNCHANGED stored
  PROVE  StoredIsLedgered' /\ stored' = [t \in Tasks |-> stored'[t]]
BY RowsStay DEF LedgerInv, StoredIsLedgered

\* Who is at no step of an execution has no row.
LEMMA NoRowIsKnown ==
  ASSUME NEW c \in Connections, step'[c] \notin ContextSteps \cup Executing
  PROVE  KnowsRow(c)' /\ RowIsOwn(c)
BY DEF KnowsRow, RowIsOwn, Calling, Executing


\* A step of one execution leaves the others where they are.
LEMMA AttemptIsLocal ==
  ASSUME TxInv, CutInv, TasksInv, LedgerInv, NEW c \in Connections, AttemptStep(c)
  PROVE  /\ answer' = [d \in Connections |-> answer'[d]]
         /\ \A d \in Connections : d # c => CallSame(d)
<1>1. answer = [d \in Connections |-> answer[d]] /\ cut = [d \in Connections |-> cut[d]]
  BY DEF LedgerInv, CutInv
<1>2. \/ answer' = answer
      \/ \E with : answer' = [answer EXCEPT ![c] = with]
  <2>1. CASE CallProvider(c)
    BY <2>1 DEF CallProvider, AdapterStep, InvalidRequest, TransportFails, HTTPFails,
       ResponseTooLarge, BeginReading, DecodeImage, BodyFails, EndOfBody, GeminiBodyFails,
       ParseGemini, Called, adapterVars
  <2>2. CASE Leave(c) \/ BeginAttempt(c) \/ FinalizeAttempt(c)
    BY <2>2 DEF Leave, BeginAttempt, FinalizeAttempt, Answer, adapterVars
  <2>3. QED
    BY <2>1, <2>2 DEF AttemptStep, Interrupt, ClaimRunning, BaseURLInvalid, Answer,
       CredentialUnavailable, InputsUnavailable, EndInterrupted, EndFailed,
       PersistSuccessfulResult, OutputInvalid, CostOverflows, EndUnpersisted, CompleteTask,
       RecoverTimedOut, adapterVars, attemptVars
<1>3. \/ cut' = cut
      \/ \E why : cut' = [cut EXCEPT ![c] = why]
  <2>1. CASE CallProvider(c) \/ Leave(c) \/ BeginAttempt(c)
    BY <2>1 DEF CallProvider, Leave, BeginAttempt
  <2>2. QED
    BY <2>1 DEF AttemptStep, Interrupt, ClaimRunning, BaseURLInvalid, CredentialUnavailable,
       InputsUnavailable, FinalizeAttempt, EndInterrupted, EndFailed, PersistSuccessfulResult,
       OutputInvalid, CostOverflows, EndUnpersisted, CompleteTask, RecoverTimedOut, attemptVars
<1>4. \A d \in Connections : d # c => TxSame(d) /\ ReadSame(d)
  BY AttemptReads
<1>5. QED
  BY <1>1, <1>2, <1>3, <1>4 DEF CallSame

\* What neither adds a row nor finalizes one, nor stores anything.
LEMMA LedgerIsLeftAlone ==
  ASSUME TxInv, CutInv, TasksInv, LedgerInv, NEW c \in Connections, AttemptStep(c),
         UNCHANGED <<ledger, stored>>, KnowsRow(c)', RowIsOwn(c)
  PROVE  LedgerInv'
<1>1. LedgerKept(c)
  BY SameLedgerIsKept
<1>2. StoredIsLedgered' /\ stored' = [t \in Tasks |-> stored'[t]]
  BY <1>1, StoredStays
<1>3. QED
  BY <1>1, <1>2, AttemptIsLocal, LedgerKeeps

\* A call begins with a row.
AddsRow(c) ==
  /\ step[c] = "running"
  /\ ledger' = [ledger EXCEPT ![Task(c)] = Append(@, "ATTEMPTING")]
  /\ context' = [context EXCEPT ![c] = With(@, [row |-> Len(ledger[Task(c)]) + 1])]
  /\ Read(c, "attempting")
  /\ UNCHANGED stored

LEMMA BeginKeepsLedger ==
  ASSUME TxInv, CutInv, TasksInv, LedgerInv, NEW c \in Connections, AttemptStep(c), AddsRow(c)
  PROVE  LedgerInv'
<1> DEFINE t == Task(c)
           n == Len(ledger[t]) + 1
<1>0. t \in Tasks /\ KnowsRow(c)
  BY ExecutedTaskIsThere DEF LedgerInv
<1>1. /\ step[c] = "running" /\ step' = [step EXCEPT ![c] = "attempting"] /\ request' = request
      /\ ledger' = [ledger EXCEPT ![t] = Append(@, "ATTEMPTING")]
      /\ context' = [context EXCEPT ![c] = With(@, [row |-> n])]
      /\ stored' = stored
  BY DEF AddsRow, Read
<1>2. /\ step = [e \in Connections |-> step[e]] /\ context = [e \in Connections |-> context[e]]
      /\ ledger \in [Tasks -> Seq(RowStates)]
  BY DEF TxInv, TasksInv, LedgerInv
<1>3. step'[c] = "attempting" /\ Task(c)' = t
  BY <1>1, <1>2 DEF Task
<1>4. context'[c].row = n
  <2>1. "row" \notin DOMAIN context[c]
    BY <1>0, <1>1 DEF KnowsRow
  <2>2. \A x \in DOMAIN [row |-> n] \ DOMAIN context[c] :
          With(context[c], [row |-> n])[x] = [row |-> n][x]
    BY AddedFields
  <2>3. With(context[c], [row |-> n])["row"] = n
    BY <2>1, <2>2
  <2>4. QED
    BY <1>1, <1>2, <2>3
<1>5. /\ ledger[t] \in Seq(RowStates) /\ ledger'[t] = Append(ledger[t], "ATTEMPTING")
      /\ \A s \in Tasks : s # t => ledger'[s] = ledger[s]
      /\ ledger' \in [Tasks -> Seq(RowStates)]
  BY <1>0, <1>1, <1>2 DEF RowStates
<1>6. n \in 1 .. Len(ledger'[t]) /\ ledger'[t][n] = "ATTEMPTING"
  BY <1>5
<1>7. \A i \in 1 .. Len(ledger[t]) : i \in 1 .. Len(ledger'[t]) /\ ledger'[t][i] = ledger[t][i]
  BY <1>5
<1>8. LedgerKept(c)
  BY <1>5, <1>7 DEF LedgerKept
<1>9. KnowsRow(c)'
  BY <1>3, <1>4, <1>6 DEF KnowsRow, RowSays, ContextSteps, Calling
<1>10. RowIsOwn(c)
  BY <1>3, <1>4 DEF RowIsOwn
<1>11. StoredIsLedgered' /\ stored' = [s \in Tasks |-> stored'[s]]
  BY <1>1, <1>8, StoredStays
<1>12. QED
  BY <1>0, <1>8, <1>9, <1>10, <1>11, AttemptIsLocal, LedgerKeeps

\* A call ends with its row.
FinalizesRow(c) ==
  /\ step[c] = "called"
  /\ ledger' = [ledger EXCEPT ![Task(c)][context[c].row] = FinalStatus(c)]
  /\ Read(c, "answered")
  /\ UNCHANGED <<context, cut, answer, stored>>

LEMMA FinalizeKeepsLedger ==
  ASSUME TxInv, CutInv, TasksInv, LedgerInv, NEW c \in Connections, AttemptStep(c),
         FinalizesRow(c)
  PROVE  LedgerInv'
<1> DEFINE t == Task(c)
           n == context[c].row
           status == FinalStatus(c)
<1>0. t \in Tasks /\ KnowsRow(c)
  BY ExecutedTaskIsThere DEF LedgerInv
<1>1. /\ step[c] = "called" /\ step' = [step EXCEPT ![c] = "answered"] /\ request' = request
      /\ ledger' = [ledger EXCEPT ![t][n] = status]
      /\ UNCHANGED <<context, cut, answer, stored>>
  BY DEF FinalizesRow, Read
<1>2. /\ step = [e \in Connections |-> step[e]] /\ ledger \in [Tasks -> Seq(RowStates)]
      /\ cut[c] \in Endings \cup {"no"}
  BY DEF TxInv, LedgerInv, CutInv
<1>3. step'[c] = "answered" /\ Task(c)' = t
  BY <1>1, <1>2 DEF Task
<1>4. n \in 1 .. Len(ledger[t]) /\ ledger[t][n] = "ATTEMPTING"
  BY <1>0, <1>1 DEF KnowsRow, RowSays, Calling
<1>5. /\ status \in RowStates
      /\ cut[c] = "no" /\ answer[c] = "success" => status = "SUCCESS"
  BY <1>2 DEF FinalStatus, RowStates, Endings
<1> HIDE DEF status
<1>6. /\ ledger[t] \in Seq(RowStates) /\ ledger'[t] = [ledger[t] EXCEPT ![n] = status]
      /\ \A s \in Tasks : s # t => ledger'[s] = ledger[s]
      /\ ledger' = [s \in Tasks |-> ledger'[s]]
  BY <1>0, <1>1, <1>2
<1>7. ledger'[t] \in Seq(RowStates) /\ Len(ledger'[t]) = Len(ledger[t])
  BY <1>4, <1>5, <1>6
<1>8. ledger'[t][n] = status /\ \A i \in 1 .. Len(ledger[t]) : i # n => ledger'[t][i] = ledger[t][i]
  BY <1>4, <1>6
<1>9. ASSUME NEW d \in Connections \ {c}, step[d] \in Calling, t = Task(d)
      PROVE  context[d].row # n
  <2>1. OwnRows(c, d)
    BY DEF LedgerInv
  <2>2. QED
    BY <1>1, <1>9, <2>1 DEF OwnRows, Calling
<1>10. LedgerKept(c)
  <2>1. ledger' \in [Tasks -> Seq(RowStates)]
    BY <1>2, <1>6, <1>7
  <2>2. ASSUME NEW s \in Tasks, NEW i \in 1 .. Len(ledger[s])
        PROVE  /\ i \in 1 .. Len(ledger'[s])
               /\ ledger[s][i] # "ATTEMPTING" => ledger'[s][i] = ledger[s][i]
               /\ \A d \in Connections \ {c} :
                    step[d] \in Calling /\ s = Task(d) /\ i = context[d].row =>
                      ledger'[s][i] = ledger[s][i]
    <3>1. CASE s # t
      BY <1>6, <2>2, <3>1
    <3>2. CASE s = t
      BY <1>4, <1>7, <1>8, <1>9, <2>2, <3>2
    <3>3. QED
      BY <3>1, <3>2
  <2>3. QED
    BY <2>1, <2>2 DEF LedgerKept
<1>11. KnowsRow(c)'
  <2>1. cut[c] = "no" /\ answer[c] = "success" => RowSays(t, n, "SUCCESS")'
    BY <1>1, <1>3, <1>4, <1>5, <1>7, <1>8 DEF RowSays
  <2>2. QED
    BY <1>1, <1>3, <2>1 DEF KnowsRow, ContextSteps, Calling
<1>12. RowIsOwn(c)
  BY <1>3 DEF RowIsOwn, Calling
<1>13. StoredIsLedgered' /\ stored' = [s \in Tasks |-> stored'[s]]
  BY <1>1, <1>10, StoredStays
<1>14. QED
  BY <1>0, <1>10, <1>11, <1>12, <1>13, AttemptIsLocal, LedgerKeeps

LEMMA PersistKeepsLedger ==
  ASSUME TxInv, CutInv, TasksInv, LedgerInv, NEW c \in Connections, PersistSuccessfulResult(c)
  PROVE  LedgerInv'
<1> DEFINE t == Task(c)
<1>0. AttemptStep(c) /\ t \in Tasks /\ KnowsRow(c)
  BY ExecutedTaskIsThere DEF AttemptStep, LedgerInv
<1>1. /\ step[c] = "answered" /\ step' = [step EXCEPT ![c] = "persisted"]
      /\ cut[c] = "no" /\ answer[c] = "success" /\ ledger' = ledger
      /\ stored' = [stored EXCEPT ![t] = IF @ = 0 THEN context[c].row ELSE @]
  BY DEF PersistSuccessfulResult, Read
<1>2. step = [e \in Connections |-> step[e]] /\ stored = [s \in Tasks |-> stored[s]]
      /\ StoredIsLedgered
  BY DEF TxInv, LedgerInv
<1>3. step'[c] = "persisted"
  BY <1>1, <1>2
<1>4. LedgerKept(c)
  BY <1>1, SameLedgerIsKept
<1>5. RowSays(t, context[c].row, "SUCCESS")
  BY <1>0, <1>1 DEF KnowsRow
<1>6. stored' = [s \in Tasks |-> stored'[s]]
  BY <1>1, <1>2
<1>7. \A s \in Tasks : stored'[s] # 0 => RowSays(s, stored'[s], "SUCCESS")
  BY <1>0, <1>1, <1>2, <1>5 DEF StoredIsLedgered
<1>8. StoredIsLedgered'
  BY <1>1, <1>7 DEF StoredIsLedgered, RowSays
<1>9. KnowsRow(c)' /\ RowIsOwn(c)
  BY <1>3 DEF KnowsRow, RowIsOwn, Calling, ContextSteps
<1>10. QED
  BY <1>0, <1>4, <1>6, <1>8, <1>9, AttemptIsLocal, LedgerKeeps


LEMMA AnswersKeepLedger ==
  ASSUME TxInv, CutInv, TasksInv, LedgerInv, NEW c \in Connections, AttemptStep(c),
         UNCHANGED <<ledger, stored>>, Answer(c, "final") \/ Answer(c, "retryable")
  PROVE  LedgerInv'
<1>1. /\ step = [e \in Connections |-> step[e]] /\ answer = [e \in Connections |-> answer[e]]
  BY DEF TxInv, LedgerInv
<1>2. step'[c] = "answered" /\ answer'[c] # "success"
  BY <1>1 DEF Answer, Read
<1>3. KnowsRow(c)' /\ RowIsOwn(c)
  BY <1>2 DEF KnowsRow, RowIsOwn, Calling, ContextSteps
<1>4. QED
  BY <1>3, LedgerIsLeftAlone

LEMMA CallKeepsLedger ==
  ASSUME TxInv, CutInv, TasksInv, LedgerInv, NEW c \in Connections, CallProvider(c)
  PROVE  LedgerInv'
<1>1. /\ step[c] \in {"attempting", "reading"}
      /\ Read(c, "called") \/ Read(c, "reading")
      /\ UNCHANGED <<ledger, stored, context>>
  BY DEF CallProvider, AdapterStep, InvalidRequest, TransportFails, HTTPFails, ResponseTooLarge,
     BeginReading, DecodeImage, BodyFails, EndOfBody, GeminiBodyFails, ParseGemini, Called,
     Speaks, admissionVars, resultVars
<1>2. step = [e \in Connections |-> step[e]] /\ KnowsRow(c)
  BY DEF TxInv, LedgerInv
<1>3. step'[c] \in {"called", "reading"} /\ Task(c)' = Task(c)
  BY <1>1, <1>2 DEF Read, Task
<1>4. RowSays(Task(c), context[c].row, "ATTEMPTING")'
  BY <1>1, <1>2, <1>3 DEF KnowsRow, Calling, RowSays
<1>5. KnowsRow(c)' /\ RowIsOwn(c)
  BY <1>1, <1>3, <1>4 DEF KnowsRow, RowIsOwn, Calling, ContextSteps
<1>6. AttemptStep(c)
  BY DEF AttemptStep
<1>7. QED
  BY <1>1, <1>5, <1>6, LedgerIsLeftAlone

LEMMA InterruptKeepsLedger ==
  ASSUME TxInv, CutInv, TasksInv, LedgerInv, NEW c \in Connections, Interrupt(c)
  PROVE  LedgerInv'
<1>1. UNCHANGED <<txVars, context, ledger, stored>> /\ KnowsRow(c)
      /\ \E why \in Endings : cut' = [cut EXCEPT ![c] = why]
  BY DEF Interrupt, admissionVars, resultVars, LedgerInv
<1>2. cut'[c] # "no"
  BY <1>1 DEF CutInv, Endings
<1>3. step'[c] = step[c] /\ Task(c)' = Task(c)
  BY <1>1 DEF txVars, Task
<1>4. KnowsRow(c)' /\ RowIsOwn(c)
  BY <1>1, <1>2, <1>3 DEF KnowsRow, RowSays, RowIsOwn
<1>5. AttemptStep(c)
  BY DEF AttemptStep
<1>6. QED
  BY <1>1, <1>4, <1>5, LedgerIsLeftAlone

LEMMA LeaveKeepsLedger ==
  ASSUME TxInv, CutInv, TasksInv, LedgerInv, NEW c \in Connections, AttemptStep(c), Leave(c),
         UNCHANGED <<ledger, stored>>
  PROVE  LedgerInv'
<1>1. step = [e \in Connections |-> step[e]]
  BY DEF TxInv
<1>2. step'[c] = "idle"
  BY <1>1 DEF Leave, End
<1>3. KnowsRow(c)' /\ RowIsOwn(c)
  BY <1>2, NoRowIsKnown DEF ContextSteps, Executing
<1>4. QED
  BY <1>3, LedgerIsLeftAlone

LEMMA ClaimKeepsLedger ==
  ASSUME TxInv, CutInv, TasksInv, LedgerInv, NEW c \in Connections, ClaimRunning(c)
  PROVE  LedgerInv'
<1>0. AttemptStep(c) /\ UNCHANGED <<ledger, stored>>
  BY DEF AttemptStep, ClaimRunning, attemptVars, resultVars
<1>1. CASE Leave(c)
  BY <1>0, <1>1, LeaveKeepsLedger
<1>2. CASE Read(c, "running") /\ UNCHANGED context
  <2>1. step = [e \in Connections |-> step[e]] /\ KnowsRow(c) /\ step[c] = "validated context"
    BY DEF TxInv, LedgerInv, ClaimRunning
  <2>2. step'[c] = "running" /\ "row" \notin DOMAIN context'[c]
    BY <1>2, <2>1 DEF Read, KnowsRow, ContextSteps
  <2>3. KnowsRow(c)' /\ RowIsOwn(c)
    BY <2>2 DEF KnowsRow, RowIsOwn, Calling
  <2>4. QED
    BY <1>0, <2>3, LedgerIsLeftAlone
<1>3. QED
  BY <1>1, <1>2 DEF ClaimRunning

LEMMA AttemptStepKeepsLedger ==
  ASSUME TxInv, CutInv, TasksInv, LedgerInv, NEW c \in Connections, AttemptStep(c)
  PROVE  LedgerInv'
<1>1. CASE BaseURLInvalid(c) \/ CredentialUnavailable(c) \/ InputsUnavailable(c)
  BY <1>1, AnswersKeepLedger
     DEF BaseURLInvalid, CredentialUnavailable, InputsUnavailable, resultVars
<1>2. CASE BeginAttempt(c)
  <2>1. CASE AddsRow(c)
    BY <2>1, BeginKeepsLedger
  <2>2. CASE ~ AddsRow(c)
    BY <1>2, <2>2, AnswersKeepLedger DEF BeginAttempt, AddsRow, resultVars, adapterVars
  <2>3. QED
    BY <2>1, <2>2
<1>3. CASE FinalizeAttempt(c)
  <2>1. CASE FinalizesRow(c)
    BY <2>1, FinalizeKeepsLedger
  <2>2. CASE ~ FinalizesRow(c)
    BY <1>3, <2>2, AnswersKeepLedger DEF FinalizeAttempt, FinalizesRow, resultVars, adapterVars,
                                         admissionVars
  <2>3. QED
    BY <2>1, <2>2
<1>4. CASE PersistSuccessfulResult(c)
  BY <1>4, PersistKeepsLedger
<1>5. CASE CallProvider(c)
  BY <1>5, CallKeepsLedger
<1>6. CASE Interrupt(c)
  BY <1>6, InterruptKeepsLedger
<1>7. CASE ClaimRunning(c)
  BY <1>7, ClaimKeepsLedger
<1>8. CASE EndInterrupted(c) \/ EndFailed(c) \/ OutputInvalid(c) \/ CostOverflows(c)
           \/ EndUnpersisted(c) \/ CompleteTask(c) \/ RecoverTimedOut(c)
  <2>1. Leave(c) /\ UNCHANGED <<ledger, stored>>
    BY <1>8 DEF EndInterrupted, EndFailed, OutputInvalid, CostOverflows, EndUnpersisted,
                CompleteTask, RecoverTimedOut, resultVars
  <2>2. QED
    BY <2>1, LeaveKeepsLedger
<1>9. QED
  BY <1>1, <1>2, <1>3, <1>4, <1>5, <1>6, <1>7, <1>8 DEF AttemptStep


\* Admission leaves a worker without a row.
LEMMA AdmissionStepKeepsLedger ==
  ASSUME TxInv, CutInv, TasksInv, LedgerInv, NEW c \in Connections, AdmissionStep(c),
         UNCHANGED attemptVars
  PROVE  LedgerInv'
<1>0. /\ UNCHANGED <<ledger, cut, stored, answer>>
      /\ answer = [d \in Connections |-> answer[d]]
      /\ step = [e \in Connections |-> step[e]] /\ context = [e \in Connections |-> context[e]]
      /\ KnowsRow(c) /\ KnowsTask(c)
  BY DEF attemptVars, adapterVars, LedgerInv, TxInv, TasksInv
<1>1. LedgerKept(c) /\ StoredIsLedgered' /\ stored' = [t \in Tasks |-> stored'[t]]
  BY <1>0, SameLedgerIsKept, StoredStays
<1>2. \A d \in Connections : d # c => CallSame(d)
  BY <1>0, AdmissionReads DEF CallSame
<1>3. SUFFICES KnowsRow(c)' /\ RowIsOwn(c)
  BY <1>0, <1>1, <1>2, LedgerKeeps
<1>4. CASE FindTask(c)
  <2>1. step'[c] = "task found" /\ context'[c] = task[Task(c)]
    BY <1>0, <1>4 DEF FindTask, Read, Task
  <2>2. Task(c) \in Tasks
    BY <1>4, TaskRequestIsTyped DEF FindTask
  <2>3. task[Task(c)] \in TaskRecords \cup {NoTask}
    BY <2>2 DEF TasksInv
  <2>4. "row" \notin DOMAIN task[Task(c)]
    BY <2>3 DEF TaskRecords, NoTask
  <2>5. QED
    BY <2>1, <2>4 DEF KnowsRow, RowIsOwn, Calling
<1>5. CASE FindTaskProvider(c)
  <2> DEFINE next == [enabled |-> providers[context[c].provider] = "ENABLED",
                      key |-> apiKey[context[c].provider]]
  <2>1. /\ step[c] = "task found" /\ step'[c] = "provider found"
        /\ context'[c] = With(context[c], next)
    BY <1>0, <1>5 DEF FindTaskProvider, Read
  <2>2. "row" \notin DOMAIN context[c] /\ "row" \notin DOMAIN next
    BY <1>0, <2>1 DEF KnowsRow, ContextSteps
  <2>3. DOMAIN With(context[c], next) = DOMAIN context[c] \cup DOMAIN next
    BY AddedFields
  <2>4. QED
    BY <2>1, <2>2, <2>3 DEF KnowsRow, RowIsOwn, Calling
<1>6. CASE FindTaskModel(c)
  <2>1. step[c] = "provider found" /\ step'[c] = "validated context" /\ context' = context
    BY <1>0, <1>6 DEF FindTaskModel, Read, admissionVars
  <2>2. QED
    BY <1>0, <2>1 DEF KnowsRow, RowIsOwn, Calling, ContextSteps
<1>7. CASE ~ (FindTask(c) \/ FindTaskProvider(c) \/ FindTaskModel(c))
  <2>1. step'[c] \in {"idle", "found grantee", "found models", "authenticated", "admitted"}
    BY <1>0, <1>7 DEF AdmissionStep, FindGrantee, ModelsByIDs, ReplaceUserModelAccess,
       Authenticate, AdmitTask, CreateTask, FailEligibleTask, MarkDeadLettered, Read,
       ReadShared, Commit, End
  <2>2. QED
    BY <2>1, NoRowIsKnown DEF ContextSteps, Executing
<1>8. QED
  BY <1>4, <1>5, <1>6, <1>7

LEMMA StepKeepsLedger ==
  ASSUME TxInv, CutInv, TasksInv, LedgerInv, [Next]_vars
  PROVE  LedgerInv'
<1>0. /\ answer = [d \in Connections |-> answer[d]]
      /\ cut = [d \in Connections |-> cut[d]]
      /\ plan = [d \in Connections |-> plan[d]] /\ context = [d \in Connections |-> context[d]]
      /\ TaskSteps = AdmissionSteps \cup ContextSteps \cup Executing
  BY DEF LedgerInv, CutInv, TasksInv, TaskSteps
<1>1. ASSUME NEW c \in Connections, Step(c) PROVE LedgerInv'
  <2>1. CASE Elsewhere(c) /\ ExecutionSame
    <3>1. step'[c] \notin TaskSteps /\ \A d \in Connections : d # c => TxSame(d)
      BY <2>1, ElsewhereIsElsewhere
    <3>2. UNCHANGED <<plan, context, ledger, cut, stored, answer>>
      BY <2>1 DEF ExecutionSame, attemptVars, adapterVars
    <3>3. LedgerKept(c) /\ StoredIsLedgered' /\ stored' = [t \in Tasks |-> stored'[t]]
      BY <3>2, SameLedgerIsKept, StoredStays
    <3>4. KnowsRow(c)' /\ RowIsOwn(c)
      BY <1>0, <3>1, NoRowIsKnown
    <3>5. \A d \in Connections : d # c => CallSame(d)
      BY <3>1, <3>2 DEF CallSame, ReadSame
    <3>6. QED
      BY <1>0, <3>2, <3>3, <3>4, <3>5, LedgerKeeps
  <2>2. CASE RollbackRequest(c)
    <3>1. step'[c] \notin TaskSteps /\ \A d \in Connections : d # c => TxSame(d)
      BY <2>2, RollbackOfTask
    <3>2. /\ UNCHANGED <<ledger, stored>>
          /\ plan' = [plan EXCEPT ![c] = NoTask] /\ context' = [context EXCEPT ![c] = Nothing]
          /\ cut' = [cut EXCEPT ![c] = "no"] /\ answer' = [answer EXCEPT ![c] = "none"]
      BY <2>2 DEF RollbackRequest, ForgetAdmission, ForgetAttempt, resultVars
    <3>3. LedgerKept(c) /\ StoredIsLedgered' /\ stored' = [t \in Tasks |-> stored'[t]]
      BY <3>2, SameLedgerIsKept, StoredStays
    <3>4. KnowsRow(c)' /\ RowIsOwn(c)
      BY <1>0, <3>1, NoRowIsKnown
    <3>5. \A d \in Connections : d # c => CallSame(d)
      BY <1>0, <3>1, <3>2 DEF CallSame, ReadSame
    <3>6. answer' = [d \in Connections |-> answer'[d]]
      BY <1>0, <3>2
    <3>7. QED
      BY <3>3, <3>4, <3>5, <3>6, LedgerKeeps
  <2>3. CASE AdmissionStep(c) /\ UNCHANGED attemptVars
    BY <2>3, AdmissionStepKeepsLedger
  <2>4. CASE AttemptStep(c)
    BY <2>4, AttemptStepKeepsLedger
  <2>5. QED
    BY <1>1, <2>1, <2>2, <2>3, <2>4, StepOfTask
<1>2. CASE \A c \in Connections : ~ Step(c)
  <2>1. UNCHANGED <<request, step, context, ledger, cut, stored, answer>>
    BY <1>2, OthersOfTask DEF txVars, ExecutionSame, attemptVars, adapterVars
  <2>2. QED
    BY <2>1 DEF LedgerInv, StoredIsLedgered, KnowsRow, OwnRows, RowSays, Task
<1>3. QED
  BY <1>1, <1>2

LEMMA LedgerHolds == Spec => []LedgerInv
<1>1. Init => LedgerInv
  <2>1. SUFFICES ASSUME Init PROVE LedgerInv
    OBVIOUS
  <2>2. /\ ledger = [t \in Tasks |-> <<>>] /\ stored = [t \in Tasks |-> 0]
        /\ answer = [c \in Connections |-> "none"]
        /\ \A c \in Connections : step[c] = "idle"
    BY <2>1 DEF Init, TxInit, AttemptsInit, AdapterInit
  <2>3. ledger \in [Tasks -> Seq(RowStates)]
    BY <2>2
  <2>4. \A c \in Connections : KnowsRow(c)
    BY <2>2 DEF KnowsRow, ContextSteps, Calling
  <2>5. QED
    BY <2>2, <2>3, <2>4 DEF LedgerInv, StoredIsLedgered, OwnRows, Calling
<1>2. QED
  BY <1>1, StepKeepsLedger, LocksExclude, CutHolds, TasksHold, PTL DEF Spec

\* What a task has stored comes from a call whose row says SUCCESS: the row is
\* finalized before the outputs are stored, by nobody but its execution, whatever
\* else is executed, interrupted and recovered for the same task meanwhile.
THEOREM StoredComesFromSuccess == Spec => []OutputsAreLedgered
<1>1. LedgerInv => OutputsAreLedgered
  BY DEF LedgerInv, StoredIsLedgered, RowSays, OutputsAreLedgered
<1>2. QED
  BY <1>1, LedgerHolds, PTL


-----------------------------------------------------------------------------
(* The start of processes *)

Complete == applied = DOMAIN Migrations /\ schema = AllObjects

\* The migrations before one have been applied, and checked.
Reached(n) == \A m \in 1 .. n - 1 : m \in applied /\ Objects(m) \subseteq schema

\* The statements before one have been executed.
Executed(m, n) ==
  \A i \in 1 .. n - 1 :
    i \in DOMAIN Migrations[m] /\ Migrations[m][i].op # "backfill" =>
      Migrations[m][i].object \in schema

\* Who migrates holds the lock, and knows what has been done so far.
Migrates(c) ==
  step[c] \in {"next migration", "migrating", "migrated"} =>
    /\ MigrationLock \in exclusive[c]
    /\ Current(c) \in Nat \ {0} /\ Reached(Current(c))

KnowsMigration(c) ==
  /\ step[c] = "next migration" => position[c].statement = 1
  /\ step[c] = "migrating" =>
       /\ Current(c) \in DOMAIN Migrations \ applied
       /\ position[c].statement # 0 /\ Executed(Current(c), position[c].statement)
  /\ step[c] = "migrated" => Current(c) \in applied

KnowsSchema(c) ==
  /\ Migrates(c)
  /\ KnowsMigration(c)
  /\ step[c] \in {"schema complete", "found permissions"} => Complete

RolesReconciled ==
  "api" \in served /\ inits > 0 => rolePermissions[Seller] = SellerPermissions

StartsInv ==
  /\ position \in [Connections -> [migration : Nat, statement : Nat]]
  /\ schema \subseteq AllObjects /\ applied \subseteq DOMAIN Migrations
  /\ \A m \in applied : Objects(m) \subseteq schema \cup lost
  /\ served # {} => Complete
  /\ refusal # "none" => lost # {}
  /\ rolePermissions = [r \in CustomRoles \cup {Seller} |-> rolePermissions[r]]
  /\ inits \in Nat
  /\ RolesReconciled
  /\ \A c \in Connections : KnowsSchema(c)

\* What is there stays, and a migration is applied by who holds the lock.
SchemaGrows(c) ==
  /\ schema \subseteq schema' /\ schema' \subseteq AllObjects
  /\ applied \subseteq applied' /\ applied' \subseteq DOMAIN Migrations
  /\ \A d \in Connections \ {c} :
       /\ MigrationLock \in exclusive[d] => applied' = applied
       /\ position'[d] = position[d]

LEMMA OthersKeepSchema ==
  ASSUME TxInv, StartsInv, NEW c \in Connections, SchemaGrows(c),
         NEW d \in Connections, d # c, TxSame(d)
  PROVE  KnowsSchema(d)'
<1>1. Migrates(d) /\ KnowsMigration(d)
      /\ (step[d] \in {"schema complete", "found permissions"} => Complete)
  BY DEF StartsInv, KnowsSchema
<1>2. /\ step'[d] = step[d] /\ exclusive'[d] = exclusive[d]
      /\ position'[d] = position[d] /\ Current(d)' = Current(d)
  BY DEF TxSame, SchemaGrows, Current
<1>3. /\ schema \subseteq schema' /\ schema' \subseteq AllObjects
      /\ applied \subseteq applied' /\ applied' \subseteq DOMAIN Migrations
      /\ MigrationLock \in exclusive[d] => applied' = applied
  BY DEF SchemaGrows
<1>4. Migrates(d)'
  BY <1>1, <1>2, <1>3 DEF Migrates, Reached
<1>5. KnowsMigration(d)'
  <2>1. step[d] = "migrating" => MigrationLock \in exclusive[d]
    BY <1>1 DEF Migrates
  <2>2. QED
    BY <1>1, <1>2, <1>3, <2>1 DEF KnowsMigration, Executed
<1>6. Complete => Complete'
  BY <1>3 DEF Complete
<1>7. QED
  BY <1>1, <1>2, <1>4, <1>5, <1>6 DEF KnowsSchema

\* Who is at no step of a start knows nothing of the schema.
LEMMA NoSchemaIsKnown ==
  ASSUME NEW c \in Connections, step'[c] \notin StartSteps
  PROVE  KnowsSchema(c)'
BY DEF KnowsSchema, Migrates, KnowsMigration, StartSteps

\* The steps of a start that change nothing but what the process knows.
LEMMA SameSchema ==
  ASSUME TxInv, StartsInv, NEW c \in Connections,
         UNCHANGED <<schema, applied, lost, served, refusal, rolePermissions, inits>>,
         position' \in [Connections -> [migration : Nat, statement : Nat]],
         \A d \in Connections : d # c => TxSame(d) /\ position'[d] = position[d],
         KnowsSchema(c)'
  PROVE  StartsInv'
<1>1. SchemaGrows(c)
  BY DEF SchemaGrows, StartsInv
<1>2. \A d \in Connections : d # c => KnowsSchema(d)'
  BY <1>1, OthersKeepSchema
<1>3. QED
  BY <1>2 DEF StartsInv, Complete, RolesReconciled

LEMMA StartIsLocal ==
  ASSUME TxInv, StartsInv, NEW c \in Connections, StartStep(c)
  PROVE  \A d \in Connections : d # c => TxSame(d)
BY StartMove, MoveIsLocal

LEMMA AcquireKeepsStarts ==
  ASSUME TxInv, StartsInv, NEW c \in Connections, AcquireMigrationLock(c), UNCHANGED userVars
  PROVE  StartsInv'
<1>1. StartStep(c)
  BY DEF StartStep
<1>2. /\ step = [e \in Connections |-> step[e]] /\ exclusive = [e \in Connections |-> exclusive[e]]
      /\ position \in [Connections -> [migration : Nat, statement : Nat]]
  BY DEF TxInv, StartsInv
<1>3. /\ step'[c] = "next migration" /\ MigrationLock \in exclusive'[c]
      /\ position'[c].migration = 1 /\ position'[c].statement = 1
  BY <1>2 DEF AcquireMigrationLock, ReadForUpdate
<1>4. Current(c)' = 1 /\ Current(c)' \in Nat \ {0}
  <2>1. Current(c)' = 1
    BY <1>3 DEF Current
  <2>2. 1 \in Nat \ {0}
    OBVIOUS
  <2>3. QED
    BY ONLY <2>1, <2>2, Zenon
<1>5. KnowsSchema(c)'
  <2>1. Reached(Current(c))'
    BY <1>4 DEF Reached
  <2>2. Migrates(c)'
    BY <1>3, <1>4, <2>1 DEF Migrates
  <2>3. KnowsMigration(c)'
    BY <1>3 DEF KnowsMigration
  <2>4. QED
    BY <1>3, <2>2, <2>3 DEF KnowsSchema
<1>p. /\ position' \in [Connections -> [migration : Nat, statement : Nat]]
      /\ \A d \in Connections : d # c => position'[d] = position[d]
  BY <1>2 DEF AcquireMigrationLock, ReadForUpdate
<1>6. QED
  BY <1>1, <1>p, <1>5, StartIsLocal, SameSchema DEF AcquireMigrationLock, userVars

LEMMA AppliedKeepsStarts ==
  ASSUME TxInv, StartsInv, NEW c \in Connections, MigrationApplied(c), UNCHANGED userVars
  PROVE  StartsInv'
<1>1. StartStep(c)
  BY DEF StartStep
<1>2. /\ step = [e \in Connections |-> step[e]] /\ Migrates(c) /\ KnowsMigration(c)
      /\ position \in [Connections -> [migration : Nat, statement : Nat]]
  BY DEF TxInv, StartsInv, KnowsSchema
<1>3. /\ step[c] = "next migration"
      /\ step'[c] = IF Current(c) \in applied THEN "migrated" ELSE "migrating"
      /\ Current(c) \in DOMAIN Migrations
      /\ UNCHANGED <<exclusive, startVars>> /\ Current(c)' = Current(c)
  BY <1>2 DEF MigrationApplied, Read, Current, startVars
<1>4. UNCHANGED <<schema, applied, lost, position, served, refusal>>
  BY <1>3 DEF startVars
<1>5. Executed(Current(c), 1)
  BY DEF Executed
<1>6. Migrates(c)'
  BY <1>2, <1>3, <1>4 DEF Migrates, Reached
<1>7. KnowsMigration(c)'
  <2>1. position[c].statement = 1
    BY <1>2, <1>3 DEF KnowsMigration
  <2>2. position'[c].statement = 1 /\ position'[c].statement # 0
    BY <1>4, <2>1
  <2>3. Executed(Current(c), position[c].statement)'
    BY <2>2 DEF Executed
  <2>4. QED
    BY <1>3, <1>4, <2>2, <2>3 DEF KnowsMigration
<1>8. KnowsSchema(c)'
  BY <1>3, <1>6, <1>7 DEF KnowsSchema
<1>9. QED
  BY <1>1, <1>2, <1>4, <1>8, StartIsLocal, SameSchema DEF userVars

\* The steps that add to the schema, or record a migration.
LEMMA GrowingKeepsStarts ==
  ASSUME TxInv, StartsInv, NEW c \in Connections, SchemaGrows(c),
         UNCHANGED <<lost, served, refusal, rolePermissions, inits>>,
         position' \in [Connections -> [migration : Nat, statement : Nat]],
         \A d \in Connections : d # c => TxSame(d),
         \A m \in applied' \ applied : Objects(m) \subseteq schema',
         KnowsSchema(c)'
  PROVE  StartsInv'
<1>1. \A d \in Connections : d # c => KnowsSchema(d)'
  BY OthersKeepSchema
<1>2. /\ schema \subseteq schema' /\ schema' \subseteq AllObjects
      /\ applied \subseteq applied' /\ applied' \subseteq DOMAIN Migrations
  BY DEF SchemaGrows
<1>3. \A m \in applied' : Objects(m) \subseteq schema' \cup lost'
  BY <1>2 DEF StartsInv
<1>4. served' # {} => Complete'
  BY <1>2 DEF StartsInv, Complete
<1>5. RolesReconciled'
  BY DEF StartsInv, RolesReconciled
<1>6. QED
  BY <1>1, <1>2, <1>3, <1>4, <1>5 DEF StartsInv

LEMMA ExecuteKeepsStarts ==
  ASSUME TxInv, StartsInv, NEW c \in Connections, ExecuteMigrationStatement(c),
         UNCHANGED userVars
  PROVE  StartsInv'
<1> DEFINE i == position[c].statement
<1>1. StartStep(c)
  BY DEF StartStep
<1>2. /\ step = [e \in Connections |-> step[e]] /\ Migrates(c) /\ KnowsMigration(c)
      /\ position \in [Connections -> [migration : Nat, statement : Nat]]
      /\ schema \subseteq AllObjects /\ applied \subseteq DOMAIN Migrations
  BY DEF TxInv, StartsInv, KnowsSchema
<1>3. /\ step[c] = "migrating" /\ step'[c] = "migrating" /\ exclusive' = exclusive
      /\ UNCHANGED <<applied, lost, served, refusal>>
      /\ i <= Len(Migrations[Current(c)])
      /\ position' = [position EXCEPT ![c].statement = i + 1]
  BY <1>2 DEF ExecuteMigrationStatement, Read
<1>4. /\ position' \in [Connections -> [migration : Nat, statement : Nat]]
      /\ \A d \in Connections \ {c} : position'[d] = position[d]
  <2>1. [position[c] EXCEPT !.statement = i + 1] \in [migration : Nat, statement : Nat]
    BY <1>2
  <2>2. position' = [position EXCEPT ![c] = [position[c] EXCEPT !.statement = i + 1]]
    BY <1>3
  <2>3. QED
    BY <1>2, <2>1, <2>2
<1>n. /\ position'[c].statement = position[c].statement + 1
      /\ position'[c].migration = position[c].migration
  <2>1. position[c] \in [migration : Nat, statement : Nat]
    BY <1>2
  <2>2. position'[c] = [position[c] EXCEPT !.statement = i + 1]
    BY <1>2, <1>3
  <2>3. QED
    BY <2>1, <2>2
<1>i. i \in Nat /\ i # 0
  <2>1. i \in Nat
    BY <1>2
  <2>2. i # 0
    BY <1>2, <1>3 DEF KnowsMigration
  <2>3. QED
    BY <2>1, <2>2
<1>5. Current(c)' = Current(c)
  BY <1>n DEF Current
<1>6. Current(c) \in DOMAIN Migrations \ applied /\ Executed(Current(c), i)
  BY <1>2, <1>3 DEF KnowsMigration
<1>m. Migrates(c) /\ step[c] = "migrating" /\ step'[c] = "migrating" /\ exclusive' = exclusive
      /\ applied' = applied
  BY <1>2, <1>3
<1>7. CASE Migrations[Current(c)][i].op = "backfill"
  <2>1. schema' = schema
    BY <1>7 DEF ExecuteMigrationStatement, BackfillGrants
  <2>2. Executed(Current(c), position[c].statement)'
    BY <1>n, <1>5, <1>i, <1>6, <1>7, <2>1 DEF Executed
  <2>3. SchemaGrows(c)
    BY <1>2, <1>3, <1>4, <2>1 DEF SchemaGrows
  <2>4. KnowsSchema(c)'
    BY <1>m, <1>n, <1>i, <1>5, <1>6, <2>1, <2>2 DEF KnowsSchema, Migrates, KnowsMigration, Reached, Executed
  <2>5. QED
    BY <1>1, <1>3, <1>4, <2>3, <2>4, StartIsLocal, GrowingKeepsStarts DEF userVars
<1>8. CASE Migrations[Current(c)][i].op # "backfill"
  <2>1. schema' = schema \cup {Migrations[Current(c)][i].object}
    BY <1>8 DEF ExecuteMigrationStatement, Define
  <2>2. Executed(Current(c), position[c].statement)'
    BY <1>n, <1>5, <1>i, <1>6, <2>1 DEF Executed
  <2>3. Migrations[Current(c)][i].object \in AllObjects
    BY <1>3, <1>i, <1>6, <1>8, StartupAssumption DEF AllObjects, Objects
  <2>4. SchemaGrows(c)
    BY <1>2, <1>3, <1>4, <2>1, <2>3 DEF SchemaGrows
  <2>5. KnowsSchema(c)'
    BY <1>m, <1>n, <1>i, <1>5, <1>6, <2>1, <2>2 DEF KnowsSchema, Migrates, KnowsMigration, Reached, Executed
  <2>6. QED
    BY <1>1, <1>3, <1>4, <2>4, <2>5, StartIsLocal, GrowingKeepsStarts DEF userVars
<1>9. QED
  BY <1>7, <1>8


LEMMA RecordKeepsStarts ==
  ASSUME TxInv, StartsInv, NEW c \in Connections, RecordMigration(c), UNCHANGED userVars
  PROVE  StartsInv'
<1> DEFINE m == Current(c)
<1>1. StartStep(c)
  BY DEF StartStep
<1>2. /\ step = [e \in Connections |-> step[e]] /\ Migrates(c) /\ KnowsMigration(c)
      /\ position \in [Connections -> [migration : Nat, statement : Nat]]
      /\ schema \subseteq AllObjects /\ applied \subseteq DOMAIN Migrations
      /\ MayWrite(c, exclusive[c])
  BY DEF TxInv, TxTypeOK, StartsInv, KnowsSchema
<1>3. /\ step[c] = "migrating" /\ step'[c] = "migrated" /\ exclusive' = exclusive
      /\ UNCHANGED <<schema, lost, position, served, refusal>>
      /\ position[c].statement > Len(Migrations[m])
      /\ applied' = applied \cup {m}
  BY <1>2 DEF RecordMigration, Read
<1>4. m \in DOMAIN Migrations /\ Executed(m, position[c].statement)
  BY <1>2, <1>3 DEF KnowsMigration
<1>5. position[c].statement \in Nat
  BY <1>2
<1>6. Len(Migrations[m]) \in Nat /\ DOMAIN Migrations[m] = 1 .. Len(Migrations[m])
  BY <1>4, StartupAssumption
<1>7. Objects(m) \subseteq schema'
  <2>1. \A i \in DOMAIN Migrations[m] : i \in 1 .. position[c].statement - 1
    BY <1>3, <1>5, <1>6
  <2>2. QED
    BY <1>3, <1>4, <2>1 DEF Executed, Objects
<1>8. MigrationLock \in exclusive[c]
  BY <1>2, <1>3 DEF Migrates
<1>9. \A d \in Connections \ {c} : MigrationLock \notin exclusive[d]
  BY <1>2, <1>8 DEF MayWrite
<1>10. SchemaGrows(c)
  BY <1>2, <1>3, <1>4, <1>9 DEF SchemaGrows
<1>11. m' = m
  BY <1>3 DEF Current
<1>12. Reached(m) => Reached(m)'
  BY <1>3, <1>11 DEF Reached
<1>13. Migrates(c)'
  BY <1>2, <1>3, <1>11, <1>12 DEF Migrates
<1>14. KnowsMigration(c)'
  BY <1>3, <1>11 DEF KnowsMigration
<1>15. KnowsSchema(c)'
  BY <1>3, <1>13, <1>14 DEF KnowsSchema
<1>16. QED
  BY <1>1, <1>2, <1>3, <1>7, <1>10, <1>15, StartIsLocal, GrowingKeepsStarts DEF userVars

LEMMA NextIsReached ==
  ASSUME NEW m \in Nat \ {0}, Reached(m), m \in applied, Objects(m) \subseteq schema
  PROVE  Reached(m + 1)
<1>1. \A n \in 1 .. (m + 1) - 1 : n \in 1 .. m - 1 \/ n = m
  OBVIOUS
<1>2. QED
  BY <1>1 DEF Reached

\* What is not the number of a migration is beyond the last one.
LEMMA BeyondTheLast ==
  ASSUME NEW m \in Nat \ {0}, m \notin DOMAIN Migrations
  PROVE  DOMAIN Migrations \subseteq 1 .. m - 1
<1>1. Len(Migrations) \in Nat /\ DOMAIN Migrations = 1 .. Len(Migrations)
  BY StartupAssumption
<1>2. QED
  BY <1>1

LEMMA VerifyKeepsStarts ==
  ASSUME TxInv, StartsInv, NEW c \in Connections, VerifyMigrationSchema(c), UNCHANGED userVars
  PROVE  StartsInv'
<1> DEFINE m == Current(c)
<1>1. StartStep(c)
  BY DEF StartStep
<1>2. /\ step = [e \in Connections |-> step[e]] /\ Migrates(c) /\ KnowsMigration(c)
      /\ position \in [Connections -> [migration : Nat, statement : Nat]]
  BY DEF TxInv, StartsInv, KnowsSchema
<1>3. step[c] = "migrated" /\ UNCHANGED <<schema, applied, lost, served>>
  BY DEF VerifyMigrationSchema
<1>4. m \in Nat \ {0} /\ Reached(m) /\ m \in applied
  BY <1>2, <1>3 DEF Migrates, KnowsMigration
<1>5. CASE Objects(m) \subseteq schema /\ Read(c, "next migration") /\ UNCHANGED refusal
           /\ position' = [position EXCEPT ![c] = [migration |-> m + 1, statement |-> 1]]
  <2>1. step'[c] = "next migration" /\ exclusive' = exclusive
    BY <1>2, <1>5 DEF Read
  <2>2. position'[c].migration = m + 1 /\ position'[c].statement = 1
    BY <1>2, <1>5
  <2>3. /\ position' \in [Connections -> [migration : Nat, statement : Nat]]
        /\ \A d \in Connections : d # c => position'[d] = position[d]
    <3>1. [migration |-> m + 1, statement |-> 1] \in [migration : Nat, statement : Nat]
      BY <1>4
    <3>2. QED
      BY <1>2, <1>5, <3>1
  <2>4. m' = m + 1 /\ m + 1 \in Nat \ {0}
    BY <1>4, <2>2 DEF Current
  <2>5. Reached(m + 1)
    BY <1>4, <1>5, NextIsReached
  <2>6. Reached(m)'
    BY <1>3, <2>4, <2>5 DEF Reached
  <2>7. m' \in Nat \ {0}
    BY ONLY <2>4, Zenon
  <2>8. MigrationLock \in exclusive'[c]
    BY <1>2, <1>3, <2>1 DEF Migrates
  <2>9. Migrates(c)'
    BY <2>6, <2>7, <2>8 DEF Migrates
  <2>10. KnowsMigration(c)'
    BY <2>1, <2>2 DEF KnowsMigration
  <2>11. KnowsSchema(c)'
    BY <2>1, <2>9, <2>10 DEF KnowsSchema
  <2>12. QED
    BY <1>1, <1>3, <1>5, <2>3, <2>11, StartIsLocal, SameSchema DEF userVars
<1>6. CASE ~ Objects(m) \subseteq schema /\ Refuse(c, "incomplete")
  <2>1. position' = [position EXCEPT ![c] = Nowhere] /\ refusal' = "incomplete" /\ End(c)
    BY <1>6 DEF Refuse
  <2>2. step'[c] = "idle"
    BY <1>2, <2>1 DEF End
  <2>3. lost # {}
    BY <1>4, <1>6 DEF StartsInv
  <2>4. /\ position' \in [Connections -> [migration : Nat, statement : Nat]]
        /\ \A d \in Connections : d # c => position'[d] = position[d]
    BY <1>2, <2>1 DEF Nowhere
  <2>5. SchemaGrows(c)
    BY <1>3, <2>4 DEF SchemaGrows, StartsInv
  <2>6. \A d \in Connections : d # c => KnowsSchema(d)'
    BY <1>1, <2>5, StartIsLocal, OthersKeepSchema
  <2>7. KnowsSchema(c)'
    BY <2>2 DEF KnowsSchema, Migrates, KnowsMigration
  <2>8. QED
    BY <1>3, <2>3, <2>4, <2>6, <2>7 DEF StartsInv, Complete, RolesReconciled, userVars
<1>7. QED
  BY <1>5, <1>6 DEF VerifyMigrationSchema

LEMMA ReleaseKeepsStarts ==
  ASSUME TxInv, StartsInv, NEW c \in Connections, ReleaseMigrationLock(c), UNCHANGED userVars
  PROVE  StartsInv'
<1> DEFINE m == Current(c)
<1>1. StartStep(c)
  BY DEF StartStep
<1>2. /\ step = [e \in Connections |-> step[e]] /\ Migrates(c)
      /\ position \in [Connections -> [migration : Nat, statement : Nat]]
      /\ schema \subseteq AllObjects /\ applied \subseteq DOMAIN Migrations
  BY DEF TxInv, StartsInv, KnowsSchema
<1>3. /\ step[c] = "next migration" /\ m \notin DOMAIN Migrations
      /\ step'[c] = "schema complete"
      /\ position' = [position EXCEPT ![c] = Nowhere]
      /\ UNCHANGED <<schema, applied, lost, served, refusal>>
  BY <1>2 DEF ReleaseMigrationLock
<1>4. m \in Nat \ {0} /\ Reached(m)
  BY <1>2, <1>3 DEF Migrates
<1>5. DOMAIN Migrations \subseteq 1 .. m - 1
  BY <1>3, <1>4, BeyondTheLast
<1>6. Complete
  BY <1>2, <1>4, <1>5 DEF Reached, Complete, AllObjects
<1>7. /\ position' \in [Connections -> [migration : Nat, statement : Nat]]
      /\ \A d \in Connections : d # c => position'[d] = position[d]
  BY <1>2, <1>3 DEF Nowhere
<1>8. KnowsSchema(c)'
  BY <1>3, <1>6 DEF KnowsSchema, Migrates, KnowsMigration, Complete
<1>9. QED
  BY <1>1, <1>3, <1>7, <1>8, StartIsLocal, SameSchema DEF userVars


\* What is left to show of a step that leaves the schema alone.
RolesKept ==
  /\ served' # {} => Complete
  /\ rolePermissions' = [r \in CustomRoles \cup {Seller} |-> rolePermissions'[r]]
  /\ inits' \in Nat
  /\ RolesReconciled'

LEMMA RolesKeepStarts ==
  ASSUME TxInv, StartsInv, NEW c \in Connections,
         UNCHANGED <<schema, applied, lost, position, refusal>>, RolesKept,
         \A d \in Connections : d # c => TxSame(d),
         step'[c] \notin StartSteps \/ TxSame(c)
  PROVE  StartsInv'
<1>1. SchemaGrows(c)
  BY DEF SchemaGrows, StartsInv
<1>2. \A d \in Connections : d # c => KnowsSchema(d)'
  BY <1>1, OthersKeepSchema
<1>3. CASE step'[c] \notin StartSteps
  <2>1. KnowsSchema(c)'
    BY <1>3, NoSchemaIsKnown
  <2>2. QED
    BY <1>2, <2>1 DEF StartsInv, Complete, RolesKept
<1>4. CASE TxSame(c)
  <2>1. KnowsSchema(c)
    BY DEF StartsInv
  <2>2. KnowsSchema(c)'
    BY <1>4, <2>1 DEF KnowsSchema, Migrates, KnowsMigration, Reached, Executed, Complete,
                      Current, TxSame
  <2>3. QED
    BY <1>2, <2>2 DEF StartsInv, Complete, RolesKept
<1>5. QED
  BY <1>3, <1>4

\* A move of a component that is not about starts.
LEMMA ForeignMoveKeepsStarts ==
  ASSUME TxInv, StartsInv, NEW c \in Connections, NEW from, NEW to, TxMove(c, from, to),
         to \cap StartSteps = {}, UNCHANGED <<startVars, rolePermissions, inits>>
  PROVE  StartsInv'
<1>1. step'[c] \notin StartSteps
  BY MoveGoesOn DEF TxIdle, StartSteps
<1>2. \A d \in Connections : d # c => TxSame(d)
  BY MoveIsLocal
<1>3. RolesKept
  BY DEF RolesKept, StartsInv, startVars, RolesReconciled
<1>4. QED
  BY <1>1, <1>2, <1>3, RolesKeepStarts DEF startVars

LEMMA StutterKeepsStarts ==
  ASSUME StartsInv, UNCHANGED txVars, UNCHANGED <<startVars, rolePermissions, inits>>
  PROVE  StartsInv'
BY DEF StartsInv, txVars, startVars, KnowsSchema, Migrates, KnowsMigration, Reached, Executed,
       Complete, Current, RolesReconciled

\* A role that a request changes is not Seller, and who sets the tenant up gives
\* Seller what belongs to it.
LEMMA UserStepKeepsStarts ==
  ASSUME TxInv, StartsInv, NEW c \in Connections, UserStep(c), UNCHANGED startVars
  PROVE  StartsInv'
<1>1. step'[c] \notin StartSteps
  <2>1. step'[c] \in UserSteps \/ step'[c] = "idle"
    BY UserMove, MoveGoesOn DEF TxIdle
  <2>2. QED
    BY <2>1 DEF StartSteps, UserSteps
<1>2. \A d \in Connections : d # c => TxSame(d)
  BY UserMove, MoveIsLocal
<1>3. /\ rolePermissions = [r \in CustomRoles \cup {Seller} |-> rolePermissions[r]]
      /\ inits \in Nat /\ RolesReconciled
  BY DEF StartsInv
<1>4. served' # {} => Complete
  BY DEF StartsInv, startVars
<1>5. CASE UNCHANGED <<rolePermissions, inits>>
  <2>1. RolesReconciled'
    BY <1>3, <1>5 DEF RolesReconciled, startVars
  <2>2. RolesKept
    BY <1>3, <1>4, <1>5, <2>1 DEF RolesKept
  <2>3. QED
    BY <1>1, <1>2, <2>2, RolesKeepStarts DEF startVars
<1>6. CASE InitAdmin(c)
  <2>1. /\ rolePermissions' = [rolePermissions EXCEPT ![Seller] = SellerPermissions]
        /\ inits' = inits + 1
    BY <1>6 DEF InitAdmin
  <2>2. RolesReconciled'
    BY <1>3, <2>1 DEF RolesReconciled
  <2>3. rolePermissions' = [r \in CustomRoles \cup {Seller} |-> rolePermissions'[r]]
    BY <1>3, <2>1
  <2>4. inits \in Nat
    BY <1>3
  <2>5. inits' \in Nat
    BY <2>1, <2>4
  <2>6. RolesKept
    BY <1>4, <2>2, <2>3, <2>5 DEF RolesKept
  <2>7. QED
    BY <1>1, <1>2, <2>6, RolesKeepStarts DEF startVars
<1>7. CASE ReplaceRolePermissions(c) \/ DeleteRole(c)
  <2>1. Kind(c) \in {"replacePermissions", "deleteRole"}
    BY <1>7 DEF ReplaceRolePermissions, DeleteRole
  <2>2. request[c] \in Requests
    BY <2>1, RequestIsMade
  <2>3. request[c].role \in CustomRoles
    BY <2>1, <2>2, UserRequestsAssumption DEF Kind
  <2>4. request[c].role # Seller
    BY <2>3, UsersAssumption
  <2>5. PICK p : rolePermissions' = [rolePermissions EXCEPT ![request[c].role] = p]
    BY <1>7 DEF ReplaceRolePermissions, DeleteRole
  <2>6. inits' = inits
    BY <1>7 DEF ReplaceRolePermissions, DeleteRole
  <2>7. rolePermissions'[Seller] = rolePermissions[Seller]
    BY <1>3, <2>4, <2>5
  <2>8. RolesReconciled'
    BY <1>3, <2>6, <2>7 DEF RolesReconciled, startVars
  <2>9. RolesKept
    BY <1>3, <1>4, <2>5, <2>6, <2>8 DEF RolesKept
  <2>10. QED
    BY <1>1, <1>2, <2>9, RolesKeepStarts DEF startVars
<1>8. CASE Initialized(c) \/ FindUser(c) \/ ActiveRolesByIDs(c)
           \/ EnsureAnotherActiveAdminExists(c) \/ FindRole(c)
  BY <1>5, <1>8 DEF Initialized, FindUser, ActiveRolesByIDs, EnsureAnotherActiveAdminExists,
                    FindRole, userVars
<1>9. CASE SetStatus(c) \/ ReplaceUserRoles(c) \/ CreateUser(c) \/ CreateRole(c) \/ UpdateRole(c)
  BY <1>5, <1>9 DEF SetStatus, ReplaceUserRoles, CreateUser, CreateRole, UpdateRole
<1>10. QED
  BY <1>6, <1>7, <1>8, <1>9 DEF UserStep


\* A process that serves, or reads what its roles may do, has seen the whole schema.
LEMMA ServingKeepsStarts ==
  ASSUME TxInv, StartsInv, NEW c \in Connections,
         \/ VerifyWorkerReadiness(c) /\ UNCHANGED userVars
         \/ SeedBuiltInRoles(c)
  PROVE  StartsInv'
<1>1. StartStep(c)
  BY DEF StartStep
<1>2. \A d \in Connections : d # c => TxSame(d)
  BY <1>1, StartIsLocal
<1>3. step[c] \in {"schema complete", "found permissions"} /\ End(c)
  BY DEF VerifyWorkerReadiness, SeedBuiltInRoles, Commit
<1>4. Complete
  BY <1>3 DEF StartsInv, KnowsSchema
<1>5. step = [e \in Connections |-> step[e]]
  BY DEF TxInv
<1>6. step'[c] \notin StartSteps
  BY <1>3, <1>5 DEF End, StartSteps
<1>7. UNCHANGED <<schema, applied, lost, position, refusal, inits>>
  BY DEF VerifyWorkerReadiness, SeedBuiltInRoles, userVars
<1>8. /\ rolePermissions = [r \in CustomRoles \cup {Seller} |-> rolePermissions[r]]
      /\ inits \in Nat /\ RolesReconciled
  BY DEF StartsInv
<1>9. CASE VerifyWorkerReadiness(c) /\ UNCHANGED userVars
  <2>1. rolePermissions' = rolePermissions /\ served' = served \cup {"worker"}
    BY <1>9 DEF VerifyWorkerReadiness, userVars
  <2>2. RolesReconciled'
    BY <1>7, <1>8, <2>1 DEF RolesReconciled
  <2>3. RolesKept
    BY <1>4, <1>7, <1>8, <2>1, <2>2 DEF RolesKept
  <2>4. QED
    BY <1>2, <1>6, <1>7, <2>3, RolesKeepStarts
<1>10. CASE SeedBuiltInRoles(c)
  <2>1. rolePermissions' = IF inits = 0 THEN rolePermissions
                           ELSE [rolePermissions EXCEPT ![Seller] = SellerPermissions]
    BY <1>10 DEF SeedBuiltInRoles
  <2>2. inits # 0 => rolePermissions'[Seller] = SellerPermissions
    BY <1>8, <2>1
  <2>3. RolesReconciled'
    BY <1>7, <1>8, <2>2 DEF RolesReconciled
  <2>4. rolePermissions' = [r \in CustomRoles \cup {Seller} |-> rolePermissions'[r]]
    BY <1>8, <2>1
  <2>5. RolesKept
    BY <1>4, <1>7, <1>8, <2>3, <2>4 DEF RolesKept
  <2>6. QED
    BY <1>2, <1>6, <1>7, <2>5, RolesKeepStarts
<1>11. QED
  BY <1>9, <1>10

LEMMA FindPermissionsKeepsStarts ==
  ASSUME TxInv, StartsInv, NEW c \in Connections, FindRolePermissions(c)
  PROVE  StartsInv'
<1>1. StartStep(c)
  BY DEF StartStep
<1>2. step = [e \in Connections |-> step[e]]
  BY DEF TxInv
<1>3. /\ step[c] = "schema complete" /\ step'[c] = "found permissions"
      /\ UNCHANGED <<schema, applied, lost, position, served, refusal, rolePermissions, inits>>
  BY <1>2 DEF FindRolePermissions, Read, userVars
<1>4. Complete
  BY <1>3 DEF StartsInv, KnowsSchema
<1>5. KnowsSchema(c)'
  BY <1>3, <1>4 DEF KnowsSchema, Migrates, KnowsMigration, Complete
<1>6. position' \in [Connections -> [migration : Nat, statement : Nat]]
  BY <1>3 DEF StartsInv
<1>7. QED
  BY <1>1, <1>3, <1>5, <1>6, StartIsLocal, SameSchema

LEMMA StepKeepsStarts ==
  ASSUME TxInv, StartsInv, [Next]_vars
  PROVE  StartsInv'
<1> DEFINE Same == UNCHANGED <<startVars, rolePermissions, inits>>
<1>1. ASSUME NEW c \in Connections, Step(c) PROVE StartsInv'
  <2>1. CASE BeginRequest(c)
    <3>1. Begin(c, Admitted)
      BY <2>1 DEF BeginRequest
    <3>2. step'[c] = "begun" /\ \A d \in Connections : d # c => TxSame(d)
      BY <3>1, BeginKeepsTx
    <3>3. RolesKept /\ UNCHANGED startVars
      BY <2>1 DEF BeginRequest, RolesKept, StartsInv, RolesReconciled, userVars, startVars
    <3>4. step'[c] \notin StartSteps
      BY <3>2 DEF StartSteps
    <3>5. QED
      BY <3>2, <3>3, <3>4, RolesKeepStarts DEF startVars
  <2>2. CASE RollbackRequest(c)
    <3>1. End(c) /\ TxMove(c, {step[c]}, {})
      BY <2>2, EndIsMove DEF RollbackRequest, Rollback
    <3>2. \A d \in Connections : d # c => TxSame(d)
      BY <3>1, MoveIsLocal
    <3>3. /\ position' = [position EXCEPT ![c] = Nowhere]
          /\ UNCHANGED <<schema, applied, lost, served, refusal, rolePermissions, inits>>
      BY <2>2 DEF RollbackRequest, ForgetStart, userVars
    <3>4. Nowhere \in [migration : Nat, statement : Nat]
      BY DEF Nowhere
    <3>5. /\ position' \in [Connections -> [migration : Nat, statement : Nat]]
          /\ \A d \in Connections : d # c => position'[d] = position[d]
      BY <3>3, <3>4 DEF StartsInv
    <3>6. step'[c] = "idle"
      BY <3>1 DEF End, TxInv
    <3>7. KnowsSchema(c)'
      BY <3>6, NoSchemaIsKnown DEF StartSteps
    <3>8. QED
      BY <3>2, <3>3, <3>5, <3>7, SameSchema
  <2>3. CASE UserStep(c) /\ UNCHANGED startVars
    BY <2>3, UserStepKeepsStarts
  <2>0. /\ CatalogSteps \cap StartSteps = {} /\ MemberSteps \cap StartSteps = {}
        /\ AccessSteps \cap StartSteps = {} /\ AdmissionSteps \cap StartSteps = {}
        /\ ContextSteps \cap StartSteps = {} /\ Executing \cap StartSteps = {}
        /\ SettingSteps \cap StartSteps = {} /\ MaintenanceSteps \cap StartSteps = {}
        /\ ScanSteps \cap StartSteps = {}
    BY DEF CatalogSteps, MemberSteps, AccessSteps, AdmissionSteps, ContextSteps, Executing,
           SettingSteps, MaintenanceSteps, ScanSteps, StartSteps
  <2>4. CASE CatalogStep(c) /\ Same
    BY <2>0, <2>4, CatalogMove, ForeignMoveKeepsStarts
  <2>5. CASE MemberStep(c) /\ Same
    BY <2>0, <2>5, MemberMove, ForeignMoveKeepsStarts
  <2>6. CASE AdmissionStep(c) /\ Same
    BY <2>0, <2>6, AdmissionMove, ForeignMoveKeepsStarts
  <2>7. CASE AttemptStep(c) /\ Same
    BY <2>0, <2>7, AttemptMove, ForeignMoveKeepsStarts, StutterKeepsStarts
  <2>8. CASE SettingStep(c) /\ Same
    BY <2>0, <2>8, SettingMove, ForeignMoveKeepsStarts
  <2>9. CASE StartStep(c)
    BY <2>9, AcquireKeepsStarts, AppliedKeepsStarts, ExecuteKeepsStarts, RecordKeepsStarts,
       VerifyKeepsStarts, ReleaseKeepsStarts, ServingKeepsStarts, FindPermissionsKeepsStarts
       DEF StartStep
  <2>10. CASE MaintenanceStep(c) /\ Same
    BY <2>0, <2>10, MaintenanceMove, ForeignMoveKeepsStarts
  <2>11. CASE ScanStep(c) /\ Same
    BY <2>0, <2>11, ScanMove, ForeignMoveKeepsStarts
  <2>12. MaintenanceStep(c) => UNCHANGED userVars
    BY DEF MaintenanceStep, PlatformInitialized, ProvisionTenant, BeginRound, ListingFails,
           ListTenants, ServeTenant, NextStage
  <2>13. QED
    BY <1>1, <2>1, <2>2, <2>3, <2>4, <2>5, <2>6, <2>7, <2>8, <2>9, <2>10, <2>11, <2>12
       DEF Step, userVars
<1>2. CASE Deploy \/ ObjectsChange \/ UNCHANGED vars
  <2>1. UNCHANGED txVars /\ Same
    BY <1>2 DEF Deploy, DeployCipher, DeployCaps, ObjectsChange, vars, userVars
  <2>2. QED
    BY <2>1, StutterKeepsStarts
<1>3. QED
  BY <1>1, <1>2 DEF Next


LEMMA StartsBegin == Init => StartsInv
<1> SUFFICES ASSUME Init PROVE StartsInv
  OBVIOUS
<1>1. PICK empty \in BOOLEAN, granted \in SUBSET Permissions :
        /\ StartupInit(empty)
        /\ "api" \in served => granted = SellerPermissions
        /\ UsersInit(IF empty THEN {} ELSE Administrators, granted)
  BY DEF Init
<1> DEFINE admins == IF empty THEN {} ELSE Administrators
           old == \E r \in workload : r.kind \in Starts
<1>2. PICK k \in IF ~ old THEN {Len(Migrations)} ELSE IF empty THEN {0} ELSE 1 .. Len(Migrations) :
        /\ applied = 1 .. k
        /\ lost \in {{}} \cup {{o} : o \in IF old THEN UNION {Objects(m) : m \in 1 .. k} ELSE {}}
        /\ schema = (UNION {Objects(m) : m \in 1 .. k}) \ lost
  BY <1>1 DEF StartupInit
<1>3. /\ position = [c \in Connections |-> Nowhere]
      /\ served = IF old THEN {} ELSE {"api", "worker"}
      /\ refusal = "none"
      /\ \A c \in Connections : step[c] = "idle"
  BY <1>1 DEF StartupInit, Init, TxInit
<1>4. position \in [Connections -> [migration : Nat, statement : Nat]]
  BY <1>3 DEF Nowhere
<1>5. 1 .. k \subseteq DOMAIN Migrations
  BY StartupAssumption
<1>6. schema \subseteq AllObjects /\ applied \subseteq DOMAIN Migrations
  BY <1>2, <1>5 DEF AllObjects
<1>7. \A m \in applied : Objects(m) \subseteq schema \cup lost
  <2>1. \A o : (\E m \in 1 .. k : o \in Objects(m)) => o \in schema \/ o \in lost
    BY <1>2
  <2>2. applied = 1 .. k
    BY <1>2
  <2>3. QED
    BY ONLY <2>1, <2>2
<1>8. served # {} => Complete
  <2>1. SUFFICES ASSUME ~ old PROVE Complete
    BY <1>3
  <2>2. k = Len(Migrations) /\ lost = {}
    BY <1>2, <2>1
  <2>3. applied = DOMAIN Migrations
    BY <1>2, <2>2, StartupAssumption
  <2>4. QED
    BY <1>2, <2>2, <2>3 DEF Complete, AllObjects
<1>9. /\ rolePermissions = [r \in CustomRoles \cup {Seller} |->
           CASE admins = {} -> {}
             [] admins # {} /\ r = Seller -> granted
             [] OTHER -> IF r \in StartRoles THEN Permissions ELSE {}]
      /\ inits = IF admins = {} THEN 0 ELSE 1
  BY <1>1 DEF UsersInit
<1>10. inits > 0 => rolePermissions[Seller] = granted
  BY <1>9
<1>11. RolesReconciled
  BY <1>1, <1>10 DEF RolesReconciled
<1>12. \A c \in Connections : KnowsSchema(c)
  BY <1>3 DEF KnowsSchema, Migrates, KnowsMigration
<1>13. rolePermissions = [r \in CustomRoles \cup {Seller} |-> rolePermissions[r]] /\ inits \in Nat
  BY <1>9
<1>14. QED
  BY <1>3, <1>4, <1>6, <1>7, <1>8, <1>11, <1>12, <1>13 DEF StartsInv

LEMMA StartsHold == Spec => []StartsInv
BY StartsBegin, StepKeepsStarts, LocksExclude, PTL DEF Spec

\* Whatever starts died at, a process serves with the whole schema, and an API with
\* the built-in roles of its version, and a start is refused only when the database
\* has lost something: what a migration of the applied ones defines is there or was
\* lost, and whoever goes past one has seen all it defines.
THEOREM StartsRecover == Spec => []StartsRecoverOrFailClosed
<1>1. StartsInv => StartsRecoverOrFailClosed
  BY DEF StartsInv, StartsRecoverOrFailClosed, Complete, RolesReconciled
<1>2. QED
  BY <1>1, StartsHold, PTL

\* Who is in the middle of a migration keeps every process from having served.
LEMMA MigratingIsAlone ==
  ASSUME StartsInv, NEW c \in Connections, step[c] = "migrating"
  PROVE  served = {}
<1>1. Current(c) \in DOMAIN Migrations \ applied
  BY DEF StartsInv, KnowsSchema, KnowsMigration
<1>2. QED
  BY <1>1 DEF StartsInv, Complete

LEMMA StepsReviveNothing ==
  ASSUME StartsInv, Next
  PROVE  \/ modelAccess' = modelAccess
         \/ position' = position
         \/ served = {}
<1>1. ASSUME NEW c \in Connections, Step(c)
      PROVE  modelAccess' = modelAccess \/ position' = position \/ served = {}
  <2>1. CASE UNCHANGED startVars
    BY <2>1 DEF startVars
  <2>2. CASE RollbackRequest(c)
    BY <2>2 DEF RollbackRequest, ForgetAdmission
  <2>3. CASE ExecuteMigrationStatement(c)
    BY <2>3, MigratingIsAlone DEF ExecuteMigrationStatement
  <2>4. CASE StartStep(c) /\ ~ ExecuteMigrationStatement(c)
    BY <2>4 DEF StartStep, AcquireMigrationLock, MigrationApplied, RecordMigration,
                VerifyMigrationSchema, ReleaseMigrationLock, VerifyWorkerReadiness,
                FindRolePermissions, SeedBuiltInRoles, admissionVars
  <2>5. QED
    BY <1>1, <2>1, <2>2, <2>3, <2>4 DEF Step, BeginRequest
<1>2. CASE Deploy \/ ObjectsChange
  BY <1>2 DEF Deploy, ObjectsChange, startVars
<1>3. QED
  BY <1>1, <1>2 DEF Next

\* A process that migrates leaves the grants of models alone as soon as an API
\* serves: nothing is executed again of what was recorded, and an API does not serve
\* before everything was.
THEOREM StartsReviveNothing == Spec => GrantsAreNotRevived
<1>1. ASSUME StartsInv, [Next]_vars
      PROVE  [\A c \in Connections :
                Kind(c) \in Starts /\ position'[c] # position[c] /\ "api" \in served =>
                  modelAccess' = modelAccess]_vars
  <2>1. CASE UNCHANGED vars
    BY <2>1
  <2>2. CASE Next
    BY <2>2, <1>1, StepsReviveNothing
  <2>3. QED
    BY <1>1, <2>1, <2>2
<1>2. QED
  BY <1>1, StartsHold, PTL DEF Spec, GrantsAreNotRevived

-----------------------------------------------------------------------------
(* Induction, over sets: what the theorems of the library that take an      *)
(* operator say, for the members of a set                                   *)

\* A set of numbers has a least one.
LEMMA LeastNatural ==
  ASSUME NEW T \in SUBSET Nat, T # {}
  PROVE  \E x \in T : \A y \in T : x <= y
<1>1. IsWellFoundedOn(OpToRel(<, Nat), Nat)
  BY NatLessThanWellFounded
<1>2. \E x \in T : \A y \in T : ~(<<y, x>> \in OpToRel(<, Nat))
  BY <1>1, WFMin
<1>3. PICK x \in T : \A y \in T : ~(<<y, x>> \in OpToRel(<, Nat))
  BY <1>2
<1>4. ASSUME NEW y \in T PROVE x <= y
  <2>1. ~(<<y, x>> \in OpToRel(<, Nat))
    BY <1>3
  <2>2. ~(y < x)
    BY <2>1 DEF OpToRel
  <2> QED BY <2>2
<1> QED BY <1>4

\* What holds of 0 and of every successor holds of all numbers.
LEMMA FromZeroUp ==
  ASSUME NEW T \in SUBSET Nat, 0 \in T, \A n \in T : n + 1 \in T
  PROVE  T = Nat
<1> SUFFICES ASSUME Nat \ T # {} PROVE FALSE
  OBVIOUS
<1>1. PICK x \in Nat \ T : \A y \in Nat \ T : x <= y
  BY LeastNatural
<1>2. x # 0 /\ x - 1 \in Nat
  BY <1>1
<1>3. x - 1 \in T
  BY <1>1, <1>2
<1> QED BY <1>3, <1>1

\* A finite set gets smaller by what is removed.
LEMMA SmallerPart ==
  ASSUME NEW S, IsFiniteSet(S), NEW s \in SUBSET S, s # {}, NEW x \in s
  PROVE  Cardinality(s \ {x}) = Cardinality(s) - 1 /\ Cardinality(s) \in Nat /\ IsFiniteSet(s)
BY FS_Subset, FS_RemoveElement, FS_CardinalityType

\* What holds of a part that is smaller by any one element holds of all parts.
LEMMA PartsUp ==
  ASSUME NEW S, IsFiniteSet(S), NEW W,
         \A s \in SUBSET S : (\A x \in s : s \ {x} \in W) => s \in W
  PROVE  \A s \in SUBSET S : s \in W
<1> DEFINE Good == {n \in Nat : \A s \in SUBSET S : Cardinality(s) = n => s \in W}
<1>1. \A s \in SUBSET S : Cardinality(s) \in Nat /\ IsFiniteSet(s)
  BY FS_Subset, FS_CardinalityType
<1>2. 0 \in Good
  <2>1. \A s \in SUBSET S : Cardinality(s) = 0 => s = {}
    BY <1>1, FS_EmptySet
  <2> QED BY <2>1
<1>3. ASSUME NEW n \in Good PROVE n + 1 \in Good
  <2>1. ASSUME NEW s \in SUBSET S, Cardinality(s) = n + 1 PROVE s \in W
    <3>1. ASSUME NEW x \in s PROVE s \ {x} \in W
      <4>1. Cardinality(s \ {x}) = n
        BY <2>1, SmallerPart, <1>1
      <4> QED BY <4>1
    <3> QED BY <3>1
  <2> QED BY <2>1
<1>4. Good = Nat
  <2>1. Good \in SUBSET Nat
    OBVIOUS
  <2> HIDE DEF Good
  <2> QED BY <1>2, <1>3, <2>1, FromZeroUp
<1> QED BY <1>1, <1>4


-----------------------------------------------------------------------------
(* Sums *)

\* The sums of a function over the parts of a set, as MapThenSumSet takes them: from
\* an element that it chooses and what is left.
First(s) == CHOOSE x \in s : TRUE

Adds(h, g, S) ==
  h = [s \in SUBSET S |-> IF s = {} THEN 0 ELSE g[First(s)] + h[s \ {First(s)}]]

\* There are such sums: a recursive function over the parts of a finite set is defined.
LEMMA SumsExist ==
  ASSUME NEW S, IsFiniteSet(S), NEW g \in [S -> Int]
  PROVE  \E h : Adds(h, g, S)
<1> DEFINE Upto(n) == {s \in SUBSET S : Cardinality(s) <= n}
           Right(h, n) == \A s \in Upto(n) :
             h[s] = IF s = {} THEN 0 ELSE g[First(s)] + h[s \ {First(s)}]
           Done == {n \in Nat : \E h \in [Upto(n) -> Int] : Right(h, n)}
<1>1. \A s \in SUBSET S : s # {} =>
        /\ First(s) \in s /\ First(s) \in S /\ s \ {First(s)} \in SUBSET S
        /\ Cardinality(s) \in Nat /\ Cardinality(s \ {First(s)}) = Cardinality(s) - 1
  BY SmallerPart DEF First
<1>2. \A s \in SUBSET S : Cardinality(s) \in Nat /\ (Cardinality(s) = 0 <=> s = {})
  BY FS_Subset, FS_CardinalityType, FS_EmptySet
<1>3. 0 \in Done
  <2> DEFINE h == [s \in Upto(0) |-> 0]
  <2>1. \A s \in Upto(0) : s = {}
    BY <1>2
  <2>2. h \in [Upto(0) -> Int] /\ Right(h, 0)
    BY <2>1
  <2> QED BY <2>2
<1>4. ASSUME NEW n \in Done PROVE n + 1 \in Done
  <2>1. PICK h \in [Upto(n) -> Int] : Right(h, n)
    OBVIOUS
  <2> DEFINE k == [s \in Upto(n + 1) |->
                     IF s = {} THEN 0 ELSE g[First(s)] + h[s \ {First(s)}]]
  <2>2. \A s \in Upto(n + 1) : s # {} => s \ {First(s)} \in Upto(n)
    BY <1>1
  <2>3. k \in [Upto(n + 1) -> Int]
    BY <2>2, <1>1
  <2>4. \A s \in Upto(n) : s \in Upto(n + 1) /\ k[s] = h[s]
    <3> SUFFICES ASSUME NEW s \in Upto(n) PROVE s \in Upto(n + 1) /\ k[s] = h[s]
      OBVIOUS
    <3>1. s \in Upto(n + 1)
      BY <1>2
    <3> QED BY <3>1, <2>1
  <2>5. Right(k, n + 1)
    BY <2>2, <2>4
  <2> HIDE DEF k
  <2>6. n + 1 \in Nat
    OBVIOUS
  <2> QED BY <2>3, <2>5, <2>6
<1>5. Done = Nat
  <2> HIDE DEF Done
  <2>1. Done \in SUBSET Nat
    BY DEF Done
  <2> QED BY <1>3, <1>4, <2>1, FromZeroUp
<1>6. Cardinality(S) \in Nat
  BY FS_CardinalityType
<1>7. Upto(Cardinality(S)) = SUBSET S
  BY FS_Subset
<1>8. PICK h \in [Upto(Cardinality(S)) -> Int] : Right(h, Cardinality(S))
  BY <1>5, <1>6
<1>9. h = [s \in SUBSET S |-> IF s = {} THEN 0 ELSE g[First(s)] + h[s \ {First(s)}]]
  BY <1>7, <1>8
<1> QED BY <1>9 DEF Adds

LEMMA FirstIsThere == \A s : s # {} => First(s) \in s
BY DEF First

\* The sums of integers are integers.
LEMMA SumsAreTyped ==
  ASSUME NEW S, IsFiniteSet(S), NEW g \in [S -> Int], NEW h, Adds(h, g, S)
  PROVE  \A s \in SUBSET S : h[s] \in Int
<1> DEFINE W == {s \in SUBSET S : h[s] \in Int}
<1>1. ASSUME NEW s \in SUBSET S, \A x \in s : s \ {x} \in W PROVE s \in W
  <2>1. CASE s = {}
    BY <2>1 DEF Adds
  <2>2. CASE s # {}
    <3>1. First(s) \in s /\ h[s] = g[First(s)] + h[s \ {First(s)}]
      BY <2>2, FirstIsThere DEF Adds
    <3>2. g[First(s)] \in Int /\ h[s \ {First(s)}] \in Int
      BY <1>1, <3>1
    <3> QED BY <3>1, <3>2
  <2> QED BY <2>1, <2>2
<1>2. \A s \in SUBSET S : s \in W
  <2> HIDE DEF W
  <2> QED BY <1>1, PartsUp
<1> QED BY <1>2

\* Sums of the same are the same.
LEMMA SumsAgree ==
  ASSUME NEW S, IsFiniteSet(S), NEW g, NEW h, NEW k, Adds(h, g, S), Adds(k, g, S)
  PROVE  h = k
<1> DEFINE W == {s \in SUBSET S : h[s] = k[s]}
<1>1. \A s \in SUBSET S : (\A x \in s : s \ {x} \in W) => s \in W
  BY FirstIsThere DEF Adds
<1>2. \A s \in SUBSET S : s \in W
  <2> HIDE DEF W
  <2> QED BY <1>1, PartsUp
<1> QED BY <1>2 DEF Adds

\* A factor may be applied to a sum, or to what is summed.
LEMMA SumsScale ==
  ASSUME NEW S, IsFiniteSet(S), NEW g \in [S -> Int], NEW h, Adds(h, g, S),
         NEW p \in Int, NEW f, NEW k, Adds(k, f, S), \A x \in S : f[x] = g[x] * p
  PROVE  k[S] = h[S] * p
<1> DEFINE W == {s \in SUBSET S : k[s] = h[s] * p}
<1>0. \A s \in SUBSET S : h[s] \in Int
  BY SumsAreTyped
<1>1. ASSUME NEW s \in SUBSET S, \A x \in s : s \ {x} \in W PROVE s \in W
  <2>1. CASE s = {}
    BY <2>1 DEF Adds
  <2>2. CASE s # {}
    <3> DEFINE x == First(s)
               r == s \ {x}
    <3>1. x \in s /\ r \in SUBSET S
      BY <2>2, FirstIsThere
    <3>2. k[s] = f[x] + k[r] /\ h[s] = g[x] + h[r]
      BY <2>2 DEF Adds
    <3>3. k[r] = h[r] * p /\ f[x] = g[x] * p
      BY <1>1, <3>1
    <3>4. g[x] \in Int /\ h[r] \in Int
      BY <1>0, <3>1
    <3> HIDE DEF x, r
    <3>5. k[s] = h[s] * p
      BY <3>2, <3>3, <3>4
    <3> QED BY <3>5
  <2> QED BY <2>1, <2>2
<1>2. \A s \in SUBSET S : s \in W
  <2> HIDE DEF W
  <2> QED BY <1>1, PartsUp
<1> QED BY <1>2


-----------------------------------------------------------------------------
(* Amounts *)

\* The powers of ten are there, and positive.
LEMMA TenIsPositive == Ten \in [0 .. 2 * MaxScale -> Nat \ {0}]
<1> DEFINE Body(h, n) == [i \in 0 .. n |-> IF i = 0 THEN 1 ELSE 10 * h[i - 1]]
           Done == {n \in Nat : \E h \in [0 .. n -> Nat] : h = Body(h, n)}
           last == 2 * MaxScale
<1>0. last \in Nat
  BY CostAssumption
<1>1. 0 \in Done
  <2> DEFINE h == [i \in 0 .. 0 |-> 1]
  <2>1. h \in [0 .. 0 -> Nat] /\ h = Body(h, 0)
    OBVIOUS
  <2> QED BY <2>1
<1>2. ASSUME NEW n \in Done PROVE n + 1 \in Done
  <2>1. PICK h \in [0 .. n -> Nat] : h = Body(h, n)
    OBVIOUS
  <2> DEFINE k == [i \in 0 .. n + 1 |-> IF i = 0 THEN 1 ELSE 10 * h[i - 1]]
  <2>2. k \in [0 .. n + 1 -> Nat]
    OBVIOUS
  <2>3. \A i \in 0 .. n : h[i] = IF i = 0 THEN 1 ELSE 10 * h[i - 1]
    BY <2>1
  <2>4. \A i \in 0 .. n : k[i] = h[i]
    BY <2>3
  <2>5. k = Body(k, n + 1)
    <3>1. \A i \in 0 .. n + 1 : i # 0 => i - 1 \in 0 .. n
      OBVIOUS
    <3>2. \A i \in 0 .. n + 1 : k[i] = IF i = 0 THEN 1 ELSE 10 * k[i - 1]
      BY <2>4, <3>1
    <3> QED BY <3>2
  <2>6. n + 1 \in Nat
    OBVIOUS
  <2> HIDE DEF k
  <2> QED BY <2>2, <2>5, <2>6
<1>3. Done = Nat
  <2>1. Done \in SUBSET Nat
    OBVIOUS
  <2> HIDE DEF Done
  <2> QED BY <1>1, <1>2, <2>1, FromZeroUp
<1>4. \E h : h = Body(h, last)
  BY <1>0, <1>3
<1>5. Ten = Body(Ten, last)
  <2> DEFINE Eq(h) == h = [i \in 0 .. 2 * MaxScale |-> IF i = 0 THEN 1 ELSE 10 * h[i - 1]]
  <2>1. Eq(CHOOSE h : Eq(h))
    BY <1>4
  <2>2. Ten = CHOOSE h : Eq(h)
    BY DEF Ten
  <2> QED BY <2>1, <2>2
<1> DEFINE Positive == {n \in Nat : n <= last => Ten[n] \in Nat \ {0}}
<1>6. 0 \in Positive
  BY <1>0, <1>5
<1>7. ASSUME NEW n \in Positive PROVE n + 1 \in Positive
  <2>1. CASE n + 1 <= last
    <3>1. Ten[n + 1] = 10 * Ten[n] /\ Ten[n] \in Nat \ {0}
      BY <1>0, <1>5, <2>1
    <3> QED BY <3>1
  <2>2. CASE ~(n + 1 <= last)
    BY <2>2
  <2> QED BY <2>1, <2>2
<1>8. Positive = Nat
  <2>1. Positive \in SUBSET Nat
    OBVIOUS
  <2> HIDE DEF Positive
  <2> QED BY <1>6, <1>7, <2>1, FromZeroUp
<1>9. \A n \in 0 .. last : Ten[n] \in Nat \ {0}
  BY <1>0, <1>8
<1> QED BY <1>5, <1>9

LEMMA PlaceIsPositive == Place \in Nat \ {0}
BY TenIsPositive, CostAssumption DEF Place

\* What can be read is a number of the smallest amounts.
LEMMA ValueIsTyped ==
  ASSUME NEW amount, ReadableAmount(amount), amount.number \in Int,
         amount.behind \in Int, amount.exponent \in Int
  PROVE  Value(amount) \in Int
<1>1. MaxScale - (amount.behind - amount.exponent) \in 0 .. 2 * MaxScale
  BY CostAssumption DEF ReadableAmount
<1>2. Ten[MaxScale - (amount.behind - amount.exponent)] \in Int
  BY <1>1, TenIsPositive
<1> QED BY <1>2 DEF Value

LEMMA Quotient ==
  ASSUME NEW n \in Int, NEW d \in Nat \ {0}
  PROVE  n \div d \in Int /\ (n \div d) * d <= n /\ n < (n \div d) * d + d
OBVIOUS

Near(number, exact, unit) == 2 * (number * unit - exact) \in -unit .. unit

\* What is rounded is the nearest.
LEMMA RoundedIsNear ==
  ASSUME NEW value \in Int
  PROVE  Rounded(value) \in Int /\ Near(Rounded(value), value, Place)
<1> DEFINE half == Place \div 2
           q == Rounded(value)
<1>1. half \in Int /\ 2 * half <= Place /\ Place <= 2 * half + 1
  BY PlaceIsPositive
<1>2. q \in Int /\ q * Place <= value + half /\ value + half < q * Place + Place
  BY <1>1, PlaceIsPositive, Quotient DEF Rounded
<1> HIDE DEF q, half
<1>3. q * Place \in Int
  BY <1>2, PlaceIsPositive
<1>4. Near(q, value, Place)
  <2> DEFINE m == q * Place
  <2>1. m \in Int /\ m <= value + half /\ value + half < m + Place
    BY <1>2, <1>3
  <2> HIDE DEF m
  <2>2. 2 * (m - value) \in -Place .. Place
    BY <1>1, <2>1, PlaceIsPositive
  <2> QED BY <2>2 DEF Near, m
<1> QED BY <1>2, <1>4 DEF q

\* What has the places of a cost is left as it is.
LEMMA RoundedExactly ==
  ASSUME NEW cost \in Int
  PROVE  Rounded(cost * Place) = cost
<1> DEFINE half == Place \div 2
           q == Rounded(cost * Place)
<1>1. half \in Int /\ 0 <= half /\ half < Place
  BY PlaceIsPositive
<1>2. cost * Place \in Int
  BY PlaceIsPositive
<1>3. q \in Int /\ q * Place <= cost * Place + half /\ cost * Place + half < q * Place + Place
  BY <1>1, <1>2, PlaceIsPositive, Quotient DEF Rounded
<1> HIDE DEF q, half
<1>4. (q - cost) * Place < Place /\ (cost - q) * Place < Place
  BY <1>1, <1>3, PlaceIsPositive
<1>5. ASSUME NEW n \in Int, n * Place < Place PROVE n <= 0
  BY <1>5, PlaceIsPositive
<1>6. q - cost <= 0 /\ cost - q <= 0
  BY <1>3, <1>4, <1>5
<1> QED BY <1>3, <1>6 DEF q

\* A cost that is written can be read.
LEMMA WrittenIsRead ==
  ASSUME NEW cost \in Int
  PROVE  ReadableAmount(Written(cost)) /\ Value(Written(cost)) = cost * Place
<1>1. Places + 1 \in 1 .. MaxDigits /\ 0 \in -MaxScale .. MaxScale
      /\ Places - 0 \in -MaxScale .. MaxScale /\ Places - 0 = Places
  BY CostAssumption
<1>2. ReadableAmount(Written(cost))
  BY <1>1 DEF ReadableAmount, Written
<1>3. Value(Written(cost)) = cost * Place
  BY <1>1 DEF Value, Written, Place
<1> QED BY <1>2, <1>3

\* What one of so many outputs costs is the nearest.
LEMMA DividedIsNear ==
  ASSUME NEW cost \in Int, NEW n \in Nat \ {0}
  PROVE  Near(DivideDecimal8(Written(cost), n), cost, n)
<1> DEFINE d == 2 * Place * n
           a == 2 * (cost * Place) + Place * n
           q == a \div d
<1>1. d \in Nat \ {0} /\ a \in Int
  BY PlaceIsPositive
<1>2. q \in Int /\ q * d <= a /\ a < q * d + d
  BY <1>1, Quotient
<1>3. DivideDecimal8(Written(cost), n) = q
  BY WrittenIsRead DEF DivideDecimal8
<1> HIDE DEF q
<1> DEFINE m == q * n
<1>4. m \in Int
  BY <1>2
<1>5. q * d = Place * (2 * m) /\ d = Place * (2 * n) /\ a = Place * (2 * cost + n)
  BY <1>2, <1>4, PlaceIsPositive
<1>6. ASSUME NEW i \in Int, NEW j \in Int, Place * i <= Place * j PROVE i <= j
  BY <1>6, PlaceIsPositive
<1>7. ASSUME NEW i \in Int, NEW j \in Int, Place * i < Place * j PROVE i < j
  BY <1>7, PlaceIsPositive
<1> HIDE DEF m, a, d
<1>8. 2 * m <= 2 * cost + n
  BY <1>2, <1>4, <1>5, <1>6
<1>9. 2 * cost + n < 2 * m + 2 * n
  <2>1. Place * (2 * cost + n) < Place * (2 * m + 2 * n)
    BY <1>2, <1>4, <1>5, PlaceIsPositive
  <2> QED BY <1>4, <1>7, <2>1
<1>10. 2 * (m - cost) \in -n .. n
  BY <1>4, <1>8, <1>9
<1> QED BY <1>3, <1>10 DEF Near, m


\* What MapThenSumSet sums is the sum of the whole set.
LEMMA TotalIsTyped ==
  ASSUME NEW prices \in Pricings, NEW usage \in Usages, Calculable(prices, usage)
  PROVE  Total(prices, usage) \in Int
<1> DEFINE e(kind) == usage[kind] * Price(prices, kind)
           g == [kind \in Kinds |-> e(kind)]
           Eq(h) == h = [s \in SUBSET Kinds |->
             IF s = {} THEN 0
             ELSE e(CHOOSE x \in s : TRUE) + h[s \ {CHOOSE x \in s : TRUE}]]
<1>1. IsFiniteSet(Kinds)
  <2>1. Kinds = {"input", "output", "image"}
    BY DEF Kinds, Aliases
  <2>2. IsFiniteSet({"input"}) /\ IsFiniteSet({"output"}) /\ IsFiniteSet({"image"})
    BY FS_Singleton
  <2>3. Kinds = ({"input"} \cup {"output"}) \cup {"image"}
    BY <2>1
  <2> QED BY <2>2, <2>3, FS_Union
<1>2. ASSUME NEW kind \in Kinds PROVE Price(prices, kind) \in Int
  <2>1. CASE NamesOf(prices, kind) = {}
    BY <2>1 DEF Price
  <2>2. CASE NamesOf(prices, kind) # {}
    <3> DEFINE i == Min(NamesOf(prices, kind))
               name == Aliases[kind][i]
    <3>1. NamesOf(prices, kind) \subseteq 1 .. 4
      BY DEF NamesOf, Aliases, Kinds
    <3>2. \E j \in NamesOf(prices, kind) : \A l \in NamesOf(prices, kind) : j <= l
      BY <2>2, <3>1, LeastNatural
    <3>3. i \in NamesOf(prices, kind)
      BY <3>2 DEF Min
    <3>4. name \in DOMAIN prices
      BY <3>3 DEF NamesOf
    <3>5. ReadableAmount(prices[name]) /\ prices # Undecodable
      BY <3>4 DEF Calculable, ReadablePrices, ReadablePrice
    <3>6. Value(prices[name]) \in Int
      BY <3>4, <3>5, ValueIsTyped, AttemptsAssumption
    <3> QED BY <2>2, <3>6 DEF Price
  <2> QED BY <2>1, <2>2
<1>3. g \in [Kinds -> Int]
  BY <1>2, AttemptsAssumption
<1>4. \A h : Eq(h) <=> Adds(h, g, Kinds)
  BY DEF Adds, First
<1>5. PICK h : Adds(h, g, Kinds)
  BY <1>1, <1>3, SumsExist
<1>6. Total(prices, usage) = (CHOOSE k : Eq(k))[Kinds]
  BY DEF Total, MapThenSumSet, MapThenFoldSet
<1> HIDE DEF g, Eq
<1>7. Eq(CHOOSE k : Eq(k))
  BY <1>4, <1>5
<1>8. (CHOOSE k : Eq(k)) = h
  BY <1>1, <1>4, <1>5, <1>7, SumsAgree
<1>9. h[Kinds] \in Int
  BY <1>1, <1>3, <1>5, SumsAreTyped
<1> QED BY <1>6, <1>8, <1>9


-----------------------------------------------------------------------------
(* Costs *)

UsageRow(usage, prices) ==
  [usage |-> usage, prices |-> prices, estimate |-> Estimate(prices, usage)]

Charged == {t \in Tasks : charged[t] # {}}

\* A task is charged once, for what was reported at the prices that were read.
ChargedInv ==
  /\ charged = [t \in Tasks |-> charged[t]]
  /\ IsFiniteSet(Charged)
  /\ \A t \in Charged :
       \E usage \in Usages, prices \in Pricings : charged[t] = {UsageRow(usage, prices)}

LEMMA StepsCharge ==
  ASSUME TxInv, TasksInv, [Next]_vars
  PROVE  \/ UNCHANGED charged
         \/ \E t \in Tasks, usage \in Usages, prices \in Pricings :
              charged' = [charged EXCEPT ![t] = IF @ = {} THEN {UsageRow(usage, prices)} ELSE @]
<1>1. ASSUME NEW c \in Connections, Step(c), ~ UNCHANGED charged
      PROVE  \E t \in Tasks, usage \in Usages, prices \in Pricings :
               charged' = [charged EXCEPT ![t] = IF @ = {} THEN {UsageRow(usage, prices)} ELSE @]
  <2>1. AttemptStep(c)
    BY <1>1 DEF Step, BeginRequest, RollbackRequest, ForgetAttempt, attemptVars, resultVars
  <2>2. PersistSuccessfulResult(c)
    BY <1>1, <2>1 DEF AttemptStep, Interrupt, ClaimRunning, BaseURLInvalid,
       CredentialUnavailable, InputsUnavailable, BeginAttempt, CallProvider, FinalizeAttempt,
       EndInterrupted, EndFailed, OutputInvalid, CostOverflows, EndUnpersisted, CompleteTask,
       RecoverTimedOut, attemptVars, resultVars
  <2>3. Task(c) \in Tasks
    BY <2>1, <2>2, ExecutedTaskIsThere DEF PersistSuccessfulResult
  <2> QED
    BY <2>2, <2>3 DEF PersistSuccessfulResult, CreateUsageIfAbsent, UsageRow
<1>2. CASE \A c \in Connections : ~ Step(c)
  BY <1>2 DEF Next, vars, attemptVars, resultVars, Deploy, ObjectsChange
<1> QED BY <1>1, <1>2

LEMMA StepKeepsCharged ==
  ASSUME TxInv, TasksInv, ChargedInv, [Next]_vars
  PROVE  ChargedInv'
<1>1. CASE UNCHANGED charged
  BY <1>1 DEF ChargedInv, Charged
<1>2. ASSUME NEW t \in Tasks, NEW usage \in Usages, NEW prices \in Pricings,
             charged' = [charged EXCEPT ![t] = IF @ = {} THEN {UsageRow(usage, prices)} ELSE @]
      PROVE  ChargedInv'
  <2>1. charged = [s \in Tasks |-> charged[s]] /\ IsFiniteSet(Charged)
    BY DEF ChargedInv
  <2>2. charged' = [s \in Tasks |-> charged'[s]]
    BY <1>2, <2>1
  <2>3. \A s \in Tasks : charged'[s] = IF s = t /\ charged[s] = {} THEN {UsageRow(usage, prices)}
                                       ELSE charged[s]
    BY <1>2, <2>1
  <2>4. Charged' = Charged \cup {t}
    BY <2>3 DEF Charged
  <2>5. IsFiniteSet(Charged)'
    BY <2>1, <2>4, FS_AddElement
  <2>6. \A s \in Charged' :
          \E u \in Usages, p \in Pricings : charged'[s] = {UsageRow(u, p)}
    BY <2>3 DEF ChargedInv, Charged
  <2> QED BY <2>2, <2>5, <2>6 DEF ChargedInv
<1> QED BY <1>1, <1>2, StepsCharge

LEMMA ChargedHolds == Spec => []ChargedInv
<1>1. Init => ChargedInv
  <2>1. SUFFICES ASSUME Init PROVE ChargedInv
    OBVIOUS
  <2>2. charged = [t \in Tasks |-> {}]
    BY <2>1 DEF Init, AttemptsInit
  <2>3. Charged = {}
    BY <2>2 DEF Charged
  <2> QED BY <2>2, <2>3, FS_EmptySet DEF ChargedInv
<1>2. QED
  BY <1>1, StepKeepsCharged, LocksExclude, TasksHold, PTL DEF Spec

\* A row says what has been used, and what it costs: the nearest, or nothing.
LEMMA RowIsNear ==
  ASSUME NEW usage \in Usages, NEW prices \in Pricings, NEW row, row = UsageRow(usage, prices)
  PROVE  /\ row.estimate.cost \in Int
         /\ IF row.estimate.status = "CALCULATED"
            THEN /\ \A kind \in Kinds : row.usage[kind] > 0 =>
                      \E name \in DOMAIN row.prices : \E i \in DOMAIN Aliases[kind] :
                        Aliases[kind][i] = name
                 /\ Near(row.estimate.cost, Total(row.prices, row.usage), Place)
            ELSE row.estimate.cost = 0
<1>1. row.usage = usage /\ row.prices = prices /\ row.estimate = Estimate(prices, usage)
  BY DEF UsageRow
<1>2. CASE Calculable(prices, usage)
  <2>1. row.estimate = [status |-> "CALCULATED", cost |-> Rounded(Total(prices, usage))]
    BY <1>1, <1>2 DEF Estimate
  <2>2. Rounded(Total(prices, usage)) \in Int
        /\ Near(Rounded(Total(prices, usage)), Total(prices, usage), Place)
    BY <1>2, TotalIsTyped, RoundedIsNear
  <2>3. \A kind \in Kinds : usage[kind] > 0 =>
          \E name \in DOMAIN prices : \E i \in DOMAIN Aliases[kind] : Aliases[kind][i] = name
    BY <1>2 DEF Calculable, NamesOf
  <2> QED BY <1>1, <2>1, <2>2, <2>3
<1>3. CASE ~ Calculable(prices, usage)
  <2>1. row.estimate = [status |-> "UNAVAILABLE", cost |-> 0]
    BY <1>1, <1>3 DEF Estimate, Unavailable
  <2> QED BY <2>1
<1> QED BY <1>2, <1>3

\* The costs of a report add up to the last place.
LEMMA ReportIsExact ==
  ASSUME NEW S, IsFiniteSet(S), NEW cost \in [S -> Int], NEW sums, Adds(sums, cost, S),
         NEW amounts, amounts = [t \in S |-> Written(cost[t])]
  PROVE  sums[S] \in Int /\ SumDecimal8(amounts) = sums[S]
<1> DEFINE e(i) == IF ReadableAmount(amounts[i]) THEN Value(amounts[i]) ELSE 0
           g == [t \in S |-> cost[t] * Place]
           Eq(h) == h = [s \in SUBSET S |->
             IF s = {} THEN 0
             ELSE e(First(s)) + h[s \ {First(s)}]]
<1>1. \A t \in S : e(t) = g[t]
  BY WrittenIsRead
<1>2. g \in [S -> Int] /\ \A t \in S : g[t] = cost[t] * Place
  BY PlaceIsPositive
<1>3. SumDecimal8(amounts) = Rounded((CHOOSE k : Eq(k))[S])
  <2>1. DOMAIN amounts = S
    OBVIOUS
  <2>2. MapThenSumSet(LAMBDA i : e(i), S) = (CHOOSE k : Eq(k))[S]
    BY DEF MapThenSumSet, MapThenFoldSet, First
  <2>3. SumDecimal8(amounts) = Rounded(MapThenSumSet(LAMBDA i : e(i), S))
    BY <2>1 DEF SumDecimal8
  <2> QED BY <2>2, <2>3
<1> HIDE DEF e, g
<1>4. \A h : Eq(h) <=> Adds(h, g, S)
  <2>1. \A s \in SUBSET S : s # {} => First(s) \in S
    BY FirstIsThere
  <2>2. \A s \in SUBSET S : s # {} => e(First(s)) = g[First(s)]
    BY <1>1, <2>1
  <2>3. ASSUME NEW h PROVE Eq(h) <=> Adds(h, g, S)
    <3>1. [s \in SUBSET S |-> IF s = {} THEN 0 ELSE e(First(s)) + h[s \ {First(s)}]]
          = [s \in SUBSET S |-> IF s = {} THEN 0 ELSE g[First(s)] + h[s \ {First(s)}]]
      BY <2>2
    <3> QED BY <3>1 DEF Adds
  <2> QED BY <2>3
<1>5. PICK h : Adds(h, g, S)
  BY <1>2, SumsExist
<1> HIDE DEF Eq
<1>6. Eq(CHOOSE k : Eq(k))
  BY <1>4, <1>5
<1>7. (CHOOSE k : Eq(k)) = h
  BY <1>4, <1>5, <1>6, SumsAgree
<1>8. h[S] = sums[S] * Place
  BY <1>2, <1>5, SumsScale, PlaceIsPositive
<1>9. sums[S] \in Int
  BY SumsAreTyped
<1> QED BY <1>3, <1>7, <1>8, <1>9, RoundedExactly

LEMMA ChargedCosts ==
  ASSUME ChargedInv
  PROVE  CostsAreNearest
<1> DEFINE Row(t) == CHOOSE row \in charged[t] : TRUE
           cost == [t \in Charged |-> Row(t).estimate.cost]
           sum == SumDecimal8([t \in Charged |-> Written(Row(t).estimate.cost)])
           Eq(h) == h = [s \in SUBSET Charged |->
             IF s = {} THEN 0
             ELSE Row(CHOOSE x \in s : TRUE).estimate.cost
                    + h[s \ {CHOOSE x \in s : TRUE}]]
<1>1. ASSUME NEW t \in Charged
      PROVE  \E usage \in Usages, prices \in Pricings :
               charged[t] = {Row(t)} /\ Row(t) = UsageRow(usage, prices)
  BY DEF ChargedInv
<1>2. IsFiniteSet(Charged)
  BY DEF ChargedInv
<1>3. \A t \in Tasks : Cardinality(charged[t]) <= 1
  <2>1. ASSUME NEW t \in Tasks PROVE Cardinality(charged[t]) <= 1
    <3>1. CASE charged[t] = {}
      BY <3>1, FS_EmptySet
    <3>2. CASE charged[t] # {}
      <4>1. charged[t] = {Row(t)}
        BY <1>1, <3>2 DEF Charged
      <4>2. Cardinality({Row(t)}) = 1
        BY FS_Singleton
      <4> HIDE DEF Row
      <4> QED BY <4>1, <4>2
    <3> QED BY <3>1, <3>2
  <2> QED BY <2>1
<1>4. ASSUME NEW t \in Charged
      PROVE
        /\ Row(t).estimate.cost \in Int
        /\ IF Row(t).estimate.status = "CALCULATED"
           THEN /\ \A kind \in Kinds : Row(t).usage[kind] > 0 =>
                     \E name \in DOMAIN Row(t).prices : \E i \in DOMAIN Aliases[kind] :
                       Aliases[kind][i] = name
                /\ Near(Row(t).estimate.cost, Total(Row(t).prices, Row(t).usage), Place)
           ELSE Row(t).estimate.cost = 0
  <2>1. PICK usage \in Usages, prices \in Pricings : Row(t) = UsageRow(usage, prices)
    BY <1>1
  <2> HIDE DEF Row
  <2> QED BY <2>1, RowIsNear
<1>5. MapThenSumSet(LAMBDA t : Row(t).estimate.cost, Charged) = (CHOOSE k : Eq(k))[Charged]
  BY DEF MapThenSumSet, MapThenFoldSet
<1> HIDE DEF Row
<1>6. cost \in [Charged -> Int] /\ \A t \in Charged : cost[t] = Row(t).estimate.cost
  BY <1>4
<1>7. \A h : Eq(h) <=> Adds(h, cost, Charged)
  BY <1>6, FirstIsThere DEF Adds, First
<1>8. PICK h : Adds(h, cost, Charged)
  BY <1>2, <1>6, SumsExist
<1>9. sum = h[Charged] /\ h[Charged] \in Int
  <2>1. [t \in Charged |-> Written(Row(t).estimate.cost)] = [t \in Charged |-> Written(cost[t])]
    BY <1>6
  <2> HIDE DEF cost
  <2> QED BY <1>2, <1>6, <1>8, <2>1, ReportIsExact
<1> HIDE DEF Eq, cost, sum
<1>10. Eq(CHOOSE k : Eq(k))
  BY <1>7, <1>8
<1>11. (CHOOSE k : Eq(k)) = h
  BY <1>2, <1>7, <1>8, <1>10, SumsAgree
<1>12. sum = MapThenSumSet(LAMBDA t : Row(t).estimate.cost, Charged)
  BY <1>5, <1>9, <1>11
<1>13. \A n \in Nat \ {0} : Near(DivideDecimal8(Written(sum), n), sum, n)
  BY <1>9, DividedIsNear
<1>14. \A n \in 1 .. MaxImages * Cardinality(Charged) : n \in Nat \ {0}
  BY <1>2, FS_CardinalityType, AdapterAssumption
<1> QED
  BY <1>3, <1>4, <1>12, <1>13, <1>14 DEF CostsAreNearest, Charged, Near, Row, sum

\* Whatever providers report and prices say, a cost that was calculated is the nearest
\* to the exact one and has a price for all that was used; the costs of a report add up
\* exactly, and what one of its outputs costs is the nearest again.
THEOREM CostsStayNearest == Spec => []CostsAreNearest
BY ChargedCosts, ChargedHolds, PTL


-----------------------------------------------------------------------------
(* The types of everything *)

\* What the requests of a kind say has its type.
LEMMA RequestSays ==
  ASSUME TxInv, NEW c \in Connections
  PROVE  /\ Kind(c) \in {"createRole", "updateRole", "replacePermissions", "deleteRole"} =>
              request[c].role \in CustomRoles
         /\ Kind(c) \in {"setStatus", "createRole", "updateRole"} =>
              request[c].status \in {"ACTIVE", "DISABLED"}
         /\ Kind(c) = "replacePermissions" => request[c].permissions \subseteq Permissions
         /\ Kind(c) \in {"replaceUserRoles", "createUser"} => request[c].roles \subseteq Roles
         /\ Kind(c) \in MemberKinds \cup {"createProject"} => request[c].user \in Members
         /\ Kind(c) \in {"addMember", "updateMember"} => request[c].role \in MemberRoles
         /\ Kind(c) = "updateProject" => request[c].status \in {"live", "archived"}
         /\ Kind(c) = "replaceAccess" => request[c].models \subseteq Models
         /\ Kind(c) = "patchSettings" => request[c].groups \in Seq(Groups)
         /\ Kind(c) = "applyLimits" => request[c].group \in Groups
         /\ Kind(c) = "provisionTenant" => request[c].tenant \in Tenants
<1>1. CASE Kind(c) = "none"
  BY <1>1 DEF MemberKinds
<1>2. CASE Kind(c) # "none"
  <2>1. request[c] \in Requests
    BY <1>2, RequestIsMade
  <2>2. QED
    BY <2>1, UserRequestsAssumption, MembersRequestsAssumption, AdmissionRequestsAssumption,
       SettingsRequestsAssumption, MaintenanceRequestsAssumption DEF Kind
<1>3. QED
  BY <1>1, <1>2

\* Users and roles are written by requests for it, and by the start of an API.
LEMMA StepKeepsUserTypes ==
  ASSUME TxInv, UsersTypeOK, [Next]_vars
  PROVE  UsersTypeOK'
<1>0. CASE UNCHANGED userVars
  BY <1>0 DEF UsersTypeOK, userVars
<1>1. ASSUME NEW c \in Connections, UserStep(c) PROVE UsersTypeOK'
  <2> USE DEF UsersTypeOK
  <2>1. CASE InitAdmin(c)
    <3>1. Kind(c) \in UserKinds
      BY <2>1 DEF InitAdmin, UserKinds
    <3>2. request[c].user \in Users
      BY <3>1, UserRequestIsTyped
    <3>3. QED
      BY <2>1, <3>2, UsersAssumption DEF InitAdmin, Roles
  <2>2. CASE SetStatus(c)
    <3>1. request[c].status \in {"ACTIVE", "DISABLED"}
      BY <2>2, UserRequestIsTyped DEF SetStatus
    <3>2. QED
      BY <2>2, <3>1 DEF SetStatus
  <2>3. CASE ReplaceUserRoles(c) \/ CreateUser(c)
    <3>1. request[c].roles \subseteq Roles
      BY <2>3, RequestSays DEF ReplaceUserRoles, CreateUser
    <3>2. QED
      BY <2>3, <3>1 DEF ReplaceUserRoles, CreateUser
  <2>4. CASE CreateRole(c) \/ UpdateRole(c) \/ DeleteRole(c)
    <3>1. CreateRole(c) \/ UpdateRole(c) => request[c].status \in {"ACTIVE", "DISABLED"}
      BY RequestSays DEF CreateRole, UpdateRole
    <3>2. QED
      BY <2>4, <3>1 DEF CreateRole, UpdateRole, DeleteRole
  <2>5. CASE ReplaceRolePermissions(c)
    <3>1. request[c].permissions \subseteq Permissions
      BY <2>5, RequestSays DEF ReplaceRolePermissions
    <3>2. QED
      BY <2>5, <3>1 DEF ReplaceRolePermissions
  <2>6. QED
    BY <1>0, <1>1, <2>1, <2>2, <2>3, <2>4, <2>5
       DEF UserStep, Initialized, FindUser, ActiveRolesByIDs, EnsureAnotherActiveAdminExists,
           FindRole
<1>2. ASSUME NEW c \in Connections, StartStep(c) PROVE UsersTypeOK'
  <2>1. CASE SeedBuiltInRoles(c)
    BY <2>1, UsersAssumption DEF SeedBuiltInRoles, UsersTypeOK
  <2>2. QED
    BY <1>0, <1>2, <2>1 DEF StartStep, FindRolePermissions
<1>3. ASSUME NEW c \in Connections, MaintenanceStep(c) PROVE UNCHANGED userVars
  BY <1>3 DEF MaintenanceStep, PlatformInitialized, ProvisionTenant, BeginRound, ListingFails,
              ListTenants, ServeTenant, NextStage
<1>4. ASSUME NEW c \in Connections, Step(c) PROVE UsersTypeOK'
  BY <1>0, <1>1, <1>2, <1>3, <1>4 DEF Step, BeginRequest, RollbackRequest
<1>5. CASE Deploy \/ ObjectsChange \/ UNCHANGED vars
  BY <1>0, <1>5 DEF Deploy, ObjectsChange, vars
<1>6. QED
  BY <1>4, <1>5 DEF Next

LEMMA UserTypesHold == Spec => []UsersTypeOK
<1>1. Init => UsersTypeOK
  <2> SUFFICES ASSUME Init PROVE UsersTypeOK
    OBVIOUS
  <2>1. PICK empty \in BOOLEAN, granted \in SUBSET Permissions :
          UsersInit(IF empty THEN {} ELSE Administrators, granted)
    BY DEF Init
  <2>2. QED
    BY <2>1 DEF UsersInit, UsersTypeOK, Roles
<1>2. QED
  BY <1>1, StepKeepsUserTypes, LocksExclude, PTL DEF Spec

\* The members of a project are written by requests for it.
LEMMA MemberTypesAreKept ==
  ASSUME TxInv, MembersTypeOK, NEW c \in Connections, MemberStep(c)
  PROVE  MembersTypeOK'
<1> USE DEF MembersTypeOK
<1>1. CASE CreateProject(c)
  BY <1>1 DEF CreateProject, MemberRoles
<1>2. CASE FindMember(c)
  <2>1. request[c].user \in Members
    BY <1>2, RequestSays DEF FindMember
  <2>2. QED
    BY <1>2, <2>1 DEF FindMember
<1>3. CASE AddMember(c) \/ UpdateMember(c)
  <2>1. request[c].role \in MemberRoles
    BY <1>3, RequestSays DEF AddMember, UpdateMember
  <2>2. QED
    BY <1>3, <2>1 DEF AddMember, UpdateMember
<1>4. CASE RemoveMember(c)
  BY <1>4 DEF RemoveMember
<1>5. CASE UpdateProject(c)
  <2>1. request[c].status \in {"live", "archived"}
    BY <1>5, RequestSays DEF UpdateProject
  <2>2. QED
    BY <1>5, <2>1 DEF UpdateProject
<1>6. CASE DeleteProject(c)
  BY <1>6 DEF DeleteProject
<1>7. CASE EnsureAnotherOwnerRemains(c) \/ AuthorizeUpdate(c)
  BY <1>7 DEF EnsureAnotherOwnerRemains, AuthorizeUpdate, memberVars
<1>8. QED
  BY <1>1, <1>2, <1>3, <1>4, <1>5, <1>6, <1>7 DEF MemberStep

LEMMA StepKeepsMemberTypes ==
  ASSUME TxInv, MembersTypeOK, [Next]_vars
  PROVE  MembersTypeOK'
<1>0. CASE UNCHANGED memberVars
  BY <1>0 DEF MembersTypeOK, memberVars
<1>1. ASSUME NEW c \in Connections, Step(c) PROVE MembersTypeOK'
  BY <1>0, <1>1, MemberTypesAreKept DEF Step, BeginRequest, RollbackRequest
<1>2. CASE Deploy \/ ObjectsChange \/ UNCHANGED vars
  BY <1>0, <1>2 DEF Deploy, ObjectsChange, vars
<1>3. QED
  BY <1>1, <1>2 DEF Next

LEMMA MemberTypesHold == Spec => []MembersTypeOK
<1>1. Init => MembersTypeOK
  <2> SUFFICES ASSUME Init PROVE MembersTypeOK
    OBVIOUS
  <2>1. PICK empty \in BOOLEAN : MembersInit(empty)
    BY DEF Init
  <2>2. QED
    BY <2>1, MembersAssumption DEF MembersInit, MembersTypeOK
<1>2. QED
  BY <1>1, StepKeepsMemberTypes, LocksExclude, PTL DEF Spec




\* Grants of models, and who is taken for an administrator.
AccessTypes ==
  /\ modelAccess \in [Users -> SUBSET Models]
  /\ asAdmin \in [Connections -> BOOLEAN]

LEMMA StepKeepsAccessTypes ==
  ASSUME TxInv, GrantsInv, AccessTypes, [Next]_vars
  PROVE  AccessTypes'
<1> DEFINE Same == UNCHANGED <<modelAccess, asAdmin>>
<1>0. CASE Same
  BY <1>0 DEF AccessTypes
<1>1. ASSUME NEW c \in Connections, NEW with \in BOOLEAN, UNCHANGED modelAccess,
             asAdmin' = [asAdmin EXCEPT ![c] = with]
      PROVE  AccessTypes'
  BY <1>1 DEF AccessTypes
<1>2. ASSUME NEW c \in Connections, AdmissionStep(c) PROVE AccessTypes'
  <2>1. CASE ReplaceUserModelAccess(c)
    <3>1. Kind(c) = "replaceAccess"
      BY <2>1 DEF ReplaceUserModelAccess, GrantsInv, KnowsGrants, HoldsModels, AccessSteps
    <3>2. request[c].models \subseteq Models
      BY <3>1, RequestSays
    <3>3. QED
      BY <2>1, <3>2 DEF ReplaceUserModelAccess, AccessTypes
  <2>2. CASE Authenticate(c)
    <3> DEFINE with == Admin \in (userRoles[request[c].user] \cap ActiveRoles)
    <3>1. with \in BOOLEAN
      OBVIOUS
    <3>2. asAdmin' = [asAdmin EXCEPT ![c] = with] /\ UNCHANGED modelAccess
      BY <2>2 DEF Authenticate
    <3> HIDE DEF with
    <3>3. QED
      BY <1>1, <3>1, <3>2
  <2>3. CASE CreateTask(c)
    BY <1>1, <2>3 DEF CreateTask
  <2>4. QED
    BY <1>0, <1>2, <2>1, <2>2, <2>3 DEF AdmissionStep, FindGrantee, ModelsByIDs, AdmitTask,
       FindTask, FindTaskProvider, FindTaskModel, FailEligibleTask, MarkDeadLettered, admissionVars
<1>3. ASSUME NEW c \in Connections, StartStep(c) PROVE AccessTypes'
  <2>1. CASE BackfillGrants /\ UNCHANGED asAdmin
    <3>1. \A u \in Users :
            modelAccess[u] \cup (IF userStatus[u] = "absent" THEN {} ELSE {m \in Models : models[m] # Deleted})
              \in SUBSET Models
      BY DEF AccessTypes
    <3>2. QED
      BY <2>1, <3>1 DEF BackfillGrants, AccessTypes
  <2>2. QED
    BY <1>0, <1>3, <2>1 DEF StartStep, AcquireMigrationLock, MigrationApplied,
       ExecuteMigrationStatement, Define, RecordMigration, VerifyMigrationSchema,
       ReleaseMigrationLock, VerifyWorkerReadiness, FindRolePermissions, SeedBuiltInRoles,
       admissionVars
<1>4. ASSUME NEW c \in Connections, Step(c) PROVE AccessTypes'
  <2>1. CASE RollbackRequest(c)
    BY <1>1, <2>1 DEF RollbackRequest, ForgetAdmission
  <2>2. CASE AttemptStep(c)
    BY <1>0, <2>2, AttemptIsElsewhere
  <2>3. QED
    BY <1>0, <1>2, <1>3, <1>4, <2>1, <2>2 DEF Step, BeginRequest, admissionVars
<1>5. CASE Deploy \/ ObjectsChange \/ UNCHANGED vars
  BY <1>0, <1>5 DEF Deploy, ObjectsChange, vars, admissionVars
<1>6. QED
  BY <1>4, <1>5 DEF Next

LEMMA AccessTypesHold == Spec => []AccessTypes
<1>1. Init => AccessTypes
  BY DEF Init, AdmissionInit, AccessTypes
<1>2. QED
  BY <1>1, StepKeepsAccessTypes, LocksExclude, GrantsHold, PTL DEF Spec

\* A task is planned between its admission and its row, and a context is known
\* during an execution only: nobody finds what another request has left.
Remembers(c) ==
  /\ plan[c] # NoTask => step[c] = "admitted"
  /\ context[c] # Nothing => step[c] \in ContextSteps \cup Executing

NothingIsLeft == \A c \in Connections : Remembers(c)

LEMMA OthersRemember ==
  ASSUME NEW d \in Connections, Remembers(d), TxSame(d), ReadSame(d)
  PROVE  Remembers(d)'
BY DEF Remembers, TxSame, ReadSame

LEMMA AdmissionRemembers ==
  ASSUME TxInv, TasksInv, NothingIsLeft, NEW c \in Connections, AdmissionStep(c)
  PROVE  Remembers(c)'
<1>0. /\ step = [e \in Connections |-> step[e]]
      /\ plan = [e \in Connections |-> plan[e]]
      /\ context = [e \in Connections |-> context[e]]
      /\ Remembers(c)
  BY DEF TxInv, TasksInv, NothingIsLeft
<1> USE DEF Remembers, ContextSteps, Executing
<1>1. CASE FindGrantee(c) \/ ModelsByIDs(c) \/ ReplaceUserModelAccess(c)
  BY <1>0, <1>1 DEF FindGrantee, ModelsByIDs, ReplaceUserModelAccess, ReadShared, Commit, End,
                    admissionVars
<1>2. CASE Authenticate(c)
  BY <1>0, <1>2 DEF Authenticate, Read
<1>3. CASE AdmitTask(c)
  BY <1>0, <1>3 DEF AdmitTask, Read
<1>4. CASE CreateTask(c)
  BY <1>0, <1>4 DEF CreateTask, Commit, End
<1>5. CASE FindTask(c) \/ FindTaskProvider(c)
  BY <1>0, <1>5 DEF FindTask, FindTaskProvider, Read
<1>6. CASE FindTaskModel(c)
  BY <1>0, <1>6 DEF FindTaskModel, Read, admissionVars
<1>7. CASE FailEligibleTask(c) \/ MarkDeadLettered(c)
  BY <1>0, <1>7 DEF FailEligibleTask, MarkDeadLettered, End
<1>8. QED
  BY <1>1, <1>2, <1>3, <1>4, <1>5, <1>6, <1>7 DEF AdmissionStep

LEMMA AttemptRemembers ==
  ASSUME TxInv, TasksInv, NothingIsLeft, NEW c \in Connections, AttemptStep(c)
  PROVE  Remembers(c)'
<1>0. /\ step = [e \in Connections |-> step[e]]
      /\ context = [e \in Connections |-> context[e]]
      /\ Remembers(c)
  BY DEF TxInv, TasksInv, NothingIsLeft
<1>1. plan'[c] = plan[c] /\ plan[c] = NoTask
  <2>1. step[c] # "admitted"
    BY AttemptGoesOn DEF Executing, RecoverTimedOut
  <2>2. QED
    BY <1>0, <2>1, AttemptIsElsewhere DEF Remembers
<1>2. CASE Leave(c)
  BY <1>0, <1>1, <1>2 DEF Leave, Remembers
<1>3. CASE ~ Leave(c)
  <2>1. CASE UNCHANGED txVars
    <3>1. step[c] \in Executing
      BY <2>1, AttemptKeepsStep
    <3>2. QED
      BY <1>1, <2>1, <3>1 DEF Remembers, txVars
  <2>2. CASE TxMove(c, {"begun", "validated context"} \cup Executing, Executing) /\ ~ End(c)
    <3>1. \E next \in Executing : step' = [step EXCEPT ![c] = next]
      BY <2>2 DEF TxMove, Read, ReadShared, ReadForUpdate
    <3>2. step'[c] \in Executing
      BY <1>0, <3>1
    <3>3. QED
      BY <1>1, <3>2 DEF Remembers
  <2>3. ASSUME End(c) PROVE FALSE
    <3>1. step'[c] = "idle"
      BY <1>0, <2>3 DEF End
    <3>2. ASSUME NEW next, Read(c, next) PROVE step'[c] = next
      BY <1>0, <3>2 DEF Read
    <3>3. ~ Interrupt(c)
      <4>1. step[c] \notin {"idle"} \/ ~ Interrupt(c)
        BY DEF Interrupt, Executing
      <4>2. QED
        BY <3>1, <4>1 DEF Interrupt, txVars
    <3>4. \A next \in Executing : ~ Read(c, next)
      BY <3>1, <3>2 DEF Executing
    <3>5. QED
      BY <1>3, <3>3, <3>4 DEF AttemptStep, ClaimRunning, BaseURLInvalid, CredentialUnavailable,
         InputsUnavailable, Answer, BeginAttempt, CallProvider, AdapterStep, InvalidRequest,
         TransportFails, HTTPFails, ResponseTooLarge, BeginReading, DecodeImage, BodyFails,
         EndOfBody, GeminiBodyFails, ParseGemini, Called, FinalizeAttempt, EndInterrupted,
         EndFailed, PersistSuccessfulResult, OutputInvalid, CostOverflows, EndUnpersisted,
         CompleteTask, RecoverTimedOut, Executing
  <2>4. QED
    BY <2>1, <2>2, <2>3, AttemptMove
<1>4. QED
  BY <1>2, <1>3

LEMMA StepLeavesNothing ==
  ASSUME TxInv, TasksInv, NothingIsLeft, [Next]_vars
  PROVE  NothingIsLeft'
<1>0. /\ plan = [e \in Connections |-> plan[e]]
      /\ context = [e \in Connections |-> context[e]]
  BY DEF TasksInv
<1>1. ASSUME NEW c \in Connections, Remembers(c)',
             \A d \in Connections : d # c => TxSame(d) /\ ReadSame(d)
      PROVE  NothingIsLeft'
  BY <1>1, OthersRemember DEF NothingIsLeft
<1>2. ASSUME NEW c \in Connections, Step(c) PROVE NothingIsLeft'
  <2>1. CASE Elsewhere(c) /\ ExecutionSame
    <3>1. /\ step[c] \notin TaskSteps /\ step'[c] \notin TaskSteps
          /\ \A d \in Connections : d # c => TxSame(d)
      BY <2>1, ElsewhereIsElsewhere
    <3>2. Remembers(c)'
      BY <2>1, <3>1 DEF ExecutionSame, NothingIsLeft, Remembers, TaskSteps, AdmissionSteps
    <3>3. QED
      BY <1>1, <2>1, <3>1, <3>2 DEF ExecutionSame, ReadSame
  <2>2. CASE RollbackRequest(c)
    <3>1. \A d \in Connections : d # c => TxSame(d) /\ ReadSame(d)
      BY <1>0, <2>2, RollbackOfTask DEF RollbackRequest, ForgetAdmission, ReadSame
    <3>2. Remembers(c)'
      BY <1>0, <2>2 DEF RollbackRequest, ForgetAdmission, Remembers
    <3>3. QED
      BY <1>1, <3>1, <3>2
  <2>3. CASE AdmissionStep(c)
    BY <1>1, <2>3, AdmissionReads, AdmissionRemembers
  <2>4. CASE AttemptStep(c)
    BY <1>1, <2>4, AttemptReads, AttemptRemembers
  <2>5. QED
    BY <1>2, <2>1, <2>2, <2>3, <2>4, StepOfTask
<1>3. CASE \A c \in Connections : ~ Step(c)
  BY <1>3, OthersOfTask DEF txVars, ExecutionSame, NothingIsLeft, Remembers
<1>4. QED
  BY <1>2, <1>3

LEMMA NothingIsLeftHolds == Spec => []NothingIsLeft
<1>1. Init => NothingIsLeft
  BY DEF Init, AdmissionInit, NothingIsLeft, Remembers
<1>2. QED
  BY <1>1, StepLeavesNothing, LocksExclude, TasksHold, PTL DEF Spec

LEMMA AdmissionTypesHold == Spec => []AdmissionTypeOK
<1>1. TxInv /\ TasksInv /\ AccessTypes /\ NothingIsLeft => AdmissionTypeOK
  BY DEF TasksInv, AccessTypes, NothingIsLeft, Remembers, AdmissionTypeOK, ContextSteps, Executing
<1>2. QED
  BY <1>1, LocksExclude, TasksHold, AccessTypesHold, NothingIsLeftHolds, PTL


\* What a call has answered, and the images it has left for now.
LEMMA AdapterTypesAreKept ==
  ASSUME AdapterTypeOK, NEW c \in Connections,
         \/ UNCHANGED answer
         \/ \E with \in Answers \cup {"none"} : answer' = [answer EXCEPT ![c] = with],
         \/ UNCHANGED files
         \/ \E n \in 0 .. MaxImages : files' = [files EXCEPT ![c] = n]
  PROVE  AdapterTypeOK'
BY DEF AdapterTypeOK

LEMMA CallKeepsAdapterTypes ==
  ASSUME AdapterTypeOK, NEW c \in Connections, AdapterStep(c)
  PROVE  AdapterTypeOK'
<1>0. 0 \in 0 .. MaxImages
  BY AdapterAssumption
<1>1. ASSUME NEW with \in Answers, Called(c, with) PROVE AdapterTypeOK'
  <2>1. files' = [files EXCEPT ![c] = files[c]] \/ files' = [files EXCEPT ![c] = 0]
    BY <1>1 DEF Called
  <2>2. files[c] \in 0 .. MaxImages
    BY DEF AdapterTypeOK
  <2>3. QED
    BY <1>0, <1>1, <2>1, <2>2, AdapterTypesAreKept DEF Called
<1>2. CASE BeginReading(c)
  BY <1>2, AdapterTypesAreKept DEF BeginReading, adapterVars
<1>3. CASE DecodeImage(c)
  <2>1. files[c] + 1 \in 0 .. MaxImages /\ files' = [files EXCEPT ![c] = files[c] + 1]
    BY <1>3, AdapterAssumption DEF DecodeImage, AdapterTypeOK
  <2>2. answer' = answer
    BY <1>3 DEF DecodeImage
  <2>3. QED
    BY <2>1, <2>2, AdapterTypesAreKept
<1>4. CASE InvalidRequest(c) \/ TransportFails(c) \/ GeminiBodyFails(c) \/ ResponseTooLarge(c)
  BY <1>1, <1>4 DEF InvalidRequest, TransportFails, GeminiBodyFails, ResponseTooLarge, Answers
<1>5. CASE HTTPFails(c)
  BY <1>1, <1>5 DEF HTTPFails, Answers
<1>6. CASE BodyFails(c) \/ EndOfBody(c) \/ ParseGemini(c)
  BY <1>1, <1>6 DEF BodyFails, EndOfBody, ParseGemini, Answers
<1>7. QED
  BY <1>2, <1>3, <1>4, <1>5, <1>6 DEF AdapterStep

LEMMA StepKeepsAdapterTypes ==
  ASSUME AdapterTypeOK, [Next]_vars
  PROVE  AdapterTypeOK'
<1>0. CASE UNCHANGED adapterVars
  BY <1>0 DEF AdapterTypeOK, adapterVars
<1>1. ASSUME NEW c \in Connections, NEW with \in Answers \cup {"none"},
             answer' = [answer EXCEPT ![c] = with], files' = [files EXCEPT ![c] = 0]
      PROVE  AdapterTypeOK'
  <2>1. 0 \in 0 .. MaxImages
    BY AdapterAssumption
  <2>2. QED
    BY <1>1, <2>1, AdapterTypesAreKept
<1>2. ASSUME NEW c \in Connections, AttemptStep(c) PROVE AdapterTypeOK'
  <2>1. CASE Leave(c)
    BY <1>1, <2>1 DEF Leave
  <2>2. CASE \E with \in Answers : Answer(c, with)
    BY <1>1, <2>2 DEF Answer
  <2>3. CASE CallProvider(c)
    BY <2>3, CallKeepsAdapterTypes DEF CallProvider
  <2>4. QED
    BY <1>0, <1>2, <2>1, <2>2, <2>3
       DEF AttemptStep, Interrupt, ClaimRunning, BaseURLInvalid, CredentialUnavailable,
           InputsUnavailable, BeginAttempt, FinalizeAttempt, EndInterrupted, EndFailed,
           PersistSuccessfulResult, OutputInvalid, CostOverflows, EndUnpersisted, CompleteTask,
           RecoverTimedOut, Answers, attemptVars
<1>3. ASSUME NEW c \in Connections, Step(c) PROVE AdapterTypeOK'
  BY <1>0, <1>1, <1>2, <1>3, StepOfTask
     DEF ExecutionSame, RollbackRequest, ForgetAttempt, attemptVars
<1>4. CASE \A c \in Connections : ~ Step(c)
  BY <1>0, <1>4, OthersOfTask DEF ExecutionSame, attemptVars
<1>5. QED
  BY <1>3, <1>4

LEMMA AttemptTypesHold == Spec => []AttemptsTypeOK
<1>1. Init => AdapterTypeOK
  BY AdapterAssumption DEF Init, AttemptsInit, AdapterInit, AdapterTypeOK
<1>2. LedgerInv /\ CutInv /\ ChargedInv /\ AdapterTypeOK => AttemptsTypeOK
  <2> SUFFICES ASSUME LedgerInv, CutInv, ChargedInv, AdapterTypeOK PROVE AttemptsTypeOK
    OBVIOUS
  <2>1. ASSUME NEW t \in Tasks
        PROVE  /\ \A i \in DOMAIN ledger[t] : ledger[t][i] \in RowStates
               /\ stored[t] \in 0 .. Len(ledger[t])
               /\ \A row \in charged[t] : row.usage \in Usages /\ row.prices \in Pricings
    <3>1. ledger[t] \in Seq(RowStates)
      BY DEF LedgerInv
    <3>2. \A i \in DOMAIN ledger[t] : ledger[t][i] \in RowStates
      BY <3>1
    <3>3. stored[t] \in 0 .. Len(ledger[t])
      BY <3>1 DEF LedgerInv, StoredIsLedgered, RowSays
    <3>4. ASSUME NEW row \in charged[t] PROVE row.usage \in Usages /\ row.prices \in Pricings
      BY <3>4 DEF ChargedInv, Charged, UsageRow
    <3>5. QED
      BY <3>2, <3>3, <3>4
  <2>2. QED
    BY <2>1 DEF AttemptsTypeOK, RowStates, CutInv
<1>3. QED
  BY <1>1, <1>2, StepKeepsAdapterTypes, LedgerHolds, CutHolds, ChargedHolds, PTL DEF Spec

\* What a patch has still to go through, and what it has read.
PatchTypes ==
  /\ base \in [Connections -> [Fields -> Numbers]]
  /\ left \in [Connections -> Seq(Groups)]
  /\ \A c \in Connections : step[c] = "loaded group" => left[c] # <<>>
  /\ inForce \in [Groups -> [Fields -> Numbers]]

LEMMA NoRowIsTyped == NoRow \in [Fields -> Numbers]
<1>1. 0 \in Numbers
  BY SettingsAssumption DEF Numbers
<1>2. QED
  BY <1>1 DEF NoRow, Unset

LEMMA EffectiveIsTyped ==
  ASSUME LimitsInv, NEW g \in Groups
  PROVE  Effective(g) \in [Fields -> Numbers]
<1>1. cap \in Numbers /\ cap \in Nat /\ setting[g] \in [Fields -> Numbers] /\ 0 \in Numbers
  BY CapIsNumber, SettingsAssumption DEF LimitsInv, Numbers
<1>2. Least(FirstLimit, cap) \in Numbers
  BY <1>1, SettingsAssumption DEF Least, Numbers
<1>3. ASSUME NEW n \in Numbers PROVE Least(n, cap) \in Numbers
  BY <1>1 DEF Least
<1>4. NoRow \in [Fields -> Numbers]
  BY NoRowIsTyped
<1>5. Initially(g) \in [Fields -> Numbers]
  <2>1. CASE g \in Clamped
    <3>1. Initially(g) = [f \in Fields |-> cap]
      BY <2>1, SettingsAssumption DEF Initially
    <3>2. QED
      BY <1>1, <3>1
  <2>2. CASE g \in Refused
    <3>1. Initially(g) = [f \in Fields |-> Least(FirstLimit, cap)]
      BY <2>2, SettingsAssumption DEF Initially
    <3>2. QED
      BY <1>2, <3>1
  <2>3. CASE g \in Optional
    <3>1. Initially(g) = NoRow
      BY <2>3, SettingsAssumption DEF Initially
    <3>2. QED
      BY <1>4, <3>1
  <2>4. QED
    BY <2>1, <2>2, <2>3 DEF Groups
<1>6. Clamp(setting[g]) \in [Fields -> Numbers]
  BY <1>1, <1>3 DEF Clamp
<1>7. Effective(g) \in {Initially(g), Clamp(setting[g]), setting[g]}
  BY DEF Effective
<1>8. QED
  BY <1>1, <1>5, <1>6, <1>7

LEMMA SettingStepKeepsPatch ==
  ASSUME TxInv, LimitsInv, PatchTypes, NEW c \in Connections, SettingStep(c)
  PROVE  PatchTypes'
<1>0. /\ step = [e \in Connections |-> step[e]]
      /\ base \in [Connections -> [Fields -> Numbers]] /\ left \in [Connections -> Seq(Groups)]
      /\ inForce \in [Groups -> [Fields -> Numbers]]
      /\ NoRow \in [Fields -> Numbers]
  BY NoRowIsTyped DEF TxInv, PatchTypes
<1>1. \A d \in Connections : d # c => step'[d] = step[d]
  BY SettingMove, MoveIsLocal DEF TxSame
<1>2. CASE StartPatch(c)
  <2>1. request[c].groups \in Seq(Groups)
    BY <1>2, RequestSays DEF StartPatch
  <2>2. step'[c] = "next group"
    BY <1>0, <1>2 DEF StartPatch, Read
  <2>3. QED
    BY <1>0, <1>1, <1>2, <2>1, <2>2 DEF StartPatch, PatchTypes
<1>3. CASE LoadGroup(c)
  <2>1. Head(left[c]) \in Groups /\ left[c] # <<>>
    <3>1. left[c] \in Seq(Groups) /\ left[c] # <<>>
      BY <1>0, <1>3 DEF LoadGroup
    <3>2. QED
      BY <3>1
  <2>2. Effective(Head(left[c])) \in [Fields -> Numbers]
    BY <2>1, EffectiveIsTyped
  <2>3. QED
    BY <1>0, <1>1, <1>3, <2>1, <2>2 DEF LoadGroup, PatchTypes
<1>4. CASE UpdateGroup(c)
  <2>1. left[c] # <<>>
    BY <1>4 DEF UpdateGroup, PatchTypes
  <2>2. Tail(left[c]) \in Seq(Groups)
    BY <1>0, <2>1
  <2>3. step'[c] = "next group"
    BY <1>0, <1>4 DEF UpdateGroup, Read
  <2>4. QED
    BY <1>0, <1>1, <1>4, <2>2, <2>3 DEF UpdateGroup, PatchTypes
<1>5. CASE AnswerPatch(c)
  <2>1. step'[c] = "idle" /\ UNCHANGED <<base, left, inForce>>
    BY <1>0, <1>5 DEF AnswerPatch, End, settingVars
  <2>2. QED
    BY <1>0, <1>1, <2>1 DEF PatchTypes
<1>6. CASE ApplyLimits(c)
  <2>1. request[c].group \in Groups
    BY <1>6, RequestSays DEF ApplyLimits
  <2>2. Effective(request[c].group) \in [Fields -> Numbers]
    BY <2>1, EffectiveIsTyped
  <2>3. step'[c] = "idle"
    BY <1>0, <1>6 DEF ApplyLimits, End
  <2>4. QED
    BY <1>0, <1>1, <1>6, <2>2, <2>3 DEF ApplyLimits, PatchTypes
<1>7. QED
  BY <1>2, <1>3, <1>4, <1>5, <1>6 DEF SettingStep

\* Elsewhere nobody comes to where a group has been loaded.
LEMMA NobodyElsePatches ==
  ASSUME TxInv, NEW c \in Connections, Step(c), ~ SettingStep(c)
  PROVE  /\ step'[c] # "loaded group"
         /\ \A d \in Connections : d # c => step'[d] = step[d]
<1> DEFINE Local == \A d \in Connections : d # c => step'[d] = step[d]
<1>1. ASSUME NEW from, NEW to, TxMove(c, from, to), "loaded group" \notin to
      PROVE  step'[c] # "loaded group" /\ Local
  BY <1>1, MoveIsLocal, MoveGoesOn DEF TxSame, TxIdle
<1>2. CASE BeginRequest(c)
  BY <1>2, BeginKeepsTx DEF BeginRequest, TxSame
<1>3. CASE RollbackRequest(c)
  <2>1. TxMove(c, {step[c]}, {})
    BY <1>3, EndIsMove DEF RollbackRequest, Rollback
  <2>2. QED
    BY <1>1, <2>1
<1>4. CASE UserStep(c)
  BY <1>1, <1>4, UserMove DEF UserSteps
<1>5. CASE CatalogStep(c)
  BY <1>1, <1>5, CatalogMove DEF CatalogSteps
<1>6. CASE MemberStep(c)
  BY <1>1, <1>6, MemberMove DEF MemberSteps
<1>7. CASE AdmissionStep(c)
  BY <1>1, <1>7, AdmissionMove DEF AccessSteps, AdmissionSteps, ContextSteps
<1>8. CASE AttemptStep(c)
  <2>1. "loaded group" \notin Executing
    BY DEF Executing
  <2>2. CASE TxMove(c, {"begun", "validated context"} \cup Executing, Executing)
    BY <1>1, <2>1, <2>2
  <2>3. CASE UNCHANGED txVars
    <3>1. step[c] \in Executing
      BY <1>8, <2>3, AttemptKeepsStep
    <3>2. QED
      BY <2>1, <2>3, <3>1 DEF txVars
  <2>4. QED
    BY <1>8, <2>2, <2>3, AttemptMove
<1>9. CASE StartStep(c)
  BY <1>1, <1>9, StartMove DEF StartSteps
<1>10. CASE MaintenanceStep(c)
  BY <1>1, <1>10, MaintenanceMove DEF MaintenanceSteps
<1>11. CASE ScanStep(c)
  BY <1>1, <1>11, ScanMove DEF ScanSteps
<1>12. QED
  BY <1>2, <1>3, <1>4, <1>5, <1>6, <1>7, <1>8, <1>9, <1>10, <1>11 DEF Step


LEMMA StepKeepsPatch ==
  ASSUME TxInv, LimitsInv, PatchTypes, [Next]_vars
  PROVE  PatchTypes'
<1>0. /\ base \in [Connections -> [Fields -> Numbers]] /\ left \in [Connections -> Seq(Groups)]
      /\ inForce \in [Groups -> [Fields -> Numbers]]
      /\ NoRow \in [Fields -> Numbers]
      /\ \A c \in Connections : step[c] = "loaded group" => left[c] # <<>>
  BY NoRowIsTyped DEF PatchTypes
<1>e. <<>> \in Seq(Groups)
  OBVIOUS
<1>1. ASSUME NEW c \in Connections, Step(c) PROVE PatchTypes'
  <2>1. CASE SettingStep(c)
    BY <2>1, SettingStepKeepsPatch
  <2>2. CASE ~ SettingStep(c)
    <3>1. /\ step'[c] # "loaded group"
          /\ \A d \in Connections : d # c => step'[d] = step[d]
      BY <1>1, <2>2, NobodyElsePatches
    <3>2. CASE RollbackRequest(c)
      <4>1. /\ base' = [base EXCEPT ![c] = NoRow] /\ left' = [left EXCEPT ![c] = <<>>]
            /\ inForce' = inForce
        BY <3>2 DEF RollbackRequest, ForgetPatch
      <4>2. QED
        BY <1>0, <1>e, <3>1, <4>1 DEF PatchTypes
    <3>3. CASE UNCHANGED <<base, left, inForce>>
      BY <1>0, <3>1, <3>3 DEF PatchTypes
    <3>4. QED
      BY <1>1, <2>2, <3>2, <3>3 DEF Step, BeginRequest, settingVars
  <2>3. QED
    BY <2>1, <2>2
<1>2. CASE UNCHANGED <<step, base, left>> /\ inForce' \in {inForce, [g \in Groups |-> NoRow]}
  BY <1>0, <1>2 DEF PatchTypes
<1>3. CASE Deploy \/ ObjectsChange \/ UNCHANGED vars
  BY <1>2, <1>3 DEF Deploy, DeployCipher, DeployCaps, ObjectsChange, vars, settingVars, txVars
<1>4. QED
  BY <1>1, <1>3 DEF Next

LEMMA SettingTypesHold == Spec => []SettingsTypeOK
<1>1. Init => LimitsInv /\ PatchTypes
  <2> SUFFICES ASSUME Init PROVE LimitsInv /\ PatchTypes
    OBVIOUS
  <2>1. /\ setting = [g \in Groups |-> NoRow] /\ cap \in Caps
        /\ inForce = [g \in Groups |-> NoRow]
        /\ base = [c \in Connections |-> NoRow] /\ left = [c \in Connections |-> <<>>]
        /\ \A c \in Connections : step[c] = "idle"
    BY DEF Init, SettingsInit, TxInit
  <2>2. NoRow \in [Fields -> Numbers] /\ <<>> \in Seq(Groups)
    BY NoRowIsTyped
  <2>3. ASSUME NEW g \in Clamped \cup Refused, NEW f \in Fields
        PROVE  inForce[g][f] <= cap
    BY <2>1, SettingsAssumption DEF Groups, NoRow, Unset
  <2>4. QED
    BY <2>1, <2>2, <2>3 DEF LimitsInv, LimitsWithinCap, PatchTypes
<1>2. LimitsInv /\ PatchTypes => SettingsTypeOK
  <2> SUFFICES ASSUME LimitsInv, PatchTypes PROVE SettingsTypeOK
    OBVIOUS
  <2>1. ASSUME NEW c \in Connections, NEW i \in DOMAIN left[c] PROVE left[c][i] \in Groups
    <3>1. left[c] \in Seq(Groups)
      BY DEF PatchTypes
    <3>2. QED
      BY <3>1
  <2>2. QED
    BY <2>1 DEF LimitsInv, PatchTypes, SettingsTypeOK
<1>3. QED
  BY <1>1, <1>2, StepKeepsLimits, StepKeepsPatch, LocksExclude, PTL DEF Spec

\* What a database has lost a migration has defined that is applied, so that no
\* start defines it again.
StartTypes ==
  /\ lost \subseteq UNION {Objects(m) : m \in applied}
  /\ lost \cap schema = {}
  /\ \A c \in Connections :
       /\ Current(c) <= Len(Migrations) + 1
       /\ oldGrants[c] \subseteq Permissions
  /\ oldGrants = [c \in Connections |-> oldGrants[c]]
  /\ served \subseteq {"api", "worker"}
  /\ refusal \in {"none", "incomplete"}

LEMMA StartStepKeepsTypes ==
  ASSUME TxInv, UsersTypeOK, StartsInv, StartTypes, NEW c \in Connections, StartStep(c)
  PROVE  StartTypes'
<1>0. /\ position \in [Connections -> [migration : Nat, statement : Nat]]
      /\ Len(Migrations) \in Nat /\ DOMAIN Migrations = 1 .. Len(Migrations)
      /\ \A d \in Connections : Current(d) <= Len(Migrations) + 1 /\ oldGrants[d] \subseteq Permissions
      /\ oldGrants = [d \in Connections |-> oldGrants[d]]
      /\ KnowsSchema(c)
  BY StartupAssumption DEF StartsInv, StartTypes
<1>1. ASSUME UNCHANGED <<schema, applied, lost, oldGrants, served>>,
             refusal' \in {refusal, "incomplete"},
             NEW n \in Nat, n <= Len(Migrations) + 1, NEW i \in Nat,
             position' = [position EXCEPT ![c] = [migration |-> n, statement |-> i]]
      PROVE  StartTypes'
  <2>1. \A d \in Connections : Current(d)' = IF d = c THEN n ELSE Current(d)
    BY <1>0, <1>1 DEF Current
  <2>2. QED
    BY <1>0, <1>1, <2>1 DEF StartTypes
<1>2. ASSUME UNCHANGED <<position, lost, oldGrants>>, served' \subseteq {"api", "worker"},
             refusal' = refusal, schema' = schema, applied \subseteq applied'
      PROVE  StartTypes'
  BY <1>2 DEF StartTypes, Current
<1>n. Nowhere = [migration |-> 0, statement |-> 0] /\ 0 <= Len(Migrations) + 1
      /\ 1 <= Len(Migrations) + 1
  BY <1>0 DEF Nowhere
<1>3. CASE AcquireMigrationLock(c)
  BY <1>1, <1>3, <1>n DEF AcquireMigrationLock
<1>4. CASE MigrationApplied(c)
  BY <1>2, <1>4 DEF MigrationApplied, startVars, StartTypes
<1>5. CASE ExecuteMigrationStatement(c)
  <2> DEFINE i == position[c].statement
             n == Current(c)
             statement == Migrations[n][i]
  <2>1. n \in DOMAIN Migrations \ applied /\ i \in Nat \ {0} /\ i <= Len(Migrations[n])
    BY <1>0, <1>5 DEF ExecuteMigrationStatement, KnowsSchema, KnowsMigration
  <2>2. i \in DOMAIN Migrations[n]
    BY <2>1, StartupAssumption
  <2>3. /\ position' = [position EXCEPT ![c].statement = i + 1]
        /\ UNCHANGED <<applied, lost, oldGrants, served, refusal>>
        /\ schema' = schema \/ (statement.op # "backfill" /\ schema' = schema \cup {statement.object})
    BY <1>5 DEF ExecuteMigrationStatement, Define, BackfillGrants
  <2>4. \A d \in Connections : Current(d)' = Current(d)
    BY <1>0, <2>3 DEF Current
  <2>5. lost' \cap schema' = {}
    <3>1. ASSUME statement.op # "backfill" PROVE statement.object \notin lost
      <4>1. statement.object \in Objects(n)
        BY <2>2, <3>1 DEF Objects
      <4>2. \A m \in applied : statement.object \notin Objects(m)
        BY <2>1, <4>1, ObjectsAssumption DEF StartsInv
      <4>3. QED
        BY <4>2 DEF StartTypes
    <3>2. QED
      BY <2>3, <3>1 DEF StartTypes
  <2> HIDE DEF i, n, statement
  <2>6. QED
    BY <1>0, <2>3, <2>4, <2>5 DEF StartTypes
<1>6. CASE RecordMigration(c)
  BY <1>2, <1>6 DEF RecordMigration, StartTypes
<1>7. CASE VerifyMigrationSchema(c)
  <2>1. Current(c) \in 1 .. Len(Migrations)
    BY <1>0, <1>7 DEF VerifyMigrationSchema, KnowsSchema, KnowsMigration, StartsInv
  <2>2. /\ Current(c) + 1 \in Nat /\ Current(c) + 1 <= Len(Migrations) + 1
    BY <1>0, <2>1
  <2>3. CASE position' = [position EXCEPT ![c] = [migration |-> Current(c) + 1, statement |-> 1]]
             /\ refusal' = refusal
    BY <1>1, <1>7, <2>2, <2>3 DEF VerifyMigrationSchema
  <2>4. CASE position' = [position EXCEPT ![c] = Nowhere] /\ refusal' = "incomplete"
    BY <1>1, <1>7, <1>n, <2>4 DEF VerifyMigrationSchema
  <2>5. QED
    BY <1>7, <2>3, <2>4 DEF VerifyMigrationSchema, Refuse
<1>8. CASE ReleaseMigrationLock(c)
  BY <1>1, <1>8, <1>n DEF ReleaseMigrationLock
<1>9. CASE VerifyWorkerReadiness(c)
  BY <1>2, <1>9 DEF VerifyWorkerReadiness, StartTypes
<1>10. CASE FindRolePermissions(c)
  <2>1. rolePermissions[Seller] \subseteq Permissions
    BY DEF UsersTypeOK
  <2>2. QED
    BY <1>0, <1>10, <2>1 DEF FindRolePermissions, StartTypes, Current
<1>11. CASE SeedBuiltInRoles(c)
  BY <1>0, <1>11 DEF SeedBuiltInRoles, StartTypes, Current
<1>12. QED
  BY <1>3, <1>4, <1>5, <1>6, <1>7, <1>8, <1>9, <1>10, <1>11 DEF StartStep

LEMMA StepKeepsStartTypes ==
  ASSUME TxInv, UsersTypeOK, StartsInv, StartTypes, [Next]_vars
  PROVE  StartTypes'
<1>0. CASE UNCHANGED startVars
  BY <1>0 DEF startVars, StartTypes, Current
<1>1. ASSUME NEW c \in Connections, RollbackRequest(c) PROVE StartTypes'
  <2>1. /\ position' = [position EXCEPT ![c] = Nowhere]
        /\ oldGrants' = [oldGrants EXCEPT ![c] = {}]
        /\ UNCHANGED <<schema, applied, lost, served, refusal>>
    BY <1>1 DEF RollbackRequest, ForgetStart
  <2>2. \A d \in Connections : Current(d)' = IF d = c THEN 0 ELSE Current(d)
    BY <2>1 DEF Current, StartsInv, Nowhere
  <2>3. 0 <= Len(Migrations) + 1
    BY StartupAssumption
  <2>4. QED
    BY <2>1, <2>2, <2>3 DEF StartTypes
<1>2. ASSUME NEW c \in Connections, Step(c) PROVE StartTypes'
  BY <1>0, <1>1, <1>2, StartStepKeepsTypes DEF Step, BeginRequest
<1>3. CASE Deploy \/ ObjectsChange \/ UNCHANGED vars
  BY <1>0, <1>3 DEF Deploy, ObjectsChange, vars
<1>4. QED
  BY <1>2, <1>3 DEF Next

LEMMA StartTypesBegin == Init => StartTypes
<1> SUFFICES ASSUME Init PROVE StartTypes
  OBVIOUS
<1>1. PICK empty \in BOOLEAN : StartupInit(empty)
  BY DEF Init
<1> DEFINE old == \E r \in workload : r.kind \in Starts
<1>2. PICK k \in IF ~ old THEN {Len(Migrations)} ELSE IF empty THEN {0} ELSE 1 .. Len(Migrations) :
        /\ applied = 1 .. k
        /\ lost \in {{}} \cup {{o} : o \in IF old THEN UNION {Objects(m) : m \in 1 .. k} ELSE {}}
        /\ schema = (UNION {Objects(m) : m \in 1 .. k}) \ lost
  BY <1>1 DEF StartupInit
<1>3. lost \subseteq UNION {Objects(m) : m \in applied} /\ lost \cap schema = {}
  BY <1>2
<1>4. /\ position = [c \in Connections |-> Nowhere] /\ oldGrants = [c \in Connections |-> {}]
      /\ served = (IF old THEN {} ELSE {"api", "worker"})
      /\ refusal = "none"
  BY <1>1 DEF StartupInit
<1>5. \A c \in Connections : Current(c) = 0
  BY <1>4 DEF Current, Nowhere
<1>6. QED
  BY <1>3, <1>4, <1>5, StartupAssumption DEF StartTypes

LEMMA StartTypesHold == Spec => []StartupTypeOK
<1>1. StartsInv /\ StartTypes => StartupTypeOK
  <2> SUFFICES ASSUME StartsInv, StartTypes PROVE StartupTypeOK
    OBVIOUS
  <2>1. position \in [Connections -> [migration : 0 .. Len(Migrations) + 1, statement : Nat]]
    <3>1. position \in [Connections -> [migration : Nat, statement : Nat]]
      BY DEF StartsInv
    <3>2. ASSUME NEW c \in Connections
          PROVE  position[c] \in [migration : 0 .. Len(Migrations) + 1, statement : Nat]
      <4>1. position[c].migration <= Len(Migrations) + 1
        BY DEF StartTypes, Current
      <4>2. QED
        BY <3>1, <4>1, StartupAssumption
    <3>3. QED
      BY <3>1, <3>2
  <2>2. lost \subseteq AllObjects \ schema
    <3>1. applied \subseteq DOMAIN Migrations
      BY DEF StartsInv
    <3>2. QED
      BY <3>1 DEF StartTypes, AllObjects
  <2>3. QED
    BY <2>1, <2>2 DEF StartsInv, StartTypes, StartupTypeOK
<1>2. QED
  BY <1>1, StartTypesBegin, StepKeepsStartTypes, StartsHold, LocksExclude, UserTypesHold, PTL
     DEF Spec


\* Only maintenance comes to where the platform is known to be set up.
LEMMA NobodyElseProvisions ==
  ASSUME TxInv, NEW c \in Connections, Step(c), ~ MaintenanceStep(c)
  PROVE  /\ step'[c] # "platform initialized"
         /\ \A d \in Connections : d # c => step'[d] = step[d]
<1> DEFINE Local == \A d \in Connections : d # c => step'[d] = step[d]
<1>1. ASSUME NEW from, NEW to, TxMove(c, from, to), "platform initialized" \notin to
      PROVE  step'[c] # "platform initialized" /\ Local
  BY <1>1, MoveIsLocal, MoveGoesOn DEF TxSame, TxIdle
<1>2. CASE BeginRequest(c)
  BY <1>2, BeginKeepsTx DEF BeginRequest, TxSame
<1>3. CASE RollbackRequest(c)
  <2>1. TxMove(c, {step[c]}, {})
    BY <1>3, EndIsMove DEF RollbackRequest, Rollback
  <2>2. QED
    BY <1>1, <2>1
<1>4. CASE UserStep(c)
  BY <1>1, <1>4, UserMove DEF UserSteps
<1>5. CASE CatalogStep(c)
  BY <1>1, <1>5, CatalogMove DEF CatalogSteps
<1>6. CASE MemberStep(c)
  BY <1>1, <1>6, MemberMove DEF MemberSteps
<1>7. CASE AdmissionStep(c)
  BY <1>1, <1>7, AdmissionMove DEF AccessSteps, AdmissionSteps, ContextSteps
<1>8. CASE AttemptStep(c)
  <2>1. "platform initialized" \notin Executing
    BY DEF Executing
  <2>2. CASE TxMove(c, {"begun", "validated context"} \cup Executing, Executing)
    BY <1>1, <2>1, <2>2
  <2>3. CASE UNCHANGED txVars
    <3>1. step[c] \in Executing
      BY <1>8, <2>3, AttemptKeepsStep
    <3>2. QED
      BY <2>1, <2>3, <3>1 DEF txVars
  <2>4. QED
    BY <1>8, <2>2, <2>3, AttemptMove
<1>9. CASE SettingStep(c)
  BY <1>1, <1>9, SettingMove DEF SettingSteps
<1>10. CASE StartStep(c)
  BY <1>1, <1>10, StartMove DEF StartSteps
<1>11. CASE ScanStep(c)
  BY <1>1, <1>11, ScanMove DEF ScanSteps
<1>12. QED
  BY <1>2, <1>3, <1>4, <1>5, <1>6, <1>7, <1>8, <1>9, <1>10, <1>11 DEF Step

\* The first tenant is not provisioned a second time: who provisions has seen that
\* the platform is set up, and it is never set back.
ProvisionTypes ==
  /\ FirstTenant \notin provisioned
  /\ stage \in Stages \cup {"none"}
  /\ \A c \in Connections : step[c] = "platform initialized" => inits > 0

LEMMA MaintenanceKeepsProvision ==
  ASSUME TxInv, TurnsInv, ProvisionTypes, NEW c \in Connections, MaintenanceStep(c)
  PROVE  ProvisionTypes'
<1>1. /\ step = [e \in Connections |-> step[e]] /\ inits' = inits
      /\ \A d \in Connections : d # c => step'[d] = step[d]
  <2>1. step = [e \in Connections |-> step[e]]
    BY DEF TxInv
  <2>2. inits' = inits
    BY DEF MaintenanceStep, PlatformInitialized, ProvisionTenant, BeginRound, ListingFails,
           ListTenants, ServeTenant, NextStage, userVars
  <2>3. QED
    BY <2>1, <2>2, MaintenanceMove, MoveIsLocal DEF TxSame
<1>2. CASE PlatformInitialized(c)
  <2>1. inits > 0 /\ UNCHANGED <<provisioned, stage>>
    BY <1>2 DEF PlatformInitialized, maintenanceVars
  <2>2. QED
    BY <1>1, <2>1 DEF ProvisionTypes
<1>3. CASE ProvisionTenant(c)
  <2>1. inits > 0
    BY <1>3 DEF ProvisionTenant, ProvisionTypes
  <2>2. FirstTenant \in ActiveTenants
    BY <2>1 DEF ActiveTenants
  <2>3. /\ FirstTenant \notin provisioned' /\ stage' = stage
        /\ step'[c] = "idle"
    BY <1>1, <1>3, <2>2 DEF ProvisionTenant, ProvisionTypes, Commit, End
  <2>4. QED
    BY <1>1, <2>3 DEF ProvisionTypes
<1>4. CASE BeginRound(c) \/ ListingFails(c) \/ ListTenants(c) \/ ServeTenant(c) \/ NextStage(c)
  <2>1. \E next \in {"stage", "round over", "tenants"} : Read(c, next)
    BY <1>4 DEF BeginRound, ListingFails, ListTenants, ServeTenant, NextStage
  <2>2. step'[c] # "platform initialized"
    BY <1>1, <2>1 DEF Read
  <2>3. provisioned' = provisioned /\ stage' \in Stages \cup {"none"}
    BY <1>4 DEF BeginRound, ListingFails, ListTenants, ServeTenant, NextStage, Stages,
                ProvisionTypes
  <2>4. QED
    BY <1>1, <2>2, <2>3 DEF ProvisionTypes
<1>5. QED
  BY <1>2, <1>3, <1>4 DEF MaintenanceStep

LEMMA StepKeepsProvision ==
  ASSUME TxInv, TurnsInv, ProvisionTypes, [Next]_vars
  PROVE  ProvisionTypes'
<1>0. inits \in Nat
  BY DEF TurnsInv, TurnTypes
<1>1. ASSUME NEW c \in Connections, Step(c), ~ MaintenanceStep(c) PROVE ProvisionTypes'
  <2>1. /\ step'[c] # "platform initialized"
        /\ \A d \in Connections : d # c => step'[d] = step[d]
    BY <1>1, NobodyElseProvisions
  <2>2. inits > 0 => inits' > 0
    <3>1. CASE UserStep(c)
      <4>1. inits' = inits \/ inits' = inits + 1
        BY <3>1 DEF UserStep, Initialized, InitAdmin, FindUser, ActiveRolesByIDs,
                    EnsureAnotherActiveAdminExists, SetStatus, ReplaceUserRoles, CreateUser,
                    CreateRole, UpdateRole, FindRole, ReplaceRolePermissions, DeleteRole, userVars
      <4>2. QED
        BY <1>0, <4>1
    <3>2. CASE StartStep(c)
      BY <3>2 DEF StartStep, AcquireMigrationLock, MigrationApplied, ExecuteMigrationStatement,
                   RecordMigration, VerifyMigrationSchema, ReleaseMigrationLock,
                   VerifyWorkerReadiness, FindRolePermissions, SeedBuiltInRoles, userVars
    <3>3. CASE UNCHANGED userVars
      BY <3>3 DEF userVars
    <3>4. QED
      BY <1>1, <3>1, <3>2, <3>3 DEF Step, BeginRequest, RollbackRequest
  <2>3. provisioned' = provisioned /\ stage' \in {stage, "none"}
    <3>1. CASE RollbackRequest(c)
      BY <3>1 DEF RollbackRequest, ForgetMaintenance, maintenanceVars
    <3>2. CASE UNCHANGED maintenanceVars
      BY <3>2 DEF maintenanceVars
    <3>3. QED
      BY <1>1, <3>1, <3>2 DEF Step, BeginRequest, backgroundVars
  <2>4. QED
    BY <2>1, <2>2, <2>3 DEF ProvisionTypes
<1>2. CASE Deploy \/ ObjectsChange \/ UNCHANGED vars
  <2>1. UNCHANGED <<step, inits, provisioned, stage>>
    BY <1>2 DEF Deploy, DeployCipher, DeployCaps, ObjectsChange, vars, txVars, userVars,
                backgroundVars, maintenanceVars
  <2>2. QED
    BY <2>1 DEF ProvisionTypes
<1>3. QED
  BY <1>1, <1>2, MaintenanceKeepsProvision DEF Next

LEMMA TurnsHold == Spec => []TurnsInv
BY TurnsBegin, StepKeepsTurns, LocksExclude, PTL DEF Spec

LEMMA MaintenanceTypesHold == Spec => []MaintenanceTypeOK
<1>1. Init => ProvisionTypes
  BY DEF Init, TxInit, MaintenanceInit, ProvisionTypes
<1>2. ASSUME TurnsInv, ProvisionTypes, NobodyIsPassedOver PROVE MaintenanceTypeOK
  <2>1. TurnTypes /\ DueAreListed
    BY <1>2 DEF TurnsInv
  <2>2. quotaCursor \in Tenants \cup {0}
    BY <2>1, MaintenanceAssumption DEF TurnTypes, Tenants
  <2>3. stage = "none" => due = {}
    BY <2>1 DEF DueAreListed, Stages
  <2>4. ASSUME NEW s \in Stages, NEW t \in Tenants
        PROVE  waited[s][t] \in 0 .. MaxWait(s) + 1
    <3>1. waited[s][t] <= MaxWait(s) /\ waited[s][t] \in Nat
      BY <1>2, <2>1 DEF NobodyIsPassedOver, TurnTypes
    <3>2. MaxWait(s) \in Nat
      BY MaintenanceAssumption DEF MaxWait
    <3>3. QED
      BY <3>1, <3>2
  <2>5. QED
    BY <1>2, <2>1, <2>2, <2>3, <2>4 DEF TurnTypes, ProvisionTypes, MaintenanceTypeOK
<1>3. QED
  BY <1>1, <1>2, StepKeepsProvision, TurnsHold, NobodyWaitsForLong, LocksExclude, PTL DEF Spec


\* Where a walk stands is a bucket and a key that some object has, and what it has
\* found was stored.
WalkTypes ==
  /\ recent \subseteq objects /\ found \subseteq StoredObjects
  /\ class \in FirstClass .. LastClass
  /\ after \in {Key(o) : o \in StoredObjects} \cup {0}
  /\ cursor \in [class : FirstClass .. LastClass, key : {Key(o) : o \in StoredObjects} \cup {0}]

\* The last key of a page that does not show everything is one of its keys.
LEMMA LastKeyIsListed ==
  ASSUME NEW F \in SUBSET StoredObjects, NEW n \in Nat \ {0}, FirstOf(F, n) # F
  PROVE  Max({Key(o) : o \in FirstOf(F, n)}) \in {Key(o) : o \in StoredObjects}
<1> DEFINE listed == FirstOf(F, n)
           keys == {Key(o) : o \in listed}
<1>1. listed \in SUBSET StoredObjects /\ IsFiniteSet(listed)
  BY ScanAssumption, FS_Subset DEF FirstOf
<1>2. IsFiniteSet(keys)
  <2> DEFINE f == [o \in listed |-> Key(o)]
  <2> HIDE DEF listed
  <2>1. IsFiniteSet({f[o] : o \in listed})
    BY <1>1, ImageIsFinite
  <2>2. {f[o] : o \in listed} = keys
    OBVIOUS
  <2>3. QED
    BY <2>1, <2>2
<1>3. listed # {}
  <2>1. SUFFICES ASSUME listed = {} PROVE FALSE
    OBVIOUS
  <2>2. keys = {}
    BY <2>1
  <2>3. F # {}
    BY <2>1
  <2> DEFINE all == {Key(o) : o \in F}
             before(o) == {p \in F : Key(p) < Key(o)}
  <2>4. all \in SUBSET Nat /\ all # {}
    BY <2>3, ObjectIsTyped
  <2>5. Min(all) \in all /\ \A k \in all : Min(all) <= k
    <3> HIDE DEF all
    <3>1. QED
      BY <2>4, LeastIsThere
  <2>6. PICK o \in F : \A p \in F : Key(o) <= Key(p)
    BY <2>5
  <2>7. before(o) = {}
    BY <2>6, ObjectIsTyped
  <2>8. Cardinality(before(o)) = 0
    BY <2>7, FS_EmptySet
  <2>9. QED
    BY <2>1, <2>8 DEF FirstOf
<1>4. keys \in SUBSET Nat /\ keys # {}
  <2> HIDE DEF listed
  <2>1. QED
    BY <1>1, <1>3, ObjectIsTyped
<1>5. Max(keys) \in keys
  <2> HIDE DEF keys
  <2>1. QED
    BY <1>2, <1>4, GreatestIsThere
<1>6. QED
  BY <1>1, <1>5

\* There is a bucket.
LEMMA ABucketIsThere ==
  FirstClass \in Nat /\ LastClass \in Nat /\ FirstClass <= LastClass /\ FirstClass \in FirstClass .. LastClass
<1>1. PICK o \in StoredObjects : TRUE
  BY ScanAssumption
<1>2. /\ FirstClass \in Nat /\ LastClass \in Nat /\ Class(o) \in Nat
      /\ FirstClass <= Class(o) /\ Class(o) <= LastClass
  BY BucketsAreOrdered, ObjectIsTyped
<1>3. QED
  BY ONLY <1>2

LEMMA ScanKeepsWalkTypes ==
  ASSUME TxInv, ScanInv, WalkTypes, NEW c \in Connections, ScanStep(c)
  PROVE  WalkTypes'
<1>0. FirstClass \in Nat /\ LastClass \in Nat /\ FirstClass <= LastClass
  BY ABucketIsThere
<1>1. CASE BeginScan(c)
  BY <1>1 DEF BeginScan, WalkTypes
<1>2. CASE ListObjects(c)
  <2> DEFINE n == PageLimit(c) - scanned
  <2>1. n \in Nat \ {0}
    <3>1. Kind(c) \in Scans
      BY WalkerWalks DEF ScanInv
    <3>2. request[c] \in Requests
      <4>1. request[c] \in Requests \cup {NoRequest}
        BY DEF TxInv, TxTypeOK
      <4>2. QED
        BY <3>1, <4>1 DEF Kind, NoRequest, Scans
    <3>3. PageLimit(c) \in Nat
      BY <3>1, <3>2, ScanRequestsAssumption DEF PageLimit, Kind
    <3>4. scanned \in Nat /\ scanned < PageLimit(c)
      BY <1>2 DEF ScanInv, ScanTypes, ListObjects
    <3>5. QED
      BY <3>3, <3>4
  <2>2. Following \in SUBSET StoredObjects
    BY DEF ScanInv, ScanTypes, Following
  <2>3. FirstOf(Following, n) # Following =>
          Max({Key(o) : o \in FirstOf(Following, n)}) \in {Key(o) : o \in StoredObjects}
    BY <2>1, <2>2, LastKeyIsListed
  <2>4. after' \in {Key(o) : o \in StoredObjects} \cup {0}
    BY <1>2, <2>3 DEF ListObjects
  <2>5. UNCHANGED <<objects, recent, cursor, class, found>>
    BY <1>2 DEF ListObjects
  <2>6. QED
    BY <2>4, <2>5 DEF WalkTypes
<1>3. CASE InspectObject(c)
  <2>1. PICK o \in page :
          IF o \in recent \cup Referenced THEN UNCHANGED <<objects, recent, unseen, found>>
          ELSE /\ found' = found \cup {o}
               /\ Remove(o) \/ UNCHANGED <<objects, recent, unseen>>
    BY <1>3 DEF InspectObject
  <2>2. o \in StoredObjects
    BY DEF ScanInv, ScanTypes
  <2>3. recent' \subseteq objects' /\ found' \subseteq StoredObjects
    BY <2>1, <2>2 DEF Remove, WalkTypes
  <2>4. UNCHANGED <<cursor, class, after>>
    BY <1>3 DEF InspectObject
  <2>5. QED
    BY <2>3, <2>4 DEF WalkTypes
<1>4. CASE NextClass(c)
  <2>1. class' = class + 1 /\ class < LastClass /\ UNCHANGED <<objects, recent, cursor, after, found>>
    BY <1>4 DEF NextClass
  <2>2. class' \in FirstClass .. LastClass
    BY <1>0, <2>1 DEF WalkTypes
  <2>3. QED
    BY <2>1, <2>2 DEF WalkTypes
<1>5. CASE AnswerScan(c)
  <2>1. class < LastClass => class + 1 \in FirstClass .. LastClass
    BY <1>0 DEF WalkTypes
  <2>2. FirstClass \in FirstClass .. LastClass
    BY <1>0
  <2>3. NextCursor \in [class : FirstClass .. LastClass,
                        key : {Key(o) : o \in StoredObjects} \cup {0}]
    BY <2>1, <2>2 DEF WalkTypes, NextCursor, Start
  <2>4. /\ cursor' = NextCursor /\ class' = FirstClass /\ after' = 0 /\ found' = {}
        /\ UNCHANGED <<objects, recent>>
    BY <1>5 DEF AnswerScan
  <2>5. QED
    BY <2>2, <2>3, <2>4 DEF WalkTypes
<1>6. QED
  BY <1>1, <1>2, <1>3, <1>4, <1>5 DEF ScanStep

LEMMA StepKeepsWalkTypes ==
  ASSUME TxInv, ScanInv, WalkTypes, [Next]_vars
  PROVE  WalkTypes'
<1>1. CASE UNCHANGED scanVars
  BY <1>1 DEF scanVars, pageVars, WalkTypes
<1>2. ASSUME NEW c \in Connections, RollbackRequest(c) PROVE WalkTypes'
  <2>1. FirstClass \in FirstClass .. LastClass
    BY ABucketIsThere
  <2>2. CASE Kind(c) \in Scans
    BY <1>2, <2>1, <2>2 DEF RollbackRequest, ForgetScan, WalkTypes
  <2>3. QED
    BY <1>1, <1>2, <2>2 DEF RollbackRequest, ForgetScan
<1>3. CASE ObjectsChange
  <2>1. PICK o \in StoredObjects : StoreObject(o) \/ RemoveObject(o)
    BY <1>3 DEF ObjectsChange
  <2>2. recent' \subseteq objects' /\ UNCHANGED <<cursor, class, after, found>>
    BY <2>1 DEF StoreObject, RemoveObject, Remove, pageVars, WalkTypes
  <2>3. QED
    BY <2>2 DEF WalkTypes
<1>4. ASSUME NEW c \in Connections, Step(c) PROVE WalkTypes'
  BY <1>1, <1>2, <1>4, ScanKeepsWalkTypes DEF Step, BeginRequest, backgroundVars
<1>5. CASE Deploy \/ UNCHANGED vars
  BY <1>1, <1>5 DEF Deploy, vars, backgroundVars
<1>6. QED
  BY <1>3, <1>4, <1>5 DEF Next

LEMMA ScanTypesHold == Spec => []ScanTypeOK
<1>1. Init => WalkTypes
  <2> SUFFICES ASSUME Init PROVE WalkTypes
    OBVIOUS
  <2>1. recent = {} /\ cursor = Start /\ NoPage
    BY DEF Init, ScanInit
  <2>2. FirstClass \in FirstClass .. LastClass
    BY ABucketIsThere
  <2>3. QED
    BY <2>1, <2>2 DEF NoPage, Start, WalkTypes
<1>2. ASSUME ScanInv, WalkTypes PROVE ScanTypeOK
  BY <1>2 DEF ScanInv, ScanTypes, OneWalks, CursorIsBefore, WalkTypes, ScanTypeOK
<1>3. Spec => []ScanInv
  BY WalkBegins, StepKeepsWalk, LocksExclude, PTL DEF Spec
<1>4. QED
  BY <1>1, <1>2, <1>3, StepKeepsWalkTypes, LocksExclude, PTL DEF Spec


\* Every variable of the administration has its type: what is remembered for a request
\* is gone when it is over, what a request writes is what requests say, the limits in
\* force come from rows or from the process, a migration is not past the last one, a
\* tenant waits for no longer than the others take, and a walk stands at a bucket and
\* a key that exist.
THEOREM AdministrationTypeCorrect == Spec => []AdminTypeOK
<1>1. TxInv => TxTypeOK
  BY DEF TxInv
<1>2. CatalogInv => CatalogTypeOK
  BY DEF CatalogInv
<1>3. /\ TxTypeOK /\ UsersTypeOK /\ CatalogTypeOK /\ MembersTypeOK /\ AdmissionTypeOK
      /\ AttemptsTypeOK /\ SettingsTypeOK /\ StartupTypeOK /\ MaintenanceTypeOK /\ ScanTypeOK
      => AdminTypeOK
  BY DEF AdminTypeOK
<1>4. QED
  BY <1>1, <1>2, <1>3, LocksExclude, CatalogHolds, UserTypesHold, MemberTypesHold,
     AdmissionTypesHold, AttemptTypesHold, SettingTypesHold, StartTypesHold,
     MaintenanceTypesHold, ScanTypesHold, PTL
=============================================================================

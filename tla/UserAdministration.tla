------------------------- MODULE UserAdministration -------------------------
(***************************************************************************)
(* The users and roles of a tenant (internal/useradmin) and the creation   *)
(* of its first administrator (internal/auth).  All transactions but that  *)
(* of createUser are SERIALIZABLE: every row they read is locked.          *)
(*                                                                         *)
(* Some locks are left out, those of the role "admin", of indexes and of   *)
(* foreign keys, so that the model allows more interleavings than MySQL.   *)
(***************************************************************************)
EXTENDS Transactions

CONSTANTS
  Users,
  Administrators,  \* those a tenant that is set up has from the start
  Admin,           \* the built-in role, which nobody can change
  CustomRoles,
  StartRoles,      \* those that are there, ACTIVE, from the start
  Seller,          \* another one, whose permissions come with the program
  Permissions,
  SellerPermissions

ASSUME UsersAssumption ==
  /\ IsFiniteSet(Users) /\ Administrators \subseteq Users
  /\ {Admin, Seller} \cap CustomRoles = {} /\ StartRoles \subseteq CustomRoles
  /\ SellerPermissions \subseteq Permissions

VARIABLES
  userStatus,   \* "absent" before the user is created
  userRoles,
  roleStatus,   \* of the custom roles
  rolePermissions,
  inits         \* committed transactions of initAdmin

userVars == <<userStatus, userRoles, roleStatus, rolePermissions, inits>>

Roles == CustomRoles \cup {Admin, Seller}

\* A request names users and roles, and statuses that may be set.
ASSUME UserRequestsAssumption ==
  \A r \in Requests :
    /\ r.kind \in {"initAdmin", "setStatus", "replaceUserRoles", "createUser"} => r.user \in Users
    /\ r.kind \in {"replaceUserRoles", "createUser"} => r.roles \subseteq Roles
    /\ r.kind \in {"createRole", "updateRole", "replacePermissions", "deleteRole"} =>
         r.role \in CustomRoles
    /\ r.kind \in {"setStatus", "createRole", "updateRole"} => r.status \in {"ACTIVE", "DISABLED"}
    /\ r.kind = "replacePermissions" => r.permissions \subseteq Permissions

ActiveRoles == {Admin, Seller} \cup {r \in CustomRoles : roleStatus[r] = "ACTIVE"}

UserRow(u) == <<"users", u>>
GrantsRow(u) == <<"user_roles", u>>
RoleRow(r) == <<"roles", r>>
UsersTable == <<"users", "gap">>
RolesTable == <<"roles", "gap">>

\* The permissions of Seller are those of the version that has served so far.
UsersInit(admins, granted) ==
  /\ userStatus = [u \in Users |-> IF u \in admins THEN "ACTIVE" ELSE "absent"]
  /\ userRoles = [u \in Users |-> IF u \in admins THEN {Admin} ELSE {}]
  /\ roleStatus = [r \in CustomRoles |-> IF admins # {} /\ r \in StartRoles THEN "ACTIVE" ELSE "absent"]
  /\ rolePermissions = [r \in CustomRoles \cup {Seller} |->
       CASE admins = {} -> {}
         [] admins # {} /\ r = Seller -> granted
         [] OTHER -> IF r \in StartRoles THEN Permissions ELSE {}]
  /\ inits = IF admins = {} THEN 0 ELSE 1

ActiveAdmins == {u \in Users : userStatus[u] = "ACTIVE" /\ Admin \in userRoles[u]}

-----------------------------------------------------------------------------
\* initAdmin

\* The count of users locks the table against inserts.
Initialized(c) ==
  /\ Kind(c) = "initAdmin" /\ step[c] = "begun"
  /\ \A u \in Users : userStatus[u] = "absent"
  /\ ReadShared(c, {UsersTable}, "checked")
  /\ UNCHANGED userVars

InitAdmin(c) ==
  LET u == request[c].user IN
  /\ Kind(c) = "initAdmin" /\ step[c] = "checked"
  /\ Commit(c, {UsersTable, UserRow(u)})
  /\ userStatus' = [userStatus EXCEPT ![u] = "ACTIVE"]
  /\ userRoles' = [userRoles EXCEPT ![u] = {Admin}]
  /\ inits' = inits + 1
  /\ rolePermissions' = [rolePermissions EXCEPT ![Seller] = SellerPermissions]
  /\ UNCHANGED roleStatus

-----------------------------------------------------------------------------
\* setStatus, updateUser with a status, replaceUserRoles, createUser

FindUser(c) ==
  LET u == request[c].user IN
  /\ Kind(c) \in {"setStatus", "replaceUserRoles"} /\ step[c] = "begun"
  /\ userStatus[u] # "absent"
  /\ ReadShared(c, {UserRow(u)}, "found")
  /\ UNCHANGED userVars

\* Mutant: the roles to be assigned are read without FOR UPDATE.
ActiveRolesUnlocked(c) ==
  /\ \/ Kind(c) = "replaceUserRoles" /\ step[c] = "found"
     \/ Kind(c) = "createUser" /\ step[c] = "begun"
  /\ request[c].roles \subseteq ActiveRoles
  /\ Read(c, "roles")
  /\ UNCHANGED userVars

\* The roles to be assigned are ACTIVE and locked.
ActiveRolesByIDs(c) ==
  LET roles == request[c].roles IN
  /\ \/ Kind(c) = "replaceUserRoles" /\ step[c] = "found"
     \/ Kind(c) = "createUser" /\ step[c] = "begun"
  /\ roles \subseteq ActiveRoles
  /\ ReadForUpdate(c, {RoleRow(r) : r \in roles}, "roles")
  /\ UNCHANGED userVars

\* The request may end the activity of an administrator, as far as the row
\* of the user tells.
MayEndAdmin(c) ==
  LET u == request[c].user IN
  \/ /\ Kind(c) = "setStatus" /\ step[c] = "found"
     /\ request[c].status = "DISABLED" /\ userStatus[u] # "DISABLED"
  \/ /\ Kind(c) = "replaceUserRoles" /\ step[c] = "roles"
     /\ userStatus[u] = "ACTIVE"

KeepsAdmin(c) == Kind(c) = "replaceUserRoles" /\ Admin \in request[c].roles

\* Mutant: the administrators are counted without locking their rows.
EnsureAdminUnlocked(c) ==
  LET u == request[c].user IN
  /\ MayEndAdmin(c)
  /\ Admin \notin userRoles[u] \/ KeepsAdmin(c) \/ Cardinality(ActiveAdmins) > 1
  /\ ReadShared(c, {GrantsRow(u)}, "checked")
  /\ UNCHANGED userVars

\* ensureCanDisableUser and the check of replaceUserRoles: if the user is an
\* administrator there must be another, and the rows of all are locked.
EnsureAnotherActiveAdminExists(c) ==
  LET u == request[c].user IN
  /\ MayEndAdmin(c)
  /\ \/ /\ Admin \notin userRoles[u] \/ KeepsAdmin(c)
        /\ ReadShared(c, {GrantsRow(u)}, "checked")
     \/ /\ Admin \in userRoles[u] /\ ~ KeepsAdmin(c)
        /\ Cardinality(ActiveAdmins) > 1
        /\ ReadShared(c, UNION {{UserRow(v), GrantsRow(v)} : v \in ActiveAdmins}, "checked")
  /\ UNCHANGED userVars

\* Nothing was asked that needs the check.
Unchecked(c) == step[c] \in {"found", "roles"} /\ ~ MayEndAdmin(c)

SetStatus(c) ==
  LET u == request[c].user IN
  /\ Kind(c) = "setStatus" /\ (step[c] = "checked" \/ Unchecked(c))
  /\ Commit(c, {UserRow(u)})
  /\ userStatus' = [userStatus EXCEPT ![u] = request[c].status]
  /\ UNCHANGED <<userRoles, roleStatus, rolePermissions, inits>>

ReplaceUserRoles(c) ==
  LET u == request[c].user IN
  /\ Kind(c) = "replaceUserRoles"
  /\ step[c] = "checked" \/ (step[c] = "roles" /\ Unchecked(c))
  /\ Commit(c, {GrantsRow(u)})
  /\ userRoles' = [userRoles EXCEPT ![u] = request[c].roles]
  /\ UNCHANGED <<userStatus, roleStatus, rolePermissions, inits>>

\* The unique key of the email refuses a user that is there.
CreateUser(c) ==
  LET u == request[c].user IN
  /\ Kind(c) = "createUser" /\ step[c] = "roles"
  /\ userStatus[u] = "absent"
  /\ Commit(c, {UsersTable, UserRow(u), GrantsRow(u)})
  /\ userStatus' = [userStatus EXCEPT ![u] = "ACTIVE"]
  /\ userRoles' = [userRoles EXCEPT ![u] = request[c].roles]
  /\ UNCHANGED <<roleStatus, rolePermissions, inits>>

-----------------------------------------------------------------------------
\* createRole, updateRole with a status, replaceRolePermissions, deleteRole

\* RoleCodeExists has found none, and the unique key refuses a second one.
CreateRole(c) ==
  LET r == request[c].role IN
  /\ Kind(c) = "createRole" /\ step[c] = "begun"
  /\ roleStatus[r] = "absent"
  /\ Commit(c, {RolesTable, RoleRow(r)})
  /\ roleStatus' = [roleStatus EXCEPT ![r] = request[c].status]
  /\ UNCHANGED <<userStatus, userRoles, rolePermissions, inits>>

Found(r) == roleStatus[r] \notin {"absent", "deleted"}

FindRole(c) ==
  LET r == request[c].role IN
  /\ Kind(c) \in {"updateRole", "replacePermissions", "deleteRole"} /\ step[c] = "begun"
  /\ Found(r)
  /\ ReadForUpdate(c, {RoleRow(r)}, "found")
  /\ UNCHANGED userVars

UpdateRole(c) ==
  /\ Kind(c) = "updateRole" /\ step[c] = "found"
  /\ Commit(c, {})
  /\ roleStatus' = [roleStatus EXCEPT ![request[c].role] = request[c].status]
  /\ UNCHANGED <<userStatus, userRoles, rolePermissions, inits>>

\* All rows of the role are replaced; the permissions are a fixed table.
ReplaceRolePermissions(c) ==
  /\ Kind(c) = "replacePermissions" /\ step[c] = "found"
  /\ Commit(c, {})
  /\ rolePermissions' = [rolePermissions EXCEPT ![request[c].role] = request[c].permissions]
  /\ UNCHANGED <<userStatus, userRoles, roleStatus, inits>>

\* RoleAssignmentCount has found none.
DeleteRole(c) ==
  LET r == request[c].role IN
  /\ Kind(c) = "deleteRole" /\ step[c] = "found"
  /\ \A u \in Users : r \notin userRoles[u]
  /\ Commit(c, {})
  /\ roleStatus' = [roleStatus EXCEPT ![r] = "deleted"]
  /\ rolePermissions' = [rolePermissions EXCEPT ![r] = {}]
  /\ UNCHANGED <<userStatus, userRoles, inits>>

UserStep(c) ==
  \/ Initialized(c)
  \/ InitAdmin(c)
  \/ FindUser(c)
  \/ ActiveRolesByIDs(c)
  \/ EnsureAnotherActiveAdminExists(c)
  \/ SetStatus(c)
  \/ ReplaceUserRoles(c)
  \/ CreateUser(c)
  \/ CreateRole(c)
  \/ FindRole(c)
  \/ UpdateRole(c)
  \/ ReplaceRolePermissions(c)
  \/ DeleteRole(c)

UsersTypeOK ==
  /\ userStatus \in [Users -> {"absent", "ACTIVE", "DISABLED"}]
  /\ userRoles \in [Users -> SUBSET Roles]
  /\ roleStatus \in [CustomRoles -> {"absent", "ACTIVE", "DISABLED", "deleted"}]
  /\ rolePermissions \in [CustomRoles \cup {Seller} -> SUBSET Permissions]
  /\ inits \in Nat

=============================================================================

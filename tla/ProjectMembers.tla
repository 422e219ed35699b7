--------------------------- MODULE ProjectMembers ---------------------------
(***************************************************************************)
(* The members of one project (internal/project).  The transactions are    *)
(* REPEATABLE READ: what they read about the project and the member comes  *)
(* from the moment of their first read, while LockProjectOwners and the    *)
(* writes see the rows as they are.                                        *)
(*                                                                         *)
(* The requests come from administrators of the tenant, whom Authorize     *)
(* lets pass without a role in the project.                                *)
(***************************************************************************)
EXTENDS UserAdministration

CONSTANTS
  Members,       \* the users who are or may become members
  StartMembers   \* the role of each of them at the start

MemberRoles == {"OWNER", "EDITOR", "VIEWER"}

ASSUME MembersAssumption ==
  /\ Members \subseteq Users
  /\ StartMembers \in [Members -> MemberRoles \cup {"none"}]

MemberKinds == {"addMember", "updateMember", "removeMember"}

\* A request names a user, and a role or a status that there is.
ASSUME MembersRequestsAssumption ==
  \A r \in Requests :
    /\ r.kind \in MemberKinds \cup {"createProject"} => r.user \in Members
    /\ r.kind \in {"addMember", "updateMember"} => r.role \in MemberRoles
    /\ r.kind = "updateProject" => r.status \in {"live", "archived"}

VARIABLES
  project,     \* "live", "archived" or "deleted"
  memberRole,  \* "none" for a user without a row
  seen         \* the role the transaction of a connection has read

memberVars == <<project, memberRole, seen>>

MemberRow(u) == <<"project_members", u>>
ProjectRow == <<"projects", "p">>

MembersInit(empty) ==
  /\ project = IF empty THEN "absent" ELSE "live"
  /\ memberRole = [u \in Members |-> IF empty THEN "none" ELSE StartMembers[u]]
  /\ seen = [c \in Connections |-> "none"]

\* FindProject: an archived project is as good as any other.
ProjectThere == project \in {"live", "archived"}

Owners == {u \in Members : memberRole[u] = "OWNER"}

\* createProject makes its creator the owner.
CreateProject(c) ==
  LET u == request[c].user IN
  /\ Kind(c) = "createProject" /\ step[c] = "begun"
  /\ project = "absent"
  /\ Commit(c, {ProjectRow, MemberRow(u)})
  /\ project' = "live"
  /\ memberRole' = [memberRole EXCEPT ![u] = "OWNER"]
  /\ UNCHANGED seen

\* Authorize, FindMember and the user, in one snapshot: a new member must be
\* an active user, and one whose role changes need not.
FindMember(c) ==
  LET u == request[c].user IN
  /\ Kind(c) \in MemberKinds /\ step[c] = "begun"
  /\ ProjectThere
  /\ (Kind(c) = "addMember") = (memberRole[u] = "none")
  /\ Kind(c) = "addMember" => userStatus[u] = "ACTIVE"
  /\ seen' = [seen EXCEPT ![c] = memberRole[u]]
  /\ Read(c, "found member")
  /\ UNCHANGED <<project, memberRole>>

\* The request takes an owner away, as far as the snapshot tells.
EndsOwner(c) ==
  /\ seen[c] = "OWNER"
  /\ \/ Kind(c) = "removeMember"
     \/ Kind(c) = "updateMember" /\ request[c].role # "OWNER"

\* ensureAnotherOwnerRemains: the owners are read again, and locked.
EnsureAnotherOwnerRemains(c) ==
  /\ step[c] = "found member"
  /\ EndsOwner(c)
  /\ Owners # {}
  /\ Owners # {request[c].user}
  /\ ReadForUpdate(c, {MemberRow(u) : u \in Owners}, "owners locked")
  /\ UNCHANGED memberVars

\* Nothing the snapshot knows asks for the check.
MayWriteMember(c) ==
  step[c] = "owners locked" \/ (step[c] = "found member" /\ ~ EndsOwner(c))

\* The unique key refuses a member who has come in between.
AddMember(c) ==
  LET u == request[c].user IN
  /\ Kind(c) = "addMember" /\ step[c] = "found member"
  /\ memberRole[u] = "none"
  /\ Commit(c, {MemberRow(u)})
  /\ memberRole' = [memberRole EXCEPT ![u] = request[c].role]
  /\ UNCHANGED <<project, seen>>

\* UpdateMember goes by the key: if the row has gone nothing is written, the
\* snapshot still has it, and the request succeeds.
UpdateMember(c) ==
  LET u == request[c].user IN
  /\ Kind(c) = "updateMember" /\ MayWriteMember(c)
  /\ Commit(c, {MemberRow(u)})
  /\ memberRole' = [memberRole EXCEPT ![u] = IF @ = "none" THEN @ ELSE request[c].role]
  /\ UNCHANGED <<project, seen>>

\* DeleteMember goes by the key, and fails if the row has gone.
RemoveMember(c) ==
  LET u == request[c].user IN
  /\ Kind(c) = "removeMember" /\ MayWriteMember(c)
  /\ memberRole[u] # "none"
  /\ Commit(c, {MemberRow(u)})
  /\ memberRole' = [memberRole EXCEPT ![u] = "none"]
  /\ UNCHANGED <<project, seen>>

AuthorizeUpdate(c) ==
  /\ Kind(c) = "updateProject" /\ step[c] = "begun"
  /\ ProjectThere
  /\ Read(c, "found project")
  /\ UNCHANGED memberVars

\* If the project has been deleted nothing is written, the snapshot still has
\* it, and the request succeeds.
UpdateProject(c) ==
  /\ Kind(c) = "updateProject" /\ step[c] = "found project"
  /\ Commit(c, {ProjectRow})
  /\ project' = IF ProjectThere THEN request[c].status ELSE project
  /\ UNCHANGED <<memberRole, seen>>

DeleteProject(c) ==
  /\ Kind(c) = "deleteProject" /\ step[c] = "begun"
  /\ ProjectThere
  /\ Commit(c, {ProjectRow})
  /\ project' = "deleted"
  /\ UNCHANGED <<memberRole, seen>>

MemberStep(c) ==
  \/ CreateProject(c)
  \/ FindMember(c)
  \/ EnsureAnotherOwnerRemains(c)
  \/ AddMember(c)
  \/ UpdateMember(c)
  \/ RemoveMember(c)
  \/ AuthorizeUpdate(c)
  \/ UpdateProject(c)
  \/ DeleteProject(c)

MembersTypeOK ==
  /\ project \in {"absent", "live", "archived", "deleted"}
  /\ memberRole \in [Members -> MemberRoles \cup {"none"}]
  /\ seen \in [Connections -> MemberRoles \cup {"none"}]

=============================================================================

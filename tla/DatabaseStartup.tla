--------------------------- MODULE DatabaseStartup ---------------------------
(***************************************************************************)
(* The start of a process (cmd/api, cmd/worker): it migrates the schema    *)
(* (internal/database) before it serves, and an API puts the built-in      *)
(* roles right (internal/auth).  MySQL commits with every statement of a   *)
(* migration, so a process that dies leaves part of it behind, and what is *)
(* left is done again by the next one.  An advisory lock of the connection *)
(* lets one process migrate at a time.                                     *)
(*                                                                         *)
(* A process that dies, or whose context ends, is a RollbackRequest.       *)
(***************************************************************************)
EXTENDS TaskAdmission, Sequences

\* Each migration is a sequence of statements: of an operation "create" (CREATE
\* TABLE IF NOT EXISTS), "add" (ADD COLUMN, CREATE INDEX) or "backfill" (the
\* INSERT IGNORE of the grants), and of the object it is about.
CONSTANT Migrations

ASSUME StartupAssumption ==
  /\ Len(Migrations) \in Nat /\ DOMAIN Migrations = 1 .. Len(Migrations)
  /\ \A m \in DOMAIN Migrations :
       Len(Migrations[m]) \in Nat /\ DOMAIN Migrations[m] = 1 .. Len(Migrations[m])

Objects(m) ==
  {Migrations[m][i].object : i \in {j \in DOMAIN Migrations[m] : Migrations[m][j].op # "backfill"}}
AllObjects == UNION {Objects(m) : m \in DOMAIN Migrations}

\* A table, a column or an index is defined by one migration.
ASSUME ObjectsAssumption ==
  \A m, n \in DOMAIN Migrations : m # n => Objects(m) \cap Objects(n) = {}

VARIABLES
  schema,     \* the tables, columns and indexes that are there
  applied,    \* the rows of schema_migrations
  lost,       \* what the database had lost before all this
  position,   \* the migration and the statement a process is at
  oldGrants,  \* of the role seller, as a process has read them
  served,     \* which processes of this version have served
  refusal     \* why the start of a process was last refused

startVars == <<schema, applied, lost, position, oldGrants, served, refusal>>

Starts == {"startAPI", "startWorker"}
MigrationLock == <<"GET_LOCK", "migrations">>
Nowhere == [migration |-> 0, statement |-> 0]

\* A database of an earlier version, of which a restore may have lost
\* something, or that of processes that serve.
StartupInit(empty) ==
  LET old == \E r \in workload : r.kind \in Starts IN
  /\ \E k \in IF ~ old THEN {Len(Migrations)} ELSE IF empty THEN {0} ELSE 1 .. Len(Migrations) :
       /\ applied = 1 .. k
       /\ lost \in {{}} \cup {{o} : o \in IF old THEN UNION {Objects(m) : m \in 1 .. k} ELSE {}}
       /\ schema = (UNION {Objects(m) : m \in 1 .. k}) \ lost
  /\ position = [c \in Connections |-> Nowhere]
  /\ oldGrants = [c \in Connections |-> {}]
  /\ served = IF old THEN {} ELSE {"api", "worker"}
  /\ refusal = "none"

-----------------------------------------------------------------------------
\* RunMigrations

\* Mutant: GET_LOCK is not asked for.
MigrateUnlocked(c) ==
  /\ Kind(c) \in Starts /\ step[c] = "begun"
  /\ position' = [position EXCEPT ![c] = [migration |-> 1, statement |-> 1]]
  /\ Read(c, "next migration")
  /\ UNCHANGED <<admissionVars, schema, applied, lost, oldGrants, served, refusal>>

AcquireMigrationLock(c) ==
  /\ Kind(c) \in Starts /\ step[c] = "begun"
  /\ position' = [position EXCEPT ![c] = [migration |-> 1, statement |-> 1]]
  /\ ReadForUpdate(c, {MigrationLock}, "next migration")
  /\ UNCHANGED <<admissionVars, schema, applied, lost, oldGrants, served, refusal>>

Current(c) == position[c].migration

\* Mutant: a migration is recorded before it is run.
RecordFirst(c) ==
  /\ step[c] = "next migration" /\ Current(c) \in DOMAIN Migrations
  /\ Read(c, IF Current(c) \in applied THEN "migrated" ELSE "migrating")
  /\ applied' = applied \cup {Current(c)}
  /\ UNCHANGED <<admissionVars, schema, lost, position, oldGrants, served, refusal>>

MigrationApplied(c) ==
  /\ step[c] = "next migration" /\ Current(c) \in DOMAIN Migrations
  /\ Read(c, IF Current(c) \in applied THEN "migrated" ELSE "migrating")
  /\ UNCHANGED <<admissionVars, startVars>>

Refuse(c, why) ==
  /\ End(c)
  /\ refusal' = why
  /\ position' = [position EXCEPT ![c] = Nowhere]

\* CREATE TABLE IF NOT EXISTS, ADD COLUMN and CREATE INDEX.
Define(object) ==
  /\ schema' = schema \cup {object}
  /\ UNCHANGED modelAccess

\* Everybody gets every model: INSERT IGNORE leaves what is there.
BackfillGrants ==
  /\ modelAccess' = [u \in Users |->
       modelAccess[u] \cup
         IF userStatus[u] = "absent" THEN {} ELSE {m \in Models : models[m] # Deleted}]
  /\ UNCHANGED schema

\* executeMigrationStatement: columns and indexes that are there are skipped.
ExecuteMigrationStatement(c) ==
  LET i == position[c].statement
      statement == Migrations[Current(c)][i]
  IN
  /\ step[c] = "migrating" /\ i <= Len(Migrations[Current(c)])
  /\ IF statement.op = "backfill" THEN BackfillGrants ELSE Define(statement.object)
  /\ position' = [position EXCEPT ![c].statement = i + 1]
  /\ Read(c, "migrating")
  /\ UNCHANGED <<task, asAdmin, plan, context, applied, lost, oldGrants, served, refusal>>

\* The row of the migration; its key admits no second one.
RecordMigration(c) ==
  /\ step[c] = "migrating" /\ position[c].statement > Len(Migrations[Current(c)])
  /\ Current(c) \notin applied
  /\ applied' = applied \cup {Current(c)}
  /\ Read(c, "migrated")
  /\ UNCHANGED <<admissionVars, schema, lost, position, oldGrants, served, refusal>>

VerifyMigrationSchema(c) ==
  /\ step[c] = "migrated"
  /\ \/ /\ Objects(Current(c)) \subseteq schema
        /\ position' = [position EXCEPT ![c] =
             [migration |-> Current(c) + 1, statement |-> 1]]
        /\ Read(c, "next migration")
        /\ UNCHANGED refusal
     \/ ~ Objects(Current(c)) \subseteq schema /\ Refuse(c, "incomplete")
  /\ UNCHANGED <<admissionVars, schema, applied, lost, oldGrants, served>>

ReleaseMigrationLock(c) ==
  /\ step[c] = "next migration" /\ Current(c) \notin DOMAIN Migrations
  /\ position' = [position EXCEPT ![c] = Nowhere]
  /\ exclusive' = [exclusive EXCEPT ![c] = {}]
  /\ step' = [step EXCEPT ![c] = "schema complete"]
  /\ UNCHANGED <<workload, request, shared, begun>>
  /\ UNCHANGED <<admissionVars, schema, applied, lost, oldGrants, served, refusal>>

\* The worker asks MySQL, Redis and MinIO and serves; without an answer it ends.
VerifyWorkerReadiness(c) ==
  /\ Kind(c) = "startWorker" /\ step[c] = "schema complete"
  /\ End(c)
  /\ served' = served \cup {"worker"}
  /\ UNCHANGED <<admissionVars, schema, applied, lost, position, oldGrants, refusal>>

-----------------------------------------------------------------------------
\* ReconcileBuiltInRoles: a transaction for the tenant, if there is one.

FindRolePermissions(c) ==
  /\ Kind(c) = "startAPI" /\ step[c] = "schema complete"
  /\ oldGrants' = [oldGrants EXCEPT ![c] = rolePermissions[Seller]]
  /\ Read(c, "found permissions")
  /\ UNCHANGED <<userVars, admissionVars, schema, applied, lost, position, served, refusal>>

\* What another has inserted since then is a duplicate.
SeedBuiltInRoles(c) ==
  /\ step[c] = "found permissions"
  /\ (SellerPermissions \ oldGrants[c]) \cap rolePermissions[Seller] = {}
  /\ Commit(c, {RoleRow(Seller)})
  /\ rolePermissions' =
       IF inits = 0 THEN rolePermissions
       ELSE [rolePermissions EXCEPT ![Seller] = SellerPermissions]
  /\ served' = served \cup {"api"}
  /\ oldGrants' = [oldGrants EXCEPT ![c] = {}]
  /\ UNCHANGED <<userStatus, userRoles, roleStatus, inits, admissionVars, schema, applied,
                 lost, position, refusal>>

\* A process that dies.
ForgetStart(c) ==
  /\ position' = [position EXCEPT ![c] = Nowhere]
  /\ oldGrants' = [oldGrants EXCEPT ![c] = {}]
  /\ UNCHANGED <<schema, applied, lost, served, refusal>>

StartStep(c) ==
  \/ /\ \/ AcquireMigrationLock(c)
        \/ MigrationApplied(c)
        \/ ExecuteMigrationStatement(c)
        \/ RecordMigration(c)
        \/ VerifyMigrationSchema(c)
        \/ ReleaseMigrationLock(c)
        \/ VerifyWorkerReadiness(c)
     /\ UNCHANGED userVars
  \/ FindRolePermissions(c)
  \/ SeedBuiltInRoles(c)

\* The processes that a request comes from.
ServedBy(r) ==
  CASE r.kind \in {"execute", "recoverTimedOut", "maintain"} -> {"worker"}
    [] r.kind \in Starts \cup {"rotateKeys", "provisionTenant"} -> {}
    [] OTHER -> {"api"}

StartupTypeOK ==
  /\ schema \subseteq AllObjects
  /\ lost \subseteq AllObjects \ schema
  /\ applied \subseteq DOMAIN Migrations
  /\ position \in [Connections -> [migration : 0 .. Len(Migrations) + 1, statement : Nat]]
  /\ \A c \in Connections : oldGrants[c] \subseteq Permissions
  /\ served \subseteq {"api", "worker"}
  /\ refusal \in {"none", "duplicate", "incomplete"}

=============================================================================

------------------------ MODULE AdministrationFrames ------------------------
(***************************************************************************)
(* What the proofs about Administration share: how transactions move and   *)
(* what they leave alone, whatever they are about; and what is true of the *)
(* settings, of temporary images, of the walk through the orphans and of   *)
(* the rounds of the maintenance.                                          *)
(***************************************************************************)
EXTENDS Administration, FiniteSetTheorems, WellFoundedInduction, TLAPS

-----------------------------------------------------------------------------
(* Transactions *)

\* TxTypeOK, and the shape of what it does not mention.
TxInv ==
  /\ TxTypeOK
  /\ step = [c \in Connections |-> step[c]]
  /\ shared = [c \in Connections |-> shared[c]]
  /\ exclusive = [c \in Connections |-> exclusive[c]]

\* A connection that is at a step of one set completes a statement of another
\* set, unlocks what it has locked, or ends its transaction.
TxMove(c, from, to) ==
  /\ step[c] \in from
  /\ \/ \E next \in to :
          \/ Read(c, next)
          \/ \E rows : ReadShared(c, rows, next) \/ ReadForUpdate(c, rows, next)
          \/ /\ exclusive' = [exclusive EXCEPT ![c] = {}]
             /\ step' = [step EXCEPT ![c] = next]
             /\ UNCHANGED <<workload, request, shared, begun>>
     \/ End(c)

\* What a connection has is left alone.
TxSame(d) ==
  /\ request'[d] = request[d]
  /\ step'[d] = step[d]
  /\ shared'[d] = shared[d]
  /\ exclusive'[d] = exclusive[d]

\* A connection is idle, with nothing remembered.
TxIdle(c) ==
  /\ request[c] = NoRequest
  /\ step[c] = "idle"
  /\ shared[c] = {}
  /\ exclusive[c] = {}

\* A move of one connection leaves the others alone.
LEMMA MoveIsLocal ==
  ASSUME TxInv, NEW c \in Connections, NEW from, NEW to, TxMove(c, from, to),
         NEW d \in Connections, d # c
  PROVE  TxSame(d)
<1>1. request \in [Connections -> Requests \cup {NoRequest}] /\ step = [e \in Connections |-> step[e]]
      /\ shared = [e \in Connections |-> shared[e]]
      /\ exclusive = [e \in Connections |-> exclusive[e]]
  BY DEF TxInv, TxTypeOK
<1>2. QED
  BY <1>1 DEF TxMove, Read, ReadShared, ReadForUpdate, End, TxSame

\* A move goes on with the same request, at a step it may come to, or ends it.
LEMMA MoveGoesOn ==
  ASSUME TxInv, NEW c \in Connections, NEW from, NEW to, TxMove(c, from, to)
  PROVE  \/ request'[c] = request[c] /\ step'[c] \in to
         \/ TxIdle(c)'
<1>1. request \in [Connections -> Requests \cup {NoRequest}] /\ step = [e \in Connections |-> step[e]]
      /\ shared = [e \in Connections |-> shared[e]]
      /\ exclusive = [e \in Connections |-> exclusive[e]]
  BY DEF TxInv, TxTypeOK
<1>2. QED
  BY <1>1 DEF TxMove, Read, ReadShared, ReadForUpdate, End, TxIdle

\* Locks exclude each other after a move as before.
LEMMA MoveKeepsLocks ==
  ASSUME TxInv, NEW c \in Connections, NEW from, NEW to, TxMove(c, from, to)
  PROVE  \A d \in Connections : MayWrite(d, exclusive[d])'
<1> USE DEF MayWrite, MayRead
<1>1. /\ \A d \in Connections : MayWrite(d, exclusive[d])
      /\ shared = [e \in Connections |-> shared[e]]
      /\ exclusive = [e \in Connections |-> exclusive[e]]
  BY DEF TxInv, TxTypeOK
<1>2. CASE \E next \in to : Read(c, next)
  BY <1>1, <1>2 DEF Read
<1>3. ASSUME NEW next, NEW rows, ReadShared(c, rows, next)
      PROVE  \A d \in Connections : MayWrite(d, exclusive[d])'
  BY <1>1, <1>3 DEF ReadShared
<1>4. ASSUME NEW next, NEW rows, ReadForUpdate(c, rows, next)
      PROVE  \A d \in Connections : MayWrite(d, exclusive[d])'
  BY <1>1, <1>4 DEF ReadForUpdate
<1>5. CASE exclusive' = [exclusive EXCEPT ![c] = {}] /\ UNCHANGED shared
  BY <1>1, <1>5
<1>6. CASE End(c)
  BY <1>1, <1>6 DEF End
<1>7. QED
  BY <1>2, <1>3, <1>4, <1>5, <1>6 DEF TxMove

\* A move keeps the shape of the transactions.
LEMMA MoveKeepsTx ==
  ASSUME TxInv, NEW c \in Connections, NEW from, NEW to, TxMove(c, from, to),
         "idle" \notin from, "idle" \notin to
  PROVE  TxInv'
<1>1. \A d \in Connections : MayWrite(d, exclusive[d])'
  BY MoveKeepsLocks
<1> USE DEF TxMove, Read, ReadShared, ReadForUpdate, End
<1>s. /\ workload \in Workloads
      /\ request \in [Connections -> Requests \cup {NoRequest}]
      /\ begun \in 0 .. MaxTransactions
      /\ step = [d \in Connections |-> step[d]]
      /\ shared = [d \in Connections |-> shared[d]]
      /\ exclusive = [d \in Connections |-> exclusive[d]]
  BY DEF TxInv, TxTypeOK
<1>2. workload' \in Workloads /\ begun' \in 0 .. MaxTransactions
  BY <1>s
<1>3. request' \in [Connections -> Requests \cup {NoRequest}]
  BY <1>s
<1>4. step' = [d \in Connections |-> step'[d]]
  BY <1>s
<1>5. shared' = [d \in Connections |-> shared'[d]]
  BY <1>s
<1>6. exclusive' = [d \in Connections |-> exclusive'[d]]
  BY <1>s
<1>7. ASSUME NEW d \in Connections
      PROVE  /\ step'[d] = "idle" <=> request'[d] = NoRequest
             /\ step'[d] = "idle" => shared'[d] = {} /\ exclusive'[d] = {}
  <2>1. /\ step[d] = "idle" <=> request[d] = NoRequest
        /\ step[d] = "idle" => shared[d] = {} /\ exclusive[d] = {}
    BY DEF TxInv, TxTypeOK
  <2>2. CASE d # c
    BY <2>1, <2>2, MoveIsLocal DEF TxSame
  <2>3. CASE d = c
    <3>1. step[c] # "idle"
      BY DEF TxMove
    <3>2. (request'[c] = request[c] /\ step'[c] \in to) \/ TxIdle(c)'
      BY MoveGoesOn
    <3>3. QED
      BY <2>1, <2>3, <3>1, <3>2 DEF TxIdle
  <2>4. QED
    BY <2>2, <2>3
<1>8. QED
  BY <1>1, <1>2, <1>3, <1>4, <1>5, <1>6, <1>7 DEF TxInv, TxTypeOK

\* BEGIN gives an idle connection a request, and leaves the others alone.
LEMMA BeginKeepsTx ==
  ASSUME TxInv, NEW c \in Connections, NEW admitted, Begin(c, admitted)
  PROVE  /\ TxInv'
         /\ request'[c] \in workload \cap admitted
         /\ step'[c] = "begun"
         /\ exclusive'[c] = {}
         /\ \A d \in Connections : d # c => TxSame(d)
<1> USE DEF TxInv, TxTypeOK, Begin
<1>1. PICK r \in workload \cap admitted : request' = [request EXCEPT ![c] = r]
  OBVIOUS
<1>2. r \in Requests /\ r # NoRequest
  BY TransactionsAssumption DEF Requests, NoRequest
<1>3. /\ workload' \in Workloads
      /\ request' \in [Connections -> Requests \cup {NoRequest}]
      /\ step' = [d \in Connections |-> step'[d]]
      /\ shared' = shared
      /\ exclusive' = exclusive
  BY <1>1, <1>2
<1>4. begun' \in 0 .. MaxTransactions
  BY TransactionsAssumption
<1>5. \A d \in Connections : d # c => TxSame(d)
  BY <1>1 DEF TxSame
<1>6. request'[c] = r /\ step'[c] = "begun" /\ exclusive'[c] = {}
  BY <1>1
<1>7. ASSUME NEW d \in Connections
      PROVE  /\ step'[d] = "idle" <=> request'[d] = NoRequest
             /\ step'[d] = "idle" => shared'[d] = {} /\ exclusive'[d] = {}
             /\ MayWrite(d, exclusive[d])'
  <2>1. MayWrite(d, exclusive[d])'
    BY <1>3 DEF MayWrite
  <2>2. CASE d # c
    BY <1>5, <2>1, <2>2 DEF TxSame
  <2>3. CASE d = c
    BY <1>2, <1>6, <2>1, <2>3
  <2>4. QED
    BY <2>2, <2>3
<1>8. QED
  BY <1>1, <1>3, <1>4, <1>5, <1>6, <1>7

\* What nobody touches keeps its shape.
LEMMA StutterKeepsTx ==
  ASSUME TxInv, UNCHANGED txVars
  PROVE  TxInv' /\ \A d \in Connections : TxSame(d)
BY DEF TxInv, TxTypeOK, txVars, TxSame, MayWrite, Kind

-----------------------------------------------------------------------------
(* The steps of the components, seen as moves *)

UserSteps == {"checked", "found", "roles"}
CatalogSteps == {"locked", "counted", "rotating", "probing", "not decrypted", "provided",
                 "unique", "provided for defaults", "validated"}
MemberSteps == {"found member", "owners locked", "found project"}
AccessSteps == {"found grantee", "found models"}
AdmissionSteps == {"authenticated", "admitted"}
ContextSteps == {"task found", "provider found", "validated context"}
SettingSteps == {"next group", "loaded group"}
StartSteps == {"next migration", "migrated", "migrating", "schema complete",
               "found permissions"}
MaintenanceSteps == {"platform initialized", "stage", "round over", "tenants"}
ScanSteps == {"class", "page"}
AllSteps ==
  {"begun"} \cup UserSteps \cup CatalogSteps \cup MemberSteps \cup AccessSteps
    \cup AdmissionSteps \cup ContextSteps \cup Executing \cup SettingSteps \cup StartSteps
    \cup MaintenanceSteps \cup ScanSteps

\* A SELECT, a locking SELECT and COMMIT are moves.
LEMMA ReadIsMove ==
  ASSUME NEW c, NEW from, NEW to, step[c] \in from, NEW next \in to, Read(c, next)
  PROVE  TxMove(c, from, to)
BY DEF TxMove

LEMMA ReadSharedIsMove ==
  ASSUME NEW c, NEW from, NEW to, step[c] \in from, NEW next \in to, NEW rows,
         ReadShared(c, rows, next)
  PROVE  TxMove(c, from, to)
BY DEF TxMove

LEMMA ReadForUpdateIsMove ==
  ASSUME NEW c, NEW from, NEW to, step[c] \in from, NEW next \in to, NEW rows,
         ReadForUpdate(c, rows, next)
  PROVE  TxMove(c, from, to)
BY DEF TxMove

LEMMA EndIsMove ==
  ASSUME NEW c, NEW from, NEW to, step[c] \in from, End(c)
  PROVE  TxMove(c, from, to)
BY DEF TxMove

LEMMA CommitIsMove ==
  ASSUME NEW c, NEW from, NEW to, step[c] \in from, NEW rows, Commit(c, rows)
  PROVE  TxMove(c, from, to)
BY DEF TxMove, Commit

LEMMA UserMove ==
  ASSUME NEW c \in Connections, UserStep(c)
  PROVE  TxMove(c, {"begun"} \cup UserSteps, UserSteps)
<1> USE DEF UserSteps
<1>1. CASE Initialized(c)
  BY <1>1, ReadSharedIsMove DEF Initialized
<1>2. CASE InitAdmin(c)
  BY <1>2, CommitIsMove DEF InitAdmin
<1>3. CASE FindUser(c)
  BY <1>3, ReadSharedIsMove DEF FindUser
<1>4. CASE ActiveRolesByIDs(c)
  BY <1>4, ReadForUpdateIsMove DEF ActiveRolesByIDs
<1>5. CASE EnsureAnotherActiveAdminExists(c)
  BY <1>5, ReadSharedIsMove DEF EnsureAnotherActiveAdminExists, MayEndAdmin
<1>6. CASE SetStatus(c)
  BY <1>6, CommitIsMove DEF SetStatus, Unchecked
<1>7. CASE ReplaceUserRoles(c)
  BY <1>7, CommitIsMove DEF ReplaceUserRoles
<1>8. CASE CreateUser(c) \/ CreateRole(c) \/ UpdateRole(c) \/ ReplaceRolePermissions(c)
           \/ DeleteRole(c)
  BY <1>8, CommitIsMove
     DEF CreateUser, CreateRole, UpdateRole, ReplaceRolePermissions, DeleteRole
<1>9. CASE FindRole(c)
  BY <1>9, ReadForUpdateIsMove DEF FindRole
<1>10. QED
  BY <1>1, <1>2, <1>3, <1>4, <1>5, <1>6, <1>7, <1>8, <1>9 DEF UserStep

LEMMA CatalogMove ==
  ASSUME NEW c \in Connections, CatalogStep(c)
  PROVE  TxMove(c, {"begun"} \cup CatalogSteps, CatalogSteps)
<1> USE DEF CatalogSteps
<1>1. CASE CreateProvider(c) \/ UpdateProvider(c) \/ DeleteProvider(c) \/ Rotate(c)
  BY <1>1, CommitIsMove DEF CreateProvider, UpdateProvider, DeleteProvider, Rotate
<1>2. CASE RecordTestResult(c) \/ CreateModel(c) \/ UpdateModel(c) \/ DeleteModel(c)
  BY <1>2, CommitIsMove DEF RecordTestResult, CreateModel, UpdateModel, DeleteModel
<1>3. CASE UpdateTaskDefaults(c) \/ ClearTaskDefaults(c)
  BY <1>3, CommitIsMove DEF UpdateTaskDefaults, ClearTaskDefaults
<1>4. CASE CountLinkedModels(c) \/ EnsureUniqueName(c)
  BY <1>4, ReadIsMove DEF CountLinkedModels, EnsureUniqueName
<1>5. CASE FindProviderToTest(c)
  BY <1>5, ReadIsMove DEF FindProviderToTest
<1>6. CASE LockProvider(c) \/ LockAllProviders(c) \/ LockModel(c)
  BY <1>6, ReadForUpdateIsMove DEF LockProvider, LockAllProviders, LockModel
<1>7. CASE EnsureProviderUsable(c)
  BY <1>7, ReadForUpdateIsMove DEF EnsureProviderUsable
<1>8. CASE LockDefaultProvider(c) \/ LockDefaultModel(c)
  BY <1>8, ReadForUpdateIsMove DEF LockDefaultProvider, LockDefaultModel
<1>9. QED
  BY <1>1, <1>2, <1>3, <1>4, <1>5, <1>6, <1>7, <1>8 DEF CatalogStep

LEMMA MemberMove ==
  ASSUME NEW c \in Connections, MemberStep(c)
  PROVE  TxMove(c, {"begun"} \cup MemberSteps, MemberSteps)
<1> USE DEF MemberSteps
<1>1. CASE CreateProject(c) \/ AddMember(c) \/ UpdateProject(c) \/ DeleteProject(c)
  BY <1>1, CommitIsMove DEF CreateProject, AddMember, UpdateProject, DeleteProject
<1>2. CASE UpdateMember(c) \/ RemoveMember(c)
  BY <1>2, CommitIsMove DEF UpdateMember, RemoveMember, MayWriteMember
<1>3. CASE FindMember(c) \/ AuthorizeUpdate(c)
  BY <1>3, ReadIsMove DEF FindMember, AuthorizeUpdate
<1>4. CASE EnsureAnotherOwnerRemains(c)
  BY <1>4, ReadForUpdateIsMove DEF EnsureAnotherOwnerRemains
<1>5. QED
  BY <1>1, <1>2, <1>3, <1>4 DEF MemberStep

\* Grants, admission and the context of an execution do not touch each other.
LEMMA AdmissionMove ==
  ASSUME NEW c \in Connections, AdmissionStep(c)
  PROVE  \/ TxMove(c, {"begun"} \cup AccessSteps, AccessSteps)
         \/ TxMove(c, {"begun"} \cup AdmissionSteps, AdmissionSteps)
         \/ TxMove(c, {"begun"} \cup ContextSteps, ContextSteps)
<1>1. CASE FindGrantee(c) \/ ModelsByIDs(c)
  BY <1>1, ReadSharedIsMove DEF FindGrantee, ModelsByIDs, AccessSteps
<1>2. CASE ReplaceUserModelAccess(c)
  BY <1>2, CommitIsMove DEF ReplaceUserModelAccess, AccessSteps
<1>3. CASE Authenticate(c) \/ AdmitTask(c)
  BY <1>3, ReadIsMove DEF Authenticate, AdmitTask, AdmissionSteps
<1>4. CASE CreateTask(c)
  BY <1>4, CommitIsMove DEF CreateTask, AdmissionSteps
<1>5. CASE FindTask(c) \/ FindTaskProvider(c) \/ FindTaskModel(c)
  BY <1>5, ReadIsMove DEF FindTask, FindTaskProvider, FindTaskModel, ContextSteps
<1>6. CASE FailEligibleTask(c) \/ MarkDeadLettered(c)
  BY <1>6, EndIsMove DEF FailEligibleTask, MarkDeadLettered, ContextSteps
<1>7. QED
  BY <1>1, <1>2, <1>3, <1>4, <1>5, <1>6 DEF AdmissionStep

LEMMA AttemptMove ==
  ASSUME NEW c \in Connections, AttemptStep(c)
  PROVE  \/ UNCHANGED txVars
         \/ TxMove(c, {"begun", "validated context"} \cup Executing, Executing)
<1> USE DEF Executing
<1>1. CASE Interrupt(c)
  BY <1>1 DEF Interrupt
<1>2. CASE ClaimRunning(c)
  BY <1>2, ReadIsMove, EndIsMove DEF ClaimRunning, Leave
<1>3. CASE BaseURLInvalid(c) \/ CredentialUnavailable(c) \/ InputsUnavailable(c)
  BY <1>3, ReadIsMove DEF BaseURLInvalid, CredentialUnavailable, InputsUnavailable, Answer
<1>4. CASE BeginAttempt(c)
  BY <1>4, ReadIsMove DEF BeginAttempt, Answer
<1>5. CASE CallProvider(c)
  <2>1. step[c] \in {"attempting", "reading"}
        /\ (Read(c, "called") \/ Read(c, "reading"))
    BY <1>5 DEF CallProvider, AdapterStep, InvalidRequest, TransportFails, HTTPFails,
                ResponseTooLarge, BeginReading, DecodeImage, BodyFails, EndOfBody,
                GeminiBodyFails, ParseGemini, Called, Speaks
  <2>2. QED
    BY <2>1, ReadIsMove
<1>6. CASE FinalizeAttempt(c)
  BY <1>6, ReadIsMove DEF FinalizeAttempt, Answer
<1>7. CASE PersistSuccessfulResult(c)
  BY <1>7, ReadIsMove DEF PersistSuccessfulResult
<1>8. CASE EndInterrupted(c) \/ EndFailed(c) \/ OutputInvalid(c) \/ CostOverflows(c)
           \/ EndUnpersisted(c) \/ CompleteTask(c) \/ RecoverTimedOut(c)
  BY <1>8, EndIsMove DEF EndInterrupted, EndFailed, OutputInvalid, CostOverflows,
                         EndUnpersisted, CompleteTask, RecoverTimedOut, Leave
<1>9. QED
  BY <1>1, <1>2, <1>3, <1>4, <1>5, <1>6, <1>7, <1>8 DEF AttemptStep

LEMMA SettingMove ==
  ASSUME NEW c \in Connections, SettingStep(c)
  PROVE  TxMove(c, {"begun"} \cup SettingSteps, SettingSteps)
<1> USE DEF SettingSteps
<1>1. CASE StartPatch(c) \/ LoadGroup(c) \/ UpdateGroup(c)
  BY <1>1, ReadIsMove DEF StartPatch, LoadGroup, UpdateGroup
<1>2. CASE AnswerPatch(c) \/ ApplyLimits(c)
  BY <1>2, EndIsMove DEF AnswerPatch, ApplyLimits
<1>3. QED
  BY <1>1, <1>2 DEF SettingStep

LEMMA StartMove ==
  ASSUME NEW c \in Connections, StartStep(c)
  PROVE  TxMove(c, {"begun"} \cup StartSteps, StartSteps)
<1> USE DEF StartSteps
<1>1. CASE AcquireMigrationLock(c)
  BY <1>1, ReadForUpdateIsMove DEF AcquireMigrationLock
<1>2. CASE MigrationApplied(c)
  BY <1>2, ReadIsMove DEF MigrationApplied
<1>3. CASE ExecuteMigrationStatement(c) \/ RecordMigration(c) \/ FindRolePermissions(c)
  BY <1>3, ReadIsMove DEF ExecuteMigrationStatement, RecordMigration, FindRolePermissions
<1>4. CASE VerifyMigrationSchema(c)
  BY <1>4, ReadIsMove, EndIsMove DEF VerifyMigrationSchema, Refuse
<1>5. CASE ReleaseMigrationLock(c)
  BY <1>5 DEF ReleaseMigrationLock, TxMove
<1>6. CASE VerifyWorkerReadiness(c)
  BY <1>6, EndIsMove DEF VerifyWorkerReadiness
<1>7. CASE SeedBuiltInRoles(c)
  BY <1>7, CommitIsMove DEF SeedBuiltInRoles
<1>8. QED
  BY <1>1, <1>2, <1>3, <1>4, <1>5, <1>6, <1>7 DEF StartStep

LEMMA MaintenanceMove ==
  ASSUME NEW c \in Connections, MaintenanceStep(c)
  PROVE  TxMove(c, {"begun"} \cup MaintenanceSteps, MaintenanceSteps)
<1> USE DEF MaintenanceSteps
<1>1. CASE PlatformInitialized(c)
  BY <1>1, ReadSharedIsMove DEF PlatformInitialized
<1>2. CASE ProvisionTenant(c)
  BY <1>2, CommitIsMove DEF ProvisionTenant
<1>3. CASE BeginRound(c) \/ ListingFails(c) \/ ListTenants(c) \/ ServeTenant(c)
  BY <1>3, ReadIsMove DEF BeginRound, ListingFails, ListTenants, ServeTenant
<1>4. CASE NextStage(c)
  BY <1>4, ReadIsMove DEF NextStage
<1>5. QED
  BY <1>1, <1>2, <1>3, <1>4 DEF MaintenanceStep

LEMMA ScanMove ==
  ASSUME NEW c \in Connections, ScanStep(c)
  PROVE  TxMove(c, {"begun"} \cup ScanSteps, ScanSteps)
<1> USE DEF ScanSteps
<1>1. CASE BeginScan(c) \/ ListObjects(c) \/ InspectObject(c) \/ NextClass(c)
  BY <1>1, ReadIsMove DEF BeginScan, ListObjects, InspectObject, NextClass
<1>2. CASE AnswerScan(c)
  BY <1>2, EndIsMove DEF AnswerScan
<1>3. QED
  BY <1>1, <1>2 DEF ScanStep

-----------------------------------------------------------------------------
(* Every step, seen from the transactions *)

\* Every step of a request is a move, from "begun" or a step of a statement to
\* such a step, or none; a step of the system that is none of a request leaves
\* the transactions alone.
LEMMA StepIsMove ==
  ASSUME TxInv, NEW c \in Connections, Step(c)
  PROVE  \/ Begin(c, Admitted)
         \/ UNCHANGED txVars
         \/ TxMove(c, AllSteps, AllSteps)
         \/ step[c] # "idle" /\ End(c)
<1>0. ASSUME NEW from \in SUBSET AllSteps, NEW to \in SUBSET AllSteps, TxMove(c, from, to)
      PROVE  TxMove(c, AllSteps, AllSteps)
  BY <1>0 DEF TxMove
<1>1. CASE BeginRequest(c)
  BY <1>1 DEF BeginRequest
<1>2. CASE RollbackRequest(c)
  BY <1>2 DEF RollbackRequest, Rollback
<1>3. CASE UserStep(c)
  BY <1>0, <1>3, UserMove DEF AllSteps
<1>4. CASE CatalogStep(c)
  BY <1>0, <1>4, CatalogMove DEF AllSteps
<1>5. CASE MemberStep(c)
  BY <1>0, <1>5, MemberMove DEF AllSteps
<1>6. CASE AdmissionStep(c)
  BY <1>0, <1>6, AdmissionMove DEF AllSteps
<1>7. CASE AttemptStep(c)
  <2>1. {"begun", "validated context"} \cup Executing \in SUBSET AllSteps
        /\ Executing \in SUBSET AllSteps
    BY DEF AllSteps, ContextSteps
  <2>2. QED
    BY <1>0, <1>7, <2>1, AttemptMove
<1>8. CASE SettingStep(c)
  BY <1>0, <1>8, SettingMove DEF AllSteps
<1>9. CASE StartStep(c)
  BY <1>0, <1>9, StartMove DEF AllSteps
<1>10. CASE MaintenanceStep(c)
  BY <1>0, <1>10, MaintenanceMove DEF AllSteps
<1>11. CASE ScanStep(c)
  BY <1>0, <1>11, ScanMove DEF AllSteps
<1>12. QED
  BY <1>1, <1>2, <1>3, <1>4, <1>5, <1>6, <1>7, <1>8, <1>9, <1>10, <1>11 DEF Step

\* ROLLBACK.
LEMMA EndKeepsTx ==
  ASSUME TxInv, NEW c \in Connections, step[c] # "idle", End(c)
  PROVE  TxInv' /\ TxIdle(c)' /\ \A d \in Connections : d # c => TxSame(d)
<1>1. TxMove(c, {step[c]}, {})
  BY DEF TxMove
<1>2. TxInv'
  BY <1>1, MoveKeepsTx
<1>3. \A d \in Connections : d # c => TxSame(d)
  BY <1>1, MoveIsLocal
<1>4. TxIdle(c)'
  BY <1>1, MoveGoesOn
<1>5. QED
  BY <1>2, <1>3, <1>4

LEMMA StepKeepsTx ==
  ASSUME TxInv, [Next]_vars
  PROVE  TxInv'
<1>1. ASSUME UNCHANGED txVars PROVE TxInv'
  BY <1>1, StutterKeepsTx
<1>2. ASSUME NEW c \in Connections, Step(c) PROVE TxInv'
  <2>1. "idle" \notin AllSteps
    BY DEF AllSteps, UserSteps, CatalogSteps, MemberSteps, AccessSteps, AdmissionSteps,
           ContextSteps, Executing, SettingSteps, StartSteps, MaintenanceSteps, ScanSteps
  <2>2. QED
    BY <1>1, <1>2, <2>1, StepIsMove, BeginKeepsTx, MoveKeepsTx, EndKeepsTx
<1>3. CASE Deploy \/ ObjectsChange \/ UNCHANGED vars
  <2>1. UNCHANGED txVars
    BY <1>3 DEF Deploy, DeployCipher, DeployCaps, ObjectsChange, vars
  <2>2. QED
    BY <1>1, <2>1
<1>4. QED
  BY <1>2, <1>3 DEF Next

\* Locks exclude each other at any time: what one transaction has locked for
\* writing nobody else has locked, and an idle connection has locked nothing.
THEOREM LocksExclude == Spec => []TxInv
<1>1. Init => TxInv
  BY TransactionsAssumption
     DEF Init, TxInit, TxInv, TxTypeOK, MayWrite, Requests
<1>2. QED
  BY <1>1, StepKeepsTx, PTL DEF Spec

-----------------------------------------------------------------------------
(* The limits of a tenant *)

\* The rows of the settings, the cap and the limits at work have their types, and
\* nobody goes by a limit above the cap.
LimitsInv ==
  /\ setting \in [Groups -> [Fields -> Numbers]]
  /\ cap \in Caps
  /\ inForce = [g \in Groups |-> inForce[g]]
  /\ LimitsWithinCap

LEMMA CapIsNumber ==
  ASSUME LimitsInv
  PROVE  cap \in Nat /\ cap >= 1 /\ cap <= MaxOptional
BY SettingsAssumption DEF LimitsInv

\* What a group says is never more than the cap, if it can be read.
LEMMA EffectiveIsWithinCap ==
  ASSUME LimitsInv, NEW g \in Clamped \cup Refused, Readable(g), NEW f \in Fields
  PROVE  Effective(g)[f] <= cap
<1>1. cap \in Nat
  BY CapIsNumber
<1>2. CASE setting[g] = NoRow
  <2>1. Effective(g) = Initially(g)
    BY <1>2 DEF Effective
  <2>2. CASE g \in Clamped
    <3>1. g \notin Refused /\ g \notin Optional
      BY <2>2, SettingsAssumption
    <3>2. Initially(g) = [h \in Fields |-> cap]
      BY <2>2, <3>1 DEF Initially
    <3>3. QED
      BY <1>1, <2>1, <3>2
  <2>3. CASE g \in Refused
    <3>1. g \notin Clamped /\ g \notin Optional
      BY <2>3, SettingsAssumption
    <3>2. Initially(g) = [h \in Fields |-> Least(FirstLimit, cap)]
      BY <2>3, <3>1 DEF Initially
    <3>3. Least(FirstLimit, cap) <= cap
      BY <1>1, SettingsAssumption DEF Least
    <3>4. QED
      BY <2>1, <3>2, <3>3
  <2>4. QED
    BY <2>2, <2>3
<1>3. CASE setting[g] # NoRow /\ g \in Clamped
  <2>1. Effective(g)[f] = Least(setting[g][f], cap)
    BY <1>3 DEF Effective, Clamp
  <2>2. setting[g][f] \in Nat
    BY SettingsAssumption DEF LimitsInv, Groups, Numbers
  <2>3. QED
    BY <1>1, <2>1, <2>2 DEF Least
<1>4. CASE setting[g] # NoRow /\ g \in Refused
  <2>1. g \notin Optional /\ g \notin Clamped
    BY <1>4, SettingsAssumption
  <2>2. Effective(g) = setting[g]
    BY <1>4, <2>1 DEF Effective
  <2>3. setting[g][f] \in 1 .. cap
    BY <1>4, <2>1 DEF Readable, Valid
  <2>4. QED
    BY <1>1, <2>2, <2>3
<1>5. QED
  BY <1>2, <1>3, <1>4

\* A group that is written has numbers.
LEMMA WrittenIsTyped ==
  ASSUME LimitsInv, NEW c, NEW g, Valid(g, Patched(c, g))
  PROVE  Patched(c, g) \in [Fields -> Numbers]
<1>1. cap \in Nat /\ cap <= MaxOptional /\ MaxOptional \in Nat
  BY CapIsNumber, SettingsAssumption
<1>2. ASSUME NEW f \in Fields PROVE Patched(c, g)[f] \in Numbers
  BY <1>1 DEF Valid, Numbers, Unset
<1>3. DEFINE value == Patched(c, g)
<1>4. value = [f \in Fields |-> value[f]]
  BY DEF Patched
<1>5. QED
  BY <1>2, <1>4

LEMMA StepKeepsLimits ==
  ASSUME LimitsInv, [Next]_vars
  PROVE  LimitsInv'
<1>1. ASSUME UNCHANGED <<setting, cap, inForce>> PROVE LimitsInv'
  BY <1>1 DEF LimitsInv, LimitsWithinCap
<1>2. ASSUME NEW c \in Connections, ApplyLimits(c) PROVE LimitsInv'
  <2> DEFINE g == request[c].group
  <2>1. /\ inForce' = [inForce EXCEPT ![g] = Effective(g)]
        /\ Readable(g)
        /\ setting' = setting /\ cap' = cap
    BY <1>2 DEF ApplyLimits
  <2>2. inForce' = [h \in Groups |-> inForce'[h]]
    BY <2>1 DEF LimitsInv
  <2>3. ASSUME NEW h \in Clamped \cup Refused, NEW f \in Fields
        PROVE  inForce'[h][f] <= cap
    <3>1. h \in Groups
      BY DEF Groups
    <3>2. CASE h = g
      <4>1. Effective(h)[f] <= cap
        BY <2>1, <3>2, EffectiveIsWithinCap
      <4>2. inForce'[h] = Effective(h)
        BY <2>1, <3>1, <3>2 DEF LimitsInv
      <4>3. QED
        BY <4>1, <4>2
    <3>3. CASE h # g
      BY <2>1, <3>1, <3>3 DEF LimitsInv, LimitsWithinCap
    <3>4. QED
      BY <3>2, <3>3
  <2>4. QED
    BY <2>1, <2>2, <2>3 DEF LimitsInv, LimitsWithinCap
<1>3. ASSUME NEW c \in Connections, UpdateGroup(c) PROVE LimitsInv'
  <2> DEFINE g == Head(left[c])
  <2>1. /\ setting' = [setting EXCEPT ![g] = Patched(c, g)]
        /\ Valid(g, Patched(c, g))
        /\ inForce' = inForce /\ cap' = cap
    BY <1>3 DEF UpdateGroup
  <2>2. Patched(c, g) \in [Fields -> Numbers]
    BY <2>1, WrittenIsTyped
  <2>3. QED
    BY <2>1, <2>2 DEF LimitsInv, LimitsWithinCap
<1>4. ASSUME NEW n \in Caps, DeployCaps(n) PROVE LimitsInv'
  <2>1. n \in Nat /\ n >= 1
    BY SettingsAssumption
  <2>2. /\ cap' = n /\ setting' = setting
        /\ inForce' = [g \in Groups |-> NoRow]
    BY <1>4 DEF DeployCaps
  <2>3. ASSUME NEW g \in Clamped \cup Refused, NEW f \in Fields
        PROVE  inForce'[g][f] <= cap'
    BY <2>1, <2>2 DEF Groups, NoRow, Unset
  <2>4. QED
    BY <2>2, <2>3 DEF LimitsInv, LimitsWithinCap
<1>5. ASSUME NEW c \in Connections, Step(c) PROVE LimitsInv'
  <2>1. \/ UNCHANGED <<setting, cap, inForce>>
        \/ SettingStep(c)
    BY <1>5 DEF Step, BeginRequest, RollbackRequest, ForgetPatch, settingVars
  <2>2. ASSUME SettingStep(c)
        PROVE  UNCHANGED <<setting, cap, inForce>> \/ ApplyLimits(c) \/ UpdateGroup(c)
    BY <2>2 DEF SettingStep, StartPatch, LoadGroup, AnswerPatch, settingVars
  <2>3. QED
    BY <1>1, <1>2, <1>3, <2>1, <2>2
<1>6. ASSUME Deploy PROVE LimitsInv'
  BY <1>1, <1>4, <1>6 DEF Deploy, settingVars
<1>7. CASE ObjectsChange \/ UNCHANGED vars
  BY <1>1, <1>7 DEF ObjectsChange, vars, settingVars
<1>8. QED
  BY <1>5, <1>6, <1>7 DEF Next

\* Nobody goes by a limit above the cap of the deployed processes, whatever the
\* rows of the settings say and whatever the cap was when they were written.
THEOREM LimitsAreCapped == Spec => []LimitsWithinCap
<1>1. Init => LimitsInv
  <2> SUFFICES ASSUME Init PROVE LimitsInv
    OBVIOUS
  <2>1. /\ setting = [g \in Groups |-> NoRow] /\ cap \in Caps
        /\ inForce = [g \in Groups |-> NoRow]
    BY DEF Init, SettingsInit
  <2>2. NoRow \in [Fields -> Numbers]
    BY SettingsAssumption DEF NoRow, Unset, Numbers
  <2>3. ASSUME NEW g \in Clamped \cup Refused, NEW f \in Fields
        PROVE  inForce[g][f] <= cap
    BY <2>1, SettingsAssumption DEF Groups, NoRow, Unset
  <2>4. QED
    BY <2>1, <2>2, <2>3 DEF LimitsInv, LimitsWithinCap
<1>2. LimitsInv => LimitsWithinCap
  BY DEF LimitsInv
<1>3. QED
  BY <1>1, <1>2, StepKeepsLimits, PTL DEF Spec

-----------------------------------------------------------------------------
(* The temporary images of an execution *)

ImagesInv ==
  /\ answer = [c \in Connections |-> answer[c]]
  /\ files = [c \in Connections |-> files[c]]
  /\ TemporaryImagesRemoved

\* Whatever goes on, goes on elsewhere than where an answer is read.
LEMMA ElsewhereKeepsImages ==
  ASSUME TxInv, ImagesInv, NEW c \in Connections, NEW from, NEW to, TxMove(c, from, to),
         "reading" \notin from, UNCHANGED <<answer, files>>
  PROVE  ImagesInv'
<1>1. step[c] # "reading"
  BY DEF TxMove
<1>2. \A d \in Connections : d # c => step'[d] = step[d]
  BY MoveIsLocal DEF TxSame
<1>3. QED
  BY <1>1, <1>2 DEF ImagesInv, TemporaryImagesRemoved

\* A call is over without images, or an execution.
LEMMA RemovingKeepsImages ==
  ASSUME TxInv, ImagesInv, NEW c \in Connections, NEW from, NEW to, TxMove(c, from, to),
         NEW with, answer' = [answer EXCEPT ![c] = with], files' = [files EXCEPT ![c] = 0]
  PROVE  ImagesInv'
<1>1. \A d \in Connections : d # c => step'[d] = step[d]
  BY MoveIsLocal DEF TxSame
<1>2. files'[c] = 0 /\ ~ files'[c] > 0
  BY DEF ImagesInv
<1>3. \A d \in Connections : d # c => files'[d] = files[d] /\ answer'[d] = answer[d]
  BY DEF ImagesInv
<1>4. /\ answer' = [d \in Connections |-> answer'[d]]
      /\ files' = [d \in Connections |-> files'[d]]
  BY DEF ImagesInv
<1>5. QED
  BY <1>1, <1>2, <1>3, <1>4 DEF ImagesInv, TemporaryImagesRemoved

LEMMA CalledKeepsImages ==
  ASSUME TxInv, ImagesInv, NEW c \in Connections, NEW with, Called(c, with)
  PROVE  ImagesInv'
<1>1. TxMove(c, {step[c]}, {"called"})
  BY ReadIsMove DEF Called
<1>2. CASE with # "success"
  BY <1>1, <1>2, RemovingKeepsImages DEF Called
<1>3. CASE with = "success"
  <2>1. answer' = [answer EXCEPT ![c] = "success"] /\ files' = files
    <3>1. files' = [files EXCEPT ![c] = files[c]]
      BY <1>3 DEF Called
    <3>2. QED
      BY <1>3, <3>1 DEF Called, ImagesInv
  <2>2. \A d \in Connections : d # c => step'[d] = step[d]
    BY <1>1, MoveIsLocal DEF TxSame
  <2>3. QED
    BY <2>1, <2>2 DEF ImagesInv, TemporaryImagesRemoved
<1>4. QED
  BY <1>2, <1>3

LEMMA AdapterKeepsImages ==
  ASSUME TxInv, ImagesInv, NEW c \in Connections, AdapterStep(c)
  PROVE  ImagesInv'
<1>1. CASE \E with : Called(c, with)
  BY <1>1, CalledKeepsImages
<1>2. CASE BeginReading(c)
  <2>1. TxMove(c, {"attempting"}, {"reading"})
    BY <1>2, ReadIsMove DEF BeginReading, Speaks
  <2>2. UNCHANGED <<answer, files>>
    BY <1>2 DEF BeginReading, adapterVars
  <2>3. QED
    BY <2>1, <2>2, ElsewhereKeepsImages
<1>3. CASE DecodeImage(c)
  <2>1. TxMove(c, {"reading"}, {"reading"})
    BY <1>3, ReadIsMove DEF DecodeImage
  <2>2. \A d \in Connections : d # c => step'[d] = step[d]
    BY <2>1, MoveIsLocal DEF TxSame
  <2>3. step'[c] = "reading"
    BY <1>3 DEF DecodeImage, Read, TxInv
  <2>4. files' = [files EXCEPT ![c] = @ + 1] /\ answer' = answer
    BY <1>3 DEF DecodeImage
  <2>5. QED
    BY <2>2, <2>3, <2>4 DEF ImagesInv, TemporaryImagesRemoved
<1>4. QED
  BY <1>1, <1>2, <1>3
     DEF AdapterStep, InvalidRequest, TransportFails, HTTPFails, ResponseTooLarge, BodyFails,
         EndOfBody, GeminiBodyFails, ParseGemini

LEMMA AttemptKeepsImages ==
  ASSUME TxInv, ImagesInv, NEW c \in Connections, AttemptStep(c)
  PROVE  ImagesInv'
<1>1. CASE Interrupt(c)
  BY <1>1 DEF Interrupt, txVars, adapterVars, ImagesInv, TemporaryImagesRemoved
<1>2. ASSUME NEW next, Read(c, next), step[c] # "reading", UNCHANGED adapterVars
      PROVE  ImagesInv'
  <2>1. TxMove(c, {step[c]}, {next})
    BY <1>2, ReadIsMove
  <2>2. QED
    BY <1>2, <2>1, ElsewhereKeepsImages DEF adapterVars
<1>3. ASSUME NEW with, Answer(c, with) PROVE ImagesInv'
  <2>1. TxMove(c, {step[c]}, {"answered"})
    BY <1>3, ReadIsMove DEF Answer
  <2>2. QED
    BY <1>3, <2>1, RemovingKeepsImages DEF Answer
<1>4. ASSUME Leave(c) PROVE ImagesInv'
  <2>1. TxMove(c, {step[c]}, {})
    BY <1>4, EndIsMove DEF Leave
  <2>2. QED
    BY <1>4, <2>1, RemovingKeepsImages DEF Leave
<1>5. CASE CallProvider(c)
  BY <1>5, AdapterKeepsImages DEF CallProvider
<1>6. CASE ClaimRunning(c)
  BY <1>2, <1>4, <1>6 DEF ClaimRunning, attemptVars
<1>7. CASE BaseURLInvalid(c) \/ CredentialUnavailable(c) \/ InputsUnavailable(c)
  BY <1>3, <1>7 DEF BaseURLInvalid, CredentialUnavailable, InputsUnavailable
<1>8. CASE BeginAttempt(c)
  BY <1>2, <1>3, <1>8 DEF BeginAttempt
<1>9. CASE FinalizeAttempt(c)
  BY <1>2, <1>3, <1>9 DEF FinalizeAttempt
<1>10. CASE PersistSuccessfulResult(c)
  BY <1>2, <1>10 DEF PersistSuccessfulResult
<1>11. CASE EndInterrupted(c) \/ EndFailed(c) \/ OutputInvalid(c) \/ CostOverflows(c)
            \/ EndUnpersisted(c) \/ CompleteTask(c) \/ RecoverTimedOut(c)
  BY <1>4, <1>11 DEF EndInterrupted, EndFailed, OutputInvalid, CostOverflows,
                     EndUnpersisted, CompleteTask, RecoverTimedOut
<1>12. QED
  BY <1>1, <1>5, <1>6, <1>7, <1>8, <1>9, <1>10, <1>11 DEF AttemptStep

LEMMA StepKeepsImages ==
  ASSUME TxInv, ImagesInv, [Next]_vars
  PROVE  ImagesInv'
<1>1. ASSUME NEW c \in Connections, Step(c) PROVE ImagesInv'
  <2>0. ASSUME NEW steps, "reading" \notin steps, TxMove(c, {"begun"} \cup steps, steps),
               UNCHANGED attemptVars
        PROVE  ImagesInv'
    <3>1. "reading" \notin {"begun"} \cup steps
      BY <2>0
    <3>2. UNCHANGED <<answer, files>>
      BY <2>0 DEF attemptVars, adapterVars
    <3>3. QED
      BY <2>0, <3>1, <3>2, ElsewhereKeepsImages
  <2>1. CASE BeginRequest(c)
    <3>1. \A d \in Connections : step'[d] # step[d] => step'[d] = "begun" /\ step[d] = "idle"
      <4>1. step[c] = "idle" /\ Begin(c, Admitted)
        BY <2>1 DEF BeginRequest, Begin
      <4>2. step'[c] = "begun" /\ \A d \in Connections : d # c => TxSame(d)
        BY <4>1, BeginKeepsTx
      <4>3. \A d \in Connections : d # c => step'[d] = step[d]
        BY <4>2 DEF TxSame
      <4>4. QED
        BY <4>1, <4>2, <4>3
    <3>2. QED
      BY <2>1, <3>1 DEF BeginRequest, attemptVars, adapterVars, ImagesInv,
                        TemporaryImagesRemoved
  <2>2. CASE RollbackRequest(c)
    <3>1. TxMove(c, {step[c]}, {})
      BY <2>2, EndIsMove DEF RollbackRequest, Rollback
    <3>2. QED
      BY <2>2, <3>1, RemovingKeepsImages DEF RollbackRequest, ForgetAttempt
  <2>3. CASE UserStep(c) /\ UNCHANGED attemptVars
    BY <2>0, <2>3, UserMove DEF UserSteps
  <2>4. CASE CatalogStep(c) /\ UNCHANGED attemptVars
    BY <2>0, <2>4, CatalogMove DEF CatalogSteps
  <2>5. CASE MemberStep(c) /\ UNCHANGED attemptVars
    BY <2>0, <2>5, MemberMove DEF MemberSteps
  <2>6. CASE AdmissionStep(c) /\ UNCHANGED attemptVars
    BY <2>0, <2>6, AdmissionMove DEF AccessSteps, AdmissionSteps, ContextSteps
  <2>7. CASE AttemptStep(c)
    BY <2>7, AttemptKeepsImages
  <2>8. CASE SettingStep(c) /\ UNCHANGED attemptVars
    BY <2>0, <2>8, SettingMove DEF SettingSteps
  <2>9. CASE StartStep(c) /\ UNCHANGED attemptVars
    BY <2>0, <2>9, StartMove DEF StartSteps
  <2>10. CASE MaintenanceStep(c) /\ UNCHANGED attemptVars
    BY <2>0, <2>10, MaintenanceMove DEF MaintenanceSteps
  <2>11. CASE ScanStep(c) /\ UNCHANGED attemptVars
    BY <2>0, <2>11, ScanMove DEF ScanSteps
  <2>12. QED
    BY <1>1, <2>1, <2>2, <2>3, <2>4, <2>5, <2>6, <2>7, <2>8, <2>9, <2>10, <2>11 DEF Step
<1>2. CASE Deploy \/ ObjectsChange \/ UNCHANGED vars
  <2>1. UNCHANGED <<txVars, attemptVars>>
    BY <1>2 DEF Deploy, DeployCipher, DeployCaps, ObjectsChange, vars
  <2>2. QED
    BY <2>1 DEF txVars, attemptVars, adapterVars, ImagesInv, TemporaryImagesRemoved
<1>3. QED
  BY <1>1, <1>2 DEF Next

\* The temporary files of the images of a call do not outlive it, whatever fails
\* after they are there.
THEOREM ImagesAreRemoved == Spec => []TemporaryImagesRemoved
<1>1. Init => ImagesInv
  BY DEF Init, AttemptsInit, AdapterInit, ImagesInv, TemporaryImagesRemoved
<1>2. ImagesInv => TemporaryImagesRemoved
  BY DEF ImagesInv
<1>3. QED
  BY <1>1, <1>2, StepKeepsImages, LocksExclude, PTL DEF Spec

-----------------------------------------------------------------------------
(* The least and the greatest of some numbers *)

LEMMA LeastIsThere ==
  ASSUME NEW S \in SUBSET Nat, S # {}
  PROVE  Min(S) \in S /\ \A y \in S : Min(S) <= y
<1>1. PICK x \in S : \A y \in S : <<y, x>> \notin OpToRel(<, Nat)
  BY NatLessThanWellFounded, WFMin, Zenon
<1>2. \A y \in S : ~ (y < x)
  BY <1>1, Zenon DEF OpToRel
<1>3. \A y \in S : x <= y
  BY ONLY <1>2, S \in SUBSET Nat, x \in S
<1>4. QED
  BY <1>3 DEF Min

\* What a function gives for the members of a finite set is finite.
LEMMA ImageIsFinite ==
  ASSUME NEW S, IsFiniteSet(S), NEW f, f = [x \in S |-> f[x]]
  PROVE  IsFiniteSet({f[x] : x \in S})
<1> DEFINE T == {f[x] : x \in S}
<1>1. f \in [S -> T] /\ \A t \in T : \E x \in S : f[x] = t
  OBVIOUS
<1> HIDE DEF T
<1>2. f \in Surjection(S, T)
  BY <1>1 DEF Surjection
<1>3. IsFiniteSet(T)
  BY <1>2, FS_Surjection
<1>4. QED
  BY <1>3 DEF T

LEMMA GreatestIsThere ==
  ASSUME NEW S \in SUBSET Nat, IsFiniteSet(S), S # {}
  PROVE  Max(S) \in S /\ \A y \in S : Max(S) >= y
<1> DEFINE Above(x) == {y \in S : y > x}
           sizes == {Cardinality(Above(x)) : x \in S}
<1>1. \A x \in S : IsFiniteSet(Above(x))
  BY FS_Subset
<1>2. sizes \in SUBSET Nat /\ sizes # {}
  BY <1>1, FS_CardinalityType
<1>3. Min(sizes) \in sizes /\ \A n \in sizes : Min(sizes) <= n
  <2> HIDE DEF sizes
  <2>1. QED
    BY <1>2, LeastIsThere
<1>4. PICK x \in S : \A y \in S : Cardinality(Above(x)) <= Cardinality(Above(y))
  BY <1>3
<1>5. ASSUME NEW y \in S, y > x PROVE FALSE
  <2>a. \A z \in S : z > y => z > x
    BY <1>5
  <2>b. ~ (y > y)
    OBVIOUS
  <2>1. Above(y) \subseteq Above(x) /\ y \in Above(x) /\ y \notin Above(y)
    BY <1>5, <2>a, <2>b
  <2>2. /\ Cardinality(Above(y)) <= Cardinality(Above(x))
        /\ Cardinality(Above(x)) = Cardinality(Above(y)) => Above(x) = Above(y)
    BY <1>1, <2>1, FS_Subset
  <2>3. Cardinality(Above(x)) \in Nat /\ Cardinality(Above(y)) \in Nat
    BY <1>1, FS_CardinalityType
  <2>4. QED
    BY <1>4, <2>1, <2>2, <2>3
<1>6. \A y \in S : x >= y
  BY <1>5
<1>7. QED
  BY <1>6 DEF Max


-----------------------------------------------------------------------------
(* The walk through the objects *)

\* What comes after a key of a bucket, in the order of a walk.
Beyond(o, bucket, key) == Class(o) > bucket \/ (Class(o) = bucket /\ Key(o) > key)

ScanTypes ==
  /\ objects \subseteq StoredObjects /\ unseen \subseteq Orphans /\ page \subseteq StoredObjects
  /\ cursor \in [class : Nat, key : Nat] /\ cursor.class >= FirstClass
  /\ class \in Nat /\ class >= FirstClass /\ after \in Nat /\ scanned \in Nat

\* There is one walk, made by a request for it.
OneWalks ==
  /\ \A c, d \in Connections : Kind(c) \in Scans /\ Kind(d) \in Scans => c = d
  /\ \A c \in Connections : step[c] \in ScanSteps => Kind(c) \in Scans

\* Between its requests a walk still has before it what it has not shown.
CursorIsBefore ==
  /\ (\A c \in Connections : step[c] \notin ScanSteps) => NoPage /\ (cursor = Start => unseen = {})
  /\ cursor # Start => \A o \in unseen : Beyond(o, cursor.class, cursor.key)

\* So has a request, but for what it is looking at and what it has found.
PageIsBefore(c) ==
  /\ step[c] = "class" => \A o \in unseen \ found : Beyond(o, class, after)
  /\ step[c] = "page" =>
       \A o \in unseen \ found :
         o \in page \/ Class(o) > class \/ (after # 0 /\ Beyond(o, class, after))

ScanInv ==
  /\ ScanTypes
  /\ OneWalks
  /\ CursorIsBefore
  /\ \A c \in Connections : PageIsBefore(c)

LEMMA ObjectIsTyped ==
  ASSUME NEW o \in StoredObjects
  PROVE  Class(o) \in Nat /\ Key(o) \in Nat \ {0}
BY ScanAssumption DEF Class, Key

LEMMA BucketsAreOrdered ==
  /\ FirstClass \in Nat /\ LastClass \in Nat
  /\ \A o \in StoredObjects : FirstClass <= Class(o) /\ Class(o) <= LastClass
<1> DEFINE classes == {Class(o) : o \in StoredObjects}
<1>1. classes \in SUBSET Nat /\ classes # {}
  BY ObjectIsTyped, ScanAssumption
<1>2. IsFiniteSet(classes)
  <2> DEFINE f == [o \in StoredObjects |-> Class(o)]
  <2>1. IsFiniteSet({f[o] : o \in StoredObjects})
    BY ImageIsFinite, ScanAssumption
  <2>2. {f[o] : o \in StoredObjects} = classes
    OBVIOUS
  <2>3. QED
    BY <2>1, <2>2
<1>3. /\ Min(classes) \in classes /\ \A n \in classes : Min(classes) <= n
      /\ Max(classes) \in classes /\ \A n \in classes : Max(classes) >= n
  <2> HIDE DEF classes
  <2>1. QED
    BY <1>1, <1>2, LeastIsThere, GreatestIsThere
<1>4. \A o \in StoredObjects : Class(o) \in classes
  OBVIOUS
<1>5. FirstClass = Min(classes) /\ LastClass = Max(classes)
  BY DEF FirstClass, LastClass
<1> HIDE DEF classes
<1>6. QED
  BY <1>1, <1>3, <1>4, <1>5

\* A page that does not show everything shows something, up to its last key.
LEMMA PageIsPrefix ==
  ASSUME NEW F \in SUBSET StoredObjects, NEW n \in Nat \ {0}, FirstOf(F, n) # F
  PROVE  LET last == Max({Key(o) : o \in FirstOf(F, n)}) IN
         last \in Nat \ {0} /\ \A o \in F \ FirstOf(F, n) : Key(o) > last
<1> DEFINE before(o) == {p \in F : Key(p) < Key(o)}
           listed == FirstOf(F, n)
           keys == {Key(o) : o \in listed}
<1>1. IsFiniteSet(F)
  BY ScanAssumption, FS_Subset
<1>2. listed = {o \in F : Cardinality(before(o)) < n}
  BY DEF FirstOf
<1>3. \A o \in F : Key(o) \in Nat \ {0}
  BY ObjectIsTyped
<1>4. \A o \in F : IsFiniteSet(before(o)) /\ Cardinality(before(o)) \in Nat
  BY <1>1, FS_Subset, FS_CardinalityType
<1>5. \A o, p \in F : Key(o) <= Key(p) => Cardinality(before(o)) <= Cardinality(before(p))
  <2>1. ASSUME NEW o \in F, NEW p \in F, Key(o) <= Key(p)
        PROVE  before(o) \in SUBSET before(p)
    BY <1>3, <2>1
  <2> HIDE DEF before
  <2>2. QED
    BY <1>4, <2>1, FS_Subset
<1>6. \A o \in F : (\A p \in F : Key(o) <= Key(p)) => Cardinality(before(o)) = 0
  <2>1. ASSUME NEW o \in F, \A p \in F : Key(o) <= Key(p)
        PROVE  before(o) = {}
    BY <1>3, <2>1
  <2> HIDE DEF before
  <2>2. QED
    BY <2>1, FS_EmptySet
<1> HIDE DEF before
<1>7. listed # {}
  <2> DEFINE all == {Key(o) : o \in F}
  <2>1. F # {} /\ listed # F
    BY <1>2
  <2>2. all \in SUBSET Nat /\ all # {}
    BY <1>3, <2>1
  <2>3. Min(all) \in all /\ \A k \in all : Min(all) <= k
    <3> HIDE DEF all
    <3>1. QED
      BY <2>2, LeastIsThere
  <2>4. PICK o \in F : \A p \in F : Key(o) <= Key(p)
    BY <2>3
  <2>5. Cardinality(before(o)) = 0
    BY <1>6, <2>4
  <2>6. QED
    BY <1>2, <2>5
<1>8. listed \in SUBSET F
  BY <1>2
<1>9. IsFiniteSet(listed)
  BY <1>1, <1>8, FS_Subset
<1>10. IsFiniteSet(keys)
  <2> DEFINE f == [o \in listed |-> Key(o)]
  <2> HIDE DEF listed
  <2>1. IsFiniteSet({f[o] : o \in listed})
    BY <1>9, ImageIsFinite
  <2>2. {f[o] : o \in listed} = keys
    OBVIOUS
  <2>3. QED
    BY <2>1, <2>2
<1>11. keys \in SUBSET Nat /\ keys # {}
  <2> HIDE DEF listed
  <2>1. QED
    BY <1>3, <1>7, <1>8
<1>12. Max(keys) \in keys
  <2> HIDE DEF keys
  <2>1. QED
    BY <1>10, <1>11, GreatestIsThere
<1>13. PICK p \in listed : Max(keys) = Key(p)
  BY <1>12
<1>14. ASSUME NEW o \in F \ listed PROVE Key(o) > Key(p)
  <2>1. ~ (Cardinality(before(o)) < n) /\ Cardinality(before(p)) < n /\ p \in F
    BY <1>2, <1>13
  <2>2. ~ (Key(o) <= Key(p))
    BY <1>4, <1>5, <2>1
  <2>3. QED
    BY <1>3, <2>1, <2>2
<1>15. Key(p) \in Nat \ {0}
  BY <1>3, <1>8, <1>13
<1>16. QED
  BY <1>13, <1>14, <1>15


LEMMA NobodyElseWalks ==
  ASSUME OneWalks, NEW c \in Connections, Kind(c) \in Scans, NEW d \in Connections, d # c
  PROVE  Kind(d) \notin Scans /\ step[d] \notin ScanSteps
BY DEF OneWalks

\* Who is in a walk is making it.
LEMMA WalkerWalks ==
  ASSUME OneWalks, NEW c \in Connections, ScanStep(c)
  PROVE  Kind(c) \in Scans
BY DEF OneWalks, ScanStep, BeginScan, ListObjects, InspectObject, NextClass, AnswerScan, ScanSteps

\* What is left to show of a step of a walk.
LEMMA WalkGoesOn ==
  ASSUME TxInv, ScanInv, NEW c \in Connections, ScanStep(c),
         ScanTypes', CursorIsBefore', PageIsBefore(c)'
  PROVE  ScanInv'
<1>1. OneWalks /\ Kind(c) \in Scans
  BY WalkerWalks DEF ScanInv
<1>2. \A d \in Connections : d # c => TxSame(d)
  BY ScanMove, MoveIsLocal
<1>3. (request'[c] = request[c] /\ step'[c] \in ScanSteps) \/ TxIdle(c)'
  BY ScanMove, MoveGoesOn
<1>4. \A d \in Connections : d # c => Kind(d)' \notin Scans /\ step'[d] \notin ScanSteps
  BY <1>1, <1>2, NobodyElseWalks DEF TxSame, Kind
<1>5. step'[c] \in ScanSteps => Kind(c)' \in Scans
  BY <1>1, <1>3 DEF TxIdle, ScanSteps, Kind
<1>6. OneWalks'
  BY <1>4, <1>5 DEF OneWalks
<1>7. ASSUME NEW d \in Connections, d # c PROVE PageIsBefore(d)'
  BY <1>4, <1>7 DEF PageIsBefore, ScanSteps
<1>8. QED
  BY <1>6, <1>7 DEF ScanInv

LEMMA BeginKeepsWalk ==
  ASSUME TxInv, ScanInv, NEW c \in Connections, BeginScan(c)
  PROVE  ScanInv'
<1>1. ScanStep(c)
  BY DEF ScanStep
<1>2. ScanTypes /\ OneWalks /\ CursorIsBefore /\ step = [d \in Connections |-> step[d]]
  BY DEF ScanInv, TxInv
<1>3. Kind(c) \in Scans /\ step[c] = "begun" /\ step'[c] = "class"
  BY <1>2 DEF BeginScan, Read
<1>4. \A d \in Connections : step[d] \notin ScanSteps
  BY <1>2, <1>3, NobodyElseWalks DEF ScanSteps
<1>5. found = {} /\ page = {} /\ (cursor = Start => unseen = {})
  BY <1>2, <1>4 DEF CursorIsBefore, NoPage
<1>6. /\ class' = cursor.class /\ after' = cursor.key
      /\ unseen' = IF cursor = Start THEN Orphans ELSE unseen
      /\ UNCHANGED <<objects, recent, cursor, scanned, page, found>>
  BY DEF BeginScan
<1>7. unseen' \subseteq Orphans /\ Orphans \subseteq StoredObjects /\ Orphans' = Orphans
  BY <1>2, <1>6 DEF ScanTypes, Orphans
<1>8. ScanTypes'
  <2>1. class' \in Nat /\ class' >= FirstClass /\ after' \in Nat
    BY <1>2, <1>6 DEF ScanTypes
  <2>2. QED
    BY <1>2, <1>6, <1>7, <2>1 DEF ScanTypes
<1>9. CursorIsBefore'
  BY <1>2, <1>3, <1>6 DEF CursorIsBefore, ScanSteps
<1>10. \A o \in unseen' : Beyond(o, class', after')
  <2>1. CASE cursor = Start
    <3>1. cursor.class = FirstClass /\ cursor.key = 0
      BY <2>1 DEF Start
    <3>2. \A o \in Orphans : Class(o) \in Nat /\ Class(o) >= FirstClass /\ Key(o) > 0
      BY <1>7, ObjectIsTyped, BucketsAreOrdered
    <3>3. QED
      BY <1>6, <1>7, <3>1, <3>2, BucketsAreOrdered DEF Beyond
  <2>2. CASE cursor # Start
    BY <1>2, <1>6, <2>2 DEF CursorIsBefore
  <2>3. QED
    BY <2>1, <2>2
<1>11. PageIsBefore(c)'
  BY <1>3, <1>10 DEF PageIsBefore
<1>12. QED
  BY <1>1, <1>8, <1>9, <1>11, WalkGoesOn

LEMMA ListKeepsWalk ==
  ASSUME TxInv, ScanInv, NEW c \in Connections, ListObjects(c)
  PROVE  ScanInv'
<1> DEFINE n == PageLimit(c) - scanned
           listed == FirstOf(Following, n)
<1>1. ScanStep(c)
  BY DEF ScanStep
<1>2. ScanTypes /\ OneWalks /\ CursorIsBefore /\ PageIsBefore(c)
      /\ step = [d \in Connections |-> step[d]]
  BY DEF ScanInv, TxInv
<1>3. step[c] = "class" /\ step'[c] = "page" /\ scanned < PageLimit(c)
  BY <1>2 DEF ListObjects, Read
<1>4. /\ page' = listed
      /\ after' = IF listed = Following THEN 0 ELSE Max({Key(o) : o \in listed})
      /\ UNCHANGED <<objects, recent, cursor, unseen, class, scanned, found>>
  BY DEF ListObjects
<1>5. n \in Nat \ {0}
  <2>1. Kind(c) \in Scans
    BY <1>1, <1>2, WalkerWalks
  <2>2. request[c] \in Requests
    <3>1. request[c] \in Requests \cup {NoRequest}
      BY DEF TxInv, TxTypeOK
    <3>2. QED
      BY <2>1, <3>1 DEF Kind, NoRequest, Scans
  <2>3. PageLimit(c) \in Nat
    BY <2>1, <2>2, ScanRequestsAssumption DEF PageLimit, Kind
  <2>4. scanned \in Nat
    BY <1>2 DEF ScanTypes
  <2>5. QED
    BY <1>3, <2>3, <2>4
<1>6. Following \in SUBSET StoredObjects /\ listed \subseteq Following
  BY <1>2 DEF ScanTypes, Following, FirstOf
<1>7. listed # Following =>
        after' \in Nat \ {0} /\ \A o \in Following \ listed : Key(o) > after'
  BY <1>4, <1>5, <1>6, PageIsPrefix
<1>8. ScanTypes'
  <2>1. after' \in Nat
    BY <1>4, <1>7
  <2>2. page' \subseteq StoredObjects
    BY <1>4, <1>6
  <2>3. QED
    BY <1>2, <1>4, <2>1, <2>2 DEF ScanTypes, Orphans
<1>9. CursorIsBefore'
  BY <1>2, <1>3, <1>4 DEF CursorIsBefore, ScanSteps
<1>10. ASSUME NEW o \in unseen' \ found'
       PROVE  o \in page' \/ Class(o) > class' \/ (after' # 0 /\ Beyond(o, class', after'))
  <2>1. o \in unseen \ found /\ o \in objects
    BY <1>2, <1>4 DEF ScanTypes, Orphans
  <2>2. Beyond(o, class, after)
    BY <1>2, <1>3, <2>1 DEF PageIsBefore
  <2>3. CASE Class(o) > class
    BY <1>4, <2>3
  <2>4. CASE Class(o) = class /\ Key(o) > after
    <3>1. o \in Following
      BY <2>1, <2>4 DEF Following
    <3>2. CASE o \in listed
      BY <1>4, <3>2
    <3>3. CASE o \notin listed
      BY <1>4, <1>7, <2>4, <3>1, <3>3 DEF Beyond
    <3>4. QED
      BY <3>2, <3>3
  <2>5. QED
    BY <2>2, <2>3, <2>4 DEF Beyond
<1>11. PageIsBefore(c)'
  BY <1>3, <1>10 DEF PageIsBefore
<1>12. QED
  BY <1>1, <1>8, <1>9, <1>11, WalkGoesOn


LEMMA InspectKeepsWalk ==
  ASSUME TxInv, ScanInv, NEW c \in Connections, InspectObject(c)
  PROVE  ScanInv'
<1>1. ScanStep(c)
  BY DEF ScanStep
<1>2. ScanTypes /\ OneWalks /\ CursorIsBefore /\ PageIsBefore(c)
      /\ step = [d \in Connections |-> step[d]]
  BY DEF ScanInv, TxInv
<1>3. step[c] = "page" /\ step'[c] = "page" /\ scanned' = scanned + 1
      /\ UNCHANGED <<cursor, class, after>>
  BY <1>2 DEF InspectObject, Read
<1>4. PICK o \in page :
        /\ page' = page \ {o}
        /\ IF o \in recent \cup Referenced THEN UNCHANGED <<objects, recent, unseen, found>>
           ELSE /\ found' = found \cup {o}
                /\ \/ Kind(c) = "cleanupOrphans" /\ Remove(o)
                   \/ UNCHANGED <<objects, recent, unseen>>
  BY DEF InspectObject
<1>5. /\ objects' \subseteq objects /\ unseen' \subseteq unseen
      /\ unseen' \subseteq Orphans'
      /\ \A p \in unseen' \ found' : p \in unseen \ found /\ (p \in page => p \in page')
  BY <1>2, <1>4 DEF Remove, ScanTypes, Orphans
<1>6. ScanTypes'
  <2>1. scanned' \in Nat
    BY <1>2, <1>3 DEF ScanTypes
  <2>2. QED
    BY <1>2, <1>3, <1>4, <1>5, <2>1 DEF ScanTypes
<1>7. CursorIsBefore'
  BY <1>2, <1>3, <1>5 DEF CursorIsBefore, ScanSteps
<1>8. PageIsBefore(c)'
  BY <1>2, <1>3, <1>5 DEF PageIsBefore
<1>9. QED
  BY <1>1, <1>6, <1>7, <1>8, WalkGoesOn

LEMMA NextClassKeepsWalk ==
  ASSUME TxInv, ScanInv, NEW c \in Connections, NextClass(c)
  PROVE  ScanInv'
<1>1. ScanStep(c)
  BY DEF ScanStep
<1>2. ScanTypes /\ OneWalks /\ CursorIsBefore /\ PageIsBefore(c)
      /\ step = [d \in Connections |-> step[d]]
  BY DEF ScanInv, TxInv
<1>3. /\ step[c] = "page" /\ step'[c] = "class" /\ page = {} /\ after = 0 /\ class' = class + 1
      /\ UNCHANGED <<objects, recent, cursor, unseen, after, scanned, page, found>>
  BY <1>2 DEF NextClass, Read
<1>4. ScanTypes'
  <2>1. class' \in Nat /\ class' >= FirstClass
    BY <1>2, <1>3, BucketsAreOrdered DEF ScanTypes
  <2>2. QED
    BY <1>2, <1>3, <2>1 DEF ScanTypes, Orphans
<1>5. CursorIsBefore'
  BY <1>2, <1>3 DEF CursorIsBefore, ScanSteps
<1>6. ASSUME NEW o \in unseen' \ found' PROVE Beyond(o, class', after')
  <2>1. o \in StoredObjects /\ class \in Nat
    BY <1>2, <1>3 DEF ScanTypes, Orphans
  <2>2. Class(o) > class
    BY <1>2, <1>3 DEF PageIsBefore
  <2>3. Class(o) \in Nat /\ Key(o) > 0
    BY <2>1, ObjectIsTyped
  <2>4. Class(o) > class + 1 \/ Class(o) = class + 1
    BY <2>1, <2>2, <2>3
  <2>5. QED
    BY <1>3, <2>3, <2>4 DEF Beyond
<1>7. PageIsBefore(c)'
  BY <1>3, <1>6 DEF PageIsBefore
<1>8. QED
  BY <1>1, <1>4, <1>5, <1>7, WalkGoesOn

\* The answer shows what has been found, and says where the rest begins; when it
\* says nothing, there is no rest.
LEMMA AnswerKeepsWalk ==
  ASSUME TxInv, ScanInv, NEW c \in Connections, AnswerScan(c)
  PROVE  ScanInv'
<1>1. ScanStep(c)
  BY DEF ScanStep
<1>2. ScanTypes /\ OneWalks /\ CursorIsBefore /\ PageIsBefore(c)
      /\ step = [d \in Connections |-> step[d]]
  BY DEF ScanInv, TxInv
<1>3. /\ step[c] = "page" /\ step'[c] = "idle" /\ page = {}
      /\ cursor' = NextCursor /\ unseen' = unseen \ found
      /\ class' = FirstClass /\ after' = 0 /\ scanned' = 0 /\ page' = {} /\ found' = {}
      /\ UNCHANGED <<objects, recent>>
  BY <1>2 DEF AnswerScan, End
<1>4. FirstClass \in Nat /\ LastClass \in Nat /\ class \in Nat /\ class >= FirstClass
      /\ after \in Nat
  BY <1>2, BucketsAreOrdered DEF ScanTypes
<1>5. ASSUME NEW o \in unseen'
      PROVE  /\ o \in StoredObjects /\ Class(o) \in Nat /\ Class(o) <= LastClass /\ Key(o) > 0
             /\ Class(o) > class \/ (after # 0 /\ Beyond(o, class, after))
  <2>1. o \in StoredObjects
    BY <1>2, <1>3 DEF ScanTypes, Orphans
  <2>2. Class(o) > class \/ (after # 0 /\ Beyond(o, class, after))
    BY <1>2, <1>3 DEF PageIsBefore
  <2>3. QED
    BY <2>1, <2>2, ObjectIsTyped, BucketsAreOrdered
<1>6. ASSUME after # 0
      PROVE  /\ cursor' \in [class : Nat, key : Nat] /\ cursor'.class >= FirstClass
             /\ cursor' # Start \/ unseen' = {}
             /\ cursor' # Start => \A o \in unseen' : Beyond(o, cursor'.class, cursor'.key)
  <2>1. cursor' = [class |-> class, key |-> after]
    BY <1>3, <1>6 DEF NextCursor
  <2>2. cursor'.class = class /\ cursor'.key = after
    BY <2>1
  <2>3. cursor' \in [class : Nat, key : Nat] /\ cursor'.class >= FirstClass
    BY <1>4, <2>1
  <2>4. cursor' # Start
    BY <1>6, <2>2 DEF Start
  <2>5. \A o \in unseen' : Beyond(o, cursor'.class, cursor'.key)
    BY <1>4, <1>5, <2>2 DEF Beyond
  <2>6. QED
    BY <2>3, <2>4, <2>5
<1>7. ASSUME after = 0 /\ class < LastClass
      PROVE  /\ cursor' \in [class : Nat, key : Nat] /\ cursor'.class >= FirstClass
             /\ cursor' # Start \/ unseen' = {}
             /\ cursor' # Start => \A o \in unseen' : Beyond(o, cursor'.class, cursor'.key)
  <2>1. cursor' = [class |-> class + 1, key |-> 0]
    BY <1>3, <1>7 DEF NextCursor
  <2>2. cursor'.class = class + 1 /\ cursor'.key = 0
    BY <2>1
  <2>3. cursor' \in [class : Nat, key : Nat] /\ cursor'.class >= FirstClass
    BY <1>4, <2>1
  <2>4. cursor' # Start
    BY <1>4, <2>2 DEF Start
  <2>5. \A o \in unseen' : Beyond(o, cursor'.class, cursor'.key)
    BY <1>4, <1>5, <1>7, <2>2 DEF Beyond
  <2>6. QED
    BY <2>3, <2>4, <2>5
<1>8. ASSUME after = 0 /\ ~ (class < LastClass)
      PROVE  /\ cursor' \in [class : Nat, key : Nat] /\ cursor'.class >= FirstClass
             /\ cursor' # Start \/ unseen' = {}
             /\ cursor' # Start => \A o \in unseen' : Beyond(o, cursor'.class, cursor'.key)
  <2>1. cursor' = Start
    BY <1>3, <1>8 DEF NextCursor
  <2>2. cursor' \in [class : Nat, key : Nat] /\ cursor'.class >= FirstClass
    BY <1>4, <2>1 DEF Start
  <2>3. unseen' = {}
    BY <1>4, <1>5, <1>8
  <2>4. QED
    BY <2>2, <2>3
<1>9. /\ cursor' \in [class : Nat, key : Nat] /\ cursor'.class >= FirstClass
      /\ cursor' # Start \/ unseen' = {}
      /\ cursor' # Start => \A o \in unseen' : Beyond(o, cursor'.class, cursor'.key)
  BY <1>6, <1>7, <1>8
<1>10. ScanTypes'
  BY <1>2, <1>3, <1>4, <1>9 DEF ScanTypes, Orphans
<1>11. NoPage'
  BY <1>3 DEF NoPage
<1>12. CursorIsBefore'
  BY <1>9, <1>11 DEF CursorIsBefore
<1>13. PageIsBefore(c)'
  BY <1>3 DEF PageIsBefore
<1>14. QED
  BY <1>1, <1>10, <1>12, <1>13, WalkGoesOn


\* What goes on outside of the walk: nobody enters or leaves it but as a request.
LEMMA ElsewhereKeepsWalk ==
  ASSUME TxInv, ScanInv, NEW c \in Connections, UNCHANGED scanVars,
         \A d \in Connections : d # c => TxSame(d),
         step[c] \notin ScanSteps, step'[c] \notin ScanSteps,
         Kind(c)' \in Scans => Kind(c) \in Scans \/ \A d \in Connections : Kind(d) \notin Scans
  PROVE  ScanInv'
<1>1. UNCHANGED <<objects, recent, cursor, unseen, class, after, scanned, page, found>>
  BY DEF scanVars, pageVars
<1>2. ScanTypes'
  BY <1>1 DEF ScanInv, ScanTypes, Orphans
<1>3. \A d \in Connections : d # c => Kind(d)' = Kind(d) /\ step'[d] = step[d]
  BY DEF TxSame, Kind
<1>4. OneWalks'
  BY <1>3 DEF ScanInv, OneWalks
<1>5. CursorIsBefore'
  BY <1>1, <1>3 DEF ScanInv, CursorIsBefore, NoPage
<1>6. ASSUME NEW d \in Connections PROVE PageIsBefore(d)'
  BY <1>1, <1>3 DEF ScanInv, PageIsBefore, ScanSteps
<1>7. QED
  BY <1>2, <1>4, <1>5, <1>6 DEF ScanInv

LEMMA ForeignMoveKeepsWalk ==
  ASSUME TxInv, ScanInv, NEW c \in Connections, NEW from, NEW to, TxMove(c, from, to),
         from \cap ScanSteps = {}, to \cap ScanSteps = {}, UNCHANGED scanVars
  PROVE  ScanInv'
<1>1. \A d \in Connections : d # c => TxSame(d)
  BY MoveIsLocal
<1>2. (request'[c] = request[c] /\ step'[c] \in to) \/ TxIdle(c)'
  BY MoveGoesOn
<1>3. step[c] \notin ScanSteps
  BY DEF TxMove
<1>4. step'[c] \notin ScanSteps
  BY <1>2 DEF TxIdle, ScanSteps
<1>5. Kind(c)' \in Scans => Kind(c) \in Scans
  BY <1>2 DEF TxIdle, Kind, NoRequest, Scans
<1>6. QED
  BY <1>1, <1>3, <1>4, <1>5, ElsewhereKeepsWalk

LEMMA StutterKeepsWalk ==
  ASSUME ScanInv, UNCHANGED txVars, UNCHANGED scanVars
  PROVE  ScanInv'
BY DEF ScanInv, txVars, scanVars, pageVars, ScanTypes, Orphans, OneWalks, CursorIsBefore, NoPage,
       PageIsBefore, Kind

\* Objects are stored and removed by those they belong to: what is stored is no
\* orphan, and what is removed is none any more.
LEMMA OwnersKeepWalk ==
  ASSUME ScanInv, NEW o \in StoredObjects, StoreObject(o) \/ RemoveObject(o), UNCHANGED txVars
  PROVE  ScanInv'
<1>1. /\ UNCHANGED <<cursor, class, after, scanned, page, found>>
      /\ unseen' \subseteq unseen
  BY DEF StoreObject, RemoveObject, Remove, pageVars
<1>2. UNCHANGED <<request, step>>
  BY DEF txVars
<1>3. ScanTypes'
  <2>1. objects' \subseteq StoredObjects /\ unseen' \subseteq Orphans'
    BY DEF ScanInv, ScanTypes, StoreObject, RemoveObject, Remove, Orphans
  <2>2. QED
    BY <1>1, <2>1 DEF ScanInv, ScanTypes
<1>4. CursorIsBefore'
  BY <1>1, <1>2 DEF ScanInv, CursorIsBefore, NoPage
<1>5. OneWalks'
  BY <1>2 DEF ScanInv, OneWalks, Kind
<1>6. ASSUME NEW d \in Connections PROVE PageIsBefore(d)'
  BY <1>1, <1>2 DEF ScanInv, PageIsBefore
<1>7. QED
  BY <1>3, <1>4, <1>5, <1>6 DEF ScanInv

\* A request of a walk that fails leaves the cursor where it was.
LEMMA RollbackKeepsWalk ==
  ASSUME TxInv, ScanInv, NEW c \in Connections, Rollback(c), ForgetScan(c)
  PROVE  ScanInv'
<1>1. TxMove(c, {step[c]}, {})
  BY EndIsMove DEF Rollback
<1>2. ScanTypes /\ OneWalks /\ CursorIsBefore
  BY DEF ScanInv
<1>3. CASE Kind(c) \notin Scans
  <2>1. step[c] \notin ScanSteps
    BY <1>2, <1>3 DEF OneWalks
  <2>2. UNCHANGED scanVars
    BY <1>3 DEF ForgetScan
  <2>3. {step[c]} \cap ScanSteps = {} /\ {} \cap ScanSteps = {}
    BY <2>1
  <2>4. QED
    BY <1>1, <2>2, <2>3, ForeignMoveKeepsWalk
<1>4. CASE Kind(c) \in Scans
  <2>1. TxIdle(c)' /\ \A d \in Connections : d # c => TxSame(d)
    BY <1>1, MoveGoesOn, MoveIsLocal
  <2>2. \A d \in Connections : Kind(d)' \notin Scans /\ step'[d] \notin ScanSteps
    BY <1>2, <1>4, <2>1, NobodyElseWalks DEF TxIdle, TxSame, Kind, NoRequest, Scans, ScanSteps
  <2>3. /\ class' = FirstClass /\ after' = 0 /\ scanned' = 0 /\ page' = {} /\ found' = {}
        /\ unseen' = IF cursor = Start THEN {} ELSE unseen
        /\ UNCHANGED <<objects, recent, cursor>>
    BY <1>4 DEF ForgetScan
  <2>4. ScanTypes'
    BY <1>2, <2>3, BucketsAreOrdered DEF ScanTypes, Orphans
  <2>5. OneWalks'
    BY <2>2 DEF OneWalks
  <2>6. CursorIsBefore'
    BY <1>2, <2>3 DEF CursorIsBefore, NoPage
  <2>7. \A d \in Connections : PageIsBefore(d)'
    BY <2>2 DEF PageIsBefore, ScanSteps
  <2>8. QED
    BY <2>4, <2>5, <2>6, <2>7 DEF ScanInv
<1>5. QED
  BY <1>3, <1>4

LEMMA StepKeepsWalk ==
  ASSUME TxInv, ScanInv, [Next]_vars
  PROVE  ScanInv'
<1>0. /\ "begun" \notin ScanSteps /\ "validated context" \notin ScanSteps
      /\ UserSteps \cap ScanSteps = {} /\ CatalogSteps \cap ScanSteps = {}
      /\ MemberSteps \cap ScanSteps = {} /\ AccessSteps \cap ScanSteps = {}
      /\ AdmissionSteps \cap ScanSteps = {} /\ ContextSteps \cap ScanSteps = {}
      /\ Executing \cap ScanSteps = {} /\ SettingSteps \cap ScanSteps = {}
      /\ StartSteps \cap ScanSteps = {} /\ MaintenanceSteps \cap ScanSteps = {}
  BY DEF ScanSteps, UserSteps, CatalogSteps, MemberSteps, AccessSteps, AdmissionSteps,
         ContextSteps, Executing, SettingSteps, StartSteps, MaintenanceSteps
<1>1. ASSUME NEW c \in Connections, Step(c) PROVE ScanInv'
  <2>0. ASSUME NEW steps, steps \cap ScanSteps = {}, TxMove(c, {"begun"} \cup steps, steps),
               UNCHANGED scanVars
        PROVE  ScanInv'
    <3>1. ({"begun"} \cup steps) \cap ScanSteps = {}
      BY <1>0, <2>0
    <3>2. QED
      BY <2>0, <3>1, ForeignMoveKeepsWalk
  <2>1. CASE BeginRequest(c)
    <3>1. step[c] = "idle" /\ Begin(c, Admitted) /\ UNCHANGED scanVars
      BY <2>1 DEF BeginRequest, Begin, backgroundVars
    <3>2. /\ request'[c] \in Admitted /\ step'[c] = "begun"
          /\ \A d \in Connections : d # c => TxSame(d)
      BY <3>1, BeginKeepsTx
    <3>3. request'[c].kind \in Scans => \A d \in Connections : Kind(d) \notin Scans
      BY <3>2 DEF Admitted, OneWalk
    <3>4. step[c] \notin ScanSteps /\ step'[c] \notin ScanSteps
      BY <1>0, <3>1, <3>2 DEF ScanSteps
    <3>5. QED
      BY <3>1, <3>2, <3>3, <3>4, ElsewhereKeepsWalk DEF Kind
  <2>2. CASE RollbackRequest(c)
    BY <2>2, RollbackKeepsWalk DEF RollbackRequest
  <2>3. CASE UserStep(c) /\ UNCHANGED scanVars
    BY <1>0, <2>0, <2>3, UserMove
  <2>4. CASE CatalogStep(c) /\ UNCHANGED scanVars
    BY <1>0, <2>0, <2>4, CatalogMove
  <2>5. CASE MemberStep(c) /\ UNCHANGED scanVars
    BY <1>0, <2>0, <2>5, MemberMove
  <2>6. CASE AdmissionStep(c) /\ UNCHANGED scanVars
    BY <1>0, <2>0, <2>6, AdmissionMove
  <2>7. CASE AttemptStep(c) /\ UNCHANGED scanVars
    <3>1. ({"begun", "validated context"} \cup Executing) \cap ScanSteps = {}
      BY <1>0
    <3>2. QED
      BY <1>0, <2>7, <3>1, AttemptMove, ForeignMoveKeepsWalk, StutterKeepsWalk
  <2>8. CASE SettingStep(c) /\ UNCHANGED scanVars
    BY <1>0, <2>0, <2>8, SettingMove
  <2>9. CASE StartStep(c) /\ UNCHANGED scanVars
    BY <1>0, <2>0, <2>9, StartMove
  <2>10. CASE MaintenanceStep(c) /\ UNCHANGED scanVars
    BY <1>0, <2>0, <2>10, MaintenanceMove
  <2>11. CASE ScanStep(c)
    BY <2>11, BeginKeepsWalk, ListKeepsWalk, InspectKeepsWalk, NextClassKeepsWalk,
       AnswerKeepsWalk DEF ScanStep
  <2>12. QED
    BY <1>1, <2>1, <2>2, <2>3, <2>4, <2>5, <2>6, <2>7, <2>8, <2>9, <2>10, <2>11
       DEF Step, backgroundVars
<1>2. CASE Deploy \/ UNCHANGED vars
  <2>1. UNCHANGED txVars /\ UNCHANGED scanVars
    BY <1>2 DEF Deploy, DeployCipher, DeployCaps, vars, backgroundVars
  <2>2. QED
    BY <2>1, StutterKeepsWalk
<1>3. CASE ObjectsChange
  BY <1>3, OwnersKeepWalk DEF ObjectsChange
<1>4. QED
  BY <1>1, <1>2, <1>3 DEF Next

LEMMA WalkBegins == Init => ScanInv
<1> SUFFICES ASSUME Init PROVE ScanInv
  OBVIOUS
<1>1. /\ objects \subseteq StoredObjects /\ cursor = Start /\ unseen = {} /\ NoPage
      /\ \A c \in Connections : step[c] = "idle" /\ request[c] = NoRequest
  BY DEF Init, ScanInit, TxInit
<1>2. ScanTypes
  BY <1>1, BucketsAreOrdered DEF ScanTypes, NoPage, Start
<1>3. \A c \in Connections : Kind(c) \notin Scans /\ step[c] \notin ScanSteps
  BY <1>1 DEF Kind, NoRequest, Scans, ScanSteps
<1>4. QED
  BY <1>1, <1>2, <1>3 DEF ScanInv, OneWalks, CursorIsBefore, PageIsBefore, ScanSteps

\* A walk that is over has shown every orphan that was there throughout: what it has
\* not shown is beyond its cursor, or on its page, whatever is stored and removed
\* meanwhile, whichever request fails and wherever a page ends.
THEOREM OrphansAreReached == Spec => []ScanReachesEveryOrphan
<1>1. ScanInv => ScanReachesEveryOrphan
  BY DEF ScanInv, OneWalks, CursorIsBefore, ScanReachesEveryOrphan
<1>2. Spec => []ScanInv
  BY WalkBegins, StepKeepsWalk, LocksExclude, PTL DEF Spec
<1>3. QED
  BY <1>1, <1>2, PTL

-----------------------------------------------------------------------------
(* The rounds of the maintenance *)

LoopSteps == {"stage", "round over", "tenants"}

\* How far a tenant is from another one in the rotation, in tenants.
Ahead(p, t) == IF t > p THEN t - p ELSE LastTenant - p + t

\* Where the rotation stands: at one of the batch that is left, or after it.
Heads == IF stage = "quota" /\ due # {} THEN due ELSE {quotaCursor}

TurnTypes ==
  /\ provisioned \subseteq Tenants /\ inits \in Nat
  /\ due \subseteq ActiveTenants
  /\ quotaCursor \in 0 .. LastTenant
  /\ waited \in [Stages -> [Tenants -> Nat]]

OneLoops ==
  /\ \A c, d \in Connections : Kind(c) = "maintain" /\ Kind(d) = "maintain" => c = d
  /\ \A c \in Connections :
       /\ step[c] \in LoopSteps => Kind(c) = "maintain"
       /\ step[c] = "platform initialized" => Kind(c) = "provisionTenant"

\* Tenants are due from a listing until the last of them had its turn.
DueAreListed ==
  /\ (\A c \in Connections : step[c] # "tenants") => due = {}
  /\ \A c \in Connections : step[c] \in {"stage", "tenants"} => stage \in Stages

Unlisted == \A s \in Stages : \A t \in Tenants \ ActiveTenants : waited[s][t] = 0

\* A stage that lists all of its tenants has waited for none of them afterwards.
NobodyWaits ==
  \A s \in Stages \ {"quota"} : \A t \in Tenants :
    waited[s][t] = 0 \/ (waited[s][t] = 1 /\ stage = s /\ t \in due)

\* A tenant that waits has come nearer with every listing, by a tenant at least.
TurnsComeNearer ==
  \A t \in Tenants :
    IF stage = "quota" /\ t \in due
    THEN waited["quota"][t] <= LastTenant
    ELSE \A p \in Heads : waited["quota"][t] + Ahead(p, t) <= LastTenant

TurnsInv ==
  /\ TurnTypes
  /\ OneLoops
  /\ DueAreListed
  /\ Unlisted
  /\ NobodyWaits
  /\ TurnsComeNearer

LEMMA AheadIsTyped ==
  ASSUME NEW p \in 0 .. LastTenant, NEW t \in Tenants
  PROVE  Ahead(p, t) \in 1 .. LastTenant
BY MaintenanceAssumption DEF Ahead, Tenants

LEMMA TenantsAreTyped ==
  ASSUME TurnTypes
  PROVE  /\ ActiveTenants \subseteq Tenants /\ Tenants \subseteq Nat \ {0} /\ IsFiniteSet(Tenants)
         /\ due \subseteq Tenants /\ Heads \subseteq 0 .. LastTenant /\ Heads # {}
<1>1. ActiveTenants \subseteq Tenants
  BY MaintenanceAssumption DEF TurnTypes, ActiveTenants
<1>2. LastTenant \in Nat
  BY MaintenanceAssumption
<1>3. Tenants \subseteq Nat \ {0} /\ Tenants \subseteq 0 .. LastTenant
  BY <1>2 DEF Tenants
<1>4. IsFiniteSet(Tenants)
  BY <1>2, FS_Interval DEF Tenants
<1>5. QED
  BY <1>1, <1>3, <1>4 DEF TurnTypes, Heads

\* A batch is a beginning of what is after a tenant, and there is one if anything is.
LEMMA AfterIsPrefix ==
  ASSUME TurnTypes, NEW q \in 0 .. LastTenant
  PROVE  /\ After(q) \subseteq ActiveTenants /\ \A u \in After(q) : u > q
         /\ \A u \in After(q), t \in ActiveTenants : t > q /\ t < u => t \in After(q)
         /\ After(q) = {} => \A t \in ActiveTenants : t <= q
<1> DEFINE later == {u \in ActiveTenants : u > q}
           before(u) == {v \in later : v < u}
<1>1. later \in SUBSET Nat /\ IsFiniteSet(later)
  BY TenantsAreTyped, FS_Subset
<1>2. After(q) = {u \in later : Cardinality(before(u)) < BatchLimit}
  BY DEF After
<1>3. BatchLimit \in Nat \ {0}
  BY MaintenanceAssumption
<1>4. \A u \in later : IsFiniteSet(before(u)) /\ Cardinality(before(u)) \in Nat
  BY <1>1, FS_Subset, FS_CardinalityType
<1>5. ASSUME NEW u \in After(q), NEW t \in ActiveTenants, t > q, t < u PROVE t \in After(q)
  <2>1. u \in later /\ t \in later
    BY <1>2, <1>5
  <2>2. before(t) \subseteq before(u)
    BY <1>1, <1>5, <2>1
  <2>3. Cardinality(before(t)) <= Cardinality(before(u))
    BY <1>4, <2>1, <2>2, FS_Subset
  <2>4. Cardinality(before(u)) < BatchLimit
    BY <1>2, <1>5
  <2>5. Cardinality(before(t)) \in Nat /\ Cardinality(before(u)) \in Nat
    BY <1>4, <2>1
  <2>6. Cardinality(before(t)) < BatchLimit
    BY ONLY <1>3, <2>3, <2>4, <2>5
  <2>7. QED
    BY <1>2, <2>1, <2>6
<1>6. ASSUME NEW t \in ActiveTenants, t > q PROVE After(q) # {}
  <2>1. later # {}
    BY <1>6
  <2>2. Min(later) \in later /\ \A y \in later : Min(later) <= y
    BY <1>1, <2>1, LeastIsThere
  <2>3. before(Min(later)) = {}
    BY <1>1, <2>2
  <2>4. Cardinality(before(Min(later))) = 0
    BY <2>3, FS_EmptySet
  <2>5. QED
    BY <1>2, <1>3, <2>2, <2>4
<1>7. \A t \in ActiveTenants : ~ (t > q) => t <= q
  BY TenantsAreTyped
<1>8. After(q) = {} => \A t \in ActiveTenants : t <= q
  BY <1>6, <1>7
<1>9. After(q) \subseteq ActiveTenants /\ \A u \in After(q) : u > q
  BY <1>2
<1>10. QED
  BY <1>5, <1>8, <1>9

LEMMA NobodyIsDue ==
  ASSUME TurnsInv, NEW c \in Connections, Kind(c) = "maintain", step[c] # "tenants"
  PROVE  due = {}
BY DEF TurnsInv, OneLoops, DueAreListed, LoopSteps

\* What is left to show of a step of the loop.
LEMMA LoopGoesOn ==
  ASSUME TxInv, TurnsInv, NEW c \in Connections, Kind(c) = "maintain",
         NEW next \in LoopSteps, Read(c, next), next # "tenants" => due' = {},
         next \in {"stage", "tenants"} => stage' \in Stages,
         TurnTypes', Unlisted', NobodyWaits', TurnsComeNearer'
  PROVE  TurnsInv'
<1>1. /\ step = [d \in Connections |-> step[d]] /\ OneLoops
  BY DEF TxInv, TurnsInv
<1>2. /\ request' = request /\ step'[c] = next
      /\ \A d \in Connections : d # c => step'[d] = step[d]
  BY <1>1 DEF Read
<1>3. \A d \in Connections : d # c => Kind(d) # "maintain" /\ step[d] \notin LoopSteps
  BY <1>1 DEF OneLoops
<1>4. OneLoops'
  BY <1>1, <1>2 DEF OneLoops, Kind, LoopSteps
<1>5. DueAreListed'
  BY <1>2, <1>3 DEF DueAreListed, LoopSteps
<1>6. QED
  BY <1>4, <1>5 DEF TurnsInv

\* A round goes on to another stage, or is over, when nobody is due.
LEMMA StageKeepsTurns ==
  ASSUME TxInv, TurnsInv, NEW c \in Connections, Kind(c) = "maintain",
         NEW next \in {"stage", "round over"}, Read(c, next), next = "stage" => stage' \in Stages,
         due = {}, UNCHANGED <<provisioned, inits, due, quotaCursor, waited>>
  PROVE  TurnsInv'
<1>1. TurnTypes /\ Unlisted /\ NobodyWaits /\ TurnsComeNearer
  BY DEF TurnsInv
<1>2. ActiveTenants' = ActiveTenants /\ Heads' = Heads
  BY DEF ActiveTenants, Heads
<1>3. TurnTypes' /\ Unlisted'
  BY <1>1, <1>2 DEF TurnTypes, Unlisted
<1>4. NobodyWaits'
  BY <1>1 DEF NobodyWaits
<1>5. TurnsComeNearer'
  BY <1>1, <1>2 DEF TurnsComeNearer, Ahead
<1>6. next \in LoopSteps /\ next # "tenants"
  BY DEF LoopSteps
<1>7. QED
  BY <1>3, <1>4, <1>5, <1>6, LoopGoesOn

\* A tenant that had its turn waits for nothing, and the others are one nearer.
LEMMA ServeKeepsTurns ==
  ASSUME TxInv, TurnsInv, NEW c \in Connections, ServeTenant(c)
  PROVE  TurnsInv'
<1> DEFINE t == Min(due)
<1>1. TurnTypes /\ Unlisted /\ NobodyWaits /\ TurnsComeNearer /\ OneLoops
  BY DEF TurnsInv
<1>2. step[c] = "tenants" /\ Kind(c) = "maintain" /\ stage \in Stages
  BY DEF TurnsInv, OneLoops, DueAreListed, ServeTenant, LoopSteps
<1>3. due \in SUBSET Nat /\ due # {}
  BY <1>1, TenantsAreTyped DEF ServeTenant
<1>4. t \in due
  BY <1>3, LeastIsThere
<1>5. t \in Tenants
  BY <1>1, <1>4, TenantsAreTyped
<1> HIDE DEF t
<1>6. /\ due' = due \ {t} /\ waited' = [waited EXCEPT ![stage][t] = 0]
      /\ quotaCursor' = IF stage = "quota" THEN t ELSE quotaCursor
      /\ Read(c, "tenants") /\ UNCHANGED <<provisioned, stage, inits>>
  BY DEF ServeTenant, Turn, userVars, t
<1>7. waited \in [Stages -> [Tenants -> Nat]]
  BY <1>1 DEF TurnTypes
<1>8. /\ waited' \in [Stages -> [Tenants -> Nat]] /\ waited'[stage][t] = 0
      /\ \A s \in Stages : \A u \in Tenants : s # stage \/ u # t => waited'[s][u] = waited[s][u]
  BY <1>2, <1>5, <1>6, <1>7
<1>9. \A s \in Stages : \A u \in Tenants : waited[s][u] = 0 => waited'[s][u] = 0
  BY <1>8
<1>10. ActiveTenants' = ActiveTenants
  BY <1>6 DEF ActiveTenants
<1>11. TurnTypes'
  <2>1. quotaCursor' \in 0 .. LastTenant
    BY <1>1, <1>4, <1>6, TenantsAreTyped DEF TurnTypes, Heads, Tenants
  <2>2. QED
    BY <1>1, <1>6, <1>8, <1>10, <2>1 DEF TurnTypes
<1>12. Unlisted'
  BY <1>1, <1>9, <1>10 DEF Unlisted
<1>13. NobodyWaits'
  BY <1>1, <1>2, <1>6, <1>8, <1>9 DEF NobodyWaits
<1>14. TurnsComeNearer'
  <2>1. CASE stage # "quota"
    <3>1. \A u \in Tenants : waited'["quota"][u] = waited["quota"][u]
      BY <1>8, <2>1 DEF Stages
    <3>2. Heads' = Heads
      BY <1>6, <2>1 DEF Heads
    <3>3. QED
      BY <1>1, <1>6, <2>1, <3>1, <3>2 DEF TurnsComeNearer, Ahead
  <2>2. CASE stage = "quota"
    <3>1. Heads' \subseteq due /\ (due' = {} => Heads' = {t}) /\ (due' # {} => Heads' = due')
      BY <1>4, <1>6, <2>2 DEF Heads
    <3>2. SUFFICES ASSUME NEW u \in Tenants
                   PROVE  IF u \in due' THEN waited'["quota"][u] <= LastTenant
                          ELSE \A p \in Heads' : waited'["quota"][u] + Ahead(p, u) <= LastTenant
      BY <1>6, <2>2 DEF TurnsComeNearer, Ahead
    <3>3. Heads = due
      BY <1>3, <2>2 DEF Heads
    <3>4. CASE u = t
      <4>1. u \notin due' /\ waited'["quota"][u] = 0
        BY <1>6, <1>8, <2>2, <3>4
      <4>2. \A p \in Heads' : p \in 0 .. LastTenant
        BY <1>1, <3>1, <3>3, TenantsAreTyped
      <4>3. \A p \in Heads' : Ahead(p, u) \in 1 .. LastTenant
        BY <4>2, AheadIsTyped
      <4>4. QED
        BY <4>1, <4>3, MaintenanceAssumption
    <3>5. CASE u # t
      <4>1. waited'["quota"][u] = waited["quota"][u]
        BY <1>8, <3>5 DEF Stages
      <4>2. u \in due' <=> u \in due
        BY <1>6, <3>5
      <4>3. QED
        BY <1>1, <2>2, <3>1, <3>3, <4>1, <4>2 DEF TurnsComeNearer
    <3>6. QED
      BY <3>4, <3>5
  <2>3. QED
    BY <2>1, <2>2
<1>15. "tenants" \in LoopSteps
  BY DEF LoopSteps
<1>16. QED
  BY <1>2, <1>6, <1>11, <1>12, <1>13, <1>14, <1>15, LoopGoesOn

\* The batch is the tenants next in the rotation, so who is not in it is behind it.
LEMMA BatchIsNext ==
  ASSUME TurnTypes, NEW p, p = (IF After(quotaCursor) = {} THEN 0 ELSE quotaCursor),
         NEW t \in ActiveTenants \ Batch, NEW u \in Batch
  PROVE  Ahead(u, t) < Ahead(quotaCursor, t)
<1>1. LastTenant \in Nat /\ quotaCursor \in 0 .. LastTenant /\ 0 \in 0 .. LastTenant
  BY MaintenanceAssumption DEF TurnTypes
<1>2. Batch = After(p) /\ p \in 0 .. LastTenant
  BY <1>1 DEF Batch
<1>3. After(p) \subseteq ActiveTenants /\ \A v \in After(p) : v > p
  BY <1>2, AfterIsPrefix
<1>4. u \in ActiveTenants /\ u > p
  BY <1>2, <1>3
<1>5. t \in 1 .. LastTenant /\ u \in 1 .. LastTenant
  BY <1>4, TenantsAreTyped DEF Tenants
<1>6. ~ (t > p /\ t < u)
  BY <1>2, AfterIsPrefix
<1>7. t # u
  OBVIOUS
<1>8. t <= p \/ t > u
  BY <1>1, <1>2, <1>5, <1>6, <1>7
<1>9. CASE After(quotaCursor) = {}
  <2>1. t <= quotaCursor /\ p = 0
    BY <1>1, <1>9, AfterIsPrefix
  <2>2. QED
    BY <1>1, <1>4, <1>5, <1>8, <2>1 DEF Ahead
<1>10. CASE After(quotaCursor) # {}
  <2>1. p = quotaCursor
    BY <1>10
  <2>2. QED
    BY <1>1, <1>4, <1>5, <1>8, <2>1 DEF Ahead
<1>11. QED
  BY <1>9, <1>10

\* What a listing lists has come to its turn, and the rest nearer to it.
LEMMA ListKeepsTurns ==
  ASSUME TxInv, TurnsInv, NEW c \in Connections, ListTenants(c)
  PROVE  TurnsInv'
<1> DEFINE concerned == IF stage = "quota" THEN ActiveTenants ELSE ActiveTenants \cap Retaining
<1>1. TurnTypes /\ Unlisted /\ NobodyWaits /\ TurnsComeNearer /\ OneLoops
  BY DEF TurnsInv
<1>2. step[c] = "stage" /\ Kind(c) = "maintain" /\ stage \in Stages
  BY DEF TurnsInv, OneLoops, DueAreListed, ListTenants, LoopSteps
<1>3. due = {}
  BY <1>2, NobodyIsDue
<1>4. /\ due' = Listed
      /\ quotaCursor' = IF stage = "quota" /\ After(quotaCursor) = {} THEN 0 ELSE quotaCursor
      /\ waited' = [waited EXCEPT ![stage] =
           [t \in Tenants |-> IF t \in concerned /\ @[t] <= MaxWait(stage) THEN @[t] + 1 ELSE @[t]]]
      /\ Read(c, "tenants") /\ UNCHANGED <<provisioned, stage, inits>>
  BY DEF ListTenants, userVars
<1>5. waited \in [Stages -> [Tenants -> Nat]] /\ quotaCursor \in 0 .. LastTenant
  BY <1>1 DEF TurnTypes
<1>6. /\ \A s \in Stages \ {stage} : waited'[s] = waited[s]
      /\ waited'[stage] = [t \in Tenants |-> IF t \in concerned /\ waited[stage][t] <= MaxWait(stage)
                                             THEN waited[stage][t] + 1 ELSE waited[stage][t]]
      /\ waited' = [s \in Stages |-> waited'[s]]
  BY <1>2, <1>4, <1>5
<1>7. \A t \in Tenants : waited[stage][t] \in Nat
  BY <1>2, <1>5
<1> HIDE DEF concerned
<1>8. waited'[stage] \in [Tenants -> Nat]
  BY <1>6, <1>7
<1>9. waited' \in [Stages -> [Tenants -> Nat]]
  BY <1>5, <1>6, <1>8
<1>10. \A t \in Tenants : /\ waited'[stage][t] <= waited[stage][t] + 1
                          /\ t \notin concerned => waited'[stage][t] = waited[stage][t]
  BY <1>6, <1>7
<1>11. ActiveTenants' = ActiveTenants /\ ActiveTenants \subseteq Tenants
  BY <1>1, <1>4, TenantsAreTyped DEF ActiveTenants
<1>12. Batch \subseteq ActiveTenants
  <2>1. 0 \in 0 .. LastTenant
    BY MaintenanceAssumption
  <2>2. QED
    BY <1>1, <1>5, <2>1, AfterIsPrefix DEF Batch
<1>13. due' \subseteq ActiveTenants /\ quotaCursor' \in 0 .. LastTenant
  BY <1>4, <1>5, <1>12, MaintenanceAssumption DEF Listed
<1>14. TurnTypes'
  BY <1>1, <1>4, <1>9, <1>11, <1>13 DEF TurnTypes
<1>15. Unlisted'
  <2>1. concerned \subseteq ActiveTenants
    BY DEF concerned
  <2>2. \A t \in Tenants \ ActiveTenants : waited'[stage][t] = waited[stage][t]
    BY <1>10, <2>1
  <2>3. QED
    BY <1>1, <1>6, <1>11, <2>2 DEF Unlisted
<1>16. NobodyWaits'
  <2>1. SUFFICES ASSUME NEW s \in Stages \ {"quota"}, NEW t \in Tenants
                 PROVE  waited'[s][t] = 0 \/ (waited'[s][t] = 1 /\ stage = s /\ t \in due')
    BY <1>4 DEF NobodyWaits
  <2>2. waited[s][t] = 0
    BY <1>1, <1>3 DEF NobodyWaits
  <2>3. CASE s = stage /\ t \in concerned
    <3>1. t \in due'
      BY <1>4, <2>3 DEF Listed, concerned
    <3>2. waited'[s][t] \in {0, 1}
      BY <1>6, <2>2, <2>3
    <3>3. QED
      BY <2>3, <3>1, <3>2
  <2>4. CASE ~ (s = stage /\ t \in concerned)
    BY <1>6, <1>10, <2>2, <2>4
  <2>5. QED
    BY <2>3, <2>4
<1>17. TurnsComeNearer'
  <2>1. SUFFICES ASSUME NEW t \in Tenants
                 PROVE  IF stage = "quota" /\ t \in due' THEN waited'["quota"][t] <= LastTenant
                        ELSE \A p \in Heads' : waited'["quota"][t] + Ahead(p, t) <= LastTenant
    BY <1>4 DEF TurnsComeNearer, Ahead
  <2>2. waited["quota"][t] + Ahead(quotaCursor, t) <= LastTenant
    BY <1>1, <1>3 DEF TurnsComeNearer, Heads
  <2>3. LastTenant \in Nat /\ Ahead(quotaCursor, t) \in 1 .. LastTenant
    BY <1>5, AheadIsTyped, MaintenanceAssumption
  <2>4. waited["quota"][t] \in Nat /\ waited'["quota"][t] \in Nat
    BY <1>5, <1>9 DEF Stages
  <2>5. \A p \in Heads' : p \in 0 .. LastTenant /\ Ahead(p, t) \in 1 .. LastTenant
    <3>1. Heads' \subseteq 0 .. LastTenant
      BY <1>11, <1>13 DEF Heads, Tenants
    <3>2. QED
      BY <3>1, AheadIsTyped
  <2>6. CASE stage # "quota"
    <3>1. waited'["quota"][t] = waited["quota"][t]
      BY <1>6, <2>6 DEF Stages
    <3>2. Heads' = {quotaCursor}
      BY <1>4, <2>6 DEF Heads
    <3>3. QED
      BY <2>2, <2>6, <3>1, <3>2
  <2>7. CASE stage = "quota"
    <3>1. waited'["quota"][t] <= waited["quota"][t] + 1
      BY <1>10, <2>7
    <3>2. CASE t \in due'
      BY <2>2, <2>3, <2>4, <2>7, <3>1, <3>2
    <3>3. CASE t \notin ActiveTenants
      <4>1. waited'["quota"][t] = 0
        BY <1>11, <1>15, <3>3 DEF Unlisted, Stages
      <4>2. t \notin due'
        BY <1>13, <3>3
      <4>3. QED
        BY <2>3, <2>5, <4>1, <4>2
    <3>4. CASE t \in ActiveTenants /\ t \notin due'
      <4>1. due' = Batch
        BY <1>4, <2>7 DEF Listed
      <4>2. due' # {}
        <5>1. SUFFICES ASSUME Batch = {} PROVE FALSE
          BY <4>1
        <5>2. After(quotaCursor) = {} /\ After(0) = {}
          BY <5>1 DEF Batch
        <5>3. t <= 0
          BY <1>1, <2>3, <3>4, <5>2, AfterIsPrefix
        <5>4. QED
          BY <5>3 DEF Tenants
      <4>3. Heads' = due'
        BY <1>4, <2>7, <4>2 DEF Heads
      <4>4. \A p \in Heads' : Ahead(p, t) < Ahead(quotaCursor, t)
        BY <1>1, <3>4, <4>1, <4>3, BatchIsNext
      <4>5. QED
        BY <2>2, <2>3, <2>4, <2>5, <3>1, <3>4, <4>4
    <3>5. QED
      BY <3>2, <3>3, <3>4
  <2>8. QED
    BY <2>6, <2>7
<1>18. "tenants" \in LoopSteps
  BY DEF LoopSteps
<1>19. QED
  BY <1>2, <1>4, <1>14, <1>15, <1>16, <1>17, <1>18, LoopGoesOn

\* What goes on outside of the loop, which may set up the first tenant.
LEMMA ElsewhereKeepsTurns ==
  ASSUME TxInv, TurnsInv, NEW c \in Connections, UNCHANGED maintenanceVars,
         inits' \in Nat, inits' >= inits,
         \A d \in Connections : d # c => TxSame(d),
         step[c] \notin LoopSteps, step'[c] \notin LoopSteps,
         Kind(c)' = "maintain" =>
           Kind(c) = "maintain" \/ \A d \in Connections : Kind(d) # "maintain",
         step'[c] = "platform initialized" => Kind(c)' = "provisionTenant"
  PROVE  TurnsInv'
<1>1. /\ TurnTypes /\ OneLoops /\ DueAreListed /\ Unlisted /\ NobodyWaits /\ TurnsComeNearer
      /\ UNCHANGED <<provisioned, stage, due, quotaCursor, waited>>
  BY DEF TurnsInv, maintenanceVars
<1>2. \A d \in Connections : d # c => Kind(d)' = Kind(d) /\ step'[d] = step[d]
  BY DEF TxSame, Kind
<1>3. ActiveTenants \subseteq ActiveTenants'
  <2>1. inits \in Nat
    BY <1>1 DEF TurnTypes
  <2>2. inits > 0 => inits' > 0
    BY ONLY <2>1, inits' \in Nat, inits' >= inits
  <2>3. QED
    BY <1>1, <2>2 DEF ActiveTenants
<1>4. TurnTypes'
  BY <1>1, <1>3 DEF TurnTypes
<1>5. OneLoops'
  BY <1>1, <1>2 DEF OneLoops
<1>6. DueAreListed'
  BY <1>1, <1>2 DEF DueAreListed, LoopSteps
<1>7. Unlisted'
  BY <1>1, <1>3 DEF Unlisted
<1>8. NobodyWaits'
  BY <1>1 DEF NobodyWaits
<1>9. TurnsComeNearer'
  BY <1>1 DEF TurnsComeNearer, Heads, Ahead
<1>10. QED
  BY <1>4, <1>5, <1>6, <1>7, <1>8, <1>9 DEF TurnsInv

LEMMA ForeignMoveKeepsTurns ==
  ASSUME TxInv, TurnsInv, NEW c \in Connections, NEW from, NEW to, TxMove(c, from, to),
         from \cap LoopSteps = {}, to \cap LoopSteps = {}, "platform initialized" \notin to,
         UNCHANGED maintenanceVars, inits' \in Nat, inits' >= inits
  PROVE  TurnsInv'
<1>1. \A d \in Connections : d # c => TxSame(d)
  BY MoveIsLocal
<1>2. (request'[c] = request[c] /\ step'[c] \in to) \/ TxIdle(c)'
  BY MoveGoesOn
<1>3. step[c] \notin LoopSteps
  BY DEF TxMove
<1>4. step'[c] \notin LoopSteps
  BY <1>2 DEF TxIdle, LoopSteps
<1>5. Kind(c)' = "maintain" => Kind(c) = "maintain"
  <2>1. CASE request'[c] = request[c]
    BY <2>1 DEF Kind
  <2>2. CASE TxIdle(c)'
    <3>1. request'[c] = NoRequest
      BY <2>2 DEF TxIdle
    <3>2. Kind(c)' = "none"
      BY ONLY <3>1 DEF NoRequest, Kind
    <3>3. QED
      BY <3>2
  <2>3. QED
    BY <1>2, <2>1, <2>2
<1>6. step'[c] # "platform initialized"
  BY <1>2 DEF TxIdle
<1>7. QED
  BY <1>1, <1>3, <1>4, <1>5, <1>6, ElsewhereKeepsTurns

LEMMA StutterKeepsTurns ==
  ASSUME TurnsInv, UNCHANGED txVars, UNCHANGED maintenanceVars, inits' = inits
  PROVE  TurnsInv'
<1>1. UNCHANGED <<request, step, provisioned, stage, due, quotaCursor, waited, inits>>
  BY DEF txVars, maintenanceVars
<1>2. TurnTypes' /\ Unlisted' /\ NobodyWaits'
  BY <1>1 DEF TurnsInv, TurnTypes, Unlisted, NobodyWaits, ActiveTenants
<1>3. OneLoops' /\ DueAreListed'
  BY <1>1 DEF TurnsInv, OneLoops, DueAreListed, Kind
<1>4. TurnsComeNearer'
  BY <1>1 DEF TurnsInv, TurnsComeNearer, Heads, Ahead
<1>5. QED
  BY <1>2, <1>3, <1>4 DEF TurnsInv

\* Nobody who waits is provisioned, and nobody who is provisioned waits.
LEMMA ProvisionKeepsTurns ==
  ASSUME TxInv, TurnsInv, NEW c \in Connections, ProvisionTenant(c)
  PROVE  TurnsInv'
<1> DEFINE t == request[c].tenant
<1>1. /\ TurnTypes /\ OneLoops /\ DueAreListed /\ Unlisted /\ NobodyWaits /\ TurnsComeNearer
      /\ request \in [Connections -> Requests \cup {NoRequest}]
      /\ step = [d \in Connections |-> step[d]]
  BY DEF TxInv, TxTypeOK, TurnsInv
<1>2. step[c] = "platform initialized" /\ End(c)
  BY DEF ProvisionTenant, Commit
<1>3. Kind(c) = "provisionTenant" /\ request[c] \in Requests
  BY <1>1, <1>2 DEF OneLoops, TxInv, TxTypeOK, NoRequest, Kind
<1>4. t \in Tenants
  BY <1>3, MaintenanceRequestsAssumption DEF Kind
<1> HIDE DEF t
<1>5. /\ t \notin ActiveTenants /\ provisioned' = provisioned \cup {t}
      /\ waited' = [s \in Stages |-> [waited[s] EXCEPT ![t] = 0]]
      /\ UNCHANGED <<stage, due, quotaCursor, inits>>
  BY DEF ProvisionTenant, userVars, t
<1>6. ActiveTenants \subseteq ActiveTenants' /\ t \notin due
  BY <1>1, <1>5 DEF ActiveTenants, TurnTypes
<1>7. waited \in [Stages -> [Tenants -> Nat]] /\ \A s \in Stages : waited[s][t] = 0
  BY <1>1, <1>4, <1>5 DEF TurnTypes, Unlisted
<1>8. waited' = waited
  <2>1. \A s \in Stages : [waited[s] EXCEPT ![t] = 0] = waited[s]
    BY <1>4, <1>7
  <2>2. QED
    BY <1>5, <1>7, <2>1
<1>9. TxMove(c, {step[c]}, {})
  BY <1>2 DEF TxMove
<1>10. TxIdle(c)' /\ \A d \in Connections : d # c => TxSame(d)
  BY <1>9, MoveIsLocal, MoveGoesOn
<1>11. \A d \in Connections : d # c => Kind(d)' = Kind(d) /\ step'[d] = step[d]
  BY <1>10 DEF TxSame, Kind
<1>12. Kind(c)' = "none" /\ step'[c] = "idle"
  BY <1>10 DEF TxIdle, Kind, NoRequest
<1>13. TurnTypes'
  BY <1>1, <1>4, <1>5, <1>6, <1>8 DEF TurnTypes
<1>14. OneLoops'
  BY <1>1, <1>11, <1>12 DEF OneLoops, LoopSteps
<1>15. DueAreListed'
  BY <1>1, <1>2, <1>5, <1>11, <1>12 DEF DueAreListed
<1>16. Unlisted' /\ NobodyWaits'
  BY <1>1, <1>5, <1>6, <1>8 DEF Unlisted, NobodyWaits
<1>17. TurnsComeNearer'
  BY <1>1, <1>5, <1>8 DEF TurnsComeNearer, Heads, Ahead
<1>18. QED
  BY <1>13, <1>14, <1>15, <1>16, <1>17 DEF TurnsInv

\* The process stops, and another one begins from the start.
LEMMA RollbackKeepsTurns ==
  ASSUME TxInv, TurnsInv, NEW c \in Connections, Rollback(c), ForgetMaintenance(c), inits' = inits
  PROVE  TurnsInv'
<1>0. TxMove(c, {step[c]}, {})
  BY EndIsMove DEF Rollback
<1>1. TurnTypes /\ OneLoops /\ DueAreListed /\ Unlisted
  BY DEF TurnsInv
<1>2. inits' \in Nat /\ inits' >= inits
  BY <1>1 DEF TurnTypes
<1>3. CASE Kind(c) # "maintain"
  <2>1. step[c] \notin LoopSteps
    BY <1>1, <1>3 DEF OneLoops
  <2>2. UNCHANGED maintenanceVars
    BY <1>3 DEF ForgetMaintenance
  <2>3. {step[c]} \cap LoopSteps = {} /\ {} \cap LoopSteps = {}
    BY <2>1
  <2>4. QED
    BY <1>0, <1>2, <2>2, <2>3, ForeignMoveKeepsTurns
<1>4. CASE Kind(c) = "maintain"
  <2>1. TxIdle(c)' /\ \A d \in Connections : d # c => TxSame(d)
    BY <1>0, MoveGoesOn, MoveIsLocal
  <2>2. /\ \A d \in Connections : Kind(d)' # "maintain" /\ step'[d] \notin LoopSteps
        /\ \A d \in Connections : step'[d] = "platform initialized" => Kind(d)' = "provisionTenant"
    <3>1. request'[c] = NoRequest /\ step'[c] = "idle"
      BY <2>1 DEF TxIdle
    <3>2. Kind(c)' = "none"
      BY <3>1 DEF NoRequest, Kind
    <3>3. \A d \in Connections : d # c => Kind(d)' = Kind(d) /\ step'[d] = step[d]
      BY <2>1 DEF TxSame, Kind
    <3>4. QED
      BY <1>1, <1>4, <3>1, <3>2, <3>3 DEF OneLoops, LoopSteps
  <2>3. stage' = "none" /\ due' = {} /\ quotaCursor' = 0 /\ waited' = NoWait
        /\ UNCHANGED <<provisioned, inits>>
    BY <1>4 DEF ForgetMaintenance
  <2>4. \A s \in Stages : \A t \in Tenants : waited'[s][t] = 0
    BY <2>3 DEF NoWait
  <2>5. TurnTypes'
    <3>1. NoWait \in [Stages -> [Tenants -> Nat]]
      BY DEF NoWait
    <3>2. QED
      BY <1>1, <2>3, <3>1, MaintenanceAssumption DEF TurnTypes
  <2>6. OneLoops' /\ DueAreListed'
    BY <2>2, <2>3 DEF OneLoops, DueAreListed, LoopSteps
  <2>7. Unlisted' /\ NobodyWaits'
    BY <2>4 DEF Unlisted, NobodyWaits
  <2>8. TurnsComeNearer'
    <3>1. \A t \in Tenants : Ahead(0, t) \in 1 .. LastTenant
      BY AheadIsTyped, MaintenanceAssumption
    <3>2. Heads' = {0}
      BY <2>3 DEF Heads
    <3>3. \A t \in Tenants : waited'["quota"][t] = 0
      BY <2>4 DEF Stages
    <3>4. \A t \in Tenants : \A p \in Heads' : waited'["quota"][t] + Ahead(p, t) <= LastTenant
      BY <3>1, <3>2, <3>3, MaintenanceAssumption
    <3>5. QED
      BY <2>3, <3>4 DEF TurnsComeNearer, Ahead
  <2>9. QED
    BY <2>5, <2>6, <2>7, <2>8 DEF TurnsInv
<1>5. QED
  BY <1>3, <1>4

\* The steps of a round.
LEMMA RoundKeepsTurns ==
  ASSUME TxInv, TurnsInv, NEW c \in Connections, BeginRound(c) \/ ListingFails(c) \/ NextStage(c)
  PROVE  TurnsInv'
<1>1. OneLoops /\ step = [d \in Connections |-> step[d]]
  BY DEF TurnsInv, TxInv
<1>2. UNCHANGED <<provisioned, inits, due, quotaCursor, waited>>
  BY DEF BeginRound, ListingFails, NextStage, userVars
<1>3. Kind(c) = "maintain"
  BY <1>1 DEF OneLoops, BeginRound, ListingFails, NextStage, LoopSteps
<1>4. due = {}
  <2>1. CASE NextStage(c)
    BY <2>1 DEF NextStage
  <2>2. CASE BeginRound(c) \/ ListingFails(c)
    BY <1>3, <2>2, NobodyIsDue DEF BeginRound, ListingFails
  <2>3. QED
    BY <2>1, <2>2
<1>5. \/ Read(c, "round over")
      \/ Read(c, "stage") /\ stage' \in Stages
  BY DEF BeginRound, ListingFails, NextStage, Stages
<1>6. QED
  BY <1>2, <1>3, <1>4, <1>5, StageKeepsTurns

LEMMA MaintenanceKeepsTurns ==
  ASSUME TxInv, TurnsInv, NEW c \in Connections, MaintenanceStep(c)
  PROVE  TurnsInv'
<1>1. CASE PlatformInitialized(c)
  <2>1. UNCHANGED maintenanceVars /\ inits' = inits
    BY <1>1 DEF PlatformInitialized, userVars
  <2>2. inits' \in Nat /\ inits' >= inits
    BY <2>1 DEF TurnsInv, TurnTypes
  <2>3. step[c] = "begun" /\ Kind(c) = "provisionTenant"
        /\ ReadShared(c, {UsersTable}, "platform initialized")
    BY <1>1 DEF PlatformInitialized
  <2>4. TxMove(c, {"begun"}, {"platform initialized"})
    BY <2>3 DEF TxMove
  <2>5. \A d \in Connections : d # c => TxSame(d)
    BY <2>4, MoveIsLocal
  <2>6. step'[c] = "platform initialized" /\ request' = request
    BY <2>3 DEF TxInv, ReadShared
  <2>7. Kind(c)' = "provisionTenant"
    BY <2>3, <2>6 DEF Kind
  <2>8. step[c] \notin LoopSteps /\ step'[c] \notin LoopSteps
    BY <2>3, <2>6 DEF LoopSteps
  <2>9. QED
    BY <2>1, <2>2, <2>5, <2>7, <2>8, ElsewhereKeepsTurns
<1>2. QED
  BY <1>1, ProvisionKeepsTurns, RoundKeepsTurns, ListKeepsTurns, ServeKeepsTurns
     DEF MaintenanceStep

LEMMA StepKeepsTurns ==
  ASSUME TxInv, TurnsInv, [Next]_vars
  PROVE  TurnsInv'
<1> DEFINE Same == UNCHANGED maintenanceVars /\ inits' \in Nat /\ inits' >= inits
           Foreign(steps) == steps \cap LoopSteps = {} /\ "platform initialized" \notin steps
<1>0. inits \in Nat
  BY DEF TurnsInv, TurnTypes
<1>1. ASSUME NEW c \in Connections, Step(c) PROVE TurnsInv'
  <2>0. /\ Foreign(UserSteps) /\ Foreign(CatalogSteps) /\ Foreign(MemberSteps)
        /\ Foreign(AccessSteps) /\ Foreign(AdmissionSteps) /\ Foreign(ContextSteps)
        /\ Foreign(Executing) /\ Foreign(SettingSteps) /\ Foreign(StartSteps)
        /\ Foreign(ScanSteps) /\ {"begun", "validated context"} \cap LoopSteps = {}
    BY DEF LoopSteps, UserSteps, CatalogSteps, MemberSteps, AccessSteps, AdmissionSteps,
           ContextSteps, Executing, SettingSteps, StartSteps, ScanSteps
  <2>1. ASSUME NEW from, NEW to, TxMove(c, from, to), from \cap LoopSteps = {}, Foreign(to), Same
        PROVE  TurnsInv'
    BY <2>1, ForeignMoveKeepsTurns
  <2>2. CASE BeginRequest(c)
    <3>1. step[c] = "idle" /\ Begin(c, Admitted) /\ UNCHANGED maintenanceVars /\ inits' = inits
      BY <2>2 DEF BeginRequest, Begin, backgroundVars, userVars
    <3>2. /\ request'[c] \in Admitted /\ step'[c] = "begun"
          /\ \A d \in Connections : d # c => TxSame(d)
      BY <3>1, BeginKeepsTx
    <3>3. request'[c].kind = "maintain" => \A d \in Connections : Kind(d) # "maintain"
      BY <3>2 DEF Admitted, OneLoop
    <3>4. step[c] \notin LoopSteps /\ step'[c] \notin LoopSteps
      BY <3>1, <3>2 DEF LoopSteps
    <3>5. Kind(c)' = "maintain" => \A d \in Connections : Kind(d) # "maintain"
      BY <3>3 DEF Kind
    <3>6. inits' \in Nat /\ inits' >= inits
      BY <1>0, <3>1
    <3>7. QED
      BY <3>1, <3>2, <3>4, <3>5, <3>6, ElsewhereKeepsTurns
  <2>3. CASE RollbackRequest(c)
    BY <2>3, RollbackKeepsTurns DEF RollbackRequest, userVars
  <2>4. CASE UserStep(c) /\ UNCHANGED maintenanceVars
    <3>1. inits' = inits \/ inits' = inits + 1
      BY <2>4 DEF UserStep, Initialized, InitAdmin, FindUser, ActiveRolesByIDs,
                  EnsureAnotherActiveAdminExists, SetStatus, ReplaceUserRoles, CreateUser,
                  CreateRole, UpdateRole, FindRole, ReplaceRolePermissions, DeleteRole, userVars
    <3>2. Same
      BY <1>0, <2>4, <3>1
    <3>3. QED
      BY <2>0, <2>1, <2>4, <3>2, UserMove
  <2>5. CASE CatalogStep(c) /\ Same
    BY <2>0, <2>1, <2>5, CatalogMove
  <2>6. CASE MemberStep(c) /\ Same
    BY <2>0, <2>1, <2>6, MemberMove
  <2>7. CASE AdmissionStep(c) /\ Same
    BY <2>0, <2>1, <2>7, AdmissionMove
  <2>8. CASE AttemptStep(c) /\ UNCHANGED maintenanceVars /\ inits' = inits
    <3>1. ({"begun", "validated context"} \cup Executing) \cap LoopSteps = {}
      BY <2>0
    <3>2. Same
      BY <1>0, <2>8
    <3>3. QED
      BY <2>0, <2>1, <2>8, <3>1, <3>2, AttemptMove, StutterKeepsTurns
  <2>9. CASE SettingStep(c) /\ Same
    BY <2>0, <2>1, <2>9, SettingMove
  <2>10. CASE StartStep(c) /\ UNCHANGED maintenanceVars
    <3>1. inits' = inits
      BY <2>10 DEF StartStep, AcquireMigrationLock, MigrationApplied, ExecuteMigrationStatement,
                   RecordMigration, VerifyMigrationSchema, ReleaseMigrationLock,
                   VerifyWorkerReadiness, FindRolePermissions, SeedBuiltInRoles, userVars
    <3>2. Same
      BY <1>0, <2>10, <3>1
    <3>3. QED
      BY <2>0, <2>1, <2>10, <3>2, StartMove
  <2>11. CASE MaintenanceStep(c)
    BY <2>11, MaintenanceKeepsTurns
  <2>12. CASE ScanStep(c) /\ Same
    BY <2>0, <2>1, <2>12, ScanMove
  <2>13. UNCHANGED <<maintenanceVars, userVars>> => Same
    BY <1>0 DEF userVars
  <2>14. QED
    BY <1>1, <2>2, <2>3, <2>4, <2>5, <2>6, <2>7, <2>8, <2>9, <2>10, <2>11, <2>12, <2>13
       DEF Step, backgroundVars, userVars
<1>2. CASE Deploy \/ ObjectsChange \/ UNCHANGED vars
  <2>1. UNCHANGED txVars /\ UNCHANGED maintenanceVars /\ inits' = inits
    BY <1>2 DEF Deploy, DeployCipher, DeployCaps, ObjectsChange, vars, backgroundVars, userVars
  <2>2. QED
    BY <2>1, StutterKeepsTurns
<1>3. QED
  BY <1>1, <1>2 DEF Next

LEMMA TurnsBegin == Init => TurnsInv
<1> SUFFICES ASSUME Init PROVE TurnsInv
  OBVIOUS
<1>1. /\ provisioned = {} /\ stage = "none" /\ due = {} /\ quotaCursor = 0 /\ waited = NoWait
      /\ \A c \in Connections : step[c] = "idle" /\ request[c] = NoRequest
  BY DEF Init, MaintenanceInit, TxInit
<1>2. inits \in {0, 1}
  BY DEF Init, UsersInit
<1>3. \A c \in Connections : Kind(c) = "none"
  BY <1>1 DEF Kind, NoRequest
<1>4. \A s \in Stages : \A t \in Tenants : waited[s][t] = 0
  BY <1>1 DEF NoWait
<1>5. NoWait \in [Stages -> [Tenants -> Nat]]
  BY DEF NoWait
<1>6. TurnTypes
  BY <1>1, <1>2, <1>5, MaintenanceAssumption DEF TurnTypes
<1>7. OneLoops /\ DueAreListed
  BY <1>1, <1>3 DEF OneLoops, DueAreListed, LoopSteps
<1>8. Unlisted /\ NobodyWaits
  BY <1>4 DEF Unlisted, NobodyWaits
<1>9. TurnsComeNearer
  <2>1. \A t \in Tenants : Ahead(0, t) \in 1 .. LastTenant
    BY AheadIsTyped, MaintenanceAssumption
  <2>2. \A t \in Tenants : waited["quota"][t] = 0
    BY <1>4 DEF Stages
  <2>3. Heads = {0}
    BY <1>1 DEF Heads
  <2>4. \A t \in Tenants : \A p \in Heads : waited["quota"][t] + Ahead(p, t) <= LastTenant
    BY <2>1, <2>2, <2>3, MaintenanceAssumption
  <2>5. QED
    BY <1>1, <2>4 DEF TurnsComeNearer
<1>10. QED
  BY <1>6, <1>7, <1>8, <1>9 DEF TurnsInv

\* Every stage comes to every tenant, whichever fail and whichever are provisioned
\* meanwhile: what was listed is served before the next listing, and in the rotation
\* of batches a tenant that waits is nearer to its turn after each.
THEOREM NobodyWaitsForLong == Spec => []NobodyIsPassedOver
<1>1. ASSUME TurnsInv PROVE NobodyIsPassedOver
  <2>1. SUFFICES ASSUME NEW s \in Stages, NEW t \in Tenants
                 PROVE  waited[s][t] <= MaxWait(s)
    BY DEF NobodyIsPassedOver
  <2>2. TurnTypes /\ NobodyWaits /\ TurnsComeNearer
    BY <1>1 DEF TurnsInv
  <2>3. CASE s # "quota"
    BY <2>2, <2>3 DEF NobodyWaits, MaxWait
  <2>4. CASE s = "quota" /\ stage = "quota" /\ t \in due
    BY <2>2, <2>4 DEF TurnsComeNearer, MaxWait
  <2>5. CASE s = "quota" /\ ~ (stage = "quota" /\ t \in due)
    <3>1. PICK p \in Heads : TRUE
      BY <2>2, TenantsAreTyped
    <3>2. p \in 0 .. LastTenant
      BY <2>2, TenantsAreTyped
    <3>3. Ahead(p, t) \in 1 .. LastTenant
      BY <3>2, AheadIsTyped
    <3>4. waited["quota"][t] + Ahead(p, t) <= LastTenant
      BY <2>2, <2>5, <3>1 DEF TurnsComeNearer
    <3>5. waited["quota"][t] \in Nat /\ LastTenant \in Nat
      BY <2>2, MaintenanceAssumption DEF TurnTypes, Stages
    <3>6. QED
      BY <2>5, <3>3, <3>4, <3>5 DEF MaxWait
  <2>6. QED
    BY <2>3, <2>4, <2>5
<1>2. Spec => []TurnsInv
  BY TurnsBegin, StepKeepsTurns, LocksExclude, PTL DEF Spec
<1>3. QED
  BY <1>1, <1>2, PTL

=============================================================================

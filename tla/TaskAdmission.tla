--------------------------- MODULE TaskAdmission ---------------------------
(***************************************************************************)
(* From the wish for a picture to the provider call: the grants that let a *)
(* user work with a model (internal/useradmin), the creation of a task and *)
(* what a worker reads about it before it executes it (internal/task).     *)
(*                                                                         *)
(* createTask reads everything in the snapshot of one transaction, without *)
(* locks, so the model may be disabled before the task is there; a worker  *)
(* reads project, provider and model again, each with a query of its own,  *)
(* and compares them.                                                      *)
(***************************************************************************)
EXTENDS ModelCatalog, ProjectMembers

CONSTANTS
  Tasks,
  StartTasks,  \* what the rows of tasks say at the start, by their names
  MaxAttempts,
  TaskCreate   \* the permission it takes

NoTask == [status |-> "absent"]
TaskRecords ==
  [status : {"QUEUED", "RUNNING", "SUCCEEDED", "FAILED", "TIMED_OUT"}, attempt : Nat,
   provider : Providers, model : Models, needs : SUBSET Features]

ASSUME AdmissionAssumption ==
  /\ TaskCreate \in Permissions /\ MaxAttempts \in Nat \ {0}
  /\ DOMAIN StartTasks \subseteq Tasks
  /\ \A t \in DOMAIN StartTasks : StartTasks[t] \in TaskRecords

ASSUME AdmissionRequestsAssumption ==
  \A r \in Requests :
    /\ r.kind \in {"createTask", "execute", "recoverTimedOut"} => r.task \in Tasks
    /\ r.kind \in {"createTask", "replaceAccess"} => r.user \in Users
    /\ r.kind = "replaceAccess" => r.models \subseteq Models
    /\ r.kind = "createTask" /\ "model" \in DOMAIN r => r.provider \in Providers /\ r.model \in Models

VARIABLES
  modelAccess,  \* the models granted to each user
  task,         \* what the row of each task says
  asAdmin,      \* the principal of a request was an administrator
  plan,         \* the task as the transaction of createTask means to insert it
  context       \* what the worker has read for an execution

admissionVars == <<modelAccess, task, asAdmin, plan, context>>

Nothing == [status |-> "nothing"]
AccessRow(u) == <<"user_model_access_grants", u>>
TaskRow(t) == <<"generation_tasks", t>>

AdmissionInit(empty) ==
  /\ modelAccess = [u \in Users |-> {}]
  /\ task = [t \in Tasks |->
               IF ~ empty /\ t \in DOMAIN StartTasks THEN StartTasks[t] ELSE NoTask]
  /\ asAdmin = [c \in Connections |-> FALSE]
  /\ plan = [c \in Connections |-> NoTask]
  /\ context = [c \in Connections |-> Nothing]

-----------------------------------------------------------------------------
\* replaceUserModelAccess, SERIALIZABLE

FindGrantee(c) ==
  LET u == request[c].user IN
  /\ Kind(c) = "replaceAccess" /\ step[c] = "begun"
  /\ userStatus[u] # "absent"
  /\ ReadShared(c, {UserRow(u)}, "found grantee")
  /\ UNCHANGED admissionVars

\* The models to be granted are there.
ModelsByIDs(c) ==
  LET granted == request[c].models IN
  /\ step[c] = "found grantee"
  /\ \A m \in granted : models[m] # Deleted
  /\ ReadShared(c, {ModelRow(m) : m \in granted}, "found models")
  /\ UNCHANGED admissionVars

ReplaceUserModelAccess(c) ==
  LET u == request[c].user IN
  /\ step[c] = "found models"
  /\ Commit(c, {AccessRow(u)})
  /\ modelAccess' = [modelAccess EXCEPT ![u] = request[c].models]
  /\ UNCHANGED <<task, asAdmin, plan, context>>

-----------------------------------------------------------------------------
\* createTask

\* RequireAuth reads the roles of the user before the transaction begins.
Authenticate(c) ==
  LET u == request[c].user
      roles == userRoles[u] \cap ActiveRoles
  IN
  /\ Kind(c) = "createTask" /\ step[c] = "begun"
  /\ userStatus[u] = "ACTIVE"
  /\ Admin \in roles \/ \E r \in roles \ {Admin} : TaskCreate \in rolePermissions[r]
  /\ asAdmin' = [asAdmin EXCEPT ![c] = Admin \in roles]
  /\ Read(c, "authenticated")
  /\ UNCHANGED <<modelAccess, task, plan, context>>

\* Authorize, and the roles of the project that may create tasks.
Authorized(c) ==
  LET u == request[c].user IN
  /\ ProjectThere
  /\ asAdmin[c] \/ (u \in Members /\ memberRole[u] \in {"OWNER", "EDITOR"})

\* validateTaskDefaults
Usable(p, m) ==
  /\ providers[p] = "ENABLED"
  /\ models[m] # Deleted
  /\ models[m].provider = p /\ models[m].status = "ENABLED"

\* Defaults that are not usable any more count for nothing.
LoadTaskDefaults ==
  IF defaults # NoDefault /\ Usable(defaults.provider, defaults.model)
  THEN defaults ELSE NoDefault

\* The provider and the model asked for, or the defaults of the tenant.
Chosen(c) ==
  IF Asks(c, "model") THEN [provider |-> request[c].provider, model |-> request[c].model]
  ELSE LoadTaskDefaults

UserCanAccessModel(u, m) == m \in modelAccess[u]

\* validateModelCapability, normalizeParameters: what a request needs.
Needs(type, inputs, outputs) ==
  {IF type = "edit" THEN "edit" ELSE "generate"}
    \cup {f \in {"edit"} : inputs > 0}
    \cup {f \in {"multi reference"} : inputs > 1}
    \cup {f \in {"n"} : outputs > 1}

\* normalizeCreateRequest: the row to be.
CreateInput(c) ==
  [status |-> "QUEUED", attempt |-> 1, provider |-> Chosen(c).provider,
   model |-> Chosen(c).model,
   needs |-> Needs(request[c].type, request[c].inputs, request[c].outputs)]

\* The checks of one snapshot.
AdmitTask(c) ==
  LET p == Chosen(c).provider
      m == Chosen(c).model
  IN
  /\ Kind(c) = "createTask" /\ step[c] = "authenticated"
  /\ Authorized(c)
  /\ Chosen(c) # NoDefault
  /\ Usable(p, m)
  /\ asAdmin[c] \/ UserCanAccessModel(request[c].user, m)
  /\ CreateInput(c).needs \subseteq models[m].supports
  /\ plan' = [plan EXCEPT ![c] = CreateInput(c)]
  /\ Read(c, "admitted")
  /\ UNCHANGED <<modelAccess, task, asAdmin, context>>

CreateTask(c) ==
  LET t == request[c].task IN
  /\ Kind(c) = "createTask" /\ step[c] = "admitted"
  /\ task[t] = NoTask
  /\ Commit(c, {TaskRow(t)})
  /\ task' = [task EXCEPT ![t] = plan[c]]
  /\ plan' = [plan EXCEPT ![c] = NoTask]
  /\ asAdmin' = [asAdmin EXCEPT ![c] = FALSE]
  /\ UNCHANGED <<modelAccess, context>>

-----------------------------------------------------------------------------
\* loadExecutionContext, validateExecutionContext

\* What has been read, and what is read next.
With(read, next) ==
  [f \in DOMAIN read \cup DOMAIN next |-> IF f \in DOMAIN read THEN read[f] ELSE next[f]]

\* The row of the task and its project.
FindTask(c) ==
  /\ Kind(c) = "execute" /\ step[c] = "begun"
  /\ task[request[c].task].status = "QUEUED"
  /\ ProjectThere
  /\ context' = [context EXCEPT ![c] = task[request[c].task]]
  /\ Read(c, "task found")
  /\ UNCHANGED <<modelAccess, task, asAdmin, plan>>

\* A row that is gone makes the delivery come again later (RollbackRequest).
FindTaskProvider(c) ==
  LET p == context[c].provider IN
  /\ step[c] = "task found"
  /\ providers[p] # "absent"
  /\ context' = [context EXCEPT ![c] =
       With(@, [enabled |-> providers[p] = "ENABLED", key |-> apiKey[p]])]
  /\ Read(c, "provider found")
  /\ UNCHANGED <<modelAccess, task, asAdmin, plan>>

\* Mutant: the model is not compared with the provider.
FitsAlone(c) ==
  LET m == models[context[c].model] IN
  context[c].enabled /\ m.status = "ENABLED" /\ context[c].needs \subseteq m.supports

\* The provider must be ENABLED; the model, read after it, must be, too, and
\* still fit the provider and the task.
Fits(c) ==
  LET m == models[context[c].model] IN
  /\ context[c].enabled /\ m.status = "ENABLED"
  /\ m.provider = context[c].provider
  /\ context[c].needs \subseteq m.supports

FindTaskModel(c) ==
  /\ step[c] = "provider found"
  /\ models[context[c].model] # Deleted
  /\ Fits(c)
  /\ Read(c, "validated context")
  /\ UNCHANGED admissionVars

\* failEligibleTask: a task without the status it asks for is left alone.
Fails(t, statuses) ==
  task' = [task EXCEPT ![t].status = IF @ \in statuses THEN "FAILED" ELSE @]

FailEligibleTask(c) ==
  /\ step[c] = "provider found"
  /\ models[context[c].model] # Deleted
  /\ ~ Fits(c)
  /\ End(c)
  /\ Fails(request[c].task, {"QUEUED", "RUNNING"})
  /\ context' = [context EXCEPT ![c] = Nothing]
  /\ UNCHANGED <<modelAccess, asAdmin, plan>>

\* The deliveries of the task are used up.
MarkDeadLettered(c) ==
  /\ Kind(c) = "execute" /\ step[c] = "begun"
  /\ End(c)
  /\ Fails(request[c].task, {"QUEUED", "RUNNING"})
  /\ UNCHANGED <<modelAccess, asAdmin, plan, context>>

\* What a rollback, or the death of the worker, leaves of this.
ForgetAdmission(c) ==
  /\ asAdmin' = [asAdmin EXCEPT ![c] = FALSE]
  /\ plan' = [plan EXCEPT ![c] = NoTask]
  /\ context' = [context EXCEPT ![c] = Nothing]
  /\ UNCHANGED <<modelAccess, task>>

AdmissionStep(c) ==
  \/ FindGrantee(c)
  \/ ModelsByIDs(c)
  \/ ReplaceUserModelAccess(c)
  \/ Authenticate(c)
  \/ AdmitTask(c)
  \/ CreateTask(c)
  \/ FindTask(c)
  \/ FindTaskProvider(c)
  \/ FindTaskModel(c)
  \/ FailEligibleTask(c)
  \/ MarkDeadLettered(c)

AdmissionTypeOK ==
  /\ modelAccess \in [Users -> SUBSET Models]
  /\ task \in [Tasks -> TaskRecords \cup {NoTask}]
  /\ asAdmin \in [Connections -> BOOLEAN]
  /\ \A c \in Connections :
       /\ plan[c] # NoTask => step[c] = "admitted"
       /\ step[c] = "idle" => context[c] = Nothing

=============================================================================

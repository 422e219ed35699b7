--------------------------- MODULE Administration ---------------------------
(***************************************************************************)
(* A tenant at work: its users and roles, its providers, models, members   *)
(* and settings, changed by transactions that run side by side in one      *)
(* database, while tasks are created and executed by what these say.       *)
(***************************************************************************)
EXTENDS ProviderAttempts, TenantSettings, DatabaseStartup, Maintenance, OrphanScan

backgroundVars == <<maintenanceVars, scanVars>>
vars == <<txVars, userVars, catalogVars, memberVars, admissionVars, attemptVars, settingVars,
          startVars, backgroundVars>>

\* What the processes of a workload are deployed with, and what others do, varies
\* where a request depends on it.
Makes(kind) == \E r \in workload : r.kind = kind

\* Before initAdmin there is nothing; afterwards whatever has been set up.
Init ==
  /\ TxInit
  /\ SettingsInit
  /\ Makes("applyLimits") \/ cap = CHOOSE n \in Caps : TRUE
  /\ AttemptsInit
  /\ MaintenanceInit
  /\ ScanInit
  /\ \E empty \in BOOLEAN :
       /\ StartupInit(empty)
       /\ \E granted \in SUBSET Permissions :
            /\ "api" \in served => granted = SellerPermissions
            /\ UsersInit(IF empty THEN {} ELSE Administrators, granted)
       /\ CatalogInit(empty)
       /\ MembersInit(empty)
       /\ AdmissionInit(empty)

\* A request is served by a process that has started.  Only initAdmin needs no
\* principal, and the principal is an active user.
\* Providers are not written while their keys are rotated.
Admitted ==
  {r \in Requests :
     /\ ServedBy(r) \subseteq served
     /\ r.kind \in {"initAdmin"} \cup Starts \/ \E u \in Users : userStatus[u] = "ACTIVE"
     /\ OutsideOfRotation(r) /\ OneLoop(r) /\ OneWalk(r)}

BeginRequest(c) ==
  /\ Begin(c, Admitted)
  /\ UNCHANGED <<userVars, catalogVars, memberVars, admissionVars, attemptVars, settingVars,
                 startVars, backgroundVars>>

RollbackRequest(c) ==
  /\ Rollback(c)
  /\ ForgetAdmission(c)
  /\ ForgetAttempt(c)
  /\ ForgetPatch(c)
  /\ ForgetStart(c)
  /\ ForgetMaintenance(c)
  /\ ForgetScan(c)
  /\ UNCHANGED <<userVars, catalogVars, memberVars>>

Step(c) ==
  \/ BeginRequest(c)
  \/ RollbackRequest(c)
  \/ /\ UserStep(c)
     /\ UNCHANGED <<catalogVars, memberVars, admissionVars, attemptVars, settingVars, startVars,
                    backgroundVars>>
  \/ /\ CatalogStep(c)
     /\ UNCHANGED <<userVars, memberVars, admissionVars, attemptVars, settingVars, startVars,
                    backgroundVars>>
  \/ /\ MemberStep(c)
     /\ UNCHANGED <<userVars, catalogVars, admissionVars, attemptVars, settingVars, startVars,
                    backgroundVars>>
  \/ /\ AdmissionStep(c)
     /\ UNCHANGED <<userVars, catalogVars, memberVars, attemptVars, settingVars, startVars,
                    backgroundVars>>
  \/ /\ AttemptStep(c)
     /\ UNCHANGED <<userVars, catalogVars, memberVars, settingVars, startVars, backgroundVars>>
  \/ /\ SettingStep(c)
     /\ UNCHANGED <<userVars, catalogVars, memberVars, admissionVars, attemptVars, startVars,
                    backgroundVars>>
  \/ /\ StartStep(c)
     /\ UNCHANGED <<catalogVars, memberVars, attemptVars, settingVars, backgroundVars>>
  \/ /\ MaintenanceStep(c)
     /\ UNCHANGED <<catalogVars, memberVars, admissionVars, attemptVars, settingVars, startVars,
                    scanVars>>
  \/ /\ ScanStep(c)
     /\ UNCHANGED <<userVars, catalogVars, memberVars, admissionVars, attemptVars, settingVars,
                    startVars, maintenanceVars>>

Deploy ==
  \/ /\ \E k \in CipherKeys : DeployCipher(k)
     /\ UNCHANGED <<userVars, memberVars, admissionVars, attemptVars, settingVars, startVars,
                    backgroundVars>>
  \/ /\ Makes("applyLimits")
     /\ \E n \in Caps : DeployCaps(n)
     /\ UNCHANGED <<userVars, catalogVars, memberVars, admissionVars, attemptVars, startVars,
                    backgroundVars>>

\* The owners of objects store and remove them while a walk is made.
ObjectsChange ==
  /\ \E kind \in Scans : Makes(kind)
  /\ \E o \in StoredObjects : StoreObject(o) \/ RemoveObject(o)
  /\ UNCHANGED <<txVars, userVars, catalogVars, memberVars, admissionVars, attemptVars,
                 settingVars, startVars, maintenanceVars>>

Next == Deploy \/ ObjectsChange \/ \E c \in Connections : Step(c)

Spec == Init /\ [][Next]_vars

-----------------------------------------------------------------------------
\* Properties

AdminTypeOK ==
  /\ TxTypeOK
  /\ UsersTypeOK
  /\ CatalogTypeOK
  /\ MembersTypeOK
  /\ AdmissionTypeOK
  /\ AttemptsTypeOK
  /\ SettingsTypeOK
  /\ StartupTypeOK
  /\ MaintenanceTypeOK
  /\ ScanTypeOK

\* A tenant is set up once, though several initAdmin may start on the empty
\* database, and from then on keeps an active administrator, whatever is disabled,
\* demoted or created at the same time (docs/api-contract.md, docs/rbac.md).
AdminRemains ==
  /\ inits <= 1
  /\ inits > 0 => ActiveAdmins # {}

\* What is granted to a user is live at that moment: a role is ACTIVE and a
\* model has not been deleted, although both are read earlier in the
\* transaction and no foreign key says so, as deleted rows stay
\* (replaceUserRoles, createUser, replaceUserModelAccess).
GrantsAreLive ==
  [][\A u \in Users :
       /\ userRoles'[u] \subseteq userRoles[u] \cup ActiveRoles'
       /\ \A m \in modelAccess'[u] \ modelAccess[u] : models'[m] # Deleted]_vars

\* No model belongs to a provider that was deleted, and no enabled model to
\* one that is disabled: what one transaction counts stays true while
\* others create, move and enable models.
ModelsHaveProviders ==
  \A m \in Models : models[m] # Deleted =>
     /\ providers[models[m].provider] # "absent"
     /\ models[m].status = "ENABLED" => providers[models[m].provider] = "ENABLED"

\* No two models of a provider have the same name; no index says so.
ModelNamesUnique ==
  \A m, n \in Models :
     m # n /\ models[m] # Deleted /\ models[n] # Deleted =>
        models[m].provider # models[n].provider \/ models[m].name # models[n].name

\* The defaults name an enabled model of an enabled provider at the moment
\* they are committed (they may age afterwards).
DefaultsUsableWhenSet ==
  [][defaults' \notin {defaults, NoDefault} =>
       /\ providers'[defaults'.provider] = "ENABLED"
       /\ models'[defaults'.model].status = "ENABLED"
       /\ models'[defaults'.model].provider = defaults'.provider]_vars

\* A worker reads the provider of a task before the model, without a lock, and
\* compares the two (loadExecutionContext).  Still, when the context passes,
\* the provider of the task is ENABLED and so is its model.
ValidatedContextIsUsable ==
  [][\A c \in Connections :
       step[c] # "validated context" /\ step'[c] = "validated context" =>
         LET t == task[request[c].task] IN
         /\ providers[t.provider] = "ENABLED"
         /\ models[t.model].status = "ENABLED" /\ models[t.model].provider = t.provider]_vars

\* The outputs and the usage of a task come from a call whose row in the ledger
\* says SUCCESS: never from one that was cut off, or that could not be
\* finalized (docs/task-queue.md:128-132).
OutputsAreLedgered ==
  \A t \in Tasks : stored[t] # 0 => ledger[t][stored[t]] = "SUCCESS"

\* A cost that was calculated has a price for all that was used and is the nearest
\* to the exact one that has Places places; otherwise it is zero, and the task is
\* not the worse for it.  A report adds the costs up to the last place, and what it
\* says that one of so many outputs costs is the nearest again
\* (docs/api-contract.md:472-473).
CostsAreNearest ==
  LET Tasked == {t \in Tasks : charged[t] # {}}
      Row(t) == CHOOSE row \in charged[t] : TRUE
      Cost(t) == Row(t).estimate.cost
      sum == SumDecimal8([t \in Tasked |-> Written(Cost(t))])
      Near(number, exact, unit) ==
        2 * (number * unit - exact) \in -unit .. unit
  IN
  /\ \A t \in Tasks : Cardinality(charged[t]) <= 1
  /\ \A t \in Tasked :
       IF Row(t).estimate.status = "CALCULATED"
       THEN /\ \A kind \in Kinds : Row(t).usage[kind] > 0 =>
                 \E name \in DOMAIN Row(t).prices : \E i \in DOMAIN Aliases[kind] : Aliases[kind][i] = name
            /\ Near(Cost(t), Total(Row(t).prices, Row(t).usage), Place)
       ELSE Cost(t) = 0
  /\ sum = MapThenSumSet(Cost, Tasked)
  /\ \A outputs \in 1 .. MaxImages * Cardinality(Tasked) :
       Near(DivideDecimal8(Written(sum), outputs), sum, outputs)

\* The temporary files of the images of a call do not outlive it, whatever fails:
\* the rest of the answer, the ledger, the context or what Process does with the
\* result (parseOpenAIResponseStream, Execute, Process).
TemporaryImagesRemoved ==
  \A c \in Connections : files[c] > 0 => step[c] = "reading" \/ answer[c] = "success"

\* Nobody goes by a limit above the cap of the deployed processes, though rows
\* of before a deployment exceed it (EffectiveUploadPolicy,
\* LoadTaskConcurrencyWithDefaults).
LimitsWithinCap ==
  \A g \in Clamped \cup Refused : \A f \in Fields : inForce[g][f] <= cap

\* The keys of all live providers are encrypted under one key, at any point of a
\* rotation and whatever fails, and those of deleted providers are erased
\* (docs/provider-adapter.md:35-44).
KeysUnderOneCipher ==
  /\ \A p, q \in Live : apiKey[p] = apiKey[q] /\ apiKey[p] # "none"
  /\ \A p \in Providers \ Live : apiKey[p] = "none"

\* A process that migrates leaves the grants of models alone as soon as an API
\* serves: what an administrator took away does not come back with a worker that
\* starts late or again (RunMigrations).
GrantsAreNotRevived ==
  [][\A c \in Connections :
       Kind(c) \in Starts /\ position'[c] # position[c] /\ "api" \in served =>
         modelAccess' = modelAccess]_vars

\* Whatever starts died at, a process serves with the whole schema, and an API
\* with the built-in roles of its version; a start is refused only when the
\* database has lost something (docs/codex-agent-tasks.md:164).
StartsRecoverOrFailClosed ==
  /\ served # {} => schema = AllObjects /\ applied = DOMAIN Migrations
  /\ "api" \in served /\ inits > 0 => rolePermissions[Seller] = SellerPermissions
  /\ refusal # "none" => lost # {}

\* Every stage of the maintenance comes to every tenant it concerns, however many
\* others fail and whichever are provisioned in the middle of a batch: while one
\* waits for its turn no other is listed twice (runOnce).
NobodyIsPassedOver ==
  \A s \in Stages : \A t \in Tenants : waited[s][t] <= MaxWait(s)

\* A walk that is over has shown every orphan that was there throughout, wherever
\* its pages ended, whatever was stored and removed meanwhile and whichever of its
\* requests failed (inspectStorageOrphans).
ScanReachesEveryOrphan ==
  cursor = Start /\ (\A c \in Connections : Kind(c) \notin Scans) => unseen = {}

\* docs/api-contract.md: a project keeps at least one OWNER.
OwnerRemains == ProjectThere => Owners # {}

=============================================================================

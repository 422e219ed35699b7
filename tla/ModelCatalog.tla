---------------------------- MODULE ModelCatalog ----------------------------
(***************************************************************************)
(* Providers, models and the default model of new tasks: the transactions  *)
(* of internal/provider, internal/model and of UpdateTaskDefaults in       *)
(* internal/settings.  They are REPEATABLE READ and lock with FOR UPDATE   *)
(* the provider, the model or both; the counts and the search for a name   *)
(* are plain reads, and the first of them fixes what the transaction sees. *)
(* It comes after the locks in every transaction, so each one reads what   *)
(* is committed by then.                                                   *)
(*                                                                         *)
(* The key of a provider is stored encrypted under the key of the deployed *)
(* processes, which an operator replaces: a SERIALIZABLE transaction       *)
(* encrypts every key again while nobody else writes providers, and the    *)
(* processes are deployed with the new key afterwards (deploy/RUNBOOK.md). *)
(***************************************************************************)
EXTENDS Transactions

CONSTANTS
  Providers, Models, Names,
  StartProviders,  \* those that are there, ENABLED, from the start
  StartModels,     \* records of the models that are there from the start
  NoDefault,
  Features,        \* what a model may support
  CipherKeys,      \* the keys that encrypt the keys of providers
  StartCipher

Deleted ==
  [status |-> "absent", provider |-> NoDefault, name |-> NoDefault, supports |-> {}]
States == {"ENABLED", "DISABLED"}
ModelRecords ==
  [status : States, provider : Providers, name : Names, supports : SUBSET Features]
    \cup {Deleted}

ASSUME CatalogAssumption ==
  /\ StartProviders \subseteq Providers
  /\ StartModels \in [Models -> ModelRecords]
  /\ \A m \in Models : StartModels[m] # Deleted =>
       /\ StartModels[m].provider \in StartProviders
       /\ \A n \in Models \ {m} : StartModels[n] # Deleted =>
            StartModels[m].provider # StartModels[n].provider
              \/ StartModels[m].name # StartModels[n].name
  /\ StartCipher \in CipherKeys
  /\ NoDefault \notin Providers /\ "none" \notin CipherKeys

\* A new provider or model has all its fields.
ASSUME CatalogRequestsAssumption ==
  \A r \in Requests :
    /\ r.kind \in {"createProvider", "updateProvider", "deleteProvider", "setDefaults"} =>
         "provider" \in DOMAIN r
    /\ r.kind \in {"createModel", "updateModel", "deleteModel", "setDefaults"} =>
         "model" \in DOMAIN r
    /\ r.kind \in {"createProvider", "createModel"} => "status" \in DOMAIN r
    /\ r.kind = "createModel" => {"provider", "name", "supports"} \subseteq DOMAIN r
    /\ r.kind \in {"createProvider", "updateProvider", "deleteProvider", "createModel",
                   "updateModel", "deleteModel", "setDefaults"} =>
         /\ MaySay(r, "provider", Providers) /\ MaySay(r, "model", Models)
         /\ MaySay(r, "status", States) /\ MaySay(r, "name", Names)
         /\ MaySay(r, "supports", SUBSET Features)
    /\ r.kind = "rotateKeys" => {r.old, r.new} \subseteq CipherKeys

VARIABLES
  providers,  \* status of each provider
  models,     \* what the row of each model says
  defaults,   \* the default provider and model of the tenant
  apiKey,     \* what the key of each provider is encrypted under
  cipher,     \* what the deployed processes encrypt and decrypt with
  lastTest    \* what the last test of each provider has said

catalogVars == <<providers, models, defaults, apiKey, cipher, lastTest>>
keyVars == <<apiKey, cipher, lastTest>>

ProviderRow(p) == <<"ai_providers", p>>
ModelRow(m) == <<"ai_models", m>>
SettingRow == <<"system_settings", "task_defaults">>

CatalogInit(empty) ==
  /\ providers = [p \in Providers |->
                    IF ~ empty /\ p \in StartProviders THEN "ENABLED" ELSE "absent"]
  /\ models = IF empty THEN [m \in Models |-> Deleted] ELSE StartModels
  /\ defaults = NoDefault
  /\ apiKey = [p \in Providers |-> IF providers[p] = "absent" THEN "none" ELSE StartCipher]
  /\ cipher = StartCipher
  /\ lastTest = [p \in Providers |-> "none"]

Linked(p) == {m \in Models : models[m].provider = p}
EnabledLinked(p) == {m \in Linked(p) : models[m].status = "ENABLED"}

-----------------------------------------------------------------------------
\* createProvider, updateProvider, setStatus, deleteProvider.  A request for a
\* change has the fields it changes.

Asks(c, field) == field \in DOMAIN request[c]

CreateProvider(c) ==
  LET p == request[c].provider IN
  /\ Kind(c) = "createProvider" /\ step[c] = "begun"
  /\ providers[p] = "absent"
  /\ Commit(c, {ProviderRow(p)})
  /\ providers' = [providers EXCEPT ![p] = request[c].status]
  /\ apiKey' = [apiKey EXCEPT ![p] = cipher]
  /\ UNCHANGED <<models, defaults, cipher, lastTest>>

LockProvider(c) ==
  LET p == request[c].provider IN
  /\ Kind(c) \in {"updateProvider", "deleteProvider"} /\ step[c] = "begun"
  /\ providers[p] # "absent"
  /\ ReadForUpdate(c, {ProviderRow(p)}, "locked")
  /\ UNCHANGED catalogVars

\* ensureNoEnabledLinkedModels and CountLinkedModels.
CountLinkedModels(c) ==
  LET p == request[c].provider IN
  /\ Kind(c) \in {"updateProvider", "deleteProvider"} /\ step[c] = "locked"
  /\ Kind(c) = "deleteProvider" => Linked(p) = {}
  /\ Asks(c, "status") /\ request[c].status = "DISABLED" => EnabledLinked(p) = {}
  /\ Read(c, "counted")
  /\ UNCHANGED catalogVars

UpdateProvider(c) ==
  LET p == request[c].provider IN
  /\ Kind(c) = "updateProvider" /\ step[c] = "counted"
  /\ Commit(c, {})
  /\ providers' = [providers EXCEPT ![p] = IF Asks(c, "status") THEN request[c].status ELSE @]
  /\ apiKey' = [apiKey EXCEPT ![p] = IF Asks(c, "apiKey") THEN cipher ELSE @]
  /\ UNCHANGED <<models, defaults, cipher, lastTest>>

DeleteProvider(c) ==
  /\ Kind(c) = "deleteProvider" /\ step[c] = "counted"
  /\ Commit(c, {})
  /\ providers' = [providers EXCEPT ![request[c].provider] = "absent"]
  /\ apiKey' = [apiKey EXCEPT ![request[c].provider] = "none"]
  /\ UNCHANGED <<models, defaults, cipher, lastTest>>

-----------------------------------------------------------------------------
\* Rotate, and the deployment with the new key

Live == {p \in Providers : providers[p] # "absent"}

\* Every row is locked, those of deleted providers too, and every key of a
\* live one must decrypt.
LockAllProviders(c) ==
  /\ Kind(c) = "rotateKeys" /\ step[c] = "begun"
  /\ \A p \in Live : apiKey[p] = request[c].old
  /\ ReadForUpdate(c, {ProviderRow(p) : p \in Providers}, "rotating")
  /\ UNCHANGED catalogVars

\* Mutant: each row is a transaction of its own, and some are never reached.
RotateSome(c) ==
  /\ Kind(c) = "rotateKeys" /\ step[c] = "rotating"
  /\ Commit(c, {})
  /\ \E done \in SUBSET Live :
       apiKey' = [p \in Providers |-> IF p \in done THEN request[c].new ELSE apiKey[p]]
  /\ UNCHANGED <<providers, models, defaults, cipher, lastTest>>

Rotate(c) ==
  /\ Kind(c) = "rotateKeys" /\ step[c] = "rotating"
  /\ Commit(c, {})
  /\ apiKey' = [p \in Providers |-> IF p \in Live THEN request[c].new ELSE "none"]
  /\ UNCHANGED <<providers, models, defaults, cipher, lastTest>>

\* Once a rotation has committed the processes are restarted with its key.
DeployCipher(k) ==
  /\ cipher # k
  /\ \A c \in Connections : step[c] = "idle"
  /\ \E p \in Live : apiKey[p] = k
  /\ cipher' = k
  /\ UNCHANGED <<txVars, providers, models, defaults, apiKey, lastTest>>

ProviderWrites == {"createProvider", "updateProvider", "deleteProvider"}

\* Writes of providers are paused from the start of a rotation until the
\* deployment, and a rotation waits for those under way.
Paused == \/ \E c \in Connections : Kind(c) = "rotateKeys"
          \/ \E p \in Live : apiKey[p] # cipher
OutsideOfRotation(r) ==
  /\ r.kind \in ProviderWrites => ~ Paused
  /\ r.kind = "rotateKeys" =>
       ~ Paused /\ r.old = cipher /\ \A c \in Connections : Kind(c) \notin ProviderWrites

-----------------------------------------------------------------------------
\* testProvider.  The key is read and tried outside of any transaction; what
\* comes of it is written to whatever provider is there by then.

FindProviderToTest(c) ==
  LET p == request[c].provider IN
  /\ Kind(c) = "testProvider" /\ step[c] = "begun"
  /\ providers[p] # "absent"
  /\ Read(c, IF apiKey[p] = cipher THEN "probing" ELSE "not decrypted")
  /\ UNCHANGED catalogVars

RecordTestResult(c) ==
  LET p == request[c].provider IN
  /\ step[c] \in {"probing", "not decrypted"}
  /\ providers[p] # "absent"
  /\ Commit(c, {ProviderRow(p)})
  /\ \E result \in {"SUCCESS", "FAILURE"} :
       /\ step[c] = "not decrypted" => result = "FAILURE"
       /\ lastTest' = [lastTest EXCEPT ![p] = result]
  /\ UNCHANGED <<providers, models, defaults, apiKey, cipher>>

-----------------------------------------------------------------------------
\* createModel, updateModel, setStatus, deleteModel.

\* The row as it would be: what the request leaves out comes from the row.
Wanted(c) ==
  LET m == request[c].model
      Field(f) == IF Asks(c, f) THEN request[c][f] ELSE models[m][f]
  IN [status |-> Field("status"), provider |-> Field("provider"),
      name |-> Field("name"), supports |-> Field("supports")]

LockModel(c) ==
  LET m == request[c].model IN
  /\ Kind(c) \in {"updateModel", "deleteModel"} /\ step[c] = "begun"
  /\ models[m] # Deleted
  /\ ReadForUpdate(c, {ModelRow(m)}, "locked")
  /\ UNCHANGED catalogVars

\* The provider must be ENABLED for a new model, for a model that comes to
\* it and for a model that is enabled, and it must exist for a new name.
NeedsUsable(c) ==
  \/ Kind(c) = "createModel"
  \/ Asks(c, "provider")
  \/ Asks(c, "status") /\ request[c].status = "ENABLED"
NeedsProvider(c) == NeedsUsable(c) \/ Asks(c, "name")

\* Mutant: the provider is read without FOR UPDATE.
ProviderUnlocked(c) ==
  LET p == Wanted(c).provider IN
  /\ \/ Kind(c) = "createModel" /\ step[c] = "begun"
     \/ Kind(c) = "updateModel" /\ step[c] = "locked"
  /\ NeedsProvider(c) => providers[p] # "absent"
  /\ NeedsUsable(c) => providers[p] = "ENABLED"
  /\ Read(c, "provided")
  /\ UNCHANGED catalogVars

\* Mutant: a new name alone does not lock the provider.
SerializeUsableOnly(c) ==
  LET p == Wanted(c).provider IN
  /\ \/ Kind(c) = "createModel" /\ step[c] = "begun"
     \/ Kind(c) = "updateModel" /\ step[c] = "locked"
  /\ NeedsUsable(c) => providers[p] = "ENABLED"
  /\ ReadForUpdate(c, IF NeedsUsable(c) THEN {ProviderRow(p)} ELSE {}, "provided")
  /\ UNCHANGED catalogVars

\* ensureProviderUsableForModelWrite, lockProviderForModelSerialization.
EnsureProviderUsable(c) ==
  LET p == Wanted(c).provider IN
  /\ \/ Kind(c) = "createModel" /\ step[c] = "begun"
     \/ Kind(c) = "updateModel" /\ step[c] = "locked"
  /\ NeedsProvider(c) => providers[p] # "absent"
  /\ NeedsUsable(c) => providers[p] = "ENABLED"
  /\ ReadForUpdate(c, IF NeedsProvider(c) THEN {ProviderRow(p)} ELSE {}, "provided")
  /\ UNCHANGED catalogVars

\* ensureUniqueActiveModelName, for a new name or a new provider.
EnsureUniqueName(c) ==
  LET m == request[c].model IN
  /\ step[c] = "provided"
  /\ Asks(c, "provider") \/ Asks(c, "name") =>
        \A n \in Linked(Wanted(c).provider) \ {m} : models[n].name # Wanted(c).name
  /\ Read(c, "unique")
  /\ UNCHANGED catalogVars

CreateModel(c) ==
  LET m == request[c].model IN
  /\ Kind(c) = "createModel" /\ step[c] = "unique"
  /\ models[m] = Deleted
  /\ Commit(c, {ModelRow(m)})
  /\ models' = [models EXCEPT ![m] = Wanted(c)]
  /\ UNCHANGED <<providers, defaults, keyVars>>

UpdateModel(c) ==
  /\ Kind(c) = "updateModel" /\ step[c] = "unique"
  /\ Commit(c, {})
  /\ models' = [models EXCEPT ![request[c].model] = Wanted(c)]
  /\ UNCHANGED <<providers, defaults, keyVars>>

\* Mutant: the deleted row keeps its provider and its name.
DeleteModelKeepingName(c) ==
  /\ Kind(c) = "deleteModel" /\ step[c] = "locked"
  /\ Commit(c, {})
  /\ models' = [models EXCEPT ![request[c].model].status = "absent"]
  /\ UNCHANGED <<providers, defaults, keyVars>>

DeleteModel(c) ==
  /\ Kind(c) = "deleteModel" /\ step[c] = "locked"
  /\ Commit(c, {})
  /\ models' = [models EXCEPT ![request[c].model] = Deleted]
  /\ UNCHANGED <<providers, defaults, keyVars>>

-----------------------------------------------------------------------------
\* UpdateTaskDefaults

LockDefaultProvider(c) ==
  LET p == request[c].provider IN
  /\ Kind(c) = "setDefaults" /\ step[c] = "begun"
  /\ providers[p] = "ENABLED"
  /\ ReadForUpdate(c, {ProviderRow(p)}, "provided for defaults")
  /\ UNCHANGED catalogVars

\* Mutant: validateTaskDefaults, which reads without locks, is called here.
FindDefaultModel(c) ==
  LET m == request[c].model IN
  /\ Kind(c) = "setDefaults" /\ step[c] = "provided for defaults"
  /\ models[m].status = "ENABLED" /\ models[m].provider = request[c].provider
  /\ Read(c, "validated")
  /\ UNCHANGED catalogVars

LockDefaultModel(c) ==
  LET m == request[c].model IN
  /\ Kind(c) = "setDefaults" /\ step[c] = "provided for defaults"
  /\ models[m].status = "ENABLED" /\ models[m].provider = request[c].provider
  /\ ReadForUpdate(c, {ModelRow(m)}, "validated")
  /\ UNCHANGED catalogVars

UpdateTaskDefaults(c) ==
  /\ Kind(c) = "setDefaults" /\ step[c] = "validated"
  /\ Commit(c, {SettingRow})
  /\ defaults' = [provider |-> request[c].provider, model |-> request[c].model]
  /\ UNCHANGED <<providers, models, keyVars>>

ClearTaskDefaults(c) ==
  /\ Kind(c) = "clearDefaults" /\ step[c] = "begun"
  /\ Commit(c, {SettingRow})
  /\ defaults' = NoDefault
  /\ UNCHANGED <<providers, models, keyVars>>

CatalogStep(c) ==
  \/ CreateProvider(c)
  \/ LockProvider(c)
  \/ CountLinkedModels(c)
  \/ UpdateProvider(c)
  \/ DeleteProvider(c)
  \/ LockAllProviders(c)
  \/ Rotate(c)
  \/ FindProviderToTest(c)
  \/ RecordTestResult(c)
  \/ LockModel(c)
  \/ EnsureProviderUsable(c)
  \/ EnsureUniqueName(c)
  \/ CreateModel(c)
  \/ UpdateModel(c)
  \/ DeleteModel(c)
  \/ LockDefaultProvider(c)
  \/ LockDefaultModel(c)
  \/ UpdateTaskDefaults(c)
  \/ ClearTaskDefaults(c)

CatalogTypeOK ==
  /\ providers \in [Providers -> States \cup {"absent"}]
  /\ models \in [Models -> ModelRecords]
  /\ defaults \in [provider : Providers, model : Models] \cup {NoDefault}
  /\ apiKey \in [Providers -> CipherKeys \cup {"none"}]
  /\ cipher \in CipherKeys
  /\ lastTest \in [Providers -> {"none", "SUCCESS", "FAILURE"}]

=============================================================================

----------------------------- MODULE Maintenance -----------------------------
(***************************************************************************)
(* The maintenance of all tenants by the loop of a worker (cmd/worker).    *)
(* Each round goes through three stages: deleted assets are purged and     *)
(* expired logs removed for every tenant whose settings ask for it, and    *)
(* the storage counters of a batch of tenants are reconciled.  Batches     *)
(* rotate through the tenants with a cursor that the process keeps in      *)
(* memory.  Tenants are provisioned meanwhile, in the order of their       *)
(* names or not.                                                           *)
(*                                                                         *)
(* What is done for a tenant is that of AssetStorage; here it succeeds or  *)
(* fails, for one tenant only.  A worker that stops or dies is a           *)
(* RollbackRequest.                                                        *)
(***************************************************************************)
EXTENDS UserAdministration, FiniteSetsExt

CONSTANTS
  LastTenant,  \* tenants are numbers, as their identifiers are ordered
  FirstTenant, \* the one that initAdmin creates
  Retaining,   \* tenants with a valid setting that something is removed
  Broken,      \* tenants for which every stage fails
  BatchLimit   \* tenants in a batch of the last stage

Tenants == 1 .. LastTenant

ASSUME MaintenanceAssumption ==
  /\ LastTenant \in Nat /\ FirstTenant \in Tenants
  /\ Retaining \subseteq Tenants /\ Broken \subseteq Tenants
  /\ BatchLimit \in Nat \ {0}

ASSUME MaintenanceRequestsAssumption ==
  \A r \in Requests : r.kind = "provisionTenant" => r.tenant \in Tenants

VARIABLES
  provisioned,  \* tenants besides the first
  stage,        \* of the round that is under way
  due,          \* the tenants that are listed for it and not yet done
  quotaCursor,  \* the tenant that was reconciled last, or 0
  waited        \* for each stage, the listings since the last turn of a tenant

maintenanceVars == <<provisioned, stage, due, quotaCursor, waited>>

Stages == {"assets", "logs", "quota"}
ActiveTenants == provisioned \cup {t \in {FirstTenant} : inits > 0}
TenantsTable == <<"tenants", "gap">>

\* While a tenant waits for its turn every other one is listed once at most.
MaxWait(s) == IF s = "quota" THEN LastTenant ELSE 1
NoWait == [s \in Stages |-> [t \in Tenants |-> 0]]

MaintenanceInit ==
  /\ provisioned = {}
  /\ stage = "none"
  /\ due = {}
  /\ quotaCursor = 0
  /\ waited = NoWait

-----------------------------------------------------------------------------
\* provisionTenant, SERIALIZABLE

PlatformInitialized(c) ==
  /\ Kind(c) = "provisionTenant" /\ step[c] = "begun"
  /\ inits > 0
  /\ ReadShared(c, {UsersTable}, "platform initialized")
  /\ UNCHANGED <<userVars, maintenanceVars>>

\* The tenant, its built-in roles and its administrator.
ProvisionTenant(c) ==
  LET t == request[c].tenant IN
  /\ step[c] = "platform initialized"
  /\ t \notin ActiveTenants
  /\ Commit(c, {TenantsTable, UsersTable})
  /\ provisioned' = provisioned \cup {t}
  /\ waited' = [s \in Stages |-> [waited[s] EXCEPT ![t] = 0]]
  /\ UNCHANGED <<userVars, stage, due, quotaCursor>>

-----------------------------------------------------------------------------
\* runOnce

\* The loop starts with a round, and begins another with every tick.
BeginRound(c) ==
  /\ Kind(c) = "maintain" /\ step[c] \in {"begun", "round over"}
  /\ stage' = "assets"
  /\ Read(c, "stage")
  /\ UNCHANGED <<userVars, provisioned, due, quotaCursor, waited>>

\* A listing that fails ends the round.
ListingFails(c) ==
  /\ step[c] = "stage"
  /\ stage' = "none"
  /\ Read(c, "round over")
  /\ UNCHANGED <<userVars, provisioned, due, quotaCursor, waited>>

\* The first tenants after another one, in their order.
After(t) ==
  LET later == {u \in ActiveTenants : u > t} IN
  {u \in later : Cardinality({v \in later : v < u}) < BatchLimit}

\* A batch that would be empty begins again with the first tenant.
Batch == IF After(quotaCursor) = {} THEN After(0) ELSE After(quotaCursor)

Listed == IF stage = "quota" THEN Batch ELSE ActiveTenants \cap Retaining

\* LoadEnabledStorageRetentions, LoadEnabledLogRetentions (settings that cannot
\* be decoded are reported and left out) and ListActiveTenantIDsAfter.
ListTenants(c) ==
  LET concerned == IF stage = "quota" THEN ActiveTenants ELSE ActiveTenants \cap Retaining IN
  /\ step[c] = "stage"
  /\ due' = Listed
  /\ quotaCursor' = IF stage = "quota" /\ After(quotaCursor) = {} THEN 0 ELSE quotaCursor
  /\ waited' = [waited EXCEPT ![stage] =
       [t \in Tenants |-> IF t \in concerned /\ @[t] <= MaxWait(stage) THEN @[t] + 1 ELSE @[t]]]
  /\ Read(c, "tenants")
  /\ UNCHANGED <<userVars, provisioned, stage>>

Turn(t) ==
  /\ due' = due \ {t}
  /\ waited' = [waited EXCEPT ![stage][t] = 0]

\* Mutant: the cursor stays where it is when a tenant fails.
ServeTenantKeepingCursor(c) ==
  LET t == Min(due) IN
  /\ step[c] = "tenants" /\ due # {}
  /\ Turn(t)
  /\ quotaCursor' = IF stage = "quota" /\ t \notin Broken THEN t ELSE quotaCursor
  /\ Read(c, "tenants")
  /\ UNCHANGED <<userVars, provisioned, stage>>

\* A failure is logged, and the next tenant has its turn.
ServeTenant(c) ==
  LET t == Min(due) IN
  /\ step[c] = "tenants" /\ due # {}
  /\ Turn(t)
  /\ quotaCursor' = IF stage = "quota" THEN t ELSE quotaCursor
  /\ Read(c, "tenants")
  /\ UNCHANGED <<userVars, provisioned, stage>>

NextStage(c) ==
  /\ step[c] = "tenants" /\ due = {}
  /\ \/ stage = "assets" /\ stage' = "logs" /\ Read(c, "stage")
     \/ stage = "logs" /\ stage' = "quota" /\ Read(c, "stage")
     \/ stage = "quota" /\ stage' = "none" /\ Read(c, "round over")
  /\ UNCHANGED <<userVars, provisioned, due, quotaCursor, waited>>

\* The process stops, and another one begins from the start.
ForgetMaintenance(c) ==
  IF Kind(c) = "maintain"
  THEN /\ stage' = "none"
       /\ due' = {}
       /\ quotaCursor' = 0
       /\ waited' = NoWait
       /\ UNCHANGED provisioned
  ELSE UNCHANGED maintenanceVars

\* A worker has one loop.
OneLoop(r) == r.kind = "maintain" => \A c \in Connections : Kind(c) # "maintain"

MaintenanceStep(c) ==
  \/ PlatformInitialized(c)
  \/ ProvisionTenant(c)
  \/ BeginRound(c)
  \/ ListingFails(c)
  \/ ListTenants(c)
  \/ ServeTenant(c)
  \/ NextStage(c)

MaintenanceTypeOK ==
  /\ provisioned \subseteq Tenants \ {FirstTenant}
  /\ stage \in Stages \cup {"none"}
  /\ due \subseteq ActiveTenants
  /\ quotaCursor \in Tenants \cup {0}
  /\ stage = "none" => due = {}
  /\ \A s \in Stages : \A t \in Tenants : waited[s][t] \in 0 .. MaxWait(s) + 1

=============================================================================

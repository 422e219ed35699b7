------------------------- MODULE MCAdministration -------------------------
(* Users, roles, providers, models, settings, tasks and the requests about  *)
(* them, in workloads, for the runs of Administration.                      *)
EXTENDS Administration, TLC

CONSTANTS u1, u2, u3, admin, seller, custom, extra, p1, p2, m1, m2, n1, n2, t1, t2, t3

Two == {u1, u2}
Three == {u1, u2, u3}

\* The first model is enabled on the first provider, the second one has the
\* same name and is disabled on the second provider.
MCStartModels ==
  m1 :> [status |-> "ENABLED", provider |-> p1, name |-> n1,
         supports |-> {"generate", "edit"}] @@
  m2 :> [status |-> "DISABLED", provider |-> p2, name |-> n1, supports |-> {"generate"}]

MCStartMembers == u1 :> "OWNER" @@ u2 :> "EDITOR"

MCStartTasks ==
  t1 :> [status |-> "QUEUED", attempt |-> 1, provider |-> p1, model |-> m1,
         needs |-> {"edit"}] @@
  t3 :> [status |-> "QUEUED", attempt |-> 1, provider |-> p2, model |-> m2,
         needs |-> {"generate"}]

\* A base, columns and an index that came later, and the grants with which
\* models were first restricted to users.
MCMigrations ==
  << <<[op |-> "create", object |-> "users"]>>,
     <<[op |-> "add", object |-> "projects.sort_order"],
       [op |-> "add", object |-> "idx_projects_tenant_status_sort"]>>,
     <<[op |-> "create", object |-> "user_model_access_grants"],
       [op |-> "backfill", object |-> "user_model_access_grants"]>> >>

\* Amounts of 10^-2 with costs of 10^-1, prices up to 5 and costs below 10: a price
\* in the middle between two costs, one by two names, one that is not there, one
\* that is too high, and one for a cost that is too high.
Amount(number, digits, behind, exponent) ==
  [number |-> number, digits |-> digits, behind |-> behind, exponent |-> exponent,
   negative |-> FALSE]

MCUsages ==
  {[input |-> 1, output |-> 0, image |-> 1], [input |-> 3, output |-> 1, image |-> 2],
   [input |-> 1, output |-> 0, image |-> -1]}

MCPricings ==
  {"inputToken" :> Amount(5, 3, 2, 0) @@ "image" :> Amount(1, 1, 0, 0),
   "input_token" :> Amount(2, 1, 0, -2) @@ "output_token" :> Amount(31, 2, 0, -2)
     @@ "images" :> Amount(7, 1, 1, 0) @@ "image" :> Amount(4, 1, 1, 0),
   "image" :> Amount(1, 1, 0, 0) @@ "outputToken" :> Amount(6, 1, 0, 0),
   "inputTokens" :> Amount(0, 1, 0, 0) @@ "output_tokens" :> Amount(0, 1, 0, 0)
     @@ "image" :> Amount(5, 1, 0, 0),
   Undecodable}

UserRequests ==
  {[kind |-> "initAdmin", user |-> u] : u \in Two} \cup
  {[kind |-> "setStatus", user |-> u, status |-> s] : u \in Two, s \in {"ACTIVE", "DISABLED"}} \cup
  {[kind |-> "replaceUserRoles", user |-> u, roles |-> r] : u \in Two, r \in {{custom}, {admin}}} \cup
  {[kind |-> "createUser", user |-> u3, roles |-> {custom}],
   [kind |-> "createRole", role |-> extra, status |-> "ACTIVE"],
   [kind |-> "updateRole", role |-> custom, status |-> "DISABLED"],
   [kind |-> "deleteRole", role |-> custom]}

CatalogRequests ==
  {[kind |-> "createProvider", provider |-> p2, status |-> "ENABLED"],
   [kind |-> "deleteProvider", provider |-> p2],
   [kind |-> "createModel", model |-> m2, provider |-> p2, name |-> n2, status |-> "ENABLED",
    supports |-> {"generate"}],
   [kind |-> "updateModel", model |-> m1, provider |-> p2],
   [kind |-> "updateModel", model |-> m1, name |-> n2],
   [kind |-> "updateModel", model |-> m2, name |-> n2],
   [kind |-> "updateModel", model |-> m2, provider |-> p1],
   [kind |-> "updateModel", model |-> m2, status |-> "ENABLED"],
   [kind |-> "updateModel", model |-> m1, status |-> "DISABLED"],
   [kind |-> "deleteModel", model |-> m2],
   [kind |-> "setDefaults", provider |-> p1, model |-> m1],
   [kind |-> "clearDefaults"]} \cup
  {[kind |-> "updateProvider", provider |-> p, status |-> s] : p \in {p1, p2}, s \in States}

\* A key is rotated, or replaced by an administrator.
KeyRequests ==
  {[kind |-> "rotateKeys", old |-> "k1", new |-> "k2"],
   [kind |-> "rotateKeys", old |-> "k2", new |-> "k1"],
   [kind |-> "updateProvider", provider |-> p2, apiKey |-> "new"],
   [kind |-> "createProvider", provider |-> p2, status |-> "DISABLED"],
   [kind |-> "deleteModel", model |-> m2],
   [kind |-> "deleteProvider", provider |-> p2],
   [kind |-> "testProvider", provider |-> p2],
   [kind |-> "execute", task |-> t1]}

MemberRequests ==
  {[kind |-> "initAdmin", user |-> u1],
   [kind |-> "createProject", user |-> u1],
   [kind |-> "updateProject", status |-> "archived"],
   [kind |-> "deleteProject"],
   [kind |-> "setStatus", user |-> u2, status |-> "DISABLED"],
   [kind |-> "addMember", user |-> u2, role |-> "VIEWER"],
   [kind |-> "updateMember", user |-> u1, role |-> "EDITOR"],
   [kind |-> "updateMember", user |-> u2, role |-> "OWNER"],
   [kind |-> "removeMember", user |-> u1],
   [kind |-> "removeMember", user |-> u2]}

SettingRequests ==
  {[kind |-> "patchSettings", groups |-> <<"upload", "concurrency">>,
    patch |-> "upload" :> ("a" :> 2) @@ "concurrency" :> ("a" :> 2)],
   [kind |-> "patchSettings", groups |-> <<"upload">>, patch |-> "upload" :> ("b" :> 1)],
   [kind |-> "patchSettings", groups |-> <<"retention">>,
    patch |-> "retention" :> ("a" :> Unset @@ "b" :> 3)],
   [kind |-> "applyLimits", group |-> "upload"],
   [kind |-> "applyLimits", group |-> "concurrency"]}

\* Users come to what a task asks for, and lose it.
AdmissionRequests ==
  {[kind |-> "createTask", user |-> u1, task |-> t2, type |-> "generate", inputs |-> 0,
    outputs |-> 1],
   [kind |-> "createTask", user |-> u2, task |-> t2, type |-> "edit", inputs |-> 1,
    outputs |-> 1, provider |-> p1, model |-> m1],
   [kind |-> "replaceAccess", user |-> u2, models |-> {m1}],
   [kind |-> "replaceUserRoles", user |-> u2, roles |-> {custom}],
   [kind |-> "replacePermissions", role |-> custom, permissions |-> {}],
   [kind |-> "setDefaults", provider |-> p1, model |-> m1],
   [kind |-> "updateModel", model |-> m1, status |-> "DISABLED"],
   [kind |-> "deleteModel", model |-> m1]}

\* Workers execute a task while the catalog changes.
ExecutionRequests ==
  {[kind |-> "execute", task |-> t1],
   [kind |-> "execute", task |-> t3],
   [kind |-> "recoverTimedOut", task |-> t1],
   [kind |-> "updateModel", model |-> m2, status |-> "ENABLED"],
   [kind |-> "updateModel", model |-> m1, provider |-> p2, name |-> n2],
   [kind |-> "updateModel", model |-> m1, status |-> "DISABLED"],
   [kind |-> "updateProvider", provider |-> p1, status |-> "DISABLED"]}

\* The API and the worker of a new version start.
StartRequests ==
  {[kind |-> "startAPI"],
   [kind |-> "startWorker"],
   [kind |-> "initAdmin", user |-> u1],
   [kind |-> "replaceAccess", user |-> u2, models |-> {m2}]}

\* The first tenant is the second in order, and every stage fails for one.
MaintenanceRequests ==
  {[kind |-> "maintain"]} \cup {[kind |-> "provisionTenant", tenant |-> t] : t \in {1, 3}}

\* Two objects in the first of three buckets, one of them known, and one in the last.
MCObjects == {<<1, 1>>, <<1, 2>>, <<3, 1>>}
MCReferenced == {<<1, 1>>}
ScanRequests ==
  {[kind |-> k, limit |-> n] : k \in Scans, n \in {1, 2}}

AllWorkloads ==
  {UserRequests, CatalogRequests, KeyRequests, MemberRequests, SettingRequests,
   AdmissionRequests, ExecutionRequests, StartRequests, MaintenanceRequests, ScanRequests}
MemberWorkload == {MemberRequests}

=============================================================================

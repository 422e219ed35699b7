# TLA+ models of Amazon AI Product Image Studio

The program is a multi-tenant studio for product images: a Go API (`src/backend/cmd/api`), a Go worker
(`src/backend/cmd/worker`), MySQL for every fact, Redis for delivery, concurrency leases and short-lived
guards, MinIO for image bytes, and a React client that follows the events of a task. These modules model the
parts whose correctness depends on the order of steps of several actors, and the calculations that several of
them have to agree on.

## Inventory

| component (source under `src/backend/`) | state | operations | interacts with |
|---|---|---|---|
| reliable task queue (`internal/queue/reliable_queue.go`) | Redis: ready list, processing list, claim times, delayed set, dead letters, delivery counts | push, claim (two round trips), acknowledge, delay, dead-letter, recover stale claims, promote, repair | called by API handlers, worker loops, recovery |
| task API service (`internal/task/service.go`, `validation.go`) | rows `generation_tasks`, `task_events` | create after reading grants, defaults and capabilities; cancel, retry, and the push after the commit | pushes to the queue; races with the worker over the row |
| task worker (`internal/task/worker.go`, `provider_runtime_executor.go`) | the same rows; in memory: the claim, the attempt, the lease | claim, validate, start, execute, time out, retry, complete, fail, settle; recovery loop | queue, limiter, provider adapter, output persistence |
| provider adapter (`internal/provideradapter`) | temporary files of images | one call of a provider, parsed while it arrives or afterwards | executor |
| provider attempt ledger (`task/provider_runtime_attempt_ledger.go`) | `api_call_logs` of an execution | begin, finalize with the answer and the end of the context | executor, recovery |
| output persistence (`internal/task/runtime_persistence.go`) | `image_assets`, `task_outputs`, `usage_records`, MinIO objects | check the row, reserve quota, put objects, commit, clean up | quota, object store, task rows |
| usage and cost (`internal/usagecost`) | none | estimate, sums and averages of reports | output persistence, reports |
| concurrency limiter (`internal/queue/concurrency.go`) | Redis: one sorted set of leases per dimension, the set of keys | acquire key by key with rollback, renew, release, reap | worker loop and recovery |
| storage quota (`internal/settings/quota.go`) | `storage_quota_counters`, `storage_quota_reservations` | reserve, finalize, release, decrement, reconcile | uploads, outputs, purge, maintenance |
| assets and their cleanup (`internal/asset`) | `image_assets`, MinIO objects | upload, delete, purge after retention, orphan cleanup and its walk | quota, maintenance, administrators |
| worker maintenance (`cmd/worker`) | the round, the cursor of the quota stage | purge, log retention, reconcile per tenant | assets, quota, provisioning |
| event stream (`internal/sse`, `queue/task_event_wakeup.go`) | `task_events`, the cursor of a stream, the channel of its subscription | replay after a sequence, wake-ups, heartbeat, revalidation | task rows, sessions, memberships, browser |
| providers and models (`internal/provider`, `internal/model`) | `ai_providers`, `ai_models`, encrypted keys | create, update, default, disable, delete, test, key rotation | task admission, worker |
| users and roles (`internal/useradmin`, `internal/auth`) | users, roles, permissions, grants of models | first administrator, status, roles, permissions, grants | every request |
| sessions (`internal/auth`) | session version, login counters, captchas | log in, log out, change the password, revoke | every request |
| projects (`internal/project`) | projects, members | create, change, delete, share | assets, tasks |
| tenant settings (`internal/settings/service.go`) | a row per group of settings | read with defaults and caps, PATCH | quota, limits, retention |
| schema and start (`internal/database`, `internal/auth/bootstrap.go`, `cmd`) | tables, `schema_migrations`, built-in roles | migrate under a lock, verify, reconcile roles, become ready | deployments |
| audit and analytics, configuration, router, web client, deployment scripts | see `PROJECT.json` | | |

What makes the system hard:

* Delivery is at least once, and MySQL and Redis share no transaction: a push may be lost or doubled, a claim
  may be handed on while its first loop still works, and a loop may act on a row that has moved on.
* Users cancel and retry while loops execute, and provider calls cannot always be interrupted.
* An upload is several steps over two stores, with a reservation that may expire under it; deletions, purges
  and the orphan cleanup work on the same objects.
* Errors are ambiguous: a script or a commit that reports an error may have happened.
* Transactions of administrators count, look up and compare rows that others change, under two isolation
  levels, with no index behind many of the rules; workers and streams read the same rows without locks.
* Processes start, stop and are replaced at any moment, in the middle of a migration, a rotation of keys or a
  round of maintenance, and the old version of a setting meets the new one of a process.

What correctness means, by component: *tasks*: each time a task is opened it is executed once at most, its row
and its events agree, what has ended stays as it ended, a task settles, Redis does not accumulate copies.
*Executions*: what is executed may be executed, outputs come from a call the ledger knows, costs are the
nearest, nothing temporary stays. *Quota*: the counter agrees with rows and reservations, the limit holds, no
reservation stays for ever. *Assets*: an accepted asset keeps its objects, a purged one has none, a deleted one
is purged in the end, no orphan is overlooked. *Limiter*: no more leases than the limit, no slot lost for ever.
*Event stream*: in order, once, no status change skipped, closed with the session. *Administration*: a tenant
keeps an administrator, a project an owner, models have providers and names of their own, keys stay readable,
limits below the caps. *Sessions*: who is admitted knew the password, what is revoked stays revoked. *Start*: it
recovers from every death or refuses. The hazards of `PROJECT.json` place these at their lines.

## Modules

| module | models |
|---|---|
| `ReliableQueue` | every Redis command and Lua script of task delivery, one operator each |
| `TaskSystem` | API handlers, worker loops, recovery and time over `ReliableQueue` and the rows of MySQL |
| `TaskLifecycle` | the abstract specification: a task as a series of openings |
| `TaskProperties` | what `TaskSystem` is checked against, with `TaskLifecycle` as an instance |
| `TaskSystemProofs` | theorems about `TaskSystem` |
| `AssetStorage` | uploads, quota counter and reservations, purge, orphan cleanup, reconciliation |
| `AssetStorageProofs` | theorems about `AssetStorage` |
| `ConcurrencyLimiter` | the Redis commands and Lua scripts of the concurrency limits |
| `LeasedExecution` | acquisition, execution with its renewal goroutine and release over `ConcurrencyLimiter` |
| `LeasedExecutionProofs` | theorems about `LeasedExecution` |
| `TaskEventStream` | event transactions, the wakeup, one stream and the browser that reconnects |
| `TaskEventStreamProofs` | theorems about `TaskEventStream` |
| `Sessions` | the sessions of one account, the login limiter and the captchas |
| `SessionsProofs` | theorems about `Sessions` |
| `Transactions` | requests as transactions with row locks, for the modules below |
| `UserAdministration` | first administrator, users, roles, permissions |
| `ModelCatalog` | providers, models, defaults, key rotation and deployment, provider tests |
| `ProjectMembers` | one project, its members and owners |
| `TaskAdmission` | grants of models, the creation of a task, the execution context of a worker |
| `ProviderAdapter` | one call of a provider and its temporary images |
| `UsageCost` | amounts, prices, estimates, sums and averages |
| `ProviderAttempts` | an execution with its ledger, its outputs and its usage, over the two above |
| `TenantSettings` | groups of settings, PATCH, caps of the deployment |
| `DatabaseStartup` | migrations, schema checks, built-in roles, readiness |
| `Maintenance` | rounds over all tenants, provisioning |
| `OrphanScan` | the walk through the pages of orphans |
| `Administration` | the composition of the modules from `Transactions` on in one database, and their properties |
| `AdministrationFrames` | how every transaction of `Administration` moves and what it leaves alone; theorems on locks, limits, temporary images, the orphan walk and the maintenance |
| `CatalogProofs` | theorems about providers, models, defaults and keys in `Administration` |
| `AdministrationProofs` | theorems about administrators, grants, executions, their costs, starts and all types in `Administration` |
| `MC...` | model values, workloads and symmetry for the runs |

### The task system

*Openings.* An opening is a commit that leaves a task QUEUED: its creation, a retry by a user, a retry by the
worker. The code numbers them by `attempt`, but the number is no identity: `retryTask` and `scheduleRetry` read
the row without a lock, update it on its status alone, and write one more than what they have read. A retry that
is overtaken by a cancellation and other retries writes a number that was used before, or goes back from 3 to 2.
So the models count openings, and an attempt is what an opening says of itself.

*State.* `status`, `overdue` (has `timeout_at` passed), `output` are columns of `generation_tasks` and what
hangs on it; `events[t]` has for each opening of `t` its attempt and where the events of `task_events` leave
it, and the attempt of the row is that of the last one. `deleted` are the projects with `deleted_at`. `queue`,
`processing`, `claimTime`, `delayed`, `deliveries` are the Redis structures. An API handler is `call` (between
the read and the update of its transaction, between the commit and the push, between a failed push and the
update that records it), `target` (its task) and `seen` (the opening a retry has read). A worker loop is `pc`
(its place in `runProcessingLoop` and `Process`), `job` (its claim) and `run` (the opening it started or, in
`scheduleRetry`, has read). `expiring` are the tasks a recovery loop has listed as overdue.

*Actions.* A step is one command, one script, or one transaction; the transactions that read a row for the
decision they then write are two: `ReadForCancel` and `CancelTask`, `ReadForRetry` and `RetryTask`,
`FindForRetry` and `ScheduleRetry`. `CreateTask` is one, since nobody sees the task before its commit. `Pop` and
`Claim` are the two round trips of `RedisReliableTaskQueue.Claim`; `LoadSnapshot`, `FailInvalid`,
`ClaimRunning`, `Execute`, `TimeOutTask`, `FailRunning`, `FindForRetry`, `ScheduleRetry`, `CheckResult`,
`StoreOutput`, `CompleteTask` are `WorkerProcessor.Process` in its order; `AckClaim`, `Requeue`,
`MarkQueueFailure` are `applyResult`; `PromoteDelayed`, `RecoverClaim`, `RepairDelivery`, `ListOverdue`,
`TimeOutListed` are `Recover`. `Close` is the update that is conditional on the status, with its event; `Finish`
is a caller of it that accepts a row with another status; `Reopen` is the pair of updates of a retry.

`DeleteProject` is `deleteProject` of `internal/project`, which leaves the tasks as they are. `LoadSnapshot`
then acknowledges a waiting task (`ErrNotFound`), which stays QUEUED; `authorizeTask` refuses to cancel or to
retry it.

*Abstractions.* `RETRYING` never survives the transaction that writes it. The processing list is a bag, since
the scripts only ask whether an identifier occurs and remove one. Claim times are fresh or stale; a backoff may
end at any moment; the order of recovery within a round is left open, because several worker processes recover
side by side. The concurrency lease is a choice in `LoadSnapshot` (limited), in `Execute` and `FailRunning`
(lost); `LeasedExecution` has the steps that this choice stands for. A provider or a model that is gone is
`ErrValidation`, and delays the claim, as the choice in `LoadSnapshot` does; tenants are never deleted.

### The storage of assets

*State.* `upload[a]` is the place of the upload of asset `a` in `uploadAsset`, or in `persistSuccessfulResult`
for the output of a task; `row[a]` is its row (`expired`: deleted before the cutoff of the retention);
`stored` are objects in MinIO, `aged` those older than the grace period, `suspects` those an orphan cleanup has
found without a row and not yet removed. `reservation`, `overdue`, `used`, `reserved` are the quota tables;
`listed` and `emptied` are the batch of a purger.

*Actions.* `Reserve`, `PutImage`, `PutThumbnail`, `Commit`, `Clean`, `Release` are an upload; `CommitNothing`
is the output of a task that is no longer running; the `...Fails` actions are errors, each with every effect
the call may have had. `ListCandidates`, `PurgeObjects`, `MarkPurged` are a purge, `Suspect` and `RemoveOrphan`
an orphan cleanup. `Reconcile` is `ReconcileStorageQuotaCounterWithResult`.

*Abstractions.* Every transaction on the quota locks the row of the counter first, or inserts the asset and
then locks it, and reads the sums after the lock, so transactions are atomic. A step that leaves an object
removal and the next one apart would only add states in which fewer objects are gone: the two removals of one
candidate are one step without a fault, and `PurgeObjectsFails` and `CleanFails` have the halves. `Bytes`
counts pairs of an asset and a byte number, so that a sum of sizes is a cardinality the provers know about. An
upload has one image; a result with several outputs shares one reservation in the code, which is left out.
Files without bytes reserve nothing in the code; sizes are positive here. `ObjectAges` assumes that an upload
is over within the grace period of the orphan cleanup, which is one hour at least and a day by default, while
requests and provider calls end after minutes.

### The concurrency limits

*State.* `members[k]` is the sorted set of a dimension, `lapsed` are the leases whose score is in the past,
`known` are the keys the reaper visits. Each lease belongs to one call of `Process`: `place` is where the call
is, `taken` the length of `lease.Keys`, `freed` what `Release` has given back, and `renewal` the goroutine of
`startConcurrencyLeaseRenewal`.

*Actions.* `AcquireKey` and `Register` are one round each of the loop in `Acquire`, which gives back what it
has when a key is full; `Start` is the outcome of `claimRunning`; `Tick`, `Renew` and `RenewalStops` are the
goroutine, beside `ExecuteReturns`, `StopRenewal` and `Persist` of `Process`; `Release` gives back one key.
`AcquireFails`, `RegisterFails`, `RenewFails` and `ReleaseFails` are errors that come before or after the effect
of the command, `ProcessDies` a crash. `Lapse` is time, `Expire` the TTL of a key, `Reap` one key of
`ReapStale`.

*Abstractions.* A lease has one score in all its keys, as `Acquire` and the renew script give it, and workers
agree on what is past. `Lapse` may come at any time, so a renewal may always be too late, and may revive a
lease that nobody has removed. A dimension without a limit has no key in the code; `GlobalConcurrency` is at
least 1, so a lease has a key. The limits are constants: `acquireConcurrency` reads them again for each lease,
and after a limit is lowered older leases keep their slots until they end, by design
(`docs/task-queue.md:79`). The model stops renewing where the code does, before the outputs are stored; what
lapses after that is noticed by nobody.

### The event stream

*State.* `tx[w]` is the place of a transaction that writes one event, `num` its AUTO_INCREMENT number; `stream`
is where `StreamTasks` is, `cursor` its `queryCursor`, `wakeups` the channel of its subscription, `out` the
frames under way, `received` what the browser has got. `session` and `member` are what the principal is
checked for.

*Actions.* `UpdateTask`, `CreateEvent`, `CheckForeignKey`, `Commit` and `Rollback` are a transaction with the
locks that order it: a status change locks the row of the task before it takes a number, a progress event asks
for a shared lock after. `PublishTaskEvent` sends the wakeup through Redis, or loses it. `StreamTasks`,
`Heartbeat`, `Notified`, `RevalidatePrincipal` and `ReplayVisibleEvents` are the loop of the handler;
`Disconnect` and `LastEventId` are the browser. Numbers become visible out of order, which is the heart of the
module: `NoStatusSkipped` holds on a stream of one task thanks to the row lock, and `NothingSkipped` fails on a
stream of all tasks.

### The administration

`Transactions` gives each connection one request at a time, with the statement it has completed (`step`) and
the rows it has locked. `ReadShared` is a read of a SERIALIZABLE transaction, `ReadForUpdate` a SELECT ... FOR
UPDATE, `Read` a plain read. Writes are applied with the commit, where their locks are asked for. A statement
that must wait is not enabled; `RollbackRequest` may happen at any time and stands for refusals, deadlocks,
time-outs, lost connections and deaths. What a transaction of REPEATABLE READ reads twice and may see in two
versions is kept (`seen` in `ProjectMembers`, `plan` in `TaskAdmission`); elsewhere the first plain read comes
after the locks, so the snapshot is the present. Locks of foreign keys and most gap locks are left out, so the
model allows more interleavings than MySQL, and what it proves safe is.

The state of all modules is one database. Which requests are made is the `workload`, a set chosen at the start:
three requests out of it interleave on two connections. A workload collects the kinds of request that can
disturb each other; `MCAdministration` has ten, and every kind of request is in one of them. Background actors
are requests of their own: a worker that executes a task, the loop of the maintenance, a process that starts.

*Users, catalog, members.* One action per statement that reads for a decision, and one for the commit, in the
order of the handlers of `useradmin`, `provider`, `model`, `settings` (defaults) and `project`. `Deleted`
stands for a soft-deleted row. `LockAllProviders` and `Rotate` are the rotation of keys; `Paused` is the rule of
`deploy/RUNBOOK.md` that providers are not written between a rotation and the deployment, `DeployCipher` the
deployment. Executions go on in between and fail, as in the code.

*Admission and execution.* `Authenticate` reads roles before the transaction, `AdmitTask` everything else in
its snapshot, `CreateTask` inserts what was planned. A worker reads project, provider and model with one query
each (`FindTask`, `FindTaskProvider`, `FindTaskModel`). `ProviderAttempts` continues in the executor:
`BeginAttempt` writes the row ATTEMPTING, the adapter speaks to the provider, `FinalizeAttempt` writes the
outcome with a context of its own, and the `End...` actions, `PersistSuccessfulResult`, `OutputInvalid`,
`CostOverflows` and `CompleteTask` are `Process` afterwards. `Interrupt` ends the context of an execution at any
moment; each step asks for it where the code does. Delivery and leases are left to `TaskSystem` and
`LeasedExecution`. `UsageCost` computes in integers: an amount is a number with digits behind the point and an
exponent, valued in units of the smallest amount; in the run a cost has 1 decimal place for the 8 of the code,
and an amount up to 2 for 64.

*Settings.* A group of settings has two fields and is validated and read in one of three ways: cut down to the
cap (uploads), refused above it (concurrency), or with optional fields of a fixed range (retentions).
`LoadGroup` reads outside of the transaction that `UpdateGroup` overwrites the row in. `DeployCaps` replaces
the processes; `ApplyLimits` is an upload or a worker that goes by a limit.

*Start.* `Migrations` is a list of lists of statements: a base, later columns and an index, and the grants with
their backfill, which is one of each kind in `migrations.go`. The database at the start is that of any earlier
version, whole or with one object lost. `AcquireMigrationLock` is GET_LOCK; every statement commits by itself.
`served` are the processes of the new version; requests are served by those.

*Maintenance.* `runOnce` with its three stages. That every tenant has its turn is stated as bounded waiting
(`waited` counts the listings since its last one), which is stronger than a liveness property and needs no
fairness. A restart forgets the cursor and begins to count again: a worker that never survives a round promises
nothing.

*Orphan walk.* One request per page, over several buckets; objects come, age and go between any two steps. The
single inspection is that of `AssetStorage`.

### The sessions

*State.* `version`, `password`, `active` and `admin` are the row of one account; `failures` is the counter of
the login limiter, `captcha` the store of captchas in Redis, `tried` how many codes were compared with each.
`step` is the place of each client's request, `seen` what it has read, `token` its cookie, `issued` all
sessions ever issued. Two variables are histories that no action reads: `compared` counts the passwords compared
since the counter was last zero, `missed` says that a login has ended after its comparison without the counter.

*Actions.* The statements of `login`, `changePassword`, `logout` and of the middleware, one action each;
`ConsumeDigest` is GETDEL. `Fail` ends a request anywhere. Passwords are compared as values; tokens that expire
by time are left out, as they are admitted for less time only.

## Runs

| run | bounds | shows |
|---|---|---|
| `task_safety` | 1 task, 2 attempts, no limit of deliveries; in three crews: 2 loops and 1 request; 1 loop, 2 requests and 1 fault; 1 loop, 1 request, 1 fault and deadlines | `OneExecutionPerOpening`, `EventsTellTheRow`, `DeliveryBound`, and that the system implements `TaskLifecycle` |
| `task_liveness` | 1 task in a project that may be deleted, 1 loop, 1 handler, 2 attempts, 1 delivery, 1 fault | `TaskSettles`, `RedisDrains`, when a process dies or a call fails anywhere |
| `storage` | 2 assets, quota of one, 2 purgers, 1 fault | `CounterExact`, `QuotaRespected`, `AcceptedHasObjects`, `PurgedIsGone`, `ReservationsEnd`, `DeletedIsPurged` |
| `lease_limits` | 2 executions of one tenant that admits one, 2 dimensions, 2 faults | `ExecutionsLimited`, `ValidLeaseIsBacked`, `LostLeaseFails`, `SlotsComeBack`, `LostExecutionEnds` |
| `stream` | 2 status changes and a progress event of one task and another, replays of 1 event, a channel of 1, 1 disconnection | `ReceivedInOrder`, `NoStatusSkipped`, `StatusArrives`, `RevokedStreamEnds` |
| `sessions` | 2 clients, 2 passwords, 2 captchas, a limit of 1 failure, 2 revocations | `SessionsKnowPassword`, `GuessesAreBounded`, `RevokedStaysRevoked` |
| `administration` | 2 connections, 3 transactions, ten workloads | the sixteen properties of `Administration`, below |
| five runs that end in a violation | see Findings | statements of the documentation that the code does not keep |

| properties of `administration` | workload |
|---|---|
| `AdminRemains`, `GrantsAreLive` | users and roles on an empty or a set-up database; grants of models |
| `ModelsHaveProviders`, `ModelNamesUnique`, `DefaultsUsableWhenSet` | catalog |
| `KeysUnderOneCipher` | rotation with other writes of providers |
| `LimitsWithinCap` | PATCHes and limits at work, two caps |
| `ValidatedContextIsUsable` | executions, and admissions, while the catalog changes |
| `OutputsAreLedgered`, `TemporaryImagesRemoved`, `CostsAreNearest` | executions |
| `GrantsAreNotRevived`, `StartsRecoverOrFailClosed` | starts of an API and a worker |
| `NobodyIsPassedOver` | rounds of maintenance beside provisioning |
| `ScanReachesEveryOrphan` | scans and cleanups |
| `AdminTypeOK` | all |

*What three properties leave out.* `TaskSettles` excepts a task that waits in a deleted project (`LeftBehind`):
`ReconcileDelivery` pushes it, a loop acknowledges it, and so on for ever. `OneExecutionPerOpening` is about
openings; two loops may well execute attempts of one number, which is the finding `transaction_races`.
`GuessesAreBounded` is about the counter of one tenant, email and address from one zero to the next: a
successful login and the end of the window begin a new one, and as soon as a login ends between the comparison
and the counter (a request that dies, an error of MySQL or Redis) only the counter is bounded, and no longer the
comparisons.

*Bounds.* Tasks share nothing but the order of the ready list, so one task shows what two loops, handlers and
recovery can do to it. Two attempts are the least with a retry, and a stale result or a stale retry then meets a
later opening. A number that is read late repeats then; it goes back only from three attempts on, where openings
are without end, so no run has three and the theorems cover them. Two handlers are the least of which one
overtakes the other. All of it together is too much for a run, so `MCTaskSafety` chooses a crew at the start:
two loops that race with a user and with recovery; two users whose retries overlap while a push may fail; and
deadlines. A delivery limit of 1 makes dead-lettering happen within reach in `task_liveness`; in `task_safety` a
limit would keep the second loop from its claim. The theorems cover every number of loops, requests, faults and
deliveries. Without a limit of deliveries, `TaskSettles` would fail for a task that is delayed for ever, as one
whose provider is gone is. Two uploads compete for a quota of one, and two purgers are the least that can
overtake each other. One fault at any step gives every single failure; the theorems cover any number. Two leases
that meet in the second of two dimensions show a partial acquisition that is taken back, and two faults let an
unanswered script be followed by a failed release or a crash.

With two status changes and a progress event every order of numbers and commits occurs; a replay of one event
and a channel of one notification are full at once, so batches and lost wakeups happen; after one disconnection
there is a second stream that begins with `Last-Event-ID`. Two clients are the least that overlap, and two
revocations the least that a session which is about to be issued can miss.

Two connections are the least that interleave and three transactions the least in which one commits between two
steps of another that a third has prepared; each race that a mutant of the locks brings back is found within
them. An answer has up to two images, so that a failure may come when one is there. Three tenants, of which
every stage fails for the middle one and the batch has room for one, let the cursor wrap around, meet a failure
and be overtaken by a new tenant before it. Three objects in the first and the last of three buckets, with
pages of one and two, end pages inside of a bucket, at its end, and in the empty one. Two usages and five
pricings make an exact cost, one in the middle between two, a price by two names, one that is missing, one
beyond the limit and a cost that does not fit its column.

In the task system and in storage users, time, recovery and maintenance always have a step to take, so these
runs check for deadlock. The others do not: leases, writers, transactions and revocations are used up, and
everything comes to rest.

*Fairness.* Of the task system: a loop whose process is up goes on, handlers end, recovery comes round
(`runRecoveryLoop`), and time passes. Strong fairness is asked for `Claim`, and for `GiveUp` and `AckClaim`
while the claim is still the loop's own: recovery wakes every `TASK_RECOVERY_INTERVAL` (30 s by default) and
does not fall between two consecutive commands of a loop every single time. Users and faults owe nothing. Of
storage: `retentionMaintenanceRunner.run` purges and reconciles on every tick, so purgers and `Reconcile` are
weakly fair, as is time; the tenant has enabled its retention. Uploads and orphan cleanups owe nothing: an
upload may stop anywhere, and `ReservationsEnd` holds all the same. Of the limits: the ticker of the renewal
fires and its call ends, with a timeout of five seconds at most; a lease that nobody renews lapses; keys expire
and recovery reaps; and a provider call returns after its context is cancelled, which the deadline of the task
does for every execution. Acquisition, storing and release owe nothing. Of the stream: the handler runs, its
ticker fires, frames arrive, and the `EventSource` of the browser opens a stream again that has broken off.
Writers, wakeups and the network owe nothing. The administration and the sessions are checked for safety only:
what an administrator wants may be refused for ever.

## Proofs

Every theorem holds for any values of the constants that satisfy the `ASSUME`s of the modules. Each rests on an
inductive invariant: what the property says, and what a process knows between two of its steps, without which
the next step could break it.

`TaskSystemProofs`, for any number of tasks, loops, attempts, deliveries and faults:

* `TypeCorrect`: `TypeOK` is inductive. The interesting part is `ReadsTypeOK`: what a handler or a loop has read
  is still an opening of its task when it writes, in an attempt below `MaxAttempts`, so no number gets beyond
  it, however stale the read. It holds as openings are never taken away (`OpeningsKept`).
* `EventsAreRight`: every step changes a row in one of a few ways (`RowStep`: a conditional close, a start, a
  further opening, a creation), and each keeps the row and its events together.
* `Exclusion`: `RunStep` says how steps change what loops remember. `ExclusionInv` adds `RunsAreTaken`: while
  the last opening is somebody's, the task does not wait. A start takes the last opening of a task that waits,
  so nobody can have it; a further opening is nobody's; and a loop in `scheduleRetry` lets its opening go.
* `Refinement`: a `RowStep` is a step of `TaskLifecycle` or leaves it alone; a retry counts on from the opening
  that was read.
* `CopiesAreBounded`: `CopiesInv` counts the copies of a task in Redis and the handlers that owe one (`CopyStep`
  and the finite sets of `PushersFinite`) against the openings that users asked for (`Requested`), of which
  there are never less. Claims, delays, promotions and recoveries only move a copy; a handler that begins to owe
  has added an opening, stale or not; a push pays what was owed; a repair of a task with no copy adds one.

`AssetStorageProofs`, for any assets, sizes, quota, purgers and number of faults:

* `StorageTypeCorrect`: `StorageTypeOK` is inductive.
* `QuotaIsKept`: `CounterInv` adds `UploadsInOrder` (an upload that has not committed has no row, and one that
  has not started no reservation) to `CounterExact` and `QuotaRespected`. Lemmas on `Bytes` give the sums after
  one asset joins or leaves; every transaction then adds and subtracts the same bytes on both sides.
  `QuotaIsNeverPassed` is a corollary.
* `ObjectsAreKept`: `ObjectInv` adds that an upload past its puts has its objects, that suspected objects
  belong to uploads that are over and not live, and that a purger only holds assets that are expired or purged.
  `PurgedAreGone` is a corollary.

`LeasedExecutionProofs`, for any leases, dimensions, keys, limits and number of faults:

* `ExecutionTypeCorrect`: `TypeInvariant` adds to `ExecutionTypeOK` that nothing is given back before the
  release begins, without which a release could go beyond the slots that were taken.
* `LimitsAreKept`: `LimitInvariant` adds `SlotsLimited` (no key holds more leases than it admits, since only the
  acquire script adds one) and `SlotsBacked` (a lease that has not lapsed is in every key acquired so far, while
  its call is active). Executions with a valid lease are then members of the key, and there are not too many.
  `LeasesAreBacked` is a corollary.
* `LostLeases`: `RenewalInOrder` says that the goroutine is over, without an error, when a result is persisted.

`TaskEventStreamProofs`, for any number of transactions, tasks, replays, channels and disconnections:

* `StreamTypeCorrect`: `StreamTypeOK` is inductive.
* `FramesComeInOrder`: `OrderInvariant` adds that the frames on the way lie between the last one the client has
  received and the cursor, and that no stream begins behind the client.
* `StatusIsStreamed`: `LockInvariant` says that row locks exclude each other and that a transaction which has a
  number and writes the status of a task has a higher one than all that is committed of the task;
  `SkipInvariant` that the cursor is behind every such number. The theorem assumes a stream of one task
  (`Filter = {t}`): `stream_skips` shows that the property fails for a stream of all.

`SessionsProofs`, for any number of clients, passwords, captchas, revocations and any limit of failures:

* `SessionsTypeCorrect`: `TypeInvariant` adds that a login which has compared the password has read the row.
* `PasswordIsKnown`: `KnowledgeInvariant` says of every session that is issued or read that its version is not
  ahead of the row, and that a session of the version in force has the password in force.
* `RevocationIsFinal` follows, as versions only grow.
* `GuessingIsBounded`: `FailuresInvariant` counts the failures with the logins that may still become one
  (`Pending`), which the check lets in below the limit only, and the comparisons against the failures and the
  logins that have compared and are not counted yet (`Compared`), for as long as none of these has ended
  (`missed`). `CaptchasInvariant` says that a captcha that is still in the store has not been compared with.

`AdministrationFrames`, for any workload, connections, numbers of transactions and contents of the tables, as the
next two:

* `LocksExclude`: `TxInv` (types of requests, and no two connections with conflicting locks) is kept by every
  statement. The lemmas `...Move` say of each of the modules which steps of a transaction it goes between; the
  proofs below only look at the statements of a property and leave the others to these lemmas.
* `LimitsAreCapped`: what is in force is the least of the cap and the row, whoever wrote that and under which
  cap.
* `ImagesAreRemoved`: every way out of the adapter passes its removal of the files.
* `OrphansAreReached`: `ScanInv` says that an orphan the walk has not shown is beyond its cursor, or, during a
  request, on the page that is looked at or beyond the last key of it. The pages are prefixes of an ordered set
  (`PageIsPrefix`), and buckets are taken in order (`BucketsAreOrdered`).
* `NobodyWaitsForLong`: `TurnsInv` measures how far a tenant is from the one that was reconciled last, around
  the rotation. A listing adds one to what a tenant has waited and brings it nearer by one at least, as a batch
  is what comes next (`AfterIsPrefix`, `BatchIsNext`); the sum never exceeds the number of tenants. Who is
  provisioned in between has not waited, wherever its place is.

`CatalogProofs`:

* `ModelsKeepProviders`, `NamesStayUnique`, `DefaultsAreUsable`: `Knows` is what a transaction has found out and
  locked at each of its steps: the provider it locked is there, what it counted is zero, the name it searched
  is free. `Disciplined` is what a commit leaves alone of rows that others have locked, and so of what they
  know.
* `KeysStayTogether`: `KeysInv` adds that a rotation runs beside no other write of providers (the rule of
  `deploy/RUNBOOK.md` that `Paused` models), so that the set it has locked is all there is.

`AdministrationProofs`:

* `AdministratorRemains`: `UsersInv` adds what the checks have found: before the first commit there is no user;
  and whoever ends an administrator has another one whose row and grants it has locked for reading, which
  excludes a second one that does the same the other way round.
* `GrantedIsLive`: `GrantsInv`, the roles or models that were found live are locked until the commit.
* `ContextsAreUsable`: `TasksInv` adds that provider and model of a task never change and that the context
  agrees with them; nothing is locked, and it is the order of the reads with `ModelsHaveProviders` that makes
  the context usable.
* `StoredComesFromSuccess`: `LedgerInv` adds that the row of a call under way is the one it has added itself and
  ATTEMPTING, and that no two executions of a task share one.
* `StartsRecover`, `StartsReviveNothing`: `StartsInv` says what of the schema is there at each statement: what
  was recorded is there or lost, what a process has been through is there, and who is past the check has all.
* `CostsStayNearest`: `ChargedInv` says that a row of usage is what `Estimate` returns for prices and a usage it
  was given, and that a task has one row at most. The rest is arithmetic: the powers of ten of `Ten` are positive
  (`TenIsPositive`), halves round to a decimal that is nearest, and what is written for a cost or a sum is read
  back as the same number of units. The sum of a report is a fold over the tasks. The induction theorems of the
  library take an operator and cannot be used, so the inductions are over sets of naturals instead, from the
  least number that is not in one, and sums are split by parts of the domain.
* `AdministrationTypeCorrect`: `AdminTypeOK` is not inductive in six of its parts. A request says what its kind
  may say (`RequestSays`), and only while it is served is a plan or a context remembered (`NothingIsLeft`); a
  PATCH that has read a group has a group left to write (`PatchTypes`); no migration is defined twice, so what a
  start defines again was not lost (`StartTypes`); who provisions a tenant has seen the first one, which thus is
  not provisioned again (`ProvisionTypes`); and a page that does not show everything ends at a key that exists
  (`WalkTypes`). The bound of the waiting is `NobodyWaitsForLong`, the empty page after a walk is in `ScanInv`.

Assumptions on constants: finite `Assets`, `StoredObjects` and such sets, positive sizes, batches and limits, a
quota, at least one dimension, and bounds that are naturals. For `Administration` there are also the types of
the rows the database starts with, which their columns have (`CatalogAssumption`, `SettingsAssumption`,
`AdmissionAssumption`), migrations that are finite lists (`StartupAssumption`) of which no two define the same
object (`ObjectsAssumption`: in `migrations.go` no table, column or index is created twice), usages that are
integers and prices written with natural numbers (`AttemptsAssumption`), fewer places behind the point than an
amount has digits (`CostAssumption`), and that requests name fields of the right type (the
`...RequestsAssumption`s), which decoding and the validation of requests see to. The type invariants of storage,
limits and tasks are left to the proofs and are in no run.
`HandlersAssumption` has finitely many requests at a time, which counting those that owe a push needs.

Every invariant and every action property of a passing run is a theorem, and so is the refinement of
`TaskLifecycle`. Only model-checked:

* Liveness under fairness, which is out of the prover's reach: `TaskSettles`, `RedisDrains`, `ReservationsEnd`,
  `DeletedIsPurged`, `SlotsComeBack`, `LostExecutionEnds`, `StatusArrives`, `RevokedStreamEnds`.
* The runs that end in a violation.

## Findings

* `cancelled_output`: `persistSuccessfulResult` asks whether the task is running, not whether the attempt is:
  the result of a cancelled attempt is stored while the next attempt runs, which it can then complete
  (`docs/task-queue.md:172`).
* `transaction_races`: `scheduleRetry` reads the attempt without a lock, and can open the task again under the
  number of an attempt that is being executed, so that two loops call the provider for it
  (`docs/task-queue.md:132`).
* `deleted_objects`: orphan cleanup overlooks deleted rows and removes objects within the retention
  (`docs/database-schema.md:250`).
* `stream_skips`: an event that commits after one with a higher number is never sent to a stream of all tasks
  (`docs/sse-contract.md:52`).
* `last_owner`: a member promoted while a request removes them is removed unchecked, and the project may be
  left without an owner (`docs/api-contract.md:181`).

Met on the way, and described by the models without a run of their own:

* A cost that does not fit DECIMAL(18,8), or an output image that is refused, is an error of the persistence:
  the task stays RUNNING until it times out, although the call has succeeded and was paid
  (`CostOverflows`, `OutputInvalid`; `docs/api-contract.md:473` has bad pricing never fail a task).
* Deliveries are counted for tasks that only wait for a lease, so one that waits too often is dead-lettered, and
  the count survives that: the user's retry is dead-lettered as well (`GiveUp`; `docs/task-queue.md:90`).
* A task that waits when its project is deleted stays QUEUED, is pushed and acknowledged by every round of the
  repair, and can be cancelled by nobody (`LeftBehind`; `task/worker.go:366`).
* A retry that is overtaken sets `attempt` back or repeats it, so a task may be executed more often than
  `max_attempts` (`Reopen`; `task/service.go:519`).
* Two PATCHes of different fields of one group: the later one writes back what it has read of the other
  (`LoadGroup`, `UpdateGroup`).
* `updateProject` and `updateMember` of something that is deleted meanwhile answer with success.

## Plan

1. Done: all components of the inventory but those under "Not modelled".
2. Done: proofs of the task system, storage, limits, stream, sessions and, from the exclusion of locks, of the
   composition `Administration`.
3. Done: the types of `Administration` and its costs.
4. Left to model: results with several outputs that share one reservation; a quota that changes.

## Not modelled

* Routing, validation of the fields of requests, JSON, rendering and logging: conversions of single values
  without an order of steps. `internal/config` is read once before anything starts; `TenantSettings` and
  `DatabaseStartup` take what it yields as constants.
* Audit records, which are inserted in the transaction of the request they are about and read by nobody else;
  analytics, which are queries (their sum and division of costs are in `UsageCost`).
* The bytes of providers' requests and answers, images and their decoding, redaction of messages, addresses
  that a provider may not have: one call and one value each.
* Asset titles, tags and favourites; names and descriptions of anything; downloads and listings: single updates
  or reads of a row.
* The rows that the retention of logs deletes, and results with several outputs.
* The web client, apart from its `EventSource`, and the scripts of the deployment, apart from the order they
  prescribe.

`PROJECT.json` lists each component with its status and its reason.

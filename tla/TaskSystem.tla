----------------------------- MODULE TaskSystem -----------------------------
(***************************************************************************)
(* Generation tasks from the API request to the terminal status: the API   *)
(* handlers (src/backend/internal/task/service.go), the worker loops and   *)
(* the recovery loop (task/worker.go, task/runtime_persistence.go), over   *)
(* the rows of MySQL and the Redis structures of ReliableQueue.            *)
(*                                                                         *)
(* A step is one MySQL transaction or one Redis command or script, but a   *)
(* transaction that reads the row without a lock and then updates it on a  *)
(* condition (cancelTask, retryTask, scheduleRetry) is two.  The status    *)
(* RETRYING never survives the transaction that writes it, so no state     *)
(* shows it.                                                               *)
(*                                                                         *)
(* An opening is a commit that leaves a task QUEUED: the creation or a     *)
(* retry.  It names an attempt, but two openings may name the same one,    *)
(* because a retry takes the number from what it has read and its update   *)
(* asks for the status alone.  The openings of a task are counted as its   *)
(* TASK_QUEUED events are; whoever has read the row remembers which one it *)
(* saw, and with it the attempt.                                           *)
(*                                                                         *)
(* A worker loop stands for a process of its own, and several processes    *)
(* may recover at once, so recovery steps come in any order.  Crashes and  *)
(* errors of MySQL and Redis are limited to MaxFaults.                     *)
(***************************************************************************)
EXTENDS ReliableQueue, FiniteSets

CONSTANTS Workers,      \* processing loops
          Handlers,     \* requests of users that the API serves at a time
          ProjectOf,    \* the project of each task
          Deletable,    \* bound on the projects that users delete
          NoTask,       \* what an idle loop or handler holds
          MaxAttempts,  \* max_attempts of every task
          MaxFaults     \* bound on crashes and on errors of MySQL and Redis

Projects == {ProjectOf[t] : t \in Tasks}

ASSUME DeletableAssumption == Deletable \subseteq Projects
ASSUME HandlersAssumption == IsFiniteSet(Handlers)
ASSUME NoTaskAssumption == NoTask \notin Tasks
ASSUME MaxAttemptsAssumption == MaxAttempts \in Nat \ {0}
ASSUME MaxFaultsAssumption == MaxFaults \in Nat

VARIABLES
  status,     \* generation_tasks.status, "NONE" before the row exists
  overdue,    \* has timeout_at passed?
  events,     \* what task_events tell of each opening, in order
  output,     \* the opening whose run wrote task_outputs and usage, or 0
  deleted,    \* projects that are soft-deleted
  call,       \* where an API handler is
  target,     \* the task of its request
  seen,       \* the opening its retry has read
  pc,         \* where a worker loop is
  job,        \* the task of its claim
  run,        \* the opening it has moved to RUNNING or, for a retry, read
  expiring,   \* tasks a recovery loop has listed as overdue
  faults      \* faults so far

taskVars == <<status, overdue, events, output>>
apiVars == <<call, target, seen>>
workerVars == <<pc, job, run>>
vars == <<queueVars, taskVars, deleted, apiVars, workerVars, expiring, faults>>

Attempts == 1 .. MaxAttempts

Terminal == {"SUCCEEDED", "FAILED", "CANCELLED", "TIMED_OUT"}

\* retryableStatus: what a user may retry.
Retryable == {"FAILED", "CANCELLED", "TIMED_OUT"}

Statuses == {"NONE", "QUEUED", "RUNNING"} \cup Terminal

\* TASK_QUEUED, TASK_STARTED, or the event that closed the opening.
Fates == {"waiting", "running", "RETRIED"} \cup Terminal

Opening == [attempt : Attempts, fate : Fates]

\* Between the read and the update of a transaction, and after the commit.
CallPlaces == {"idle", "cancelling", "retrying", "pushing", "failing"}

\* The loop has moved its task to RUNNING and is not through with it.
RunPCs == {"executing", "retrying", "persisting", "storing", "completing"}

\* The loop holds a claim and has yet to settle it with Redis.
ClaimPCs == {"popped", "deadLettering", "claimed", "invalid", "starting",
             "rescheduling", "acking", "requeueing"} \cup RunPCs

PCs == {"idle", "markDead", "queueFailed"} \cup ClaimPCs

\* The opening a task is in, and the attempt in its row.
Opened(t) == Len(events[t])

Attempt(t) == events[t][Opened(t)].attempt

RowTypeOK ==
  /\ status \in [Tasks -> Statuses]
  /\ overdue \in [Tasks -> BOOLEAN]
  /\ events \in [Tasks -> Seq(Opening)]
  /\ output \in [Tasks -> Nat]
  /\ deleted \in SUBSET Projects

\* A handler that is not idle holds a task.
CallTypeOK ==
  /\ call \in [Handlers -> CallPlaces]
  /\ target \in [Handlers -> Tasks \cup {NoTask}]
  /\ seen \in [Handlers -> Nat]
  /\ \A h \in Handlers : call[h] # "idle" => target[h] \in Tasks

\* A loop that is not idle holds a task.
LoopTypeOK ==
  /\ pc \in [Workers -> PCs]
  /\ job \in [Workers -> Tasks \cup {NoTask}]
  /\ run \in [Workers -> Nat]
  /\ \A w \in Workers : pc[w] # "idle" => job[w] \in Tasks

\* What a handler or a loop has read of a task is one of its openings, in an
\* attempt that is not the last when it is for a retry.
ReadsTypeOK ==
  /\ \A h \in Handlers : call[h] = "retrying" =>
        /\ seen[h] \in DOMAIN events[target[h]]
        /\ events[target[h]][seen[h]].attempt < MaxAttempts
  /\ \A w \in Workers : pc[w] \in RunPCs => run[w] \in DOMAIN events[job[w]]
  /\ \A w \in Workers : pc[w] = "rescheduling" =>
        /\ run[w] \in DOMAIN events[job[w]]
        /\ events[job[w]][run[w]].attempt < MaxAttempts

\* A row that exists has been opened.
OpenedTypeOK == \A t \in Tasks : status[t] = "NONE" <=> events[t] = <<>>

TypeOK ==
  /\ QueueTypeOK
  /\ RowTypeOK
  /\ CallTypeOK
  /\ LoopTypeOK
  /\ ReadsTypeOK
  /\ OpenedTypeOK
  /\ expiring \in SUBSET Tasks
  /\ faults \in 0 .. MaxFaults

Init ==
  /\ QueueInit
  /\ status = [t \in Tasks |-> "NONE"]
  /\ overdue = [t \in Tasks |-> FALSE]
  /\ events = [t \in Tasks |-> <<>>]
  /\ output = [t \in Tasks |-> 0]
  /\ deleted = {}
  /\ call = [h \in Handlers |-> "idle"]
  /\ target = [h \in Handlers |-> NoTask]
  /\ seen = [h \in Handlers |-> 0]
  /\ pc = [w \in Workers |-> "idle"]
  /\ job = [w \in Workers |-> NoTask]
  /\ run = [w \in Workers |-> 0]
  /\ expiring = {}
  /\ faults = 0

-----------------------------------------------------------------------------
(* Rows of MySQL *)

\* Mutant: the event is written even when the update matches no row.
CloseWithLateEvent(t, from, outcome) ==
  /\ status[t] # "NONE"
  /\ status' = [status EXCEPT ![t] = IF @ \in from THEN outcome ELSE @]
  /\ events' = [events EXCEPT ![t][Opened(t)].fate = outcome]
  /\ UNCHANGED <<overdue, output>>

\* UpdateTask with the statuses it may leave, and the event of the outcome.
Close(t, from, outcome) ==
  /\ status[t] \in from
  /\ status' = [status EXCEPT ![t] = outcome]
  /\ events' = [events EXCEPT ![t][Opened(t)].fate = outcome]
  /\ UNCHANGED <<overdue, output>>

\* The callers that shrug at a row with another status.
Finish(t, from, outcome) ==
  \/ Close(t, from, outcome)
  \/ status[t] \notin from /\ UNCHANGED taskVars

FailEligible(t) == Finish(t, {"QUEUED", "RUNNING"}, "FAILED")

\* A retry passes through RETRYING to QUEUED, with a new timeout_at.  It counts
\* on from the opening that was read, whatever has been opened since; its
\* update asks for a status in from, and its event ends the last opening as
\* closed says.
Reopen(t, from, base, closed) ==
  /\ status[t] \in from
  /\ status' = [status EXCEPT ![t] = "QUEUED"]
  /\ overdue' = [overdue EXCEPT ![t] = FALSE]
  /\ events' = [events EXCEPT ![t] =
                  Append([@ EXCEPT ![Opened(t)].fate = closed],
                         [attempt |-> @[base].attempt + 1, fate |-> "waiting"])]
  /\ UNCHANGED output

Fault ==
  /\ faults < MaxFaults
  /\ faults' = faults + 1

-----------------------------------------------------------------------------
(* API handlers *)

\* The handler goes on with its request.
Proceed(h, place) ==
  /\ call' = [call EXCEPT ![h] = place]
  /\ UNCHANGED <<target, seen>>

\* It answers, or is gone.
Answer(h) ==
  /\ call' = [call EXCEPT ![h] = "idle"]
  /\ target' = [target EXCEPT ![h] = NoTask]
  /\ seen' = [seen EXCEPT ![h] = 0]

\* A handler has found the project of its task there.
Authorized(h, t) == call[h] = "idle" /\ ProjectOf[t] \notin deleted

\* Nobody sees the task before the commit, so when exactly the project was
\* looked up makes no difference.
CreateTask(h, t) ==
  /\ Authorized(h, t)
  /\ status[t] = "NONE"
  /\ status' = [status EXCEPT ![t] = "QUEUED"]
  /\ events' = [events EXCEPT ![t] = <<[attempt |-> 1, fate |-> "waiting"]>>]
  /\ call' = [call EXCEPT ![h] = "pushing"]
  /\ target' = [target EXCEPT ![h] = t]
  /\ UNCHANGED <<queueVars, overdue, output, deleted, seen, workerVars, expiring, faults>>

\* authorizeTask and the check of the status, in cancelTask and in retryTask.
ReadForCancel(h, t) ==
  /\ Authorized(h, t)
  /\ status[t] \in {"QUEUED", "RUNNING"}
  /\ call' = [call EXCEPT ![h] = "cancelling"]
  /\ target' = [target EXCEPT ![h] = t]
  /\ UNCHANGED <<queueVars, taskVars, deleted, seen, workerVars, expiring, faults>>

ReadForRetry(h, t) ==
  /\ Authorized(h, t)
  /\ status[t] \in Retryable
  /\ Attempt(t) < MaxAttempts
  /\ call' = [call EXCEPT ![h] = "retrying"]
  /\ target' = [target EXCEPT ![h] = t]
  /\ seen' = [seen EXCEPT ![h] = Opened(t)]
  /\ UNCHANGED <<queueVars, taskVars, deleted, workerVars, expiring, faults>>

CancelTask(h) ==
  /\ call[h] = "cancelling"
  /\ Finish(target[h], {"QUEUED", "RUNNING"}, "CANCELLED")
  /\ Answer(h)
  /\ UNCHANGED <<queueVars, deleted, workerVars, expiring, faults>>

\* When the update matches no row the answer is a conflict, and nothing is
\* pushed.
RetryTask(h) ==
  /\ call[h] = "retrying"
  /\ \/ /\ Reopen(target[h], Retryable, seen[h], status[target[h]])
        /\ Proceed(h, "pushing")
     \/ /\ status[target[h]] \notin Retryable
        /\ Answer(h)
        /\ UNCHANGED taskVars
  /\ UNCHANGED <<queueVars, deleted, workerVars, expiring, faults>>

\* The push that follows the commit of createTask and retryTask.
Push(h) ==
  /\ call[h] = "pushing"
  /\ EnqueueTask(target[h])
  /\ Answer(h)
  /\ UNCHANGED <<taskVars, deleted, workerVars, expiring, faults>>

\* The push returns an error; the command may have reached Redis all the same.
PushFails(h) ==
  /\ call[h] = "pushing"
  /\ EnqueueTask(target[h]) \/ UNCHANGED queueVars
  /\ Proceed(h, "failing")
  /\ Fault
  /\ UNCHANGED <<taskVars, deleted, workerVars, expiring>>

\* Fails the task in whichever opening it waits by now.
MarkEnqueueFailed(h) ==
  /\ call[h] = "failing"
  /\ Finish(target[h], {"QUEUED"}, "FAILED")
  /\ Answer(h)
  /\ UNCHANGED <<queueVars, deleted, workerVars, expiring, faults>>

\* The API process dies, or a transaction of it fails and is rolled back.
HandlerDies(h) ==
  /\ call[h] # "idle"
  /\ Answer(h)
  /\ Fault
  /\ UNCHANGED <<queueVars, taskVars, deleted, workerVars, expiring>>

\* The tasks of the project stay as they are.
DeleteProject(p) ==
  /\ p \in Deletable \ deleted
  /\ \E t \in Tasks : ProjectOf[t] = p /\ status[t] # "NONE"
  /\ deleted' = deleted \cup {p}
  /\ UNCHANGED <<queueVars, taskVars, apiVars, workerVars, expiring, faults>>

-----------------------------------------------------------------------------
(* Worker loop: claim *)

\* Go on with the same claim.
Goto(w, place) ==
  /\ pc' = [pc EXCEPT ![w] = place]
  /\ UNCHANGED <<job, run>>

\* Processing is over; what is left is to acknowledge the claim or delay it.
Settle(w, place) ==
  /\ pc' = [pc EXCEPT ![w] = place]
  /\ run' = [run EXCEPT ![w] = 0]
  /\ UNCHANGED job

\* Back to the top of the loop, with nothing remembered.
Leave(w) ==
  /\ pc' = [pc EXCEPT ![w] = "idle"]
  /\ job' = [job EXCEPT ![w] = NoTask]
  /\ run' = [run EXCEPT ![w] = 0]

Pop(w) ==
  /\ pc[w] = "idle"
  /\ \E t \in Tasks :
        /\ PopTask(t)
        /\ job' = [job EXCEPT ![w] = t]
  /\ pc' = [pc EXCEPT ![w] = "popped"]
  /\ UNCHANGED <<run, taskVars, deleted, apiVars, expiring, faults>>

Claim(w) ==
  /\ pc[w] = "popped"
  /\ RecordClaim(job[w])
  /\ Goto(w, IF MaxDeliveries > 0 /\ deliveries'[job[w]] > MaxDeliveries
             THEN "deadLettering" ELSE "claimed")
  /\ UNCHANGED <<taskVars, deleted, apiVars, expiring, faults>>

GiveUp(w) ==
  /\ pc[w] = "deadLettering"
  /\ DeadLetter(job[w])
  /\ Goto(w, "markDead")
  /\ UNCHANGED <<taskVars, deleted, apiVars, expiring, faults>>

\* Fails the task even while another loop executes it.
MarkDeadLettered(w) ==
  /\ pc[w] = "markDead"
  /\ FailEligible(job[w])
  /\ Leave(w)
  /\ UNCHANGED <<queueVars, deleted, apiVars, expiring, faults>>

-----------------------------------------------------------------------------
(* Worker loop: Process *)

\* The snapshot, its validation and the concurrency lease: the claim is
\* dropped, failed, delayed (for want of a lease, or because the provider or
\* the model is gone), or goes on.  A task whose project is gone is dropped
\* from Redis and stays QUEUED.
LoadSnapshot(w) ==
  /\ pc[w] = "claimed"
  /\ \/ /\ status[job[w]] # "QUEUED" \/ ProjectOf[job[w]] \in deleted
        /\ Goto(w, "acking")
     \/ /\ status[job[w]] = "QUEUED" /\ ProjectOf[job[w]] \notin deleted
        /\ \E place \in {"invalid", "requeueing", "starting"} : Goto(w, place)
  /\ UNCHANGED <<queueVars, taskVars, deleted, apiVars, expiring, faults>>

FailInvalid(w) ==
  /\ pc[w] = "invalid"
  /\ FailEligible(job[w])
  /\ Goto(w, "acking")
  /\ UNCHANGED <<queueVars, deleted, apiVars, expiring, faults>>

\* Mutant: a duplicate delivery of a RUNNING task starts it again.
ClaimRunningAgain(w) ==
  /\ pc[w] = "starting"
  /\ \/ /\ status[job[w]] \in {"QUEUED", "RUNNING"}
        /\ status' = [status EXCEPT ![job[w]] = "RUNNING"]
        /\ events' = [events EXCEPT ![job[w]][Opened(job[w])].fate = "running"]
        /\ pc' = [pc EXCEPT ![w] = "executing"]
        /\ run' = [run EXCEPT ![w] = Opened(job[w])]
        /\ UNCHANGED <<overdue, output, job>>
     \/ /\ status[job[w]] \in Terminal
        /\ Goto(w, "acking")
        /\ UNCHANGED taskVars
  /\ UNCHANGED <<queueVars, deleted, apiVars, expiring, faults>>

\* Conditional on the status the row has now, whatever the snapshot said.
ClaimRunning(w) ==
  /\ pc[w] = "starting"
  /\ \/ /\ status[job[w]] = "QUEUED"
        /\ status' = [status EXCEPT ![job[w]] = "RUNNING"]
        /\ events' = [events EXCEPT ![job[w]][Opened(job[w])].fate = "running"]
        /\ pc' = [pc EXCEPT ![w] = "executing"]
        /\ run' = [run EXCEPT ![w] = Opened(job[w])]
        /\ UNCHANGED <<overdue, output, job>>
     \/ /\ status[job[w]] # "QUEUED"
        /\ Goto(w, "acking")
        /\ UNCHANGED taskVars
  /\ UNCHANGED <<queueVars, deleted, apiVars, expiring, faults>>

\* The deadline of the context is the timeout_at of the opening that runs.
PastDeadline(w) == run[w] = Opened(job[w]) /\ overdue[job[w]]

\* The provider call returns before the deadline with outputs, or with an
\* error that another attempt may cure.
Execute(w) ==
  /\ pc[w] = "executing"
  /\ ~PastDeadline(w)
  /\ \/ Goto(w, "persisting")
     \/ events[job[w]][run[w]].attempt < MaxAttempts /\ Goto(w, "retrying")
  /\ UNCHANGED <<queueVars, taskVars, deleted, apiVars, expiring, faults>>

\* The context of the call expires.  The deadline of an opening that is no
\* longer the current one may have passed or not.
TimeOutTask(w) ==
  /\ pc[w] = "executing"
  /\ run[w] < Opened(job[w]) \/ PastDeadline(w)
  /\ Finish(job[w], {"RUNNING"}, "TIMED_OUT")
  /\ Settle(w, "acking")
  /\ UNCHANGED <<queueVars, deleted, apiVars, expiring, faults>>

\* The call fails for good, the lease is lost, or the quota has no room.
FailRunning(w) ==
  /\ pc[w] \in {"executing", "persisting", "storing"}
  /\ Finish(job[w], {"RUNNING"}, "FAILED")
  /\ Settle(w, "acking")
  /\ UNCHANGED <<queueVars, deleted, apiVars, expiring, faults>>

\* The read of scheduleRetry: the loop goes by the row it finds now.
FindForRetry(w) ==
  /\ pc[w] = "retrying"
  /\ \/ /\ status[job[w]] = "RUNNING"
        /\ Attempt(job[w]) < MaxAttempts
        /\ pc' = [pc EXCEPT ![w] = "rescheduling"]
        /\ run' = [run EXCEPT ![w] = Opened(job[w])]
        /\ UNCHANGED job
     \/ /\ status[job[w]] # "RUNNING" \/ Attempt(job[w]) >= MaxAttempts
        /\ Settle(w, "requeueing")
  /\ UNCHANGED <<queueVars, taskVars, deleted, apiVars, expiring, faults>>

\* Mutant: the update of scheduleRetry has no condition on the status.
ScheduleRetryAnyway(w) ==
  /\ pc[w] = "rescheduling"
  /\ Reopen(job[w], Statuses, run[w], "RETRIED")
  /\ Settle(w, "requeueing")
  /\ UNCHANGED <<queueVars, deleted, apiVars, expiring, faults>>

\* Its updates, on whichever opening is RUNNING by now.
ScheduleRetry(w) ==
  /\ pc[w] = "rescheduling"
  /\ \/ Reopen(job[w], {"RUNNING"}, run[w], "RETRIED")
     \/ status[job[w]] # "RUNNING" /\ UNCHANGED taskVars
  /\ Settle(w, "requeueing")
  /\ UNCHANGED <<queueVars, deleted, apiVars, expiring, faults>>

-----------------------------------------------------------------------------
(* Worker loop: persistSuccessfulResult and completeTask *)

\* The look at the row before the upload and again inside the transaction:
\* the result is dropped unless the task is RUNNING and has no outputs.
CheckResult(w) ==
  /\ pc[w] = "persisting"
  /\ Goto(w, IF status[job[w]] = "RUNNING" /\ output[job[w]] = 0
             THEN "storing" ELSE "completing")
  /\ UNCHANGED <<queueVars, taskVars, deleted, apiVars, expiring, faults>>

\* The inserts and the commit; the unique index on the output rows rejects a
\* second set.  The transaction does not look at the status again.
StoreOutput(w) ==
  /\ pc[w] = "storing"
  /\ \/ /\ output[job[w]] = 0
        /\ output' = [output EXCEPT ![job[w]] = run[w]]
        /\ Goto(w, "completing")
     \/ /\ output[job[w]] # 0
        /\ Settle(w, "requeueing")
        /\ UNCHANGED output
  /\ UNCHANGED <<queueVars, status, overdue, events, deleted, apiVars, expiring, faults>>

CompleteTask(w) ==
  /\ pc[w] = "completing"
  /\ Finish(job[w], {"RUNNING"}, "SUCCEEDED")
  /\ Settle(w, "acking")
  /\ UNCHANGED <<queueVars, deleted, apiVars, expiring, faults>>

-----------------------------------------------------------------------------
(* Worker loop: applyResult *)

AckClaim(w) ==
  /\ pc[w] = "acking"
  /\ Ack(job[w])
  /\ Leave(w)
  /\ UNCHANGED <<taskVars, deleted, apiVars, expiring, faults>>

Requeue(w) ==
  /\ pc[w] = "requeueing"
  /\ RetryDelayed(job[w])
  /\ Leave(w)
  /\ UNCHANGED <<taskVars, deleted, apiVars, expiring, faults>>

\* The script returns an error; it may have run all the same.
RequeueFails(w) ==
  /\ pc[w] = "requeueing"
  /\ RetryDelayed(job[w]) \/ UNCHANGED queueVars
  /\ Goto(w, "queueFailed")
  /\ Fault
  /\ UNCHANGED <<taskVars, deleted, apiVars, expiring>>

MarkQueueFailure(w) ==
  /\ pc[w] = "queueFailed"
  /\ FailEligible(job[w])
  /\ Leave(w)
  /\ UNCHANGED <<queueVars, deleted, apiVars, expiring, faults>>

\* The process dies or is told to stop, or a call outside Process fails: the
\* loop forgets the claim and Redis keeps it.
Abandon(w) ==
  /\ pc[w] # "idle"
  /\ Leave(w)
  /\ Fault
  /\ UNCHANGED <<queueVars, taskVars, deleted, apiVars, expiring>>

\* A MySQL or storage error inside Process sends the claim back.
ProcessFails(w) ==
  /\ pc[w] \in {"claimed", "invalid", "starting", "rescheduling"} \cup RunPCs
  /\ Settle(w, "requeueing")
  /\ Fault
  /\ UNCHANGED <<queueVars, taskVars, deleted, apiVars, expiring>>

-----------------------------------------------------------------------------
(* Recovery loop *)

PromoteDelayed(t) ==
  /\ PromoteDue(t)
  /\ UNCHANGED <<taskVars, deleted, apiVars, workerVars, expiring, faults>>

RecoverClaim(t) ==
  /\ RecoverStale(t)
  /\ UNCHANGED <<taskVars, deleted, apiVars, workerVars, expiring, faults>>

\* ReconcileDelivery lists QUEUED tasks and works through the list.  How old
\* the list is by then is open, and every task has been QUEUED once.
RepairDelivery(t) ==
  /\ status[t] # "NONE"
  /\ EnsureDelivery(t)
  /\ UNCHANGED <<taskVars, deleted, apiVars, workerVars, expiring, faults>>

ListOverdue(t) ==
  /\ status[t] = "RUNNING"
  /\ overdue[t]
  /\ expiring' = expiring \cup {t}
  /\ UNCHANGED <<queueVars, taskVars, deleted, apiVars, workerVars, faults>>

\* The row must still be RUNNING; its timeout_at is not looked at again.
TimeOutListed(t) ==
  /\ t \in expiring
  /\ Finish(t, {"RUNNING"}, "TIMED_OUT")
  /\ expiring' = expiring \ {t}
  /\ UNCHANGED <<queueVars, deleted, apiVars, workerVars, faults>>

\* An error ends the round, and the rest of the list with it.
RecoveryFails ==
  /\ expiring # {}
  /\ expiring' = {}
  /\ Fault
  /\ UNCHANGED <<queueVars, taskVars, deleted, apiVars, workerVars>>

-----------------------------------------------------------------------------
(* Time *)

\* timeout_at counts from the queueing, so it may pass before the start; the
\* deadline of a closed row decides nothing.
DeadlinePasses(t) ==
  /\ status[t] \in {"QUEUED", "RUNNING"}
  /\ ~overdue[t]
  /\ overdue' = [overdue EXCEPT ![t] = TRUE]
  /\ UNCHANGED <<queueVars, status, events, output, deleted, apiVars, workerVars,
                 expiring, faults>>

ClaimAges(t) ==
  /\ VisibilityElapses(t)
  /\ UNCHANGED <<taskVars, deleted, apiVars, workerVars, expiring, faults>>

-----------------------------------------------------------------------------
UserStep(h) ==
  \E t \in Tasks : CreateTask(h, t) \/ ReadForCancel(h, t) \/ ReadForRetry(h, t)

HandlerStep(h) == CancelTask(h) \/ RetryTask(h) \/ Push(h) \/ MarkEnqueueFailed(h)

ClaimStep(w) == Pop(w) \/ Claim(w) \/ GiveUp(w) \/ MarkDeadLettered(w)

ProcessStep(w) ==
  \/ LoadSnapshot(w) \/ FailInvalid(w) \/ ClaimRunning(w) \/ Execute(w)
  \/ TimeOutTask(w) \/ FailRunning(w) \/ FindForRetry(w) \/ ScheduleRetry(w)
  \/ CheckResult(w) \/ StoreOutput(w) \/ CompleteTask(w)

SettleStep(w) == AckClaim(w) \/ Requeue(w) \/ MarkQueueFailure(w)

WorkerStep(w) == ClaimStep(w) \/ ProcessStep(w) \/ SettleStep(w)

FaultStep ==
  \/ \E h \in Handlers : PushFails(h) \/ HandlerDies(h)
  \/ \E w \in Workers : RequeueFails(w) \/ Abandon(w) \/ ProcessFails(w)
  \/ RecoveryFails

\* What recovery and the clock do about one task.
Upkeep(t) ==
  \/ PromoteDelayed(t) \/ RecoverClaim(t)
  \/ RepairDelivery(t) \/ ListOverdue(t) \/ TimeOutListed(t)
  \/ DeadlinePasses(t) \/ ClaimAges(t)

Next ==
  \/ \E h \in Handlers : UserStep(h) \/ HandlerStep(h)
  \/ \E p \in Projects : DeleteProject(p)
  \/ \E w \in Workers : WorkerStep(w)
  \/ \E t \in Tasks : Upkeep(t)
  \/ FaultStep

Spec == Init /\ [][Next]_vars

\* The claim of the loop is still its own when it acts on it.
Undisturbed(w) == job[w] \in Tasks /\ processing[job[w]] > 0

\* A handler that runs goes on, and so does a loop whose process is up; the
\* recovery loops come round again and again; time passes.  Users and faults
\* are under no obligation.  A recovery loop, which wakes once in
\* RecoveryInterval, does not take the claim away between two commands of a
\* worker loop every single time.
Fairness ==
  /\ \A w \in Workers :
        /\ WF_vars(WorkerStep(w))
        /\ SF_vars(Undisturbed(w) /\ Claim(w))
        /\ SF_vars(Undisturbed(w) /\ (GiveUp(w) \/ AckClaim(w)))
  /\ \A h \in Handlers : WF_vars(HandlerStep(h))
  /\ \A t \in Tasks :
        /\ WF_vars(PromoteDelayed(t))
        /\ WF_vars(RecoverClaim(t))
        /\ WF_vars(status[t] = "QUEUED" /\ RepairDelivery(t))
        /\ WF_vars(ListOverdue(t))
        /\ WF_vars(TimeOutListed(t))
        /\ WF_vars(DeadlinePasses(t))
        /\ WF_vars(ClaimAges(t))

FairSpec == Spec /\ Fairness

=============================================================================

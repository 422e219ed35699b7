--------------------------- MODULE TaskProperties ---------------------------
(***************************************************************************)
(* What TaskSystem is checked against: invariants, the lifecycle it        *)
(* implements, what must happen in the end, and statements of the          *)
(* documentation.                                                          *)
(***************************************************************************)
EXTENDS TaskSystem

Running(w) == pc[w] \in RunPCs

\* However often Redis delivers a task, however claims age, and whatever
\* stale retries write, no two loops execute the same opening of a task: a
\* commit that makes it QUEUED brings about one execution at most
\* (claimRunning).
OneExecutionPerOpening ==
  \A v, w \in Workers :
     v # w /\ Running(v) /\ Running(w) /\ job[v] = job[w] => run[v] # run[w]

\* What a loop took for the current opening can only be left behind: while it
\* is the current one the task does not wait in the queue again.
RunsAreTaken ==
  \A w \in Workers :
     Running(w) /\ run[w] = Opened(job[w]) => status[job[w]] # "QUEUED"

Copies(t) ==
  Cardinality({i \in DOMAIN queue : queue[i] = t}) + processing[t]
    + Cardinality(delayed \cap {t})

\* The handlers that owe Redis a copy.
Pushing(t) == Cardinality({h \in Handlers : call[h] = "pushing" /\ target[h] = t})

\* The openings that the API made: as many as are not, or not yet, followed
\* by one of the worker.
Requested(t) == Cardinality({i \in DOMAIN events[t] : events[t][i].fate # "RETRIED"})

\* Redis never accumulates copies of a task: the pushes of the handlers, one
\* per creation or retry that a user asked for, and one copy of the repair are
\* all there can ever be, however often claims are recovered, delayed,
\* promoted and repaired and the worker retries.
DeliveryBound == \A t \in Tasks : Copies(t) + Pushing(t) <= Requested(t) + 1

-----------------------------------------------------------------------------
Lifecycle == INSTANCE TaskLifecycle WITH history <- events

\* Duplicate deliveries, late results, stale retries, crashes and recovery
\* show nothing but the lifecycle of a task: an opening starts once, ends
\* once, the next one comes after its end, and counts on from one before.
ImplementsLifecycle == Lifecycle!Spec

\* The status that the last event of an opening tells.
Told(fate) ==
  CASE fate = "waiting" -> "QUEUED"
    [] fate = "running" -> "RUNNING"
    [] OTHER -> fate

\* The last event tells the status of the row, and every opening but the last
\* was closed without success.
EventsTell(t) ==
  \A i \in DOMAIN events[t] :
     IF i = Opened(t)
     THEN status[t] = Told(events[t][i].fate)
     ELSE events[t][i].fate \in Retryable \cup {"RETRIED"}

\* A client that follows the events of a task ends up with the row, though
\* handlers and loops update it late and without having looked: an update that
\* matches no row writes no event, and no event overtakes another.
EventsTellTheRow == \A t \in Tasks : EventsTell(t)

-----------------------------------------------------------------------------
\* The task waits in a project that has been deleted: no worker will start it
\* and no user can cancel it.
LeftBehind(t) == status[t] = "QUEUED" /\ ProjectOf[t] \in deleted

\* Every task that was accepted comes to a terminal status, though pushes,
\* claims and loops may be lost: promotion, recovery of stale claims,
\* ReconcileDelivery and RecoverTimedOut make up for it.  A task whose project
\* is deleted while it waits is the one exception.
TaskSettles ==
  \A t \in Tasks : status[t] # "NONE" ~> status[t] \in Terminal \/ LeftBehind(t)

\* Once a task rests in a terminal status its copies leave the ready list,
\* the processing list and the delayed set, unless a user retries it.
RedisDrains ==
  \A t \in Tasks :
     status[t] \in Terminal ~> (Copies(t) = 0 \/ status[t] \notin Terminal)

-----------------------------------------------------------------------------
\* docs/task-queue.md says of cancellation that a Worker must ignore the
\* output of a provider call that could not be interrupted: the look at the
\* row before the upload does not let the result of a cancelled attempt pass.
CancelledOutputIgnored ==
  [][\A w \in Workers :
        pc[w] = "persisting" /\ pc'[w] = "storing" =>
           events[job[w]][run[w]].fate # "CANCELLED"]_vars

\* docs/task-queue.md says that a retry makes a new attempt: no two loops
\* execute attempts of a task under the same number at a time.
OneExecutionPerAttempt ==
  \A v, w \in Workers :
     v # w /\ Running(v) /\ Running(w) /\ job[v] = job[w] =>
        events[job[v]][run[v]].attempt # events[job[w]][run[w]].attempt

=============================================================================

-------------------------- MODULE TaskSystemProofs --------------------------
(***************************************************************************)
(* Theorems about TaskSystem for any number of tasks, loops, attempts,     *)
(* deliveries and faults.                                                  *)
(***************************************************************************)
EXTENDS TaskProperties, FunctionTheorems, FiniteSetTheorems, TLAPS

-----------------------------------------------------------------------------
(* Redis structures keep their types *)

QueueOperation(t) ==
  \/ EnqueueTask(t) \/ PopTask(t) \/ RecordClaim(t) \/ Ack(t) \/ RetryDelayed(t)
  \/ DeadLetter(t) \/ RecoverStale(t) \/ PromoteDue(t) \/ EnsureDelivery(t)
  \/ VisibilityElapses(t)

\* Every command and script of the queue on a known task keeps the types.
LEMMA QueueOperationTyped ==
  ASSUME QueueTypeOK, NEW t \in Tasks, QueueOperation(t)
  PROVE  QueueTypeOK'
<1> USE MaxDeliveriesAssumption DEF QueueTypeOK, ClaimTimes
<1>0. CASE UNCHANGED queueVars
  BY <1>0 DEF queueVars
<1>d. ASSUME processing[t] > 0, DropClaim(t)
      PROVE  /\ processing' \in [Tasks -> Nat]
             /\ claimTime' \in [Tasks -> ClaimTimes]
  BY <1>d DEF DropClaim
<1>1. CASE EnqueueTask(t)
  BY <1>1 DEF EnqueueTask
<1>2. CASE PopTask(t)
  BY <1>2 DEF PopTask
<1>3. CASE RecordClaim(t)
  BY <1>3 DEF RecordClaim
<1>4. CASE Ack(t)
  <2>1. CASE /\ processing[t] > 0
             /\ DropClaim(t)
             /\ deliveries' = [deliveries EXCEPT ![t] = 0]
             /\ UNCHANGED <<queue, delayed>>
    <3>1. deliveries' \in [Tasks -> 0 .. MaxDeliveries + 1]
      BY <2>1
    <3>2. QED
      BY <1>d, <2>1, <3>1
  <2>2. QED
    BY <1>0, <1>4, <2>1 DEF Ack
<1>5. CASE RetryDelayed(t)
  BY <1>0, <1>d, <1>5 DEF RetryDelayed
<1>6. CASE DeadLetter(t)
  BY <1>0, <1>d, <1>6 DEF DeadLetter
<1>7. CASE RecoverStale(t)
  BY <1>d, <1>7 DEF RecoverStale
<1>8. CASE PromoteDue(t)
  BY <1>8 DEF PromoteDue
<1>9. CASE EnsureDelivery(t)
  BY <1>0, <1>1, <1>9 DEF EnsureDelivery
<1>10. CASE VisibilityElapses(t)
  BY <1>10 DEF VisibilityElapses
<1>11. QED
  BY <1>1, <1>2, <1>3, <1>4, <1>5, <1>6, <1>7, <1>8, <1>9, <1>10 DEF QueueOperation

-----------------------------------------------------------------------------
(* Series of openings *)

\* The openings of e are there as they were, but for the end of the last one.
SameButLast(e, f, fate) ==
  \A i \in 1 .. Len(e) :
     /\ f[i].attempt = e[i].attempt
     /\ f[i].fate = IF i = Len(e) THEN fate ELSE e[i].fate

FateMoved(e, f, fate) ==
  f \in Seq(Opening) /\ Len(f) = Len(e) /\ SameButLast(e, f, fate)

OpeningAdded(e, f, fate) ==
  /\ f \in Seq(Opening)
  /\ Len(f) = Len(e) + 1
  /\ SameButLast(e, f, fate)
  /\ f[Len(f)].fate = "waiting"

\* An event about the current opening.
LEMMA FateIsMoved ==
  ASSUME NEW e \in Seq(Opening), e # <<>>, NEW fate \in Fates
  PROVE  FateMoved(e, [e EXCEPT ![Len(e)].fate = fate], fate)
<1> DEFINE f == [e EXCEPT ![Len(e)].fate = fate]
<1>1. Len(e) \in 1 .. Len(e) /\ \A i \in 1 .. Len(e) : e[i] \in Opening
  OBVIOUS
<1>2. ASSUME NEW i \in 1 .. Len(e)
      PROVE  /\ f[i] \in Opening
             /\ f[i].attempt = e[i].attempt
             /\ f[i].fate = IF i = Len(e) THEN fate ELSE e[i].fate
  <2>1. e[i] \in Opening
    BY <1>1
  <2>2. CASE i = Len(e)
    <3>1. f[i] = [e[i] EXCEPT !.fate = fate]
      BY <2>2
    <3>2. QED
      BY <2>1, <2>2, <3>1 DEF Opening
  <2>3. CASE i # Len(e)
    BY <2>1, <2>3
  <2>4. QED
    BY <2>2, <2>3
<1>3. f \in Seq(Opening) /\ Len(f) = Len(e)
  <2>1. f \in [1 .. Len(e) -> Opening]
    BY <1>2
  <2>2. QED
    BY <2>1
<1>4. QED
  BY <1>2, <1>3 DEF FateMoved, SameButLast

\* A retry that counts on from an opening below max_attempts.
LEMMA OpeningIsAdded ==
  ASSUME NEW e \in Seq(Opening), e # <<>>, NEW fate \in Fates,
         NEW base \in 1 .. Len(e), e[base].attempt < MaxAttempts
  PROVE  OpeningAdded(e, Append([e EXCEPT ![Len(e)].fate = fate],
                                [attempt |-> e[base].attempt + 1, fate |-> "waiting"]), fate)
<1> DEFINE m == [e EXCEPT ![Len(e)].fate = fate]
           o == [attempt |-> e[base].attempt + 1, fate |-> "waiting"]
<1>1. m \in Seq(Opening) /\ Len(m) = Len(e) /\ SameButLast(e, m, fate)
  BY FateIsMoved DEF FateMoved
<1>2. o \in Opening
  <2>1. e[base] \in Opening
    OBVIOUS
  <2>2. e[base].attempt + 1 \in Attempts
    BY <2>1, MaxAttemptsAssumption DEF Opening, Attempts
  <2>3. QED
    BY <2>2 DEF Opening, Fates
<1> HIDE DEF m, o
<1>3. /\ Append(m, o) \in Seq(Opening)
      /\ Len(Append(m, o)) = Len(e) + 1
      /\ \A i \in 1 .. Len(e) : Append(m, o)[i] = m[i]
      /\ Append(m, o)[Len(e) + 1] = o
  BY <1>1, <1>2
<1>4. o.fate = "waiting"
  BY DEF o
<1>5. SameButLast(e, Append(m, o), fate)
  BY <1>1, <1>3 DEF SameButLast
<1>6. OpeningAdded(e, Append(m, o), fate)
  BY <1>3, <1>4, <1>5 DEF OpeningAdded
<1>7. QED
  BY <1>6 DEF m, o

-----------------------------------------------------------------------------
(* What any step may do to the row and the events of a task *)

RowUntouched == UNCHANGED <<status, events>>

RowCreated(t) ==
  /\ status[t] = "NONE"
  /\ status' = [status EXCEPT ![t] = "QUEUED"]
  /\ events' = [events EXCEPT ![t] = <<[attempt |-> 1, fate |-> "waiting"]>>]

RowStarted(t) ==
  /\ status[t] = "QUEUED"
  /\ status' = [status EXCEPT ![t] = "RUNNING"]
  /\ events' = [events EXCEPT ![t][Opened(t)].fate = "running"]

RowClosed(t, outcome) ==
  /\ \/ status[t] = "RUNNING"
     \/ status[t] = "QUEUED" /\ outcome \in {"FAILED", "CANCELLED"}
  /\ status' = [status EXCEPT ![t] = outcome]
  /\ events' = [events EXCEPT ![t][Opened(t)].fate = outcome]

RowReopened(t, base, closed) ==
  /\ events[t][base].attempt < MaxAttempts
  /\ \/ status[t] \in Retryable /\ closed = status[t]
     \/ status[t] = "RUNNING" /\ closed = "RETRIED"
  /\ status' = [status EXCEPT ![t] = "QUEUED"]
  /\ events' = [events EXCEPT ![t] =
                  Append([@ EXCEPT ![Opened(t)].fate = closed],
                         [attempt |-> @[base].attempt + 1, fate |-> "waiting"])]

RowStepOf(t) ==
  \/ RowCreated(t)
  \/ RowStarted(t)
  \/ \E outcome \in Terminal : RowClosed(t, outcome)
  \/ \E base \in DOMAIN events[t], closed \in Fates : RowReopened(t, base, closed)

RowStep == RowUntouched \/ \E t \in Tasks : RowStepOf(t)

\* A conditional update leaves the row alone or closes its current opening.
LEMMA FinishIsRowStep ==
  ASSUME NEW t \in Tasks, NEW from, NEW outcome \in Terminal, Finish(t, from, outcome),
         \/ from \subseteq {"RUNNING"}
         \/ from \subseteq {"QUEUED", "RUNNING"} /\ outcome \in {"FAILED", "CANCELLED"}
  PROVE  RowStep
<1>1. CASE UNCHANGED taskVars
  BY <1>1 DEF RowStep, RowUntouched, taskVars
<1>2. CASE Close(t, from, outcome)
  <2>1. RowClosed(t, outcome)
    BY <1>2 DEF Close, RowClosed
  <2>2. QED
    BY <2>1 DEF RowStep, RowStepOf
<1>3. QED
  BY <1>1, <1>2 DEF Finish

\* Every step of the system is a row step.
LEMMA StepIsRowStep ==
  ASSUME TypeOK, [Next]_vars
  PROVE  RowStep
<1> USE DEF Terminal
<1>0. ASSUME UNCHANGED taskVars PROVE RowStep
  BY <1>0 DEF RowStep, RowUntouched, taskVars
<1>1. ASSUME NEW w \in Workers, pc[w] # "idle" PROVE job[w] \in Tasks
  BY <1>1 DEF TypeOK, LoopTypeOK
<1>2. ASSUME NEW h \in Handlers, call[h] # "idle" PROVE target[h] \in Tasks
  BY <1>2 DEF TypeOK, CallTypeOK
<1>3. ASSUME NEW h \in Handlers, UserStep(h) PROVE RowStep
  <2>1. ASSUME NEW t \in Tasks, CreateTask(h, t) PROVE RowStep
    <3>1. RowCreated(t)
      BY <2>1 DEF CreateTask, RowCreated
    <3>2. QED
      BY <3>1 DEF RowStep, RowStepOf
  <2>2. ASSUME NEW t \in Tasks, ReadForCancel(h, t) \/ ReadForRetry(h, t) PROVE RowStep
    BY <1>0, <2>2 DEF ReadForCancel, ReadForRetry
  <2>3. QED
    BY <1>3, <2>1, <2>2 DEF UserStep
<1>4. ASSUME NEW h \in Handlers, HandlerStep(h) PROVE RowStep
  <2>1. CASE CancelTask(h)
    <3>1. target[h] \in Tasks /\ Finish(target[h], {"QUEUED", "RUNNING"}, "CANCELLED")
      BY <1>2, <2>1 DEF CancelTask
    <3>2. QED
      BY <3>1, FinishIsRowStep
  <2>2. CASE RetryTask(h)
    <3>1. CASE Reopen(target[h], Retryable, seen[h], status[target[h]])
      <4>1. /\ target[h] \in Tasks
            /\ seen[h] \in DOMAIN events[target[h]]
            /\ events[target[h]][seen[h]].attempt < MaxAttempts
        BY <1>2, <2>2 DEF RetryTask, TypeOK, ReadsTypeOK
      <4>2. status[target[h]] \in Fates
        BY <3>1 DEF Reopen, Retryable, Fates
      <4>3. RowReopened(target[h], seen[h], status[target[h]])
        BY <3>1, <4>1 DEF Reopen, RowReopened
      <4>4. RowStepOf(target[h])
        BY <4>1, <4>2, <4>3 DEF RowStepOf
      <4>5. QED
        BY <4>1, <4>4 DEF RowStep
    <3>2. QED
      BY <1>0, <2>2, <3>1 DEF RetryTask
  <2>3. CASE MarkEnqueueFailed(h)
    <3>1. target[h] \in Tasks /\ Finish(target[h], {"QUEUED"}, "FAILED")
      BY <1>2, <2>3 DEF MarkEnqueueFailed
    <3>2. QED
      BY <3>1, FinishIsRowStep
  <2>4. CASE Push(h)
    BY <1>0, <2>4 DEF Push
  <2>5. QED
    BY <1>4, <2>1, <2>2, <2>3, <2>4 DEF HandlerStep
<1>5. ASSUME NEW t \in Tasks, Upkeep(t) PROVE RowStep
  <2>1. CASE TimeOutListed(t)
    <3>1. Finish(t, {"RUNNING"}, "TIMED_OUT")
      BY <2>1 DEF TimeOutListed
    <3>2. QED
      BY <3>1, FinishIsRowStep
  <2>2. CASE DeadlinePasses(t)
    BY <2>2 DEF DeadlinePasses, RowStep, RowUntouched
  <2>3. CASE PromoteDelayed(t) \/ RecoverClaim(t) \/ RepairDelivery(t)
             \/ ListOverdue(t) \/ ClaimAges(t)
    BY <1>0, <2>3 DEF PromoteDelayed, RecoverClaim, RepairDelivery, ListOverdue, ClaimAges
  <2>4. QED
    BY <1>5, <2>1, <2>2, <2>3 DEF Upkeep
<1>6. ASSUME NEW w \in Workers, WorkerStep(w) PROVE RowStep
  <2>1. CASE MarkDeadLettered(w) \/ FailInvalid(w) \/ MarkQueueFailure(w)
    <3>1. job[w] \in Tasks /\ Finish(job[w], {"QUEUED", "RUNNING"}, "FAILED")
      BY <1>1, <2>1 DEF MarkDeadLettered, FailInvalid, MarkQueueFailure, FailEligible
    <3>2. QED
      BY <3>1, FinishIsRowStep
  <2>2. CASE TimeOutTask(w) \/ FailRunning(w) \/ CompleteTask(w)
    <3>1. job[w] \in Tasks
      BY <1>1, <2>2 DEF TimeOutTask, FailRunning, CompleteTask
    <3>2. PICK outcome \in Terminal : Finish(job[w], {"RUNNING"}, outcome)
      BY <2>2 DEF TimeOutTask, FailRunning, CompleteTask
    <3>3. QED
      BY <3>1, <3>2, FinishIsRowStep
  <2>3. CASE ScheduleRetry(w)
    <3>1. CASE Reopen(job[w], {"RUNNING"}, run[w], "RETRIED")
      <4>1. /\ job[w] \in Tasks
            /\ run[w] \in DOMAIN events[job[w]]
            /\ events[job[w]][run[w]].attempt < MaxAttempts
        BY <1>1, <2>3 DEF ScheduleRetry, TypeOK, ReadsTypeOK
      <4>2. RowReopened(job[w], run[w], "RETRIED")
        BY <3>1, <4>1 DEF Reopen, RowReopened
      <4>3. RowStepOf(job[w])
        BY <4>1, <4>2 DEF RowStepOf, Fates
      <4>4. QED
        BY <4>1, <4>3 DEF RowStep
    <3>2. QED
      BY <1>0, <2>3, <3>1 DEF ScheduleRetry
  <2>4. CASE ClaimRunning(w)
    <3>1. CASE status[job[w]] = "QUEUED"
      <4>1. RowStarted(job[w]) /\ job[w] \in Tasks
        BY <1>1, <2>4, <3>1 DEF ClaimRunning, RowStarted
      <4>2. QED
        BY <4>1 DEF RowStep, RowStepOf
    <3>2. QED
      BY <1>0, <2>4, <3>1 DEF ClaimRunning
  <2>5. CASE StoreOutput(w)
    BY <2>5 DEF StoreOutput, RowStep, RowUntouched
  <2>6. CASE Pop(w) \/ Claim(w) \/ GiveUp(w) \/ LoadSnapshot(w) \/ Execute(w)
             \/ FindForRetry(w) \/ CheckResult(w) \/ AckClaim(w) \/ Requeue(w)
    BY <1>0, <2>6 DEF Pop, Claim, GiveUp, LoadSnapshot, Execute, FindForRetry, CheckResult,
                      AckClaim, Requeue
  <2>7. QED
    BY <1>6, <2>1, <2>2, <2>3, <2>4, <2>5, <2>6
       DEF WorkerStep, ClaimStep, ProcessStep, SettleStep
<1>7. CASE FaultStep \/ \E p \in Projects : DeleteProject(p)
  BY <1>0, <1>7 DEF FaultStep, PushFails, HandlerDies, RequeueFails, Abandon, ProcessFails,
                    RecoveryFails, DeleteProject
<1>8. CASE UNCHANGED vars
  BY <1>0, <1>8 DEF vars
<1>9. QED
  BY <1>3, <1>4, <1>5, <1>6, <1>7, <1>8 DEF Next

\* What a row step does to its task.
RowEffect(t) ==
  \/ /\ RowCreated(t)
     /\ status'[t] = "QUEUED"
     /\ events[t] = <<>>
     /\ events'[t] = <<[attempt |-> 1, fate |-> "waiting"]>>
     /\ events'[t] \in Seq(Opening)
  \/ /\ RowStarted(t)
     /\ status'[t] = "RUNNING"
     /\ FateMoved(events[t], events'[t], "running")
  \/ \E outcome \in Terminal :
        /\ RowClosed(t, outcome)
        /\ status'[t] = outcome
        /\ FateMoved(events[t], events'[t], outcome)
  \/ \E base \in DOMAIN events[t], closed \in Retryable \cup {"RETRIED"} :
        /\ RowReopened(t, base, closed)
        /\ status'[t] = "QUEUED"
        /\ OpeningAdded(events[t], events'[t], closed)

\* A row step leaves the other tasks alone, and does this to its own.
LEMMA RowStepEffect ==
  ASSUME TypeOK, NEW t \in Tasks, RowStepOf(t)
  PROVE  /\ RowEffect(t)
         /\ \A u \in Tasks \ {t} : status'[u] = status[u] /\ events'[u] = events[u]
<1>0. /\ status \in [Tasks -> Statuses]
      /\ events \in [Tasks -> Seq(Opening)]
      /\ events[t] \in Seq(Opening)
      /\ status[t] = "NONE" <=> events[t] = <<>>
  BY DEF TypeOK, RowTypeOK, OpenedTypeOK
<1>1. CASE RowCreated(t)
  <2>1. /\ status'[t] = "QUEUED"
        /\ events[t] = <<>>
        /\ events'[t] = <<[attempt |-> 1, fate |-> "waiting"]>>
    BY <1>0, <1>1 DEF RowCreated
  <2>2. [attempt |-> 1, fate |-> "waiting"] \in Opening
    BY MaxAttemptsAssumption DEF Opening, Attempts, Fates
  <2>3. events'[t] \in Seq(Opening)
    BY <2>1, <2>2
  <2>4. \A u \in Tasks \ {t} : status'[u] = status[u] /\ events'[u] = events[u]
    BY <1>0, <1>1 DEF RowCreated
  <2>5. QED
    BY <1>1, <2>1, <2>3, <2>4 DEF RowEffect
<1>m. ASSUME NEW fate \in Fates, status[t] # "NONE",
             events' = [events EXCEPT ![t][Opened(t)].fate = fate]
      PROVE  /\ FateMoved(events[t], events'[t], fate)
             /\ \A u \in Tasks \ {t} : events'[u] = events[u]
  <2>1. events'[t] = [events[t] EXCEPT ![Len(events[t])].fate = fate]
    BY <1>0, <1>m DEF Opened
  <2>2. \A u \in Tasks \ {t} : events'[u] = events[u]
    BY <1>0, <1>m
  <2>3. FateMoved(events[t], events'[t], fate)
    BY <1>0, <1>m, <2>1, FateIsMoved
  <2>4. QED
    BY <2>2, <2>3
<1>2. CASE RowStarted(t)
  <2>1. FateMoved(events[t], events'[t], "running")
        /\ \A u \in Tasks \ {t} : events'[u] = events[u]
    BY <1>m, <1>2 DEF RowStarted, Fates
  <2>2. status'[t] = "RUNNING" /\ \A u \in Tasks \ {t} : status'[u] = status[u]
    BY <1>0, <1>2 DEF RowStarted
  <2>3. QED
    BY <1>2, <2>1, <2>2 DEF RowEffect
<1>3. ASSUME NEW outcome \in Terminal, RowClosed(t, outcome)
      PROVE  /\ RowEffect(t)
             /\ \A u \in Tasks \ {t} : status'[u] = status[u] /\ events'[u] = events[u]
  <2>1. FateMoved(events[t], events'[t], outcome)
        /\ \A u \in Tasks \ {t} : events'[u] = events[u]
    BY <1>m, <1>3 DEF RowClosed, Fates
  <2>2. status'[t] = outcome /\ \A u \in Tasks \ {t} : status'[u] = status[u]
    BY <1>0, <1>3 DEF RowClosed
  <2>3. QED
    BY <1>3, <2>1, <2>2 DEF RowEffect
<1>4. ASSUME NEW base \in DOMAIN events[t], NEW closed \in Fates, RowReopened(t, base, closed)
      PROVE  /\ RowEffect(t)
             /\ \A u \in Tasks \ {t} : status'[u] = status[u] /\ events'[u] = events[u]
  <2>1. closed \in Retryable \cup {"RETRIED"}
    BY <1>4 DEF RowReopened
  <2>2. status[t] # "NONE"
    BY <1>4 DEF RowReopened, Retryable
  <2>3. base \in 1 .. Len(events[t]) /\ events[t] # <<>>
    BY <1>0, <2>2
  <2>4. events'[t] = Append([events[t] EXCEPT ![Len(events[t])].fate = closed],
                            [attempt |-> events[t][base].attempt + 1, fate |-> "waiting"])
    BY <1>0, <1>4 DEF RowReopened, Opened
  <2>5. OpeningAdded(events[t], events'[t], closed)
    BY <1>0, <1>4, <2>3, <2>4, OpeningIsAdded DEF RowReopened
  <2>6. status'[t] = "QUEUED"
    BY <1>0, <1>4 DEF RowReopened
  <2>7. \A u \in Tasks \ {t} : status'[u] = status[u] /\ events'[u] = events[u]
    BY <1>0, <1>4 DEF RowReopened
  <2>8. QED
    BY <1>4, <2>1, <2>5, <2>6, <2>7 DEF RowEffect
<1>5. QED
  BY <1>1, <1>2, <1>3, <1>4 DEF RowStepOf

\* Openings are only ever added, under numbers that stay.
OpeningsKept ==
  \A t \in Tasks : \A i \in DOMAIN events[t] :
     i \in DOMAIN events'[t] /\ events'[t][i].attempt = events[t][i].attempt

\* A row step keeps the types of the rows, and the openings there are.
LEMMA RowStepTyped ==
  ASSUME TypeOK, RowStep
  PROVE  /\ status' \in [Tasks -> Statuses]
         /\ events' \in [Tasks -> Seq(Opening)]
         /\ OpenedTypeOK'
         /\ OpeningsKept
<1>0. /\ status \in [Tasks -> Statuses]
      /\ events \in [Tasks -> Seq(Opening)]
      /\ \A u \in Tasks : status[u] = "NONE" <=> events[u] = <<>>
  BY DEF TypeOK, RowTypeOK, OpenedTypeOK
<1>1. CASE RowUntouched
  BY <1>0, <1>1 DEF RowUntouched, OpenedTypeOK, OpeningsKept
<1>2. ASSUME NEW t \in Tasks, RowStepOf(t)
      PROVE  /\ status' \in [Tasks -> Statuses]
             /\ events' \in [Tasks -> Seq(Opening)]
             /\ OpenedTypeOK'
             /\ OpeningsKept
  <2>1. RowEffect(t) /\ \A u \in Tasks \ {t} : status'[u] = status[u] /\ events'[u] = events[u]
    BY <1>2, RowStepEffect
  <2>2. /\ \E x \in Statuses : status' = [status EXCEPT ![t] = x]
        /\ DOMAIN events' = Tasks /\ \E f : events' = [events EXCEPT ![t] = f]
    <3>1. /\ \E x \in Statuses : status' = [status EXCEPT ![t] = x]
          /\ \E f : events' = [events EXCEPT ![t] = f]
      BY <1>2 DEF RowStepOf, RowCreated, RowStarted, RowClosed, RowReopened, Statuses
    <3>2. QED
      BY <1>0, <3>1
  <2>3. /\ events'[t] \in Seq(Opening)
        /\ events'[t] # <<>>
        /\ status'[t] # "NONE"
        /\ \A i \in DOMAIN events[t] :
              i \in DOMAIN events'[t] /\ events'[t][i].attempt = events[t][i].attempt
    <3>0. events[t] \in Seq(Opening) /\ DOMAIN events[t] = 1 .. Len(events[t])
      BY <1>0
    <3>m. ASSUME NEW fate, FateMoved(events[t], events'[t], fate), status[t] # "NONE"
          PROVE  /\ events'[t] \in Seq(Opening)
                 /\ events'[t] # <<>>
                 /\ \A i \in DOMAIN events[t] :
                      i \in DOMAIN events'[t] /\ events'[t][i].attempt = events[t][i].attempt
      <4>1. events[t] # <<>>
        BY <1>0, <3>m
      <4>2. QED
        BY <3>0, <3>m, <4>1 DEF FateMoved, SameButLast
    <3>1. CASE /\ events[t] = <<>>
               /\ events'[t] = <<[attempt |-> 1, fate |-> "waiting"]>>
               /\ status'[t] = "QUEUED"
               /\ events'[t] \in Seq(Opening)
      BY <3>1
    <3>2. CASE RowStarted(t) /\ status'[t] = "RUNNING"
               /\ FateMoved(events[t], events'[t], "running")
      BY <3>m, <3>2 DEF RowStarted
    <3>3. ASSUME NEW outcome \in Terminal, RowClosed(t, outcome), status'[t] = outcome,
                 FateMoved(events[t], events'[t], outcome)
          PROVE  /\ events'[t] \in Seq(Opening)
                 /\ events'[t] # <<>>
                 /\ status'[t] # "NONE"
                 /\ \A i \in DOMAIN events[t] :
                      i \in DOMAIN events'[t] /\ events'[t][i].attempt = events[t][i].attempt
      BY <3>m, <3>3 DEF RowClosed, Terminal
    <3>4. ASSUME NEW closed, OpeningAdded(events[t], events'[t], closed), status'[t] = "QUEUED"
          PROVE  /\ events'[t] \in Seq(Opening)
                 /\ events'[t] # <<>>
                 /\ status'[t] # "NONE"
                 /\ \A i \in DOMAIN events[t] :
                      i \in DOMAIN events'[t] /\ events'[t][i].attempt = events[t][i].attempt
      BY <3>0, <3>4 DEF OpeningAdded, SameButLast
    <3>5. QED
      BY <2>1, <3>1, <3>2, <3>3, <3>4 DEF RowEffect
  <2>4. status' \in [Tasks -> Statuses] /\ events' \in [Tasks -> Seq(Opening)]
    BY <1>0, <2>2, <2>3
  <2>5. OpenedTypeOK'
    BY <1>0, <2>1, <2>3 DEF OpenedTypeOK
  <2>6. OpeningsKept
    BY <2>1, <2>3 DEF OpeningsKept
  <2>7. QED
    BY <2>4, <2>5, <2>6
<1>3. QED
  BY <1>1, <1>2 DEF RowStep


-----------------------------------------------------------------------------
(* What any step may do to the loops *)

\* A loop that keeps its claim, or drops it, keeps the types.
LEMMA LoopMoveTyped ==
  ASSUME LoopTypeOK, NEW w \in Workers,
         \/ pc[w] # "idle" /\ (\E place \in PCs : Goto(w, place) \/ Settle(w, place))
         \/ Leave(w)
  PROVE  LoopTypeOK'
<1> USE DEF LoopTypeOK
<1>1. ASSUME pc[w] # "idle", NEW place \in PCs, Goto(w, place)
      PROVE  LoopTypeOK'
  BY <1>1 DEF Goto
<1>2. ASSUME pc[w] # "idle", NEW place \in PCs, Settle(w, place)
      PROVE  LoopTypeOK'
  BY <1>2 DEF Settle
<1>3. CASE Leave(w)
  BY <1>3 DEF Leave, PCs
<1>4. QED
  BY <1>1, <1>2, <1>3

\* Whoever of these loops executes, or is about to retry, after the step did
\* so before it, with the same opening.
RunsKept(loops) ==
  \A w \in loops :
     /\ Running(w)' => Running(w) /\ job'[w] = job[w] /\ run'[w] = run[w]
     /\ pc'[w] = "rescheduling" =>
           pc[w] = "rescheduling" /\ job'[w] = job[w] /\ run'[w] = run[w]

\* The loop takes the current opening of its task, to execute or to retry it.
RunTaken(w) ==
  /\ job[w] \in Tasks
  /\ job' = job
  /\ run'[w] = Opened(job[w])
  /\ RunsKept(Workers \ {w})
  /\ \/ RowStarted(job[w]) /\ pc'[w] \in RunPCs
     \/ /\ RowUntouched
        /\ status[job[w]] = "RUNNING"
        /\ Attempt(job[w]) < MaxAttempts
        /\ pc'[w] = "rescheduling"

\* What any step may do to the executions: none begins, or one begins by
\* moving the current opening of its task from QUEUED to RUNNING.
RunStep == RunsKept(Workers) \/ \E w \in Workers : RunTaken(w)

\* A loop that moves on or stops leaves every other execution alone.
LEMMA LoopMoveIsRunStep ==
  ASSUME TypeOK, NEW w \in Workers,
         \/ \E place \in PCs \ (RunPCs \cup {"rescheduling"}) : Goto(w, place) \/ Settle(w, place)
         \/ \E place \in RunPCs : pc[w] \in RunPCs /\ Goto(w, place)
         \/ Leave(w)
  PROVE  RunStep
<1> USE DEF TypeOK, LoopTypeOK, RunStep, RunsKept, Running
<1>1. ASSUME NEW place \in PCs \ (RunPCs \cup {"rescheduling"}), Goto(w, place) \/ Settle(w, place)
      PROVE  RunStep
  BY <1>1 DEF Goto, Settle
<1>2. ASSUME NEW place \in RunPCs, pc[w] \in RunPCs, Goto(w, place)
      PROVE  RunStep
  BY <1>2 DEF Goto, RunPCs
<1>3. CASE Leave(w)
  BY <1>3 DEF Leave, RunPCs
<1>4. QED
  BY <1>1, <1>2, <1>3

\* Every step of the system is a run step, and keeps the types of the loops.
LEMMA StepIsRunStep ==
  ASSUME TypeOK, [Next]_vars
  PROVE  RunStep /\ LoopTypeOK'
<1> USE DEF PCs, ClaimPCs, RunPCs
<1>a. LoopTypeOK
  BY DEF TypeOK
<1>0. ASSUME UNCHANGED workerVars PROVE RunStep /\ LoopTypeOK'
  BY <1>a, <1>0 DEF workerVars, RunStep, RunsKept, Running, LoopTypeOK
<1>m. ASSUME NEW w \in Workers, NEW place \in PCs \ (RunPCs \cup {"rescheduling"}),
             \/ pc[w] # "idle" /\ (Goto(w, place) \/ Settle(w, place))
             \/ Leave(w)
      PROVE  RunStep /\ LoopTypeOK'
  BY <1>a, <1>m, LoopMoveIsRunStep, LoopMoveTyped
<1>1. CASE \/ \E h \in Handlers : UserStep(h) \/ HandlerStep(h) \/ PushFails(h) \/ HandlerDies(h)
           \/ \E p \in Projects : DeleteProject(p)
           \/ \E t \in Tasks : Upkeep(t)
           \/ RecoveryFails
           \/ UNCHANGED vars
  <2>1. UNCHANGED workerVars
    BY <1>1 DEF UserStep, HandlerStep, Upkeep, CreateTask, ReadForCancel, ReadForRetry,
                CancelTask, RetryTask, Push, MarkEnqueueFailed, PushFails, HandlerDies,
                DeleteProject, PromoteDelayed, RecoverClaim, RepairDelivery, ListOverdue,
                TimeOutListed, DeadlinePasses, ClaimAges, RecoveryFails, vars
  <2>2. QED
    BY <1>0, <2>1
<1>2. ASSUME NEW w \in Workers, ClaimStep(w) \/ SettleStep(w)
      PROVE  RunStep /\ LoopTypeOK'
  <2>1. CASE Pop(w)
    BY <2>1 DEF Pop, TypeOK, LoopTypeOK, RunStep, RunsKept, Running
  <2>2. CASE Claim(w) \/ GiveUp(w)
    <3>1. pc[w] # "idle" /\ \E place \in {"deadLettering", "claimed", "markDead"} : Goto(w, place)
      BY <2>2 DEF Claim, GiveUp
    <3>2. QED
      BY <3>1, <1>m
  <2>3. CASE MarkDeadLettered(w) \/ AckClaim(w) \/ Requeue(w) \/ MarkQueueFailure(w)
    BY <2>3, <1>m DEF MarkDeadLettered, AckClaim, Requeue, MarkQueueFailure
  <2>4. QED
    BY <1>2, <2>1, <2>2, <2>3 DEF ClaimStep, SettleStep
<1>3. ASSUME NEW w \in Workers, ProcessStep(w)
      PROVE  RunStep /\ LoopTypeOK'
  <2>1. CASE LoadSnapshot(w) \/ FailInvalid(w)
    <3>1. pc[w] # "idle" /\ \E place \in {"acking", "invalid", "requeueing", "starting"} : Goto(w, place)
      BY <2>1 DEF LoadSnapshot, FailInvalid
    <3>2. QED
      BY <3>1, <1>m
  <2>t. ASSUME pc[w] # "idle", NEW place \in PCs \ {"idle"},
               pc' = [pc EXCEPT ![w] = place],
               run' = [run EXCEPT ![w] = Opened(job[w])], job' = job
        PROVE  /\ LoopTypeOK' /\ job[w] \in Tasks /\ RunsKept(Workers \ {w})
               /\ pc'[w] = place /\ run'[w] = Opened(job[w])
    <3>1. job[w] \in Tasks
      BY <1>a, <2>t DEF LoopTypeOK
    <3>2. Opened(job[w]) \in Nat
      BY <3>1 DEF TypeOK, RowTypeOK, Opened
    <3>3. LoopTypeOK'
      BY <1>a, <2>t, <3>1, <3>2 DEF LoopTypeOK
    <3>4. RunsKept(Workers \ {w})
      BY <1>a, <2>t DEF RunsKept, Running, LoopTypeOK
    <3>5. QED
      BY <1>a, <2>t, <3>1, <3>3, <3>4 DEF LoopTypeOK
  <2>2. CASE ClaimRunning(w)
    <3>1. CASE status[job[w]] = "QUEUED"
      <4>1. /\ pc' = [pc EXCEPT ![w] = "executing"]
            /\ run' = [run EXCEPT ![w] = Opened(job[w])]
            /\ job' = job
            /\ pc[w] # "idle"
        BY <2>2, <3>1 DEF ClaimRunning
      <4>2. RowStarted(job[w])
        BY <2>2, <3>1 DEF ClaimRunning, RowStarted
      <4>3. RunTaken(w) /\ LoopTypeOK'
        BY <2>t, <4>1, <4>2 DEF RunTaken
      <4>4. QED
        BY <4>3 DEF RunStep
    <3>2. CASE status[job[w]] # "QUEUED"
      <4>1. pc[w] # "idle" /\ Goto(w, "acking")
        BY <2>2, <3>2 DEF ClaimRunning
      <4>2. QED
        BY <4>1, <1>m
    <3>3. QED
      BY <3>1, <3>2
  <2>3. CASE FindForRetry(w)
    <3>1. CASE /\ status[job[w]] = "RUNNING"
               /\ Attempt(job[w]) < MaxAttempts
               /\ pc' = [pc EXCEPT ![w] = "rescheduling"]
               /\ run' = [run EXCEPT ![w] = Opened(job[w])]
               /\ job' = job
      <4>1. pc[w] # "idle" /\ RowUntouched
        BY <2>3 DEF FindForRetry, RowUntouched, taskVars
      <4>2. RunTaken(w) /\ LoopTypeOK'
        BY <2>t, <3>1, <4>1 DEF RunTaken
      <4>3. QED
        BY <4>2 DEF RunStep
    <3>2. CASE Settle(w, "requeueing")
      <4>1. pc[w] # "idle"
        BY <2>3 DEF FindForRetry
      <4>2. QED
        BY <1>m, <3>2, <4>1
    <3>3. QED
      BY <2>3, <3>1, <3>2 DEF FindForRetry
  <2>r. ASSUME pc[w] \in RunPCs, NEW place \in RunPCs, Goto(w, place)
        PROVE  RunStep /\ LoopTypeOK'
    <3>1. RunStep
      BY <2>r, LoopMoveIsRunStep
    <3>2. LoopTypeOK'
      BY <1>a, <2>r, LoopMoveTyped
    <3>3. QED
      BY <3>1, <3>2
  <2>4. CASE Execute(w) \/ CheckResult(w)
    <3>1. pc[w] \in RunPCs /\ \E place \in RunPCs : Goto(w, place)
      BY <2>4 DEF Execute, CheckResult
    <3>2. QED
      BY <3>1, <2>r
  <2>5. CASE StoreOutput(w)
    <3>1. /\ pc[w] \in RunPCs
          /\ Goto(w, "completing") \/ Settle(w, "requeueing")
      BY <2>5 DEF StoreOutput
    <3>2. QED
      BY <3>1, <2>r, <1>m
  <2>6. CASE TimeOutTask(w) \/ FailRunning(w) \/ CompleteTask(w) \/ ScheduleRetry(w)
    <3>1. pc[w] # "idle" /\ (Settle(w, "acking") \/ Settle(w, "requeueing"))
      BY <2>6 DEF TimeOutTask, FailRunning, CompleteTask, ScheduleRetry
    <3>2. QED
      BY <3>1, <1>m
  <2>7. QED
    BY <1>3, <2>1, <2>2, <2>3, <2>4, <2>5, <2>6 DEF ProcessStep
<1>4. ASSUME NEW w \in Workers, RequeueFails(w) \/ Abandon(w) \/ ProcessFails(w)
      PROVE  RunStep /\ LoopTypeOK'
  <2>1. \/ pc[w] # "idle" /\ (Goto(w, "queueFailed") \/ Settle(w, "requeueing"))
        \/ Leave(w)
    BY <1>4 DEF RequeueFails, Abandon, ProcessFails
  <2>2. QED
    BY <2>1, <1>m
<1>5. QED
  BY <1>1, <1>2, <1>3, <1>4 DEF Next, WorkerStep, FaultStep

-----------------------------------------------------------------------------
(* What any step may do to the handlers, and to what has been read *)

\* Whoever of these handlers is about to retry after the step was so before.
CallsKept(handlers) ==
  \A h \in handlers :
     call'[h] = "retrying" =>
        call[h] = "retrying" /\ target'[h] = target[h] /\ seen'[h] = seen[h]

RetryRead(h) ==
  /\ RowUntouched
  /\ target'[h] \in Tasks
  /\ status[target'[h]] \in Retryable
  /\ Attempt(target'[h]) < MaxAttempts
  /\ seen'[h] = Opened(target'[h])
  /\ CallsKept(Handlers \ {h})

CallStep == CallsKept(Handlers) \/ \E h \in Handlers : RetryRead(h)

\* Every step of the system is a call step, and keeps the types of the calls.
LEMMA StepIsCallStep ==
  ASSUME TypeOK, [Next]_vars
  PROVE  CallStep /\ CallTypeOK'
<1> USE DEF CallPlaces
<1>a. CallTypeOK
  BY DEF TypeOK
<1>0. ASSUME UNCHANGED apiVars PROVE CallStep /\ CallTypeOK'
  BY <1>a, <1>0 DEF apiVars, CallStep, CallsKept, CallTypeOK
<1>m. ASSUME NEW h \in Handlers, NEW place \in CallPlaces \ {"retrying"},
             \/ call[h] # "idle" /\ Proceed(h, place)
             \/ Answer(h)
      PROVE  CallStep /\ CallTypeOK'
  <2>1. CallTypeOK'
    BY <1>a, <1>m DEF CallTypeOK, Proceed, Answer
  <2>2. CallsKept(Handlers)
    BY <1>a, <1>m DEF CallTypeOK, CallsKept, Proceed, Answer
  <2>3. QED
    BY <2>1, <2>2 DEF CallStep
<1>1. ASSUME NEW h \in Handlers, UserStep(h)
      PROVE  CallStep /\ CallTypeOK'
  <2>1. ASSUME NEW t \in Tasks, CreateTask(h, t) \/ ReadForCancel(h, t)
        PROVE  CallStep /\ CallTypeOK'
    <3>1. PICK place \in {"pushing", "cancelling"} :
             /\ call' = [call EXCEPT ![h] = place]
             /\ target' = [target EXCEPT ![h] = t]
             /\ UNCHANGED seen
      BY <2>1 DEF CreateTask, ReadForCancel
    <3>2. CallTypeOK'
      BY <1>a, <3>1 DEF CallTypeOK
    <3>3. CallsKept(Handlers)
      BY <1>a, <3>1 DEF CallTypeOK, CallsKept
    <3>4. QED
      BY <3>2, <3>3 DEF CallStep
  <2>2. ASSUME NEW t \in Tasks, ReadForRetry(h, t)
        PROVE  CallStep /\ CallTypeOK'
    <3>1. Opened(t) \in Nat
      BY DEF TypeOK, RowTypeOK, Opened
    <3>2. CallTypeOK'
      BY <1>a, <2>2, <3>1 DEF CallTypeOK, ReadForRetry
    <3>3. CallsKept(Handlers \ {h}) /\ target'[h] = t /\ seen'[h] = Opened(t)
      BY <1>a, <2>2 DEF CallTypeOK, CallsKept, ReadForRetry
    <3>4. RetryRead(h)
      BY <2>2, <3>3 DEF RetryRead, ReadForRetry, RowUntouched, taskVars
    <3>5. QED
      BY <3>2, <3>4 DEF CallStep
  <2>3. QED
    BY <1>1, <2>1, <2>2 DEF UserStep
<1>2. ASSUME NEW h \in Handlers, HandlerStep(h) \/ PushFails(h) \/ HandlerDies(h)
      PROVE  CallStep /\ CallTypeOK'
  <2>1. \/ call[h] # "idle" /\ (Proceed(h, "pushing") \/ Proceed(h, "failing"))
        \/ Answer(h)
    BY <1>2 DEF HandlerStep, CancelTask, RetryTask, Push, MarkEnqueueFailed, PushFails,
                HandlerDies
  <2>2. QED
    BY <2>1, <1>m
<1>3. ASSUME NEW w \in Workers, WorkerStep(w)
      PROVE  UNCHANGED apiVars
  BY <1>3 DEF WorkerStep, ClaimStep, ProcessStep, SettleStep, Pop, Claim, GiveUp,
              MarkDeadLettered, LoadSnapshot, FailInvalid, ClaimRunning, Execute,
              TimeOutTask, FailRunning, FindForRetry, ScheduleRetry, CheckResult,
              StoreOutput, CompleteTask, AckClaim, Requeue, MarkQueueFailure
<1>4. CASE \/ \E w \in Workers :
                 WorkerStep(w) \/ RequeueFails(w) \/ Abandon(w) \/ ProcessFails(w)
           \/ \E p \in Projects : DeleteProject(p)
           \/ \E t \in Tasks : Upkeep(t)
           \/ RecoveryFails
           \/ UNCHANGED vars
  <2>1. UNCHANGED apiVars
    BY <1>3, <1>4 DEF RequeueFails, Abandon, ProcessFails, DeleteProject, Upkeep,
                PromoteDelayed, RecoverClaim, RepairDelivery, ListOverdue,
                TimeOutListed, DeadlinePasses, ClaimAges, RecoveryFails, vars
  <2>2. QED
    BY <1>0, <2>1
<1>5. QED
  BY <1>1, <1>2, <1>4 DEF Next, FaultStep

\* What a loop or a handler has read stays an opening of its task: the
\* openings are only added to.
LEMMA ReadsStayTyped ==
  ASSUME TypeOK, OpeningsKept, RunStep, CallStep
  PROVE  ReadsTypeOK'
<1>0. /\ \A t \in Tasks : events[t] \in Seq(Opening)
      /\ \A t \in Tasks : status[t] = "NONE" <=> events[t] = <<>>
      /\ LoopTypeOK
      /\ CallTypeOK
      /\ ReadsTypeOK
  BY DEF TypeOK, RowTypeOK, OpenedTypeOK
<1>k. ASSUME NEW t \in Tasks, NEW i \in DOMAIN events[t]
      PROVE  i \in DOMAIN events'[t] /\ events'[t][i].attempt = events[t][i].attempt
  BY <1>k DEF OpeningsKept
<1>c. ASSUME NEW t \in Tasks, status[t] # "NONE"
      PROVE  Opened(t) \in DOMAIN events[t]
  BY <1>0, <1>c DEF Opened
<1>1. ASSUME NEW h \in Handlers, call'[h] = "retrying"
      PROVE  /\ seen'[h] \in DOMAIN events'[target'[h]]
             /\ events'[target'[h]][seen'[h]].attempt < MaxAttempts
  <2>1. CASE call[h] = "retrying" /\ target'[h] = target[h] /\ seen'[h] = seen[h]
    <3>1. /\ target[h] \in Tasks
          /\ seen[h] \in DOMAIN events[target[h]]
          /\ events[target[h]][seen[h]].attempt < MaxAttempts
      BY <1>0, <2>1 DEF CallTypeOK, ReadsTypeOK
    <3>2. QED
      BY <1>k, <2>1, <3>1
  <2>2. CASE RetryRead(h)
    <3>1. target'[h] \in Tasks /\ status[target'[h]] # "NONE" /\ events' = events
      BY <2>2 DEF RetryRead, Retryable, RowUntouched
    <3>2. Opened(target'[h]) \in DOMAIN events[target'[h]]
      BY <1>c, <3>1
    <3>3. QED
      BY <2>2, <3>1, <3>2 DEF RetryRead, Attempt
  <2>3. QED
    BY <1>1, <2>1, <2>2 DEF CallStep, CallsKept, RetryRead
<1>2. ASSUME NEW w \in Workers, Running(w)' \/ pc'[w] = "rescheduling"
      PROVE  /\ run'[w] \in DOMAIN events'[job'[w]]
             /\ pc'[w] = "rescheduling" => events'[job'[w]][run'[w]].attempt < MaxAttempts
  <2>1. CASE /\ job'[w] = job[w] /\ run'[w] = run[w]
             /\ Running(w) \/ pc[w] = "rescheduling"
             /\ pc'[w] = "rescheduling" => pc[w] = "rescheduling"
    <3>1. /\ job[w] \in Tasks
          /\ run[w] \in DOMAIN events[job[w]]
          /\ pc[w] = "rescheduling" => events[job[w]][run[w]].attempt < MaxAttempts
      BY <1>0, <2>1 DEF LoopTypeOK, ReadsTypeOK, Running, RunPCs
    <3>2. QED
      BY <1>k, <2>1, <3>1
  <2>2. CASE RunTaken(w)
    <3>1. /\ job[w] \in Tasks /\ job'[w] = job[w] /\ run'[w] = Opened(job[w])
          /\ status[job[w]] # "NONE"
      BY <2>2 DEF RunTaken, RowStarted
    <3>2. Opened(job[w]) \in DOMAIN events[job[w]]
      BY <1>c, <3>1
    <3>3. run'[w] \in DOMAIN events'[job'[w]]
      BY <1>k, <3>1, <3>2
    <3>4. pc'[w] = "rescheduling" => Attempt(job[w]) < MaxAttempts
      BY <2>2 DEF RunTaken, RunPCs
    <3>5. QED
      BY <1>k, <3>1, <3>2, <3>3, <3>4 DEF Attempt
  <2>3. QED
    <3>1. CASE RunsKept(Workers)
      BY <1>2, <2>1, <3>1 DEF RunsKept, Running, RunPCs
    <3>2. ASSUME NEW v \in Workers, RunTaken(v), v # w
          PROVE  /\ job'[w] = job[w] /\ run'[w] = run[w]
                 /\ Running(w) \/ pc[w] = "rescheduling"
                 /\ pc'[w] = "rescheduling" => pc[w] = "rescheduling"
      BY <1>2, <3>2 DEF RunTaken, RunsKept
    <3>3. QED
      BY <2>1, <2>2, <3>1, <3>2 DEF RunStep
<1>3. QED
  BY <1>1, <1>2 DEF ReadsTypeOK, Running, RunPCs


-----------------------------------------------------------------------------
(* What any step may do to the Redis structures *)

Pushers(t) == {h \in Handlers : call[h] = "pushing" /\ target[h] = t}

\* Whatever happens in Redis but the pushes moves copies or drops them.
QueueMove(t) ==
  \/ PopTask(t) \/ RecordClaim(t) \/ Ack(t) \/ RetryDelayed(t) \/ DeadLetter(t)
  \/ RecoverStale(t) \/ PromoteDue(t) \/ VisibilityElapses(t)

\* No handler comes to owe a copy.
NoneOwed ==
  /\ \A t \in Tasks : Pushers(t)' \subseteq Pushers(t)
  /\ \/ UNCHANGED queueVars
     \/ \E t \in Tasks : QueueMove(t) \/ EnsureDelivery(t)

\* A handler pushes its task, or tries to.
PushEnds(h, t) ==
  /\ h \in Pushers(t)
  /\ EnqueueTask(t) \/ UNCHANGED queueVars
  /\ h \notin Pushers(t)'
  /\ \A u \in Tasks : Pushers(u)' \subseteq Pushers(u)

\* A handler commits a creation or a retry and owes the push.
PushOwed(h, t) ==
  /\ UNCHANGED queueVars
  /\ \/ RowCreated(t)
     \/ \E base \in DOMAIN events[t] :
           status[t] \in Retryable /\ RowReopened(t, base, status[t])
  /\ Pushers(t)' \subseteq Pushers(t) \cup {h}
  /\ \A u \in Tasks \ {t} : Pushers(u)' \subseteq Pushers(u)

CopyStep ==
  \/ NoneOwed
  \/ \E h \in Handlers, t \in Tasks : PushEnds(h, t) \/ PushOwed(h, t)

\* Every step is one of these.
LEMMA StepIsCopyStep ==
  ASSUME TypeOK, [Next]_vars
  PROVE  CopyStep
<1>0. ASSUME UNCHANGED <<queueVars, apiVars>> PROVE CopyStep
  BY <1>0 DEF apiVars, CopyStep, NoneOwed, Pushers
<1>m. ASSUME NEW t \in Tasks, QueueMove(t) \/ EnsureDelivery(t), UNCHANGED apiVars
      PROVE  CopyStep
  BY <1>m DEF apiVars, CopyStep, NoneOwed, Pushers
<1>j. ASSUME NEW w \in Workers, pc[w] # "idle" PROVE job[w] \in Tasks
  BY <1>j DEF TypeOK, LoopTypeOK
<1>t. /\ \A h \in Handlers : call[h] # "idle" => target[h] \in Tasks
      /\ call \in [Handlers -> CallPlaces]
      /\ target \in [Handlers -> Tasks \cup {NoTask}]
  BY DEF TypeOK, CallTypeOK
\* A handler that is not pushing afterwards, and the others as they were.
<1>q. ASSUME NEW h \in Handlers, NEW place \in CallPlaces \ {"pushing"},
             call' = [call EXCEPT ![h] = place],
             \A g \in Handlers \ {h} : target'[g] = target[g]
      PROVE  /\ \A u \in Tasks : Pushers(u)' \subseteq Pushers(u)
             /\ \A u \in Tasks : h \notin Pushers(u)'
  BY <1>t, <1>q DEF Pushers
<1>1. ASSUME NEW h \in Handlers, UserStep(h) PROVE CopyStep
  <2>1. ASSUME NEW t \in Tasks, CreateTask(h, t) PROVE CopyStep
    <3>1. /\ call' = [call EXCEPT ![h] = "pushing"]
          /\ target' = [target EXCEPT ![h] = t]
          /\ UNCHANGED queueVars
          /\ RowCreated(t)
      BY <2>1 DEF CreateTask, RowCreated
    <3>2. /\ Pushers(t)' \subseteq Pushers(t) \cup {h}
          /\ \A u \in Tasks \ {t} : Pushers(u)' \subseteq Pushers(u)
      BY <1>t, <3>1 DEF Pushers
    <3>3. PushOwed(h, t)
      BY <3>1, <3>2 DEF PushOwed
    <3>4. QED
      BY <3>3 DEF CopyStep
  <2>2. ASSUME NEW t \in Tasks, ReadForCancel(h, t) \/ ReadForRetry(h, t) PROVE CopyStep
    <3>1. PICK place \in {"cancelling", "retrying"} :
             /\ call' = [call EXCEPT ![h] = place]
             /\ target' = [target EXCEPT ![h] = t]
             /\ UNCHANGED queueVars
      BY <2>2 DEF ReadForCancel, ReadForRetry
    <3>2. \A u \in Tasks : Pushers(u)' \subseteq Pushers(u)
      BY <1>t, <3>1 DEF Pushers
    <3>3. QED
      BY <3>1, <3>2 DEF CopyStep, NoneOwed
  <2>3. QED
    BY <1>1, <2>1, <2>2 DEF UserStep
<1>2. ASSUME NEW h \in Handlers, HandlerStep(h) \/ PushFails(h) \/ HandlerDies(h)
      PROVE  CopyStep
  <2>1. CASE Push(h) \/ PushFails(h)
    <3>1. /\ h \in Pushers(target[h]) /\ target[h] \in Tasks
          /\ EnqueueTask(target[h]) \/ UNCHANGED queueVars
      BY <1>t, <2>1 DEF Push, PushFails, Pushers
    <3>2. \E place \in {"idle", "failing"} :
             /\ call' = [call EXCEPT ![h] = place]
             /\ \A g \in Handlers \ {h} : target'[g] = target[g]
      BY <1>t, <2>1 DEF Push, PushFails, Answer, Proceed
    <3>3. /\ \A u \in Tasks : Pushers(u)' \subseteq Pushers(u)
          /\ \A u \in Tasks : h \notin Pushers(u)'
      BY <1>q, <3>2 DEF CallPlaces
    <3>4. PICK t \in Tasks : t = target[h]
      BY <3>1
    <3>5. PushEnds(h, t)
      BY <3>1, <3>3, <3>4 DEF PushEnds
    <3>6. QED
      BY <3>5 DEF CopyStep
  <2>2. CASE CancelTask(h) \/ MarkEnqueueFailed(h) \/ HandlerDies(h)
    <3>1. Answer(h) /\ UNCHANGED queueVars
      BY <2>2 DEF CancelTask, MarkEnqueueFailed, HandlerDies
    <3>2. \A u \in Tasks : Pushers(u)' \subseteq Pushers(u)
      BY <1>t, <1>q, <3>1 DEF Answer, CallPlaces
    <3>3. QED
      BY <3>1, <3>2 DEF CopyStep, NoneOwed
  <2>3. CASE RetryTask(h)
    <3>1. CASE Reopen(target[h], Retryable, seen[h], status[target[h]]) /\ Proceed(h, "pushing")
      <4>1. PICK t \in Tasks : t = target[h]
        BY <1>t, <2>3 DEF RetryTask
      <4>2. seen[h] \in DOMAIN events[t] /\ events[t][seen[h]].attempt < MaxAttempts
        BY <2>3, <4>1 DEF RetryTask, TypeOK, ReadsTypeOK
      <4>3. status[t] \in Retryable /\ RowReopened(t, seen[h], status[t])
        BY <3>1, <4>1, <4>2 DEF Reopen, RowReopened
      <4>4. /\ Pushers(t)' \subseteq Pushers(t) \cup {h}
            /\ \A u \in Tasks \ {t} : Pushers(u)' \subseteq Pushers(u)
        BY <1>t, <3>1, <4>1 DEF Proceed, Pushers
      <4>5. PushOwed(h, t)
        BY <2>3, <4>2, <4>3, <4>4 DEF PushOwed, RetryTask
      <4>6. QED
        BY <4>5 DEF CopyStep
    <3>2. CASE Answer(h)
      <4>1. \A u \in Tasks : Pushers(u)' \subseteq Pushers(u)
        BY <1>t, <1>q, <3>2 DEF Answer, CallPlaces
      <4>2. QED
        BY <2>3, <4>1 DEF CopyStep, NoneOwed, RetryTask
    <3>3. QED
      BY <2>3, <3>1, <3>2 DEF RetryTask
  <2>4. QED
    BY <1>2, <2>1, <2>2, <2>3 DEF HandlerStep
<1>3. ASSUME NEW t \in Tasks, Upkeep(t) PROVE CopyStep
  <2>1. CASE PromoteDelayed(t) \/ RecoverClaim(t) \/ ClaimAges(t) \/ RepairDelivery(t)
    BY <1>m, <2>1
       DEF PromoteDelayed, RecoverClaim, ClaimAges, RepairDelivery, QueueMove
  <2>2. CASE ListOverdue(t) \/ TimeOutListed(t) \/ DeadlinePasses(t)
    BY <1>0, <2>2 DEF ListOverdue, TimeOutListed, DeadlinePasses
  <2>3. QED
    BY <1>3, <2>1, <2>2 DEF Upkeep
<1>4. ASSUME NEW w \in Workers, ClaimStep(w) \/ SettleStep(w) PROVE CopyStep
  <2>1. CASE Pop(w)
    BY <1>m, <2>1 DEF Pop, QueueMove
  <2>2. CASE Claim(w) \/ GiveUp(w) \/ AckClaim(w) \/ Requeue(w)
    BY <1>j, <1>m, <2>2 DEF Claim, GiveUp, AckClaim, Requeue, QueueMove
  <2>3. CASE MarkDeadLettered(w) \/ MarkQueueFailure(w)
    BY <1>0, <2>3 DEF MarkDeadLettered, MarkQueueFailure
  <2>4. QED
    BY <1>4, <2>1, <2>2, <2>3 DEF ClaimStep, SettleStep
<1>5. ASSUME NEW w \in Workers, ProcessStep(w) PROVE CopyStep
  BY <1>0, <1>5 DEF ProcessStep, LoadSnapshot, FailInvalid, ClaimRunning, Execute,
                    TimeOutTask, FailRunning, CheckResult, StoreOutput, CompleteTask,
                    FindForRetry, ScheduleRetry
<1>6. ASSUME NEW w \in Workers, RequeueFails(w) \/ Abandon(w) \/ ProcessFails(w)
      PROVE  CopyStep
  <2>1. CASE RequeueFails(w)
    BY <1>0, <1>j, <1>m, <2>1 DEF RequeueFails, QueueMove
  <2>2. CASE Abandon(w) \/ ProcessFails(w)
    BY <1>0, <2>2 DEF Abandon, ProcessFails
  <2>3. QED
    BY <1>6, <2>1, <2>2
<1>7. CASE RecoveryFails \/ UNCHANGED vars \/ \E p \in Projects : DeleteProject(p)
  BY <1>0, <1>7 DEF RecoveryFails, DeleteProject, vars
<1>8. QED
  BY <1>1, <1>2, <1>3, <1>4, <1>5, <1>6, <1>7 DEF Next, WorkerStep, FaultStep


-----------------------------------------------------------------------------
(* Type correctness *)

\* The steps keep the types of the Redis structures.
LEMMA CopyStepTyped ==
  ASSUME TypeOK, CopyStep
  PROVE  QueueTypeOK'
<1>1. QueueTypeOK
  BY DEF TypeOK
<1>2. UNCHANGED queueVars \/ \E t \in Tasks : QueueOperation(t)
  BY DEF CopyStep, NoneOwed, PushEnds, PushOwed, QueueMove, QueueOperation
<1>3. CASE UNCHANGED queueVars
  BY <1>1, <1>3 DEF QueueTypeOK, queueVars
<1>4. QED
  BY <1>1, <1>2, <1>3, QueueOperationTyped

\* The deadlines, outputs, deleted projects, lists of recovery and faults.
LEMMA RestTyped ==
  ASSUME TypeOK, [Next]_vars
  PROVE  /\ overdue' \in [Tasks -> BOOLEAN]
         /\ output' \in [Tasks -> Nat]
         /\ deleted' \in SUBSET Projects
         /\ expiring' \in SUBSET Tasks
         /\ faults' \in 0 .. MaxFaults
<1>0. /\ overdue \in [Tasks -> BOOLEAN]
      /\ output \in [Tasks -> Nat]
      /\ deleted \in SUBSET Projects
      /\ expiring \in SUBSET Tasks
      /\ faults \in 0 .. MaxFaults
      /\ run \in [Workers -> Nat]
  BY DEF TypeOK, RowTypeOK, LoopTypeOK
<1> DEFINE Same == UNCHANGED <<taskVars, deleted, expiring, faults>>
           Typed == /\ overdue' \in [Tasks -> BOOLEAN]
                    /\ output' \in [Tasks -> Nat]
                    /\ deleted' \in SUBSET Projects
                    /\ expiring' \in SUBSET Tasks
                    /\ faults' \in 0 .. MaxFaults
<1>s. ASSUME Same PROVE Typed
  BY <1>0, <1>s DEF taskVars
<1>f. ASSUME NEW t, NEW from, NEW outcome, Finish(t, from, outcome)
      PROVE  UNCHANGED <<overdue, output>>
  BY <1>f DEF Finish, Close, taskVars
<1>r. ASSUME NEW t, NEW from, NEW base, NEW closed, Reopen(t, from, base, closed)
      PROVE  overdue' \in [Tasks -> BOOLEAN] /\ output' \in [Tasks -> Nat]
  BY <1>0, <1>r DEF Reopen
<1>1. ASSUME NEW h \in Handlers, UserStep(h) \/ HandlerStep(h) PROVE Typed
  <2>1. UNCHANGED <<deleted, expiring, faults>>
    BY <1>1 DEF UserStep, HandlerStep, CreateTask, ReadForCancel, ReadForRetry, CancelTask,
                RetryTask, Push, MarkEnqueueFailed
  <2>2. CASE Push(h) \/ \E t \in Tasks : CreateTask(h, t) \/ ReadForCancel(h, t)
                                           \/ ReadForRetry(h, t)
    BY <1>0, <2>1, <2>2 DEF CreateTask, ReadForCancel, ReadForRetry, Push, taskVars
  <2>3. CASE CancelTask(h) \/ MarkEnqueueFailed(h)
    <3>1. UNCHANGED <<overdue, output>>
      BY <1>f, <2>3 DEF CancelTask, MarkEnqueueFailed
    <3>2. QED
      BY <1>0, <2>1, <3>1
  <2>4. CASE RetryTask(h)
    <3>1. CASE UNCHANGED taskVars
      BY <1>0, <2>1, <3>1 DEF taskVars
    <3>2. CASE Reopen(target[h], Retryable, seen[h], status[target[h]])
      BY <1>0, <1>r, <2>1, <3>2
    <3>3. QED
      BY <2>4, <3>1, <3>2 DEF RetryTask
  <2>5. QED
    BY <1>1, <2>2, <2>3, <2>4 DEF UserStep, HandlerStep
<1>2. ASSUME NEW w \in Workers, WorkerStep(w) PROVE Typed
  <2>1. UNCHANGED <<deleted, expiring, faults>>
    BY <1>2 DEF WorkerStep, ClaimStep, ProcessStep, SettleStep, Pop, Claim, GiveUp,
                MarkDeadLettered, LoadSnapshot, FailInvalid, ClaimRunning, Execute,
                TimeOutTask, FailRunning, FindForRetry, ScheduleRetry, CheckResult,
                StoreOutput, CompleteTask, AckClaim, Requeue, MarkQueueFailure
  <2>2. CASE \/ Pop(w) \/ Claim(w) \/ GiveUp(w) \/ LoadSnapshot(w) \/ ClaimRunning(w)
             \/ Execute(w) \/ FindForRetry(w) \/ CheckResult(w) \/ AckClaim(w) \/ Requeue(w)
    <3>1. UNCHANGED <<overdue, output>>
      BY <2>2 DEF Pop, Claim, GiveUp, LoadSnapshot, ClaimRunning, Execute, FindForRetry,
                  CheckResult, AckClaim, Requeue, taskVars
    <3>2. QED
      BY <1>0, <2>1, <3>1
  <2>3. CASE \/ MarkDeadLettered(w) \/ FailInvalid(w) \/ MarkQueueFailure(w)
             \/ TimeOutTask(w) \/ FailRunning(w) \/ CompleteTask(w)
    <3>1. UNCHANGED <<overdue, output>>
      BY <1>f, <2>3 DEF MarkDeadLettered, FailInvalid, MarkQueueFailure, FailEligible,
                        TimeOutTask, FailRunning, CompleteTask
    <3>2. QED
      BY <1>0, <2>1, <3>1
  <2>4. CASE ScheduleRetry(w)
    <3>1. CASE UNCHANGED taskVars
      BY <1>0, <2>1, <3>1 DEF taskVars
    <3>2. CASE Reopen(job[w], {"RUNNING"}, run[w], "RETRIED")
      BY <1>0, <1>r, <2>1, <3>2
    <3>3. QED
      BY <2>4, <3>1, <3>2 DEF ScheduleRetry
  <2>5. CASE StoreOutput(w)
    <3>1. output' = output \/ output' = [output EXCEPT ![job[w]] = run[w]]
      BY <2>5 DEF StoreOutput
    <3>2. overdue' = overdue
      BY <2>5 DEF StoreOutput
    <3>3. QED
      BY <1>0, <2>1, <3>1, <3>2
  <2>6. QED
    BY <1>2, <2>2, <2>3, <2>4, <2>5 DEF WorkerStep, ClaimStep, ProcessStep, SettleStep
<1>3. ASSUME NEW t \in Tasks, Upkeep(t) PROVE Typed
  <2>1. CASE PromoteDelayed(t) \/ RecoverClaim(t) \/ RepairDelivery(t) \/ ClaimAges(t)
    BY <1>s, <2>1 DEF PromoteDelayed, RecoverClaim, RepairDelivery, ClaimAges
  <2>2. CASE ListOverdue(t)
    BY <1>0, <2>2 DEF ListOverdue, taskVars
  <2>3. CASE TimeOutListed(t)
    <3>1. UNCHANGED <<overdue, output>>
      BY <1>f, <2>3 DEF TimeOutListed
    <3>2. QED
      BY <1>0, <2>3, <3>1 DEF TimeOutListed
  <2>4. CASE DeadlinePasses(t)
    BY <1>0, <2>4 DEF DeadlinePasses
  <2>5. QED
    BY <1>3, <2>1, <2>2, <2>3, <2>4 DEF Upkeep
<1>4. CASE FaultStep
  <2>1. faults' \in 0 .. MaxFaults
    <3>1. Fault
      BY <1>4 DEF FaultStep, PushFails, HandlerDies, RequeueFails, Abandon, ProcessFails,
                  RecoveryFails
    <3>2. QED
      BY <1>0, <3>1, MaxFaultsAssumption DEF Fault
  <2>2. /\ UNCHANGED <<overdue, output, deleted>>
        /\ UNCHANGED expiring \/ expiring' = {}
    BY <1>4 DEF FaultStep, PushFails, HandlerDies, RequeueFails, Abandon, ProcessFails,
                RecoveryFails, taskVars
  <2>3. QED
    BY <1>0, <2>1, <2>2
<1>5. ASSUME NEW p \in Projects, DeleteProject(p) PROVE Typed
  BY <1>0, <1>5 DEF DeleteProject, taskVars
<1>6. CASE UNCHANGED vars
  BY <1>s, <1>6 DEF vars
<1>7. QED
  BY <1>1, <1>2, <1>3, <1>4, <1>5, <1>6 DEF Next

\* TypeOK is inductive.
LEMMA StepTyped ==
  ASSUME TypeOK, [Next]_vars
  PROVE  TypeOK'
<1>1. RowStep /\ RunStep /\ CallStep /\ CopyStep /\ LoopTypeOK' /\ CallTypeOK'
  BY StepIsRowStep, StepIsRunStep, StepIsCallStep, StepIsCopyStep
<1>2. /\ status' \in [Tasks -> Statuses]
      /\ events' \in [Tasks -> Seq(Opening)]
      /\ OpenedTypeOK'
      /\ OpeningsKept
  BY <1>1, RowStepTyped
<1>3. QueueTypeOK' /\ ReadsTypeOK'
  BY <1>1, <1>2, CopyStepTyped, ReadsStayTyped
<1>4. QED
  BY <1>1, <1>2, <1>3, RestTyped DEF TypeOK, RowTypeOK

\* In every reachable state the Redis structures, the rows, the handlers and
\* the loops have their types: no count goes below zero, no attempt beyond
\* max_attempts however stale the read it was counted from, a loop or handler
\* that is not idle holds a task, and what it has read is an opening of it.
THEOREM TypeCorrect == Spec => []TypeOK
<1>1. Init => TypeOK
  <2>1. SUFFICES ASSUME Init PROVE TypeOK
    OBVIOUS
  <2>2. QueueTypeOK
    BY <2>1, MaxDeliveriesAssumption DEF Init, QueueInit, QueueTypeOK, ClaimTimes
  <2>3. <<>> \in Seq(Opening)
    OBVIOUS
  <2>4. RowTypeOK /\ OpenedTypeOK
    BY <2>1, <2>3 DEF Init, RowTypeOK, OpenedTypeOK, Statuses
  <2>5. CallTypeOK /\ LoopTypeOK
    BY <2>1 DEF Init, CallTypeOK, LoopTypeOK, CallPlaces, PCs
  <2>6. ReadsTypeOK
    BY <2>1 DEF Init, ReadsTypeOK, RunPCs
  <2>7. QED
    BY <2>1, <2>2, <2>4, <2>5, <2>6, MaxFaultsAssumption DEF Init, TypeOK
<1>2. TypeOK /\ [Next]_vars => TypeOK'
  BY StepTyped
<1>3. QED
  BY <1>1, <1>2, PTL DEF Spec


-----------------------------------------------------------------------------
(* The events tell the row *)

\* A row step on one task keeps its events in line with its row.
LEMMA RowEffectTells ==
  ASSUME TypeOK, NEW t \in Tasks, EventsTell(t), RowEffect(t)
  PROVE  EventsTell(t)'
<1> USE DEF Opened
<1>0. events[t] \in Seq(Opening) /\ DOMAIN events[t] = 1 .. Len(events[t])
  BY DEF TypeOK, RowTypeOK
<1>e. \A i \in 1 .. Len(events[t]) :
         i # Len(events[t]) => events[t][i].fate \in Retryable \cup {"RETRIED"}
  BY <1>0 DEF EventsTell
<1>1. CASE /\ status'[t] = "QUEUED"
           /\ events'[t] = <<[attempt |-> 1, fate |-> "waiting"]>>
  BY <1>1 DEF EventsTell, Told
<1>2. ASSUME NEW fate \in Fates \ {"waiting", "RETRIED"}, FateMoved(events[t], events'[t], fate),
             status'[t] = Told(fate)
      PROVE  EventsTell(t)'
  <2>1. /\ DOMAIN events'[t] = 1 .. Len(events[t])
        /\ Len(events'[t]) = Len(events[t])
        /\ \A i \in 1 .. Len(events[t]) :
              events'[t][i].fate = IF i = Len(events[t]) THEN fate ELSE events[t][i].fate
    BY <1>0, <1>2 DEF FateMoved, SameButLast
  <2>2. QED
    BY <1>e, <1>2, <2>1 DEF EventsTell
<1>3. ASSUME NEW closed \in Retryable \cup {"RETRIED"}, OpeningAdded(events[t], events'[t], closed),
             status'[t] = "QUEUED"
      PROVE  EventsTell(t)'
  <2>1. /\ DOMAIN events'[t] = 1 .. Len(events[t]) + 1
        /\ Len(events'[t]) = Len(events[t]) + 1
        /\ events'[t][Len(events'[t])].fate = "waiting"
        /\ \A i \in 1 .. Len(events[t]) :
              events'[t][i].fate = IF i = Len(events[t]) THEN closed ELSE events[t][i].fate
    BY <1>0, <1>3 DEF OpeningAdded, SameButLast
  <2>2. \A i \in 1 .. Len(events[t]) : events'[t][i].fate \in Retryable \cup {"RETRIED"}
    BY <1>e, <1>3, <2>1
  <2>3. ASSUME NEW i \in DOMAIN events'[t]
        PROVE  IF i = Len(events'[t])
               THEN status'[t] = Told(events'[t][i].fate)
               ELSE events'[t][i].fate \in Retryable \cup {"RETRIED"}
    <3>1. CASE i = Len(events'[t])
      BY <1>3, <2>1, <3>1 DEF Told
    <3>2. CASE i # Len(events'[t])
      <4>1. i \in 1 .. Len(events[t])
        BY <1>0, <2>1, <3>2
      <4>2. QED
        BY <2>2, <3>2, <4>1
    <3>3. QED
      BY <3>1, <3>2
  <2>4. QED
    BY <2>3 DEF EventsTell
<1>4. CASE RowStarted(t) /\ status'[t] = "RUNNING" /\ FateMoved(events[t], events'[t], "running")
  BY <1>2, <1>4 DEF Told, Fates
<1>5. ASSUME NEW outcome \in Terminal, status'[t] = outcome,
             FateMoved(events[t], events'[t], outcome)
      PROVE  EventsTell(t)'
  <2>1. Told(outcome) = outcome /\ outcome \in Fates \ {"waiting", "RETRIED"}
    BY DEF Told, Terminal, Fates
  <2>2. QED
    BY <1>2, <1>5, <2>1
<1>6. QED
  BY <1>1, <1>3, <1>4, <1>5 DEF RowEffect

\* Every step keeps the events in line with the rows.
LEMMA StepTells ==
  ASSUME TypeOK, EventsTellTheRow, RowStep
  PROVE  EventsTellTheRow'
<1>1. CASE RowUntouched
  BY <1>1 DEF RowUntouched, EventsTellTheRow, EventsTell, Opened
<1>2. ASSUME NEW t \in Tasks, RowStepOf(t)
      PROVE  EventsTellTheRow'
  <2>1. RowEffect(t) /\ \A u \in Tasks \ {t} : status'[u] = status[u] /\ events'[u] = events[u]
    BY <1>2, RowStepEffect
  <2>2. EventsTell(t)'
    BY <2>1, RowEffectTells DEF EventsTellTheRow
  <2>3. ASSUME NEW u \in Tasks, u # t PROVE EventsTell(u)'
    BY <2>1, <2>3 DEF EventsTellTheRow, EventsTell, Opened
  <2>4. QED
    BY <2>2, <2>3 DEF EventsTellTheRow
<1>3. QED
  BY <1>1, <1>2 DEF RowStep

\* The last event of a task always tells its row, and every opening before the
\* last one was closed without success, for any number of handlers and loops
\* whose updates rest on stale reads.
THEOREM EventsAreRight == Spec => []EventsTellTheRow
<1>1. Init => EventsTellTheRow
  BY DEF Init, EventsTellTheRow, EventsTell
<1>2. TypeOK /\ EventsTellTheRow /\ [Next]_vars => EventsTellTheRow'
  BY StepIsRowStep, StepTells
<1>3. QED
  BY <1>1, <1>2, TypeCorrect, PTL DEF Spec

-----------------------------------------------------------------------------
(* No two loops execute the same opening *)

\* What one execution must satisfy.
RunIsTaken(w) ==
  run[w] = Opened(job[w]) => status[job[w]] # "QUEUED"

\* An execution that goes on is one of an opening that was taken.
LEMMA RunStaysTaken ==
  ASSUME TypeOK, RowStep, NEW w \in Workers,
         Running(w), RunIsTaken(w), job'[w] = job[w], run'[w] = run[w]
  PROVE  RunIsTaken(w)'
<1> USE DEF Opened
<1>1. /\ job[w] \in Tasks
      /\ events[job[w]] \in Seq(Opening)
      /\ run[w] \in 1 .. Len(events[job[w]])
      /\ status[job[w]] # "NONE"
  <2>1. job[w] \in Tasks /\ run[w] \in DOMAIN events[job[w]]
    BY DEF TypeOK, LoopTypeOK, ReadsTypeOK, Running, RunPCs
  <2>2. events[job[w]] \in Seq(Opening)
    BY <2>1 DEF TypeOK, RowTypeOK
  <2>3. QED
    BY <2>1, <2>2 DEF TypeOK, OpenedTypeOK
<1>2. CASE status'[job[w]] = status[job[w]] /\ events'[job[w]] = events[job[w]]
  BY <1>2 DEF RunIsTaken
<1>3. ASSUME NEW t \in Tasks, t = job[w], RowEffect(t)
      PROVE  RunIsTaken(w)'
  <2>1. CASE RowCreated(t)
    BY <1>1, <1>3, <2>1 DEF RowCreated
  <2>2. CASE status'[t] = "RUNNING"
    BY <1>3, <2>2 DEF RunIsTaken
  <2>3. ASSUME NEW outcome \in Terminal, status'[t] = outcome
        PROVE  RunIsTaken(w)'
    BY <1>3, <2>3 DEF RunIsTaken, Terminal
  <2>4. ASSUME NEW closed, OpeningAdded(events[t], events'[t], closed)
        PROVE  RunIsTaken(w)'
    <3>1. run'[w] # Len(events'[job'[w]])
      BY <1>1, <1>3, <2>4 DEF OpeningAdded
    <3>2. QED
      BY <3>1 DEF RunIsTaken
  <2>5. QED
    BY <1>3, <2>1, <2>2, <2>3, <2>4 DEF RowEffect
<1>4. CASE RowUntouched
  BY <1>2, <1>4 DEF RowUntouched
<1>5. ASSUME NEW t \in Tasks, RowStepOf(t)
      PROVE  RunIsTaken(w)'
  <2>1. RowEffect(t) /\ \A u \in Tasks \ {t} : status'[u] = status[u] /\ events'[u] = events[u]
    BY <1>5, RowStepEffect
  <2>2. QED
    BY <1>1, <1>2, <1>3, <2>1
<1>6. QED
  BY <1>4, <1>5 DEF RowStep

ExclusionInv ==
  /\ TypeOK
  /\ RunsAreTaken
  /\ OneExecutionPerOpening

\* The exclusion invariant is inductive.
LEMMA StepExcludes ==
  ASSUME ExclusionInv, [Next]_vars
  PROVE  ExclusionInv'
<1> USE DEF ExclusionInv
<1>1. RowStep /\ RunStep /\ TypeOK'
  BY StepIsRowStep, StepIsRunStep, StepTyped
<1>2. ASSUME NEW w \in Workers, Running(w), job'[w] = job[w], run'[w] = run[w]
      PROVE  RunIsTaken(w)'
  <2>1. RunIsTaken(w)
    BY <1>2 DEF RunsAreTaken, RunIsTaken
  <2>2. QED
    BY <1>1, <1>2, <2>1, RunStaysTaken
<1>3. CASE RunsKept(Workers)
  <2>1. RunsAreTaken'
    BY <1>2, <1>3 DEF RunsKept, RunsAreTaken, RunIsTaken
  <2>2. OneExecutionPerOpening'
    BY <1>3 DEF RunsKept, OneExecutionPerOpening
  <2>3. QED
    BY <1>1, <2>1, <2>2
<1>4. ASSUME NEW w \in Workers, RunTaken(w)
      PROVE  ExclusionInv'
  <2>1. job[w] \in Tasks /\ job' = job /\ run'[w] = Opened(job[w]) /\ RunsKept(Workers \ {w})
    BY <1>4 DEF RunTaken
  <2>2. CASE pc'[w] = "rescheduling"
    <3>1. ~Running(w)'
      BY <2>2 DEF Running, RunPCs
    <3>2. RunsAreTaken'
      BY <1>2, <2>1, <3>1 DEF RunsKept, RunsAreTaken, RunIsTaken
    <3>3. OneExecutionPerOpening'
      BY <2>1, <3>1 DEF RunsKept, OneExecutionPerOpening
    <3>4. QED
      BY <1>1, <3>2, <3>3
  <2>3. CASE RowStarted(job[w])
    <3>1. status[job[w]] = "QUEUED" /\ status'[job[w]] = "RUNNING"
      BY <2>1, <2>3 DEF RowStarted, TypeOK, RowTypeOK
    <3>2. RunIsTaken(w)'
      BY <2>1, <3>1 DEF RunIsTaken
    <3>3. RunsAreTaken'
      BY <1>2, <2>1, <3>2 DEF RunsKept, RunsAreTaken, RunIsTaken
    <3>4. ASSUME NEW v \in Workers, v # w, Running(v)', job'[v] = job'[w]
          PROVE  run'[v] # run'[w]
      <4>1. Running(v) /\ job[v] = job[w] /\ run'[v] = run[v]
        BY <2>1, <3>4 DEF RunsKept
      <4>2. QED
        BY <2>1, <3>1, <4>1 DEF RunsAreTaken
    <3>5. ASSUME NEW u \in Workers, NEW v \in Workers, u # v, Running(u)', Running(v)',
                 job'[u] = job'[v]
          PROVE  run'[u] # run'[v]
      <4>1. CASE u = w \/ v = w
        BY <3>4, <3>5, <4>1
      <4>2. CASE u # w /\ v # w
        BY <2>1, <3>5, <4>2 DEF RunsKept, OneExecutionPerOpening
      <4>3. QED
        BY <4>1, <4>2
    <3>6. QED
      BY <1>1, <3>3, <3>5 DEF OneExecutionPerOpening
  <2>4. QED
    BY <1>4, <2>2, <2>3 DEF RunTaken
<1>5. QED
  BY <1>1, <1>3, <1>4 DEF RunStep

\* No two loops ever execute the same opening of a task, and an opening under
\* execution never waits in the queue again.  Nothing is said of the numbers:
\* two openings may name the same attempt.
THEOREM Exclusion == Spec => [](RunsAreTaken /\ OneExecutionPerOpening)
<1>1. Init => RunsAreTaken /\ OneExecutionPerOpening
  BY DEF Init, RunsAreTaken, OneExecutionPerOpening, Running, RunPCs
<1>2. ExclusionInv /\ [Next]_vars => ExclusionInv'
  BY StepExcludes
<1>3. QED
  BY <1>1, <1>2, TypeCorrect, PTL DEF Spec, ExclusionInv

-----------------------------------------------------------------------------
(* The system implements the lifecycle *)

\* Every row step is a step of the lifecycle, or one it does not see.
LEMMA RowStepIsLifecycleStep ==
  ASSUME TypeOK, EventsTellTheRow, RowStep
  PROVE  [Lifecycle!Next]_events
<1> USE DEF Opened, Lifecycle!Current, Lifecycle!InFate
<1>0. ASSUME NEW t \in Tasks, status[t] # "NONE"
      PROVE  /\ events[t] \in Seq(Opening)
             /\ events[t] # <<>>
             /\ events[t][Opened(t)].fate \in Fates
             /\ status[t] = "QUEUED" => events[t][Opened(t)].fate = "waiting"
             /\ status[t] = "RUNNING" => events[t][Opened(t)].fate = "running"
             /\ status[t] \in Terminal => events[t][Opened(t)].fate = status[t]
  <2>1. events[t] \in Seq(Opening) /\ events[t] # <<>>
    BY <1>0 DEF TypeOK, RowTypeOK, OpenedTypeOK
  <2>2. Opened(t) \in DOMAIN events[t] /\ events[t][Opened(t)] \in Opening
    BY <2>1
  <2>3. events[t][Opened(t)].fate \in Fates
    BY <2>2 DEF Opening
  <2>4. status[t] = Told(events[t][Opened(t)].fate) /\ status[t] \in Statuses
    BY <2>2 DEF EventsTellTheRow, EventsTell, TypeOK, RowTypeOK
  <2>5. QED
    BY <2>1, <2>3, <2>4 DEF Told, Fates, Terminal
<1>1. CASE RowUntouched
  BY <1>1 DEF RowUntouched
<1>2. ASSUME NEW t \in Tasks, RowCreated(t)
      PROVE  Lifecycle!Next
  <2>1. Lifecycle!Submit(t)
    BY <1>2 DEF RowCreated, Lifecycle!Submit, TypeOK, OpenedTypeOK
  <2>2. QED
    BY <2>1 DEF Lifecycle!Next
<1>3. ASSUME NEW t \in Tasks, RowStarted(t)
      PROVE  Lifecycle!Next
  <2>1. Lifecycle!Start(t)
    BY <1>0, <1>3 DEF RowStarted, Lifecycle!Start, Lifecycle!Move
  <2>2. QED
    BY <2>1 DEF Lifecycle!Next
<1>4. ASSUME NEW t \in Tasks, NEW outcome \in Terminal, RowClosed(t, outcome)
      PROVE  Lifecycle!Next
  <2>0. Lifecycle!Move(t, outcome)
    BY <1>4 DEF RowClosed, Lifecycle!Move
  <2>1. CASE status[t] = "RUNNING"
    <3>1. Lifecycle!End(t)
      BY <1>0, <2>0, <2>1 DEF Lifecycle!End, Lifecycle!Outcomes, Terminal
    <3>2. QED
      BY <3>1 DEF Lifecycle!Next
  <2>2. CASE status[t] = "QUEUED" /\ outcome \in {"FAILED", "CANCELLED"}
    <3>1. Lifecycle!Abandon(t)
      BY <1>0, <2>0, <2>2 DEF Lifecycle!Abandon
    <3>2. QED
      BY <3>1 DEF Lifecycle!Next
  <2>3. QED
    BY <1>4, <2>1, <2>2 DEF RowClosed
<1>5. ASSUME NEW t \in Tasks, NEW base \in DOMAIN events[t], NEW closed \in Fates,
             RowReopened(t, base, closed)
      PROVE  Lifecycle!Next
  <2>0. Lifecycle!Again(t, base, closed)
    BY <1>5 DEF RowReopened, Lifecycle!Again
  <2>1. CASE status[t] = "RUNNING" /\ closed = "RETRIED"
    <3>1. Lifecycle!Repeat(t)
      BY <1>0, <2>0, <2>1 DEF Lifecycle!Repeat
    <3>2. QED
      BY <3>1 DEF Lifecycle!Next
  <2>2. CASE status[t] \in Retryable /\ closed = status[t]
    <3>1. closed = events[t][Opened(t)].fate /\ events[t] # <<>>
      BY <1>0, <2>2 DEF Retryable, Terminal
    <3>2. Lifecycle!Reopen(t)
      BY <2>0, <2>2, <3>1 DEF Lifecycle!Reopen, Lifecycle!Repeatable, Retryable
    <3>3. QED
      BY <3>2 DEF Lifecycle!Next
  <2>3. QED
    BY <1>5, <2>1, <2>2 DEF RowReopened
<1>6. QED
  BY <1>1, <1>2, <1>3, <1>4, <1>5 DEF RowStep, RowStepOf

\* Seen through its events, the system with its duplicate deliveries, late
\* results, stale retries, crashes and recovery is the lifecycle of
\* TaskLifecycle.
THEOREM Refinement == Spec => ImplementsLifecycle
<1>1. Init => Lifecycle!Init
  BY DEF Init, Lifecycle!Init
<1>2. TypeOK /\ EventsTellTheRow /\ [Next]_vars => [Lifecycle!Next]_events
  BY StepIsRowStep, RowStepIsLifecycleStep
<1>3. QED
  BY <1>1, <1>2, TypeCorrect, EventsAreRight, PTL
     DEF Spec, ImplementsLifecycle, Lifecycle!Spec


-----------------------------------------------------------------------------
(* Counting the copies of a task *)

Places(q, t) == {i \in DOMAIN q : q[i] = t}

\* A task has finitely many places in the ready list.
LEMMA PlacesFinite ==
  ASSUME NEW q \in Seq(Tasks), NEW t
  PROVE  IsFiniteSet(Places(q, t)) /\ Cardinality(Places(q, t)) \in Nat
<1>1. IsFiniteSet(1 .. Len(q))
  BY FS_Interval
<1>2. Places(q, t) \in SUBSET (1 .. Len(q))
  BY DEF Places
<1>3. QED
  BY <1>1, <1>2, FS_Subset, FS_CardinalityType

\* RPUSH adds one place for its task and none for another.
LEMMA PlacesAppend ==
  ASSUME NEW q \in Seq(Tasks), NEW e \in Tasks, NEW t
  PROVE  Cardinality(Places(Append(q, e), t))
           = Cardinality(Places(q, t)) + (IF e = t THEN 1 ELSE 0)
<1>1. Len(q) + 1 \notin Places(q, t)
  BY DEF Places
<1>2. CASE e = t
  <2>1. Places(Append(q, e), t) = Places(q, t) \cup {Len(q) + 1}
    BY <1>2 DEF Places
  <2>2. QED
    BY <1>1, <1>2, <2>1, PlacesFinite, FS_AddElement
<1>3. CASE e # t
  <2>1. Places(Append(q, e), t) = Places(q, t)
    BY <1>3 DEF Places
  <2>2. QED
    BY <1>3, <2>1, PlacesFinite
<1>4. QED
  BY <1>2, <1>3

\* BLMOVE takes one place from the task at the head and none from another.
LEMMA PlacesTail ==
  ASSUME NEW q \in Seq(Tasks), q # <<>>, NEW t
  PROVE  Cardinality(Places(q, t))
           = Cardinality(Places(Tail(q), t)) + (IF Head(q) = t THEN 1 ELSE 0)
<1> DEFINE Rest == Places(q, t) \ {1}
           shift == [i \in Places(Tail(q), t) |-> i + 1]
<1>1. Tail(q) \in Seq(Tasks) /\ Len(Tail(q)) = Len(q) - 1
      /\ (\A i \in 1 .. Len(q) - 1 : Tail(q)[i] = q[i + 1])
      /\ Len(q) \in Nat /\ DOMAIN q = 1 .. Len(q) /\ DOMAIN Tail(q) = 1 .. Len(q) - 1
      /\ Head(q) = q[1]
  OBVIOUS
<1>2. shift \in Bijection(Places(Tail(q), t), Rest)
  <2>1. shift \in [Places(Tail(q), t) -> Rest]
    BY <1>1 DEF Places
  <2>2. \A i, j \in Places(Tail(q), t) : shift[i] = shift[j] => i = j
    BY <1>1 DEF Places
  <2>3. \A j \in Rest : \E i \in Places(Tail(q), t) : shift[i] = j
    <3>1. TAKE j \in Rest
    <3>2. j - 1 \in Places(Tail(q), t) /\ (j - 1) + 1 = j
      BY <1>1, <3>1 DEF Places
    <3>3. QED
      BY <3>2
  <2>4. QED
    BY <2>1, <2>2, <2>3, Fun_IsBij
<1>3. Cardinality(Rest) = Cardinality(Places(Tail(q), t))
  <2>1. ExistsBijection(Places(Tail(q), t), Rest)
    BY <1>2 DEF ExistsBijection
  <2>2. IsFiniteSet(Places(Tail(q), t))
    BY <1>1, PlacesFinite
  <2>3. QED
    BY <2>1, <2>2, FS_Bijection, Zenon
<1>4. Cardinality(Rest) = Cardinality(Places(q, t)) - (IF Head(q) = t THEN 1 ELSE 0)
  <2>1. 1 \in Places(q, t) <=> Head(q) = t
    BY <1>1 DEF Places
  <2>2. IsFiniteSet(Places(q, t)) /\ Cardinality(Places(q, t)) \in Nat
    BY PlacesFinite
  <2>3. Cardinality(Rest)
          = IF 1 \in Places(q, t) THEN Cardinality(Places(q, t)) - 1 ELSE Cardinality(Places(q, t))
    BY <2>2, FS_RemoveElement
  <2>4. QED
    BY <2>1, <2>2, <2>3
<1>5. QED
  BY <1>1, <1>3, <1>4, PlacesFinite

\* What a task counts for in the delayed set.
LEMMA DelayedOnce ==
  ASSUME NEW S, NEW t
  PROVE  Cardinality(S \cap {t}) = IF t \in S THEN 1 ELSE 0
<1>1. CASE t \in S
  <2>1. S \cap {t} = {t}
    BY <1>1
  <2>2. QED
    BY <1>1, <2>1, FS_Singleton
<1>2. CASE t \notin S
  <2>1. S \cap {t} = {}
    BY <1>2
  <2>2. QED
    BY <1>2, <2>1, FS_EmptySet
<1>3. QED
  BY <1>1, <1>2

\* The copies of a task, part by part.
LEMMA CopiesAre ==
  ASSUME NEW t
  PROVE  Copies(t) = Cardinality(Places(queue, t)) + processing[t]
                       + (IF t \in delayed THEN 1 ELSE 0)
BY DelayedOnce DEF Copies, Places

\* The same of the state after a step.
LEMMA CopiesBecome ==
  ASSUME NEW t
  PROVE  Copies(t)' = Cardinality(Places(queue', t)) + processing'[t]
                        + (IF t \in delayed' THEN 1 ELSE 0)
BY DelayedOnce DEF Copies, Places

\* A copy is a number of things in Redis.
LEMMA CopiesTyped ==
  ASSUME QueueTypeOK, NEW t \in Tasks
  PROVE  Copies(t) \in Nat
<1>1. Copies(t) = Cardinality(Places(queue, t)) + processing[t]
                    + (IF t \in delayed THEN 1 ELSE 0)
  BY CopiesAre
<1>2. Cardinality(Places(queue, t)) \in Nat
  BY PlacesFinite DEF QueueTypeOK
<1>3. processing[t] \in Nat
  BY DEF QueueTypeOK
<1>4. QED
  BY <1>1, <1>2, <1>3

-----------------------------------------------------------------------------
(* What a step does to the copies of a task *)

\* RPUSH adds one copy of its task.
LEMMA EnqueueAddsOne ==
  ASSUME QueueTypeOK, NEW t \in Tasks, NEW u \in Tasks, EnqueueTask(t)
  PROVE  Copies(u)' = Copies(u) + (IF t = u THEN 1 ELSE 0)
<1>1. /\ Cardinality(Places(queue', u))
           = Cardinality(Places(queue, u)) + (IF t = u THEN 1 ELSE 0)
      /\ processing' = processing
      /\ delayed' = delayed
  BY PlacesAppend DEF EnqueueTask, QueueTypeOK
<1>2. Cardinality(Places(queue, u)) \in Nat /\ processing[u] \in Nat
  BY PlacesFinite DEF QueueTypeOK
<1>3. Copies(u) = Cardinality(Places(queue, u)) + processing[u]
                    + (IF u \in delayed THEN 1 ELSE 0)
  BY CopiesAre
<1>4. Copies(u)' = Cardinality(Places(queue', u)) + processing'[u]
                     + (IF u \in delayed' THEN 1 ELSE 0)
  BY CopiesBecome
<1>5. QED
  BY <1>1, <1>2, <1>3, <1>4

\* A claim that ends gives one copy up; the script may put one elsewhere.
LEMMA DropGivesOneUp ==
  ASSUME QueueTypeOK, NEW t \in Tasks, processing[t] > 0, DropClaim(t)
  PROVE  \A u \in Tasks : processing'[u] = processing[u] - (IF t = u THEN 1 ELSE 0)
BY DEF DropClaim, QueueTypeOK

\* Claiming, acknowledging, delaying, promoting and recovering never make the
\* copies of a task more.
LEMMA MovesAddNone ==
  ASSUME QueueTypeOK, NEW t \in Tasks, NEW u \in Tasks, QueueMove(t)
  PROVE  Copies(u)' <= Copies(u)
<1> USE DEF QueueTypeOK
<1> DEFINE here == Cardinality(Places(queue, u))
           there == Cardinality(Places(queue', u))
           one == IF t = u THEN 1 ELSE 0
           late == IF u \in delayed THEN 1 ELSE 0
           later == IF u \in delayed' THEN 1 ELSE 0
<1>0. /\ Copies(u) = here + processing[u] + late
      /\ Copies(u)' = there + processing'[u] + later
      /\ here \in Nat
      /\ processing[u] \in Nat
  BY CopiesAre, CopiesBecome, PlacesFinite
<1> HIDE DEF here, there
<1>1. CASE UNCHANGED queueVars \/ RecordClaim(t) \/ VisibilityElapses(t)
  <2>1. UNCHANGED <<queue, processing, delayed>>
    BY <1>1 DEF queueVars, RecordClaim, VisibilityElapses
  <2>2. QED
    BY <1>0, <2>1 DEF here, there
<1>2. CASE PopTask(t)
  <2>1. here = there + one
    BY <1>2, PlacesTail DEF PopTask, here, there
  <2>2. processing'[u] = processing[u] + one /\ delayed' = delayed
    BY <1>2 DEF PopTask
  <2>3. there \in Nat
    <3>1. queue' \in Seq(Tasks)
      BY <1>2 DEF PopTask
    <3>2. QED
      BY <3>1, PlacesFinite DEF there
  <2>4. QED
    BY <1>0, <2>1, <2>2, <2>3
<1>3. CASE processing[t] > 0 /\ DropClaim(t) /\ UNCHANGED <<queue, delayed>>
  <2>1. processing'[u] = processing[u] - one
    BY <1>3, DropGivesOneUp
  <2>2. there = here /\ later = late
    BY <1>3 DEF here, there
  <2>3. QED
    BY <1>0, <2>1, <2>2
<1>4. CASE /\ processing[t] > 0
           /\ DropClaim(t)
           /\ delayed' = delayed \cup {t}
           /\ queue' = queue
  <2>1. processing'[u] = processing[u] - one /\ later <= late + one /\ there = here
    BY <1>4, DropGivesOneUp DEF here, there
  <2>2. QED
    BY <1>0, <2>1
<1>5. CASE RecoverStale(t)
  <2>1. there = here + one
    BY <1>5, PlacesAppend DEF RecoverStale, here, there
  <2>2. processing'[u] = processing[u] - one /\ delayed' = delayed
    BY <1>5, DropGivesOneUp DEF RecoverStale
  <2>3. QED
    BY <1>0, <2>1, <2>2
<1>6. CASE PromoteDue(t)
  <2>1. there = here + one
    BY <1>6, PlacesAppend DEF PromoteDue, here, there
  <2>2. processing' = processing /\ later = late - one
    BY <1>6 DEF PromoteDue
  <2>3. QED
    BY <1>0, <2>1, <2>2
<1>7. QED
  BY <1>1, <1>2, <1>3, <1>4, <1>5, <1>6 DEF QueueMove, Ack, RetryDelayed, DeadLetter

\* The repair adds the first copy or none.
LEMMA RepairAddsFirst ==
  ASSUME QueueTypeOK, NEW t \in Tasks, NEW u \in Tasks, EnsureDelivery(t)
  PROVE  \/ Copies(u)' <= Copies(u)
         \/ Copies(u)' <= 1
<1> USE DEF QueueTypeOK
<1>1. CASE UNCHANGED queueVars
  <2>1. UNCHANGED <<queue, processing, delayed>>
    BY <1>1 DEF queueVars
  <2>2. Copies(u)' = Copies(u)
    BY <2>1 DEF Copies
  <2>3. QED
    BY <2>2, CopiesTyped
<1>2. CASE ~InQueue(t) /\ processing[t] = 0 /\ t \notin delayed /\ EnqueueTask(t)
  <2>1. Copies(u)' = Copies(u) + (IF t = u THEN 1 ELSE 0)
    BY <1>2, EnqueueAddsOne
  <2>2. CASE t = u
    <3>1. Places(queue, u) = {}
      BY <1>2, <2>2 DEF Places, InQueue
    <3>2. Cardinality(Places(queue, u)) = 0
      BY <3>1, FS_EmptySet
    <3>3. Copies(u) = 0
      BY <1>2, <2>2, <3>2, CopiesAre
    <3>4. QED
      BY <2>1, <2>2, <3>3
  <2>3. CASE t # u
    BY <2>1, <2>3, CopiesTyped
  <2>4. QED
    BY <2>2, <2>3
<1>3. QED
  BY <1>1, <1>2 DEF EnsureDelivery

-----------------------------------------------------------------------------
(* Redis never accumulates copies *)

NotRetried(e) == {i \in DOMAIN e : e[i].fate # "RETRIED"}

\* The openings of the API are finitely many.
LEMMA RequestedTyped ==
  ASSUME NEW e \in Seq(Opening)
  PROVE  IsFiniteSet(NotRetried(e)) /\ Cardinality(NotRetried(e)) \in Nat
<1>1. IsFiniteSet(1 .. Len(e))
  BY FS_Interval
<1>2. NotRetried(e) \in SUBSET (1 .. Len(e))
  BY DEF NotRetried
<1>3. QED
  BY <1>1, <1>2, FS_Subset, FS_CardinalityType

\* The end of an opening, but for a retry of the worker, does not count.
LEMMA MovedCountsSame ==
  ASSUME NEW e \in Seq(Opening), e # <<>>, e[Len(e)].fate # "RETRIED",
         NEW f, NEW fate, fate # "RETRIED", FateMoved(e, f, fate)
  PROVE  NotRetried(f) = NotRetried(e)
<1>1. DOMAIN f = 1 .. Len(e) /\ DOMAIN e = 1 .. Len(e)
  BY DEF FateMoved
<1>2. \A i \in 1 .. Len(e) : f[i].fate = IF i = Len(e) THEN fate ELSE e[i].fate
  BY DEF FateMoved, SameButLast
<1>3. QED
  BY <1>1, <1>2 DEF NotRetried

\* A retry of the worker leaves the count as it is, one of a user adds one.
LEMMA AddedCounts ==
  ASSUME NEW e \in Seq(Opening), e # <<>>, e[Len(e)].fate # "RETRIED",
         NEW f, NEW fate, OpeningAdded(e, f, fate)
  PROVE  Cardinality(NotRetried(f))
           = Cardinality(NotRetried(e)) + (IF fate = "RETRIED" THEN 0 ELSE 1)
<1> DEFINE n == Len(e)
<1>1. /\ DOMAIN f = 1 .. n + 1 /\ DOMAIN e = 1 .. n
      /\ n \in Nat /\ n >= 1
      /\ Len(f) = n + 1
      /\ f[n + 1].fate = "waiting"
  BY DEF OpeningAdded
<1>2. \A i \in 1 .. n : f[i].fate = IF i = n THEN fate ELSE e[i].fate
  BY DEF OpeningAdded, SameButLast
<1>3. IsFiniteSet(NotRetried(e)) /\ Cardinality(NotRetried(e)) \in Nat
  BY RequestedTyped
<1>4. n \in NotRetried(e) /\ n + 1 \notin NotRetried(e)
  BY <1>1 DEF NotRetried
<1> HIDE DEF n
<1>5. CASE fate = "RETRIED"
  <2>1. NotRetried(f) = (NotRetried(e) \ {n}) \cup {n + 1}
    BY <1>1, <1>2, <1>5 DEF NotRetried
  <2>2. /\ IsFiniteSet(NotRetried(e) \ {n})
        /\ Cardinality(NotRetried(e) \ {n}) = Cardinality(NotRetried(e)) - 1
    BY <1>3, <1>4, FS_RemoveElement
  <2>3. n + 1 \notin NotRetried(e) \ {n}
    BY <1>4
  <2>4. Cardinality(NotRetried(f)) = Cardinality(NotRetried(e) \ {n}) + 1
    BY <2>1, <2>2, <2>3, FS_AddElement
  <2>5. QED
    BY <1>3, <1>5, <2>2, <2>4
<1>6. CASE fate # "RETRIED"
  <2>1. NotRetried(f) = NotRetried(e) \cup {n + 1}
    BY <1>1, <1>2, <1>4, <1>6 DEF NotRetried
  <2>2. Cardinality(NotRetried(e) \cup {n + 1}) = Cardinality(NotRetried(e)) + 1
    BY <1>3, <1>4, FS_AddElement
  <2>3. QED
    BY <1>3, <1>6, <2>1, <2>2
<1>7. QED
  BY <1>5, <1>6

\* What the lemmas say of a task after a step.
RequestedAfter(u) == Cardinality(NotRetried(events'[u]))

\* No step takes a request back, and a creation or a retry of a user adds one.
LEMMA RequestsGrow ==
  ASSUME TypeOK, EventsTellTheRow, RowStep, NEW u \in Tasks
  PROVE  /\ Requested(u) \in Nat
         /\ RequestedAfter(u) \in Nat
         /\ RequestedAfter(u) >= Requested(u)
         /\ \/ RowCreated(u)
            \/ \E base \in DOMAIN events[u] :
                  status[u] \in Retryable /\ RowReopened(u, base, status[u])
            => RequestedAfter(u) >= Requested(u) + 1
<1>0. /\ events[u] \in Seq(Opening)
      /\ status[u] = "NONE" <=> events[u] = <<>>
      /\ status[u] \in Statuses
  BY DEF TypeOK, RowTypeOK, OpenedTypeOK
<1>1. Requested(u) = Cardinality(NotRetried(events[u])) /\ Requested(u) \in Nat
  BY <1>0, RequestedTyped DEF Requested, NotRetried
<1>f. status[u] # "NONE" => events[u][Len(events[u])].fate # "RETRIED"
  <2>1. SUFFICES ASSUME status[u] # "NONE" PROVE events[u][Len(events[u])].fate # "RETRIED"
    OBVIOUS
  <2>2. Len(events[u]) \in DOMAIN events[u]
    BY <1>0, <2>1
  <2>3. status[u] = Told(events[u][Len(events[u])].fate)
    BY <2>2 DEF EventsTellTheRow, EventsTell, Opened
  <2>4. QED
    BY <1>0, <2>3 DEF Told, Statuses, Terminal
<1>2. CASE status'[u] = status[u] /\ events'[u] = events[u] /\ ~RowStepOf(u)
  <2>1. /\ ~RowCreated(u)
        /\ \A base \in DOMAIN events[u] :
              status[u] \in Retryable => ~RowReopened(u, base, status[u])
    BY <1>2 DEF RowStepOf, Retryable, Fates, Terminal
  <2>2. QED
    BY <1>1, <1>2, <2>1 DEF RequestedAfter
<1>3. CASE RowStepOf(u)
  <2>1. RowEffect(u)
    BY <1>3, RowStepEffect
  <2>n. ASSUME status[u] \in {"QUEUED", "RUNNING"}
        PROVE  ~RowCreated(u) /\ status[u] \notin Retryable
    BY <2>n DEF RowCreated, Retryable
  <2>m. ASSUME NEW fate, fate # "RETRIED", FateMoved(events[u], events'[u], fate),
               status[u] # "NONE"
        PROVE  RequestedAfter(u) = Requested(u)
    <3>1. events[u] # <<>>
      BY <1>0, <2>m
    <3>2. NotRetried(events'[u]) = NotRetried(events[u])
      BY <1>0, <1>f, <2>m, <3>1, MovedCountsSame
    <3>3. QED
      BY <1>1, <3>2 DEF RequestedAfter
  <2>2. CASE /\ RowCreated(u)
             /\ events[u] = <<>>
             /\ events'[u] = <<[attempt |-> 1, fate |-> "waiting"]>>
    <3>1. NotRetried(events[u]) = {}
      BY <2>2 DEF NotRetried
    <3>2. NotRetried(events'[u]) = {1}
      BY <2>2 DEF NotRetried
    <3>3. Requested(u) = 0 /\ RequestedAfter(u) = 1
      BY <1>1, <3>1, <3>2, FS_EmptySet, FS_Singleton DEF RequestedAfter
    <3>4. QED
      BY <3>3
  <2>3. CASE RowStarted(u) /\ FateMoved(events[u], events'[u], "running")
    <3>1. RequestedAfter(u) = Requested(u)
      BY <2>3, <2>m DEF RowStarted
    <3>2. QED
      BY <1>1, <2>3, <2>n, <3>1 DEF RowStarted
  <2>4. ASSUME NEW outcome \in Terminal, RowClosed(u, outcome),
               FateMoved(events[u], events'[u], outcome)
        PROVE  /\ RequestedAfter(u) = Requested(u)
               /\ ~RowCreated(u) /\ status[u] \notin Retryable
    <3>1. status[u] \in {"QUEUED", "RUNNING"} /\ outcome # "RETRIED"
      BY <2>4 DEF RowClosed, Terminal
    <3>2. QED
      BY <2>4, <2>m, <2>n, <3>1
  <2>5. ASSUME NEW base \in DOMAIN events[u], NEW closed \in Retryable \cup {"RETRIED"},
               RowReopened(u, base, closed), OpeningAdded(events[u], events'[u], closed)
        PROVE  /\ RequestedAfter(u) = Requested(u) + (IF status[u] \in Retryable THEN 1 ELSE 0)
               /\ ~RowCreated(u)
    <3>1. /\ status[u] # "NONE"
          /\ status[u] \in Retryable => closed # "RETRIED"
          /\ status[u] \notin Retryable => closed = "RETRIED"
      BY <2>5 DEF RowReopened, Retryable
    <3>2. events[u] # <<>> /\ events[u][Len(events[u])].fate # "RETRIED"
      BY <1>0, <1>f, <3>1
    <3>3. Cardinality(NotRetried(events'[u]))
            = Cardinality(NotRetried(events[u])) + (IF closed = "RETRIED" THEN 0 ELSE 1)
      BY <1>0, <2>5, <3>2, AddedCounts
    <3>4. QED
      BY <1>1, <3>1, <3>3 DEF RequestedAfter, RowCreated
  <2>6. QED
    BY <1>1, <2>1, <2>2, <2>3, <2>4, <2>5 DEF RowEffect
<1>4. QED
  <2>1. CASE RowUntouched
    BY <1>2, <1>3, <2>1 DEF RowUntouched
  <2>2. ASSUME NEW t \in Tasks, RowStepOf(t), t # u
        PROVE  status'[u] = status[u] /\ events'[u] = events[u]
    BY <2>2, RowStepEffect
  <2>3. QED
    BY <1>2, <1>3, <2>1, <2>2 DEF RowStep

\* Each request has at most one push to come, and the copies there are make up
\* for the pushes that are over, but for one that the repair may have added.
CopiesInv ==
  \A t \in Tasks :
     /\ Pushing(t) <= Requested(t)
     /\ Copies(t) + Pushing(t) <= Requested(t) + 1

\* The handlers that owe a push are finitely many.
LEMMA PushersFinite ==
  ASSUME NEW S \in SUBSET Handlers
  PROVE  /\ IsFiniteSet(S)
         /\ Cardinality(S) \in Nat
         /\ \A T \in SUBSET S : Cardinality(T) \in Nat /\ Cardinality(T) <= Cardinality(S)
         /\ \A h \in S : Cardinality(S \ {h}) = Cardinality(S) - 1
         /\ \A h : Cardinality(S \cup {h}) \in Nat
                   /\ Cardinality(S \cup {h}) <= Cardinality(S) + 1
<1>1. IsFiniteSet(S) /\ Cardinality(S) \in Nat
  BY HandlersAssumption, FS_Subset, FS_CardinalityType
<1>2. ASSUME NEW T \in SUBSET S
      PROVE  Cardinality(T) \in Nat /\ Cardinality(T) <= Cardinality(S)
  BY <1>1, FS_Subset, FS_CardinalityType
<1>3. ASSUME NEW h \in S
      PROVE  Cardinality(S \ {h}) = Cardinality(S) - 1
  BY <1>1, FS_RemoveElement
<1>4. ASSUME NEW h
      PROVE  Cardinality(S \cup {h}) \in Nat /\ Cardinality(S \cup {h}) <= Cardinality(S) + 1
  <2>1. CASE h \in S
    <3>1. S \cup {h} = S
      BY <2>1
    <3>2. QED
      BY <1>1, <3>1
  <2>2. CASE h \notin S
    BY <1>1, <2>2, FS_AddElement
  <2>3. QED
    BY <2>1, <2>2
<1>5. QED
  BY <1>1, <1>2, <1>3, <1>4

PushersAfter(t) == {h \in Handlers : call'[h] = "pushing" /\ target'[h] = t}

\* No step makes the copies more than the requests and one repair allow.
LEMMA StepKeepsCopies ==
  ASSUME TypeOK, TypeOK', EventsTellTheRow, CopiesInv, CopyStep, RowStep
  PROVE  CopiesInv'
<1> DEFINE before(u) == Cardinality(Pushers(u))
           after(u) == Cardinality(PushersAfter(u))
<1>p. ASSUME NEW u
      PROVE  /\ Pushing(u) = before(u)
             /\ Pushing(u)' = after(u)
             /\ Requested(u)' = RequestedAfter(u)
             /\ Pushers(u)' = PushersAfter(u)
  BY DEF Pushing, Pushers, PushersAfter, Requested, RequestedAfter, NotRetried
<1> SUFFICES ASSUME NEW u \in Tasks
             PROVE  /\ after(u) <= RequestedAfter(u)
                    /\ Copies(u)' + after(u) <= RequestedAfter(u) + 1
  BY <1>p DEF CopiesInv
<1>0. /\ before(u) \in Nat
      /\ after(u) \in Nat
      /\ Copies(u) \in Nat
      /\ Copies(u)' \in Nat
      /\ Requested(u) \in Nat
      /\ RequestedAfter(u) \in Nat
      /\ RequestedAfter(u) >= Requested(u)
      /\ before(u) <= Requested(u)
      /\ Copies(u) + before(u) <= Requested(u) + 1
      /\ QueueTypeOK
  <2>1. Copies(u)' \in Nat
    <3>1. Cardinality(Places(queue', u)) \in Nat /\ processing'[u] \in Nat
      BY PlacesFinite DEF TypeOK, QueueTypeOK
    <3>2. Copies(u)' = Cardinality(Places(queue', u)) + processing'[u]
                         + (IF u \in delayed' THEN 1 ELSE 0)
      BY CopiesBecome
    <3>3. QED
      BY <3>1, <3>2
  <2>2. before(u) \in Nat /\ after(u) \in Nat
    <3>1. Pushers(u) \in SUBSET Handlers /\ PushersAfter(u) \in SUBSET Handlers
      BY DEF Pushers, PushersAfter
    <3>2. QED
      BY <3>1, PushersFinite
  <2>3. QueueTypeOK
    BY DEF TypeOK
  <2>4. Copies(u) \in Nat
    BY <2>3, CopiesTyped
  <2>5. /\ Requested(u) \in Nat
        /\ RequestedAfter(u) \in Nat
        /\ RequestedAfter(u) >= Requested(u)
    BY RequestsGrow
  <2>6. before(u) <= Requested(u) /\ Copies(u) + before(u) <= Requested(u) + 1
    BY <1>p DEF CopiesInv
  <2>7. QED
    BY <2>1, <2>2, <2>3, <2>4, <2>5, <2>6
<1>u. ASSUME UNCHANGED queueVars PROVE Copies(u)' = Copies(u)
  BY <1>u, CopiesAre, CopiesBecome DEF queueVars
<1>s. ASSUME PushersAfter(u) \subseteq Pushers(u) PROVE after(u) <= before(u)
  <2>1. Pushers(u) \in SUBSET Handlers
    BY DEF Pushers
  <2>2. QED
    BY <1>s, <2>1, PushersFinite
<1> HIDE DEF before, after
<1>1. CASE NoneOwed
  <2>1. after(u) <= before(u)
    BY <1>1, <1>p, <1>s DEF NoneOwed
  <2>2. CASE UNCHANGED queueVars
    BY <1>0, <1>u, <2>1, <2>2
  <2>3. ASSUME NEW t \in Tasks, QueueMove(t)
        PROVE  /\ after(u) <= RequestedAfter(u)
               /\ Copies(u)' + after(u) <= RequestedAfter(u) + 1
    <3>1. Copies(u)' <= Copies(u)
      BY <1>0, <2>3, MovesAddNone
    <3>2. QED
      BY <1>0, <2>1, <3>1
  <2>4. ASSUME NEW t \in Tasks, EnsureDelivery(t)
        PROVE  /\ after(u) <= RequestedAfter(u)
               /\ Copies(u)' + after(u) <= RequestedAfter(u) + 1
    <3>1. Copies(u)' <= Copies(u) \/ Copies(u)' <= 1
      BY <1>0, <2>4, RepairAddsFirst
    <3>2. QED
      BY <1>0, <2>1, <3>1
  <2>5. QED
    BY <1>1, <2>2, <2>3, <2>4 DEF NoneOwed
<1>2. ASSUME NEW h \in Handlers, NEW t \in Tasks, PushEnds(h, t)
      PROVE  /\ after(u) <= RequestedAfter(u)
             /\ Copies(u)' + after(u) <= RequestedAfter(u) + 1
  <2>1. Copies(u)' <= Copies(u) + (IF t = u THEN 1 ELSE 0)
    BY <1>0, <1>2, <1>u, EnqueueAddsOne DEF PushEnds
  <2>2. after(u) <= before(u)
    BY <1>2, <1>p, <1>s DEF PushEnds
  <2>3. CASE t = u
    <3>1. PushersAfter(u) \in SUBSET (Pushers(u) \ {h}) /\ h \in Pushers(u)
      BY <1>2, <1>p, <2>3 DEF PushEnds
    <3>2. Pushers(u) \in SUBSET Handlers /\ Pushers(u) \ {h} \in SUBSET Handlers
      BY DEF Pushers
    <3>3. Cardinality(PushersAfter(u)) <= Cardinality(Pushers(u) \ {h})
      BY <3>1, <3>2, PushersFinite
    <3>4. Cardinality(Pushers(u) \ {h}) = Cardinality(Pushers(u)) - 1
      BY <3>1, <3>2, PushersFinite
    <3>5. after(u) <= before(u) - 1
      BY <3>3, <3>4 DEF before, after
    <3>6. QED
      BY <1>0, <2>1, <2>3, <3>5
  <2>4. CASE t # u
    BY <1>0, <2>1, <2>2, <2>4
  <2>5. QED
    BY <2>3, <2>4
<1>3. ASSUME NEW h \in Handlers, NEW t \in Tasks, PushOwed(h, t)
      PROVE  /\ after(u) <= RequestedAfter(u)
             /\ Copies(u)' + after(u) <= RequestedAfter(u) + 1
  <2>1. Copies(u)' = Copies(u)
    BY <1>3, <1>u DEF PushOwed
  <2>2. CASE t = u
    <3>1. PushersAfter(u) \in SUBSET (Pushers(u) \cup {h})
      BY <1>3, <1>p, <2>2 DEF PushOwed
    <3>2. Pushers(u) \in SUBSET Handlers /\ Pushers(u) \cup {h} \in SUBSET Handlers
      BY DEF Pushers
    <3>3. Cardinality(PushersAfter(u)) <= Cardinality(Pushers(u) \cup {h})
          /\ Cardinality(Pushers(u) \cup {h}) \in Nat
      BY <3>1, <3>2, PushersFinite
    <3>4. Cardinality(Pushers(u) \cup {h}) <= Cardinality(Pushers(u)) + 1
      BY <3>2, PushersFinite
    <3>5. after(u) <= before(u) + 1
      BY <1>0, <3>3, <3>4 DEF before, after
    <3>6. RequestedAfter(u) >= Requested(u) + 1
      BY <1>3, <2>2, RequestsGrow DEF PushOwed
    <3>7. QED
      BY <1>0, <2>1, <3>5, <3>6
  <2>3. CASE t # u
    <3>1. after(u) <= before(u)
      BY <1>3, <1>p, <1>s, <2>3 DEF PushOwed
    <3>2. QED
      BY <1>0, <2>1, <3>1
  <2>4. QED
    BY <2>2, <2>3
<1>4. QED
  BY <1>1, <1>2, <1>3 DEF CopyStep

\* However many loops, handlers and recovery loops push, claim, delay, promote,
\* recover and repair, and whatever stale retries write, Redis holds no more
\* copies of a task, and pushes to come, than users have asked for openings of
\* it, and one more.
THEOREM CopiesAreBounded == Spec => []DeliveryBound
<1>1. Init => CopiesInv
  <2>1. SUFFICES ASSUME Init, NEW t \in Tasks
                 PROVE  /\ Pushing(t) <= Requested(t)
                        /\ Copies(t) + Pushing(t) <= Requested(t) + 1
    BY DEF CopiesInv
  <2>2. Places(queue, t) = {}
    BY <2>1 DEF Init, QueueInit, Places
  <2>3. {h \in Handlers : call[h] = "pushing" /\ target[h] = t} = {}
    BY <2>1 DEF Init
  <2>4. {i \in DOMAIN events[t] : events[t][i].fate # "RETRIED"} = {}
    BY <2>1 DEF Init
  <2>5. processing[t] = 0 /\ t \notin delayed
    BY <2>1 DEF Init, QueueInit
  <2>6. Copies(t) = 0 /\ Pushing(t) = 0 /\ Requested(t) = 0
    <3>1. Copies(t) = 0
      BY <2>2, <2>5, FS_EmptySet, CopiesAre
    <3>2. Pushing(t) = 0
      BY <2>3, FS_EmptySet DEF Pushing
    <3>3. Requested(t) = 0
      BY <2>4, FS_EmptySet DEF Requested
    <3>4. QED
      BY <3>1, <3>2, <3>3
  <2>7. QED
    BY <2>6
<1>2. TypeOK /\ TypeOK' /\ EventsTellTheRow /\ CopiesInv /\ [Next]_vars => CopiesInv'
  BY StepIsCopyStep, StepIsRowStep, StepKeepsCopies
<1>3. CopiesInv => DeliveryBound
  BY DEF CopiesInv, DeliveryBound
<1>4. QED
  BY <1>1, <1>2, <1>3, TypeCorrect, EventsAreRight, PTL DEF Spec


=============================================================================

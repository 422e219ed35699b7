-------------------------- MODULE ProviderAttempts --------------------------
(***************************************************************************)
(* The execution of a task by a worker and its ledger (internal/task):     *)
(* each call of a provider has a row of api_call_logs that is ATTEMPTING   *)
(* before the call and gets its outcome afterwards, in a statement of its  *)
(* own that may fail.  The context of the execution ends with its          *)
(* deadline, with the worker or with the lease; it may do so at any        *)
(* moment, and is asked at several.                                        *)
(*                                                                         *)
(* The delivery and the lease are those of TaskSystem and LeasedExecution, *)
(* a worker that dies is a RollbackRequest.                                *)
(***************************************************************************)
EXTENDS ProviderAdapter, UsageCost

CONSTANTS
  Usages,   \* the quantities a provider may report; no images are those it sent
  Pricings  \* the prices a model may have

\* What a provider reports may be negative; an amount is read from digits.
ASSUME AttemptsAssumption ==
  /\ Usages \subseteq [Kinds -> Int]
  /\ \A prices \in Pricings \ {Undecodable} : \A name \in DOMAIN prices :
       /\ prices[name].number \in Nat /\ prices[name].behind \in Nat
       /\ prices[name].exponent \in Int

VARIABLES
  ledger,  \* the rows of each task: their status, in the order of insertion
  cut,     \* why the context of an execution has ended
  stored,  \* the row of the call whose outputs the task has, or 0
  charged  \* the usage records of a task

attemptVars == <<ledger, cut, stored, charged, adapterVars>>
resultVars == <<stored, charged>>

Endings == {"deadline", "cancelled", "lease lost"}

AttemptsInit ==
  /\ ledger = [t \in Tasks |-> <<>>]
  /\ AdapterInit
  /\ cut = [c \in Connections |-> "no"]
  /\ stored = [t \in Tasks |-> 0]
  /\ charged = [t \in Tasks |-> {}]

Task(c) == request[c].task
Executing == {"running", "attempting", "reading", "called", "answered", "persisted"}

\* The execution ends, whatever it leaves of the task, and its temporary files
\* are removed (cleanupTemporaryGeneratedOutputs).
Leave(c) ==
  /\ End(c)
  /\ context' = [context EXCEPT ![c] = Nothing]
  /\ cut' = [cut EXCEPT ![c] = "no"]
  /\ answer' = [answer EXCEPT ![c] = "none"]
  /\ files' = [files EXCEPT ![c] = 0]
  /\ UNCHANGED <<modelAccess, asAdmin, plan>>

Becomes(t, status) ==
  task' = [task EXCEPT ![t].status = IF @ = "RUNNING" THEN status ELSE @]

Interrupt(c) ==
  /\ step[c] \in Executing
  /\ cut[c] = "no"
  /\ \E why \in Endings : cut' = [cut EXCEPT ![c] = why]
  /\ UNCHANGED <<txVars, admissionVars, ledger, adapterVars, resultVars>>

ClaimRunning(c) ==
  LET t == Task(c) IN
  /\ step[c] = "validated context"
  /\ \/ /\ task[t].status = "QUEUED"
        /\ task' = [task EXCEPT ![t].status = "RUNNING"]
        /\ Read(c, "running")
        /\ UNCHANGED <<modelAccess, asAdmin, plan, context, attemptVars>>
     \/ /\ task[t].status # "QUEUED"
        /\ Leave(c)
        /\ UNCHANGED <<task, ledger, resultVars>>

Answer(c, with) ==
  /\ answer' = [answer EXCEPT ![c] = with]
  /\ files' = [files EXCEPT ![c] = 0]
  /\ Read(c, "answered")

\* The base URL resolves to an address that is not allowed.
BaseURLInvalid(c) ==
  /\ step[c] = "running"
  /\ Answer(c, "final")
  /\ UNCHANGED <<admissionVars, ledger, cut, resultVars>>

\* The key of the provider, as it was read, does not decrypt.
CredentialUnavailable(c) ==
  /\ step[c] = "running"
  /\ context[c].key # cipher
  /\ Answer(c, "final")
  /\ UNCHANGED <<admissionVars, ledger, cut, resultVars>>

\* loadInputImages: an asset or its object is gone, or the storage is.
InputsUnavailable(c) ==
  /\ step[c] = "running"
  /\ context[c].key = cipher
  /\ "edit" \in context[c].needs
  /\ Answer(c, "retryable")
  /\ UNCHANGED <<admissionVars, ledger, cut, resultVars>>

\* beginProviderAttemptLedger: without its row there is no call.
BeginAttempt(c) ==
  LET t == Task(c) IN
  /\ step[c] = "running"
  /\ context[c].key = cipher
  /\ \/ /\ cut[c] = "no"
        /\ ledger' = [ledger EXCEPT ![t] = Append(@, "ATTEMPTING")]
        /\ context' = [context EXCEPT ![c] = With(@, [row |-> Len(ledger[t]) + 1])]
        /\ Read(c, "attempting")
        /\ UNCHANGED <<modelAccess, task, asAdmin, plan, cut, adapterVars, resultVars>>
     \/ /\ Answer(c, "retryable")
        /\ UNCHANGED <<admissionVars, ledger, cut, resultVars>>

\* The call, while the context of the execution lasts or after it has ended.
CallProvider(c) ==
  /\ AdapterStep(c)
  /\ UNCHANGED <<ledger, cut, resultVars>>

\* finalProviderAttemptStatus: the end of the context tells more than the answer.
FinalStatus(c) ==
  CASE cut[c] = "deadline" -> "TIMEOUT"
    [] cut[c] \in {"cancelled", "lease lost"} -> "CANCELLED"
    [] cut[c] = "no" -> IF answer[c] = "success" THEN "SUCCESS" ELSE "FAILURE"

\* Mutant: a ledger that could not be finalized does not matter.
FinalizeIfPossible(c) ==
  /\ step[c] = "called"
  /\ Read(c, "answered")
  /\ \/ ledger' = [ledger EXCEPT ![Task(c)][context[c].row] = FinalStatus(c)]
     \/ UNCHANGED ledger
  /\ UNCHANGED <<admissionVars, cut, adapterVars, resultVars>>

\* finalizeProviderAttemptLedger has a context of its own.  When it fails the
\* outputs are dropped, with their files, and the task will fail.
FinalizeAttempt(c) ==
  /\ step[c] = "called"
  /\ \/ /\ ledger' = [ledger EXCEPT ![Task(c)][context[c].row] = FinalStatus(c)]
        /\ Read(c, "answered")
        /\ UNCHANGED adapterVars
     \/ Answer(c, "final") /\ UNCHANGED ledger
  /\ UNCHANGED <<admissionVars, cut, resultVars>>

-----------------------------------------------------------------------------
\* Process, when Execute has returned

\* A lost lease fails the task, a deadline times it out, and a worker that
\* shuts down leaves it RUNNING.
EndInterrupted(c) ==
  /\ step[c] = "answered"
  /\ cut[c] # "no"
  /\ Leave(c)
  /\ CASE cut[c] = "lease lost" -> Becomes(Task(c), "FAILED")
       [] cut[c] = "deadline" -> Becomes(Task(c), "TIMED_OUT")
       [] cut[c] = "cancelled" -> UNCHANGED task
  /\ UNCHANGED <<ledger, resultVars>>

\* scheduleRetry
Requeued(row) == [row EXCEPT !.status = "QUEUED", !.attempt = row.attempt + 1]

\* scheduleRetry, or failRunningTask.  The row was final already when
\* recordAPICall writes it again.
EndFailed(c) ==
  LET t == Task(c) IN
  /\ step[c] = "answered"
  /\ cut[c] = "no" /\ answer[c] \in {"retryable", "final"}
  /\ Leave(c)
  /\ IF answer[c] = "retryable" /\ task[t].attempt < MaxAttempts
     THEN task' = [task EXCEPT ![t] = IF @.status = "RUNNING" THEN Requeued(@) ELSE @]
     ELSE Becomes(t, "FAILED")
  /\ UNCHANGED <<ledger, resultVars>>

\* createUsageIfAbsent: the prices are those of the model that was read before
\* the execution.
CreateUsageIfAbsent(t, usage, prices) ==
  LET estimate == Estimate(prices, usage) IN
  /\ estimate.cost <= MaxCost
  /\ charged' = [charged EXCEPT ![t] =
       IF @ = {} THEN {[usage |-> usage, prices |-> prices, estimate |-> estimate]} ELSE @]

\* Outputs and usage are stored, together, unless the task has them.
PersistSuccessfulResult(c) ==
  /\ step[c] = "answered"
  /\ cut[c] = "no" /\ answer[c] = "success"
  /\ task[Task(c)].status = "RUNNING"
  /\ stored' = [stored EXCEPT ![Task(c)] = IF @ = 0 THEN context[c].row ELSE @]
  /\ \E usage \in Usages, prices \in Pricings : CreateUsageIfAbsent(Task(c), usage, prices)
  /\ Read(c, "persisted")
  /\ UNCHANGED <<admissionVars, ledger, cut, adapterVars>>

\* validateOutputImage refuses an image.  This and other errors of storing the
\* outputs are no failure of the task: it stays RUNNING.
OutputInvalid(c) ==
  /\ step[c] = "answered"
  /\ cut[c] = "no" /\ answer[c] = "success"
  /\ task[Task(c)].status = "RUNNING" /\ stored[Task(c)] = 0
  /\ Leave(c)
  /\ UNCHANGED <<task, ledger, resultVars>>

\* The cost does not fit its column: nothing is stored and the task stays RUNNING.
CostOverflows(c) ==
  /\ step[c] = "answered"
  /\ cut[c] = "no" /\ answer[c] = "success"
  /\ task[Task(c)].status = "RUNNING" /\ charged[Task(c)] = {}
  /\ \E usage \in Usages, prices \in Pricings : Estimate(prices, usage).cost > MaxCost
  /\ Leave(c)
  /\ UNCHANGED <<task, ledger, resultVars>>

\* Another has ended the task, or the storage quota refuses the outputs.
EndUnpersisted(c) ==
  /\ step[c] = "answered"
  /\ cut[c] = "no" /\ answer[c] = "success"
  /\ Leave(c)
  /\ Becomes(Task(c), "FAILED")
  /\ UNCHANGED <<ledger, resultVars>>

CompleteTask(c) ==
  /\ step[c] = "persisted"
  /\ Leave(c)
  /\ Becomes(Task(c), "SUCCEEDED")
  /\ UNCHANGED <<ledger, resultVars>>

\* The maintenance ends the task of a worker that is gone, once its deadline
\* has passed.
RecoverTimedOut(c) ==
  LET t == Task(c) IN
  /\ Kind(c) = "recoverTimedOut" /\ step[c] = "begun"
  /\ \A d \in Connections : step[d] \in Executing /\ Task(d) = t => cut[d] # "no"
  /\ Leave(c)
  /\ Becomes(t, "TIMED_OUT")
  /\ UNCHANGED <<ledger, resultVars>>

\* A worker that dies leaves its files behind, for good: files counts those of
\* the executions that go on.
ForgetAttempt(c) ==
  /\ cut' = [cut EXCEPT ![c] = "no"]
  /\ answer' = [answer EXCEPT ![c] = "none"]
  /\ files' = [files EXCEPT ![c] = 0]
  /\ UNCHANGED <<ledger, resultVars>>

AttemptStep(c) ==
  \/ Interrupt(c)
  \/ ClaimRunning(c)
  \/ BaseURLInvalid(c)
  \/ CredentialUnavailable(c)
  \/ InputsUnavailable(c)
  \/ BeginAttempt(c)
  \/ CallProvider(c)
  \/ FinalizeAttempt(c)
  \/ EndInterrupted(c)
  \/ EndFailed(c)
  \/ PersistSuccessfulResult(c)
  \/ OutputInvalid(c)
  \/ CostOverflows(c)
  \/ EndUnpersisted(c)
  \/ CompleteTask(c)
  \/ RecoverTimedOut(c)

AttemptsTypeOK ==
  /\ \A t \in Tasks :
       /\ \A i \in DOMAIN ledger[t] :
            ledger[t][i] \in {"ATTEMPTING", "SUCCESS", "FAILURE", "TIMEOUT", "CANCELLED"}
       /\ stored[t] \in 0 .. Len(ledger[t])
       /\ \A row \in charged[t] : row.usage \in Usages /\ row.prices \in Pricings
  /\ cut \in [Connections -> Endings \cup {"no"}]
  /\ AdapterTypeOK

=============================================================================

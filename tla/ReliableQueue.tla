--------------------------- MODULE ReliableQueue ---------------------------
(***************************************************************************)
(* The Redis side of task delivery                                         *)
(* (src/backend/internal/queue/reliable_queue.go).                         *)
(*                                                                         *)
(* Redis holds task identifiers only: the ready list, the processing list  *)
(* with its hash of claim times, the delayed sorted set, the dead-letter   *)
(* list and the hash of delivery counts.  Every operator below is one      *)
(* command or one Lua script, hence one atomic step of Redis; whoever      *)
(* calls it (API, worker loop, recovery loop) is in TaskSystem.            *)
(*                                                                         *)
(* Abstractions: the processing list is a bag, because the scripts only    *)
(* ask whether an identifier occurs (LPOS) and remove one occurrence       *)
(* (LREM 1); a claim time is "fresh" or "stale" with respect to the        *)
(* visibility timeout; the retry backoff of a delayed entry may have run   *)
(* out at any moment; the dead-letter list is only ever counted, so what   *)
(* goes there is dropped; a delivery count past the limit stays where it   *)
(* is.                                                                     *)
(***************************************************************************)
EXTENDS Naturals, Sequences

CONSTANTS Tasks,          \* identifiers of generation tasks
          MaxDeliveries   \* TASK_MAX_DELIVERIES; 0 switches the limit off

ASSUME MaxDeliveriesAssumption == MaxDeliveries \in Nat

VARIABLES queue,        \* ready list, left end first
          processing,   \* how often a task occurs in the processing list
          claimTime,    \* processing_claims: absent, or its age
          delayed,      \* members of the delayed sorted set
          deliveries    \* delivery count per task

queueVars == <<queue, processing, claimTime, delayed, deliveries>>

ClaimTimes == {"none", "fresh", "stale"}

QueueTypeOK ==
  /\ queue \in Seq(Tasks)
  /\ processing \in [Tasks -> Nat]
  /\ claimTime \in [Tasks -> ClaimTimes]
  /\ delayed \in SUBSET Tasks
  /\ deliveries \in [Tasks -> 0 .. MaxDeliveries + 1]

QueueInit ==
  /\ queue = <<>>
  /\ processing = [t \in Tasks |-> 0]
  /\ claimTime = [t \in Tasks |-> "none"]
  /\ delayed = {}
  /\ deliveries = [t \in Tasks |-> 0]

InQueue(t) == \E i \in DOMAIN queue : queue[i] = t

\* LREM 1 and HDEL of the claim: what every script that ends a claim does.
DropClaim(t) ==
  /\ processing' = [processing EXCEPT ![t] = @ - 1]
  /\ claimTime' = [claimTime EXCEPT ![t] = "none"]

-----------------------------------------------------------------------------
\* RPUSH, with no look at what Redis already holds for the task.
EnqueueTask(t) ==
  /\ queue' = Append(queue, t)
  /\ UNCHANGED <<processing, claimTime, delayed, deliveries>>

\* BLMOVE from the left of the ready list to the processing list.
PopTask(t) ==
  /\ queue # <<>>
  /\ t = Head(queue)
  /\ queue' = Tail(queue)
  /\ processing' = [processing EXCEPT ![t] = @ + 1]
  /\ UNCHANGED <<claimTime, delayed, deliveries>>

\* The claim script, a second round trip after BLMOVE.
RecordClaim(t) ==
  /\ deliveries' = [deliveries EXCEPT ![t] = IF @ > MaxDeliveries THEN @ ELSE @ + 1]
  /\ claimTime' = [claimTime EXCEPT ![t] = "fresh"]
  /\ UNCHANGED <<queue, processing, delayed>>

Ack(t) ==
  \/ /\ processing[t] > 0
     /\ DropClaim(t)
     /\ deliveries' = [deliveries EXCEPT ![t] = 0]
     /\ UNCHANGED <<queue, delayed>>
  \/ /\ processing[t] = 0
     /\ UNCHANGED queueVars

\* The worker never asks for a delay of zero, so only the delayed variant runs.
RetryDelayed(t) ==
  \/ /\ processing[t] > 0
     /\ delayed' = delayed \cup {t}
     /\ DropClaim(t)
     /\ UNCHANGED <<queue, deliveries>>
  \/ /\ processing[t] = 0
     /\ UNCHANGED queueVars

DeadLetter(t) ==
  \/ /\ processing[t] > 0
     /\ DropClaim(t)
     /\ UNCHANGED <<queue, delayed, deliveries>>
  \/ /\ processing[t] = 0
     /\ UNCHANGED queueVars

\* Mutant: a missing claim time counts as fresh.
RecoverRecordedOnly(t) ==
  /\ processing[t] > 0
  /\ claimTime[t] = "stale"
  /\ queue' = Append(queue, t)
  /\ DropClaim(t)
  /\ UNCHANGED <<delayed, deliveries>>

\* A missing claim time counts as stale.
RecoverStale(t) ==
  /\ processing[t] > 0
  /\ claimTime[t] # "fresh"
  /\ queue' = Append(queue, t)
  /\ DropClaim(t)
  /\ UNCHANGED <<delayed, deliveries>>

PromoteDue(t) ==
  /\ t \in delayed
  /\ queue' = Append(queue, t)
  /\ delayed' = delayed \ {t}
  /\ UNCHANGED <<processing, claimTime, deliveries>>

\* Mutant: the repair script does not look at the delayed set.
EnsureDeliveryUndelayed(t) ==
  \/ /\ ~InQueue(t)
     /\ processing[t] = 0
     /\ EnqueueTask(t)
  \/ /\ InQueue(t) \/ processing[t] > 0
     /\ UNCHANGED queueVars

\* Mutant: the repair script takes a delivery count for a copy.
EnsureFirstDelivery(t) ==
  \/ /\ ~InQueue(t)
     /\ processing[t] = 0
     /\ t \notin delayed
     /\ deliveries[t] = 0
     /\ EnqueueTask(t)
  \/ /\ InQueue(t) \/ processing[t] > 0 \/ t \in delayed \/ deliveries[t] > 0
     /\ UNCHANGED queueVars

\* The repair script: push only when Redis holds no copy of the task.
EnsureDelivery(t) ==
  \/ /\ ~InQueue(t)
     /\ processing[t] = 0
     /\ t \notin delayed
     /\ EnqueueTask(t)
  \/ /\ InQueue(t) \/ processing[t] > 0 \/ t \in delayed
     /\ UNCHANGED queueVars

\* The visibility timeout of a recorded claim runs out.
VisibilityElapses(t) ==
  /\ claimTime[t] = "fresh"
  /\ claimTime' = [claimTime EXCEPT ![t] = "stale"]
  /\ UNCHANGED <<queue, processing, delayed, deliveries>>

=============================================================================

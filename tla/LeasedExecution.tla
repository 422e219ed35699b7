-------------------------- MODULE LeasedExecution --------------------------
(***************************************************************************)
(* Executions under a concurrency lease: acquireConcurrency, the execution *)
(* with its renewal goroutine, and the release at the end                  *)
(* (src/backend/internal/task/worker.go), over the Redis structures of     *)
(* ConcurrencyLimiter.                                                     *)
(*                                                                         *)
(* Each lease belongs to one call of Process, whose steps up to its return *)
(* are the places below.  Acquire takes the slots of the dimensions one    *)
(* after the other, registers each key, and gives back what it has when a  *)
(* key is full.  The renewal goroutine runs beside the provider call.      *)
(***************************************************************************)
EXTENDS ConcurrencyLimiter

CONSTANTS Dimensions,   \* number of limited dimensions of a task
          KeyOf,        \* the keys of a lease, in the order of the dimensions
          MaxFaults     \* bound on crashes and on errors of Redis

ASSUME DimensionsAssumption == Dimensions \in Nat \ {0}
ASSUME KeyOfAssumption == KeyOf \in [Leases -> [1 .. Dimensions -> Keys]]
ASSUME MaxFaultsAssumption == MaxFaults \in Nat

VARIABLES
  place,     \* where Process is with a lease
  taken,     \* length of lease.Keys: slots acquired
  freed,     \* slots given back, from the first
  renewal,   \* the renewal goroutine
  faults     \* faults so far

callVars == <<place, taken, freed>>
vars == <<limiterVars, callVars, renewal, faults>>

\* Acquire has returned the lease, and Process has not begun to release it.
Leased == {"holding", "executing", "stopping", "persisting"}

Places == {"acquiring", "registering", "releasing", "over"} \cup Leased

Renewals == {"off", "ticking", "renewing", "failed", "stopped"}

KeysOf(l) == {KeyOf[l][d] : d \in 1 .. Dimensions}

ExecutionTypeOK ==
  /\ LimiterTypeOK
  /\ place \in [Leases -> Places]
  /\ taken \in [Leases -> 0 .. Dimensions]
  /\ freed \in [Leases -> 0 .. Dimensions]
  /\ renewal \in [Leases -> Renewals]
  /\ faults \in 0 .. MaxFaults
  /\ \A l \in Leases :
       /\ place[l] = "acquiring" => taken[l] < Dimensions
       /\ place[l] = "registering" => taken[l] > 0
       /\ place[l] \in Leased => taken[l] = Dimensions
       /\ place[l] = "releasing" => freed[l] < taken[l]

Init ==
  /\ LimiterInit
  /\ place = [l \in Leases |-> "acquiring"]
  /\ taken = [l \in Leases |-> 0]
  /\ freed = [l \in Leases |-> 0]
  /\ renewal = [l \in Leases |-> "off"]
  /\ faults = 0

Fault ==
  /\ faults < MaxFaults
  /\ faults' = faults + 1

Goto(l, next) ==
  /\ place' = [place EXCEPT ![l] = next]
  /\ UNCHANGED <<taken, freed>>

\* Release has nothing to do when no slot was acquired.
BeginRelease(l) == Goto(l, IF taken[l] = 0 THEN "over" ELSE "releasing")

-----------------------------------------------------------------------------
(* Acquire *)

NextKey(l) == KeyOf[l][taken[l] + 1]

AcquireKey(l) ==
  /\ place[l] = "acquiring"
  /\ \/ /\ TakeSlot(NextKey(l), l)
        /\ place' = [place EXCEPT ![l] = "registering"]
        /\ taken' = [taken EXCEPT ![l] = @ + 1]
        /\ UNCHANGED freed
     \/ /\ FindFull(NextKey(l))
        /\ BeginRelease(l)
  /\ UNCHANGED <<renewal, faults>>

\* The script reports an error; the slot it may have taken is not among the
\* keys of the lease.
AcquireFails(l) ==
  /\ place[l] = "acquiring"
  /\ TakeSlot(NextKey(l), l) \/ FindFull(NextKey(l)) \/ UNCHANGED limiterVars
  /\ BeginRelease(l)
  /\ Fault
  /\ UNCHANGED renewal

Register(l) ==
  /\ place[l] = "registering"
  /\ RegisterKey(KeyOf[l][taken[l]])
  /\ Goto(l, IF taken[l] = Dimensions THEN "holding" ELSE "acquiring")
  /\ UNCHANGED <<renewal, faults>>

RegisterFails(l) ==
  /\ place[l] = "registering"
  /\ RegisterKey(KeyOf[l][taken[l]]) \/ UNCHANGED limiterVars
  /\ BeginRelease(l)
  /\ Fault
  /\ UNCHANGED renewal

-----------------------------------------------------------------------------
(* Execution and its renewal *)

\* claimRunning has moved the task to RUNNING, or another loop has.
Start(l) ==
  /\ place[l] = "holding"
  /\ \/ /\ Goto(l, "executing")
        /\ renewal' = [renewal EXCEPT ![l] = "ticking"]
     \/ /\ BeginRelease(l)
        /\ UNCHANGED renewal
  /\ UNCHANGED <<limiterVars, faults>>

\* The ticker fires; the call to Redis is on its way.
Tick(l) ==
  /\ renewal[l] = "ticking"
  /\ renewal' = [renewal EXCEPT ![l] = "renewing"]
  /\ UNCHANGED <<limiterVars, callVars, faults>>

\* The answer of the renew script.  A lease that is gone cancels the
\* execution and ends the goroutine.
Renew(l) ==
  /\ renewal[l] = "renewing"
  /\ \/ /\ RenewSlots(l, KeysOf(l))
        /\ renewal' = [renewal EXCEPT ![l] = "ticking"]
     \/ /\ ~HeldInAll(l, KeysOf(l))
        /\ renewal' = [renewal EXCEPT ![l] = "failed"]
        /\ UNCHANGED limiterVars
  /\ UNCHANGED <<callVars, faults>>

\* An error counts as a lost lease; the script may have renewed it.
RenewFails(l) ==
  /\ renewal[l] = "renewing"
  /\ RenewSlots(l, KeysOf(l)) \/ UNCHANGED limiterVars
  /\ renewal' = [renewal EXCEPT ![l] = "failed"]
  /\ Fault
  /\ UNCHANGED callVars

\* The goroutine is told to stop, or the deadline of the execution passes.
RenewalStops(l) ==
  /\ renewal[l] = "ticking"
  /\ place[l] \in {"executing", "stopping"}
  /\ renewal' = [renewal EXCEPT ![l] = "stopped"]
  /\ UNCHANGED <<limiterVars, callVars, faults>>

\* Execute returns, and stopRenewal tells the goroutine to stop.
ExecuteReturns(l) ==
  /\ place[l] = "executing"
  /\ Goto(l, "stopping")
  /\ UNCHANGED <<limiterVars, renewal, faults>>

\* Mutant: stopRenewal does not wait for the goroutine.
StopWithoutWaiting(l) ==
  /\ place[l] = "stopping"
  /\ \/ renewal[l] # "failed" /\ Goto(l, "persisting")
     \/ BeginRelease(l)
  /\ UNCHANGED <<limiterVars, renewal, faults>>

\* stopRenewal waits for the goroutine and looks at its error before the
\* result is looked at, which may be a failure for its part.
StopRenewal(l) ==
  /\ place[l] = "stopping"
  /\ \/ renewal[l] = "stopped" /\ Goto(l, "persisting")
     \/ renewal[l] \in {"stopped", "failed"} /\ BeginRelease(l)
  /\ UNCHANGED <<limiterVars, renewal, faults>>

\* persistSuccessfulResult and completeTask; nobody renews the lease.
Persist(l) ==
  /\ place[l] = "persisting"
  /\ BeginRelease(l)
  /\ UNCHANGED <<limiterVars, renewal, faults>>

-----------------------------------------------------------------------------
(* Release *)

Release(l) ==
  /\ place[l] = "releasing"
  /\ FreeSlot(KeyOf[l][freed[l] + 1], l)
  /\ freed' = [freed EXCEPT ![l] = @ + 1]
  /\ place' = [place EXCEPT ![l] = IF freed'[l] = taken[l] THEN "over" ELSE "releasing"]
  /\ UNCHANGED <<taken, renewal, faults>>

\* An error ends the release; the slots that are left go when they lapse.
ReleaseFails(l) ==
  /\ place[l] = "releasing"
  /\ FreeSlot(KeyOf[l][freed[l] + 1], l) \/ UNCHANGED limiterVars
  /\ Goto(l, "over")
  /\ Fault
  /\ UNCHANGED renewal

ProcessDies(l) ==
  /\ place[l] # "over"
  /\ Goto(l, "over")
  /\ renewal' = [renewal EXCEPT ![l] = "stopped"]
  /\ Fault
  /\ UNCHANGED limiterVars

-----------------------------------------------------------------------------
(* Time and recovery *)

\* At any time: a renewal may come too late.
Lapse(l) ==
  /\ l \notin lapsed
  /\ LeaseLapses(l)
  /\ UNCHANGED <<callVars, renewal, faults>>

Expire(k) ==
  /\ KeyExpires(k)
  /\ UNCHANGED <<callVars, renewal, faults>>

Reap(k) ==
  /\ ReapStale(k)
  /\ UNCHANGED <<callVars, renewal, faults>>

-----------------------------------------------------------------------------
AcquireStep(l) == AcquireKey(l) \/ Register(l)

ExecuteStep(l) == Start(l) \/ ExecuteReturns(l) \/ StopRenewal(l) \/ Persist(l)

RenewalStep(l) == Tick(l) \/ Renew(l) \/ RenewalStops(l)

FaultStep(l) ==
  \/ AcquireFails(l) \/ RegisterFails(l) \/ RenewFails(l) \/ ReleaseFails(l)
  \/ ProcessDies(l)

Next ==
  \/ \E l \in Leases :
        AcquireStep(l) \/ ExecuteStep(l) \/ RenewalStep(l) \/ Release(l)
          \/ FaultStep(l) \/ Lapse(l)
  \/ \E k \in Keys : Expire(k) \/ Reap(k)

Spec == Init /\ [][Next]_vars

\* The provider call ends after its context is cancelled.
Cancelled(l) == renewal[l] \in {"failed", "stopped"}

Renewing(l) == renewal[l] \in {"ticking", "renewing"}

\* A lease that nobody renews lapses, keys expire, recovery reaps round after
\* round, the ticker ticks, and a cancelled call returns.
Fairness ==
  /\ \A l \in Leases :
        /\ WF_vars(~Renewing(l) /\ Lapse(l))
        /\ WF_vars(Tick(l) \/ Renew(l))
        /\ WF_vars(Cancelled(l) /\ ExecuteReturns(l))
  /\ \A k \in Keys : WF_vars(Expire(k)) /\ WF_vars(Reap(k))

FairSpec == Spec /\ Fairness

-----------------------------------------------------------------------------
Executing(l) == place[l] \in Leased \ {"holding"}

\* At no time do more executions with a valid lease share a dimension than it
\* admits, though slots are taken one by one, lapse, are reaped under their
\* owner, and are renewed late.
ExecutionsLimited ==
  \A k \in Keys :
     Cardinality({l \in Leases \ lapsed : Executing(l) /\ k \in KeysOf(l)}) <= Limit[k]

\* A lease that has not lapsed is still in every key of its call, so nobody
\* else can have been given its place.
ValidLeaseIsBacked ==
  \A l \in Leases \ lapsed : place[l] \in Leased => HeldInAll(l, KeysOf(l))

\* No result is persisted after the renewal has reported the lease as lost,
\* whenever Execute returned meanwhile (CONCURRENCY_LEASE_LOST).
LostLeaseFails ==
  \A l \in Leases : renewal[l] = "failed" => place[l] # "persisting"

\* No slot is lost for ever: what a dead process, a failed release or a
\* script without an answer leaves in Redis goes away.
SlotsComeBack ==
  \A l \in Leases, k \in Keys :
     (place[l] = "over" /\ l \in members[k]) ~> l \notin members[k]

\* An execution whose slot was given away does not go on for long.
LostExecutionEnds ==
  \A l \in Leases :
     (place[l] = "executing" /\ ~HeldInAll(l, KeysOf(l))) ~> place[l] # "executing"

=============================================================================

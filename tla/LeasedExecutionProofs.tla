----------------------- MODULE LeasedExecutionProofs -----------------------
(***************************************************************************)
(* Theorems about LeasedExecution for any number of leases, dimensions and *)
(* faults, and any limits.                                                 *)
(***************************************************************************)
EXTENDS LeasedExecution, FiniteSetTheorems, TLAPS

-----------------------------------------------------------------------------
(* Redis structures *)

LimiterOperation(l) ==
  \/ \E k \in Keys : TakeSlot(k, l) \/ FindFull(k) \/ RegisterKey(k) \/ FreeSlot(k, l)
  \/ RenewSlots(l, KeysOf(l))
  \/ LeaseLapses(l)
  \/ UNCHANGED limiterVars

\* What Redis does on its own, or for the recovery loop.
LimiterUpkeep == \E k \in Keys : ReapStale(k) \/ KeyExpires(k)

\* Every command and script keeps the types of the Redis structures.
LEMMA LimiterTyped ==
  ASSUME LimiterTypeOK, NEW l \in Leases, LimiterOperation(l) \/ LimiterUpkeep
  PROVE  LimiterTypeOK'
<1> USE DEF LimiterTypeOK
<1>1. ASSUME NEW k \in Keys,
             TakeSlot(k, l) \/ FindFull(k) \/ RegisterKey(k) \/ FreeSlot(k, l)
      PROVE  LimiterTypeOK'
  BY <1>1 DEF TakeSlot, FindFull, RegisterKey, FreeSlot, Unlapsed
<1>2. ASSUME NEW k \in Keys, ReapStale(k) \/ KeyExpires(k)
      PROVE  LimiterTypeOK'
  BY <1>2 DEF ReapStale, KeyExpires, Unlapsed
<1>3. CASE RenewSlots(l, KeysOf(l)) \/ LeaseLapses(l) \/ UNCHANGED limiterVars
  BY <1>3 DEF RenewSlots, LeaseLapses, limiterVars
<1>4. QED
  BY <1>1, <1>2, <1>3 DEF LimiterOperation, LimiterUpkeep

\* No key ever holds more leases than it admits.
SlotsLimited ==
  \A k \in Keys : IsFiniteSet(members[k]) /\ Cardinality(members[k]) <= Limit[k]

\* Only the acquire script adds to a key, and only below the limit.
LEMMA OperationKeepsLimit ==
  ASSUME LimiterTypeOK, SlotsLimited,
         (\E l \in Leases : LimiterOperation(l)) \/ LimiterUpkeep
  PROVE  SlotsLimited'
<1> USE LimitAssumption
<1>1. ASSUME NEW k \in Keys, NEW S \in SUBSET members[k],
             members' = [members EXCEPT ![k] = S]
      PROVE  SlotsLimited'
  <2>1. IsFiniteSet(S) /\ Cardinality(S) <= Cardinality(members[k])
    BY FS_Subset DEF SlotsLimited
  <2>2. Cardinality(S) \in Nat /\ Cardinality(members[k]) \in Nat
    BY <2>1, FS_CardinalityType DEF SlotsLimited
  <2>3. SUFFICES ASSUME NEW j \in Keys
                 PROVE  IsFiniteSet(members'[j]) /\ Cardinality(members'[j]) <= Limit[j]
    BY DEF SlotsLimited
  <2>4. CASE j = k
    <3>1. members'[j] = S
      BY <1>1, <2>4 DEF LimiterTypeOK
    <3>2. Cardinality(S) <= Limit[k]
      BY <2>1, <2>2 DEF SlotsLimited
    <3>3. QED
      BY <2>1, <2>4, <3>1, <3>2
  <2>5. CASE j # k
    BY <1>1, <2>5 DEF SlotsLimited, LimiterTypeOK
  <2>6. QED
    BY <2>4, <2>5
<1>2. CASE UNCHANGED members
  BY <1>2 DEF SlotsLimited
<1>3. ASSUME NEW k \in Keys, NEW l \in Leases, TakeSlot(k, l)
      PROVE  SlotsLimited'
  <2> DEFINE S == Unlapsed(k)
  <2>1. IsFiniteSet(S)
    BY FS_Subset DEF SlotsLimited, Unlapsed
  <2>2. Cardinality(S) \in Nat /\ Cardinality(S) < Limit[k]
    BY <1>3, <2>1, FS_CardinalityType DEF TakeSlot, HasSlot
  <2>3. /\ IsFiniteSet(S \cup {l})
        /\ Cardinality(S \cup {l}) = Cardinality(S) \/ Cardinality(S \cup {l}) = Cardinality(S) + 1
    BY <2>1, FS_AddElement
  <2>4. Cardinality(S \cup {l}) <= Limit[k]
    BY <2>2, <2>3
  <2>5. SUFFICES ASSUME NEW j \in Keys
                 PROVE  IsFiniteSet(members'[j]) /\ Cardinality(members'[j]) <= Limit[j]
    BY DEF SlotsLimited
  <2>6. CASE j = k
    <3>1. members'[j] = S \cup {l}
      BY <1>3, <2>6 DEF TakeSlot, LimiterTypeOK
    <3>2. QED
      BY <2>3, <2>4, <2>6, <3>1
  <2>7. CASE j # k
    BY <1>3, <2>7 DEF SlotsLimited, LimiterTypeOK, TakeSlot
  <2>8. QED
    BY <2>6, <2>7
<1>4. ASSUME NEW k \in Keys, FindFull(k) \/ ReapStale(k)
      PROVE  SlotsLimited'
  BY <1>1, <1>4 DEF FindFull, ReapStale, Unlapsed
<1>5. ASSUME NEW k \in Keys, KeyExpires(k)
      PROVE  SlotsLimited'
  BY <1>1, <1>5 DEF KeyExpires
<1>6. ASSUME NEW k \in Keys, NEW l \in Leases, FreeSlot(k, l)
      PROVE  SlotsLimited'
  <2>1. members[k] \ {l} \in SUBSET members[k]
    OBVIOUS
  <2>2. members' = [members EXCEPT ![k] = members[k] \ {l}]
    BY <1>6 DEF FreeSlot
  <2>3. QED
    BY <1>1, <2>1, <2>2
<1>7. QED
  BY <1>2, <1>3, <1>4, <1>5, <1>6
     DEF LimiterOperation, LimiterUpkeep, RegisterKey, RenewSlots, LeaseLapses, limiterVars

-----------------------------------------------------------------------------
(* Steps of a call *)

\* A step of the call with lease l leaves the other calls alone, and its
\* commands are those of the limiter.
CallStep(l) ==
  AcquireStep(l) \/ ExecuteStep(l) \/ RenewalStep(l) \/ Release(l) \/ FaultStep(l) \/ Lapse(l)

\* All that a call does to Redis are operations of the limiter.
LEMMA CallIsOperation ==
  ASSUME ExecutionTypeOK, NEW l \in Leases, CallStep(l)
  PROVE  LimiterOperation(l)
<1> USE DimensionsAssumption, KeyOfAssumption DEF LimiterOperation, ExecutionTypeOK
<1>1. CASE AcquireStep(l)
  <2>1. place[l] = "acquiring" => NextKey(l) \in Keys
    BY DEF NextKey
  <2>2. place[l] = "registering" => KeyOf[l][taken[l]] \in Keys
    OBVIOUS
  <2>3. QED
    BY <1>1, <2>1, <2>2 DEF AcquireStep, AcquireKey, Register
<1>2. CASE ExecuteStep(l)
  BY <1>2 DEF ExecuteStep, Start, ExecuteReturns, StopRenewal, Persist
<1>3. CASE RenewalStep(l)
  BY <1>3 DEF RenewalStep, Tick, Renew, RenewalStops
<1>4. ASSUME place[l] = "releasing"
      PROVE  KeyOf[l][freed[l] + 1] \in Keys
  BY <1>4
<1>5. CASE Release(l) \/ ReleaseFails(l)
  BY <1>4, <1>5 DEF Release, ReleaseFails
<1>6. CASE AcquireFails(l) \/ RegisterFails(l)
  <2>1. place[l] = "acquiring" => NextKey(l) \in Keys
    BY DEF NextKey
  <2>2. place[l] = "registering" => KeyOf[l][taken[l]] \in Keys
    OBVIOUS
  <2>3. QED
    BY <1>6, <2>1, <2>2 DEF AcquireFails, RegisterFails
<1>7. CASE RenewFails(l) \/ ProcessDies(l) \/ Lapse(l)
  BY <1>7 DEF RenewFails, ProcessDies, Lapse
<1>8. QED
  BY <1>1, <1>2, <1>3, <1>5, <1>6, <1>7 DEF CallStep, FaultStep

\* The places of a call, and the slots it has taken and given back.
CallTypeOK ==
  /\ place \in [Leases -> Places]
  /\ taken \in [Leases -> 0 .. Dimensions]
  /\ freed \in [Leases -> 0 .. Dimensions]
  /\ \A l \in Leases :
       /\ place[l] = "acquiring" => taken[l] < Dimensions
       /\ place[l] = "registering" => taken[l] > 0
       /\ place[l] \in Leased => taken[l] = Dimensions
       /\ place[l] = "releasing" => freed[l] < taken[l]

\* Nothing is given back before the release begins.
NotFreed == \A l \in Leases : place[l] \notin {"releasing", "over"} => freed[l] = 0

\* A call may give up anywhere before its release.
LEMMA BeginReleaseTyped ==
  ASSUME CallTypeOK, NotFreed, NEW l \in Leases, place[l] \notin {"releasing", "over"},
         BeginRelease(l)
  PROVE  CallTypeOK' /\ NotFreed'
<1> USE DimensionsAssumption DEF CallTypeOK, NotFreed, BeginRelease, Goto
<1>1. CASE taken[l] = 0
  BY <1>1 DEF Places, Leased
<1>2. CASE taken[l] # 0
  BY <1>2 DEF Places, Leased
<1>3. QED
  BY <1>1, <1>2

\* The other steps of a call, those that keep its place included.
LEMMA CallStepTyped ==
  ASSUME CallTypeOK, NotFreed, renewal \in [Leases -> Renewals], faults \in 0 .. MaxFaults,
         NEW l \in Leases, CallStep(l)
  PROVE  /\ CallTypeOK'
         /\ NotFreed'
         /\ renewal' \in [Leases -> Renewals]
         /\ faults' \in 0 .. MaxFaults
<1> USE DimensionsAssumption, MaxFaultsAssumption
<1> DEFINE CallGoal == CallTypeOK' /\ NotFreed'
           RestGoal == renewal' \in [Leases -> Renewals] /\ faults' \in 0 .. MaxFaults
<1>1. ASSUME UNCHANGED callVars
      PROVE  CallGoal
  BY <1>1 DEF CallTypeOK, NotFreed, callVars
<1>2. ASSUME place[l] \notin {"releasing", "over"}, BeginRelease(l)
      PROVE  CallGoal
  BY <1>2, BeginReleaseTyped
<1>3. CASE AcquireStep(l)
  <2>1. ASSUME place[l] = "acquiring",
               place' = [place EXCEPT ![l] = "registering"],
               taken' = [taken EXCEPT ![l] = @ + 1],
               UNCHANGED freed
        PROVE  CallGoal
    <3>1. taken[l] \in 0 .. Dimensions /\ taken[l] < Dimensions
      BY <2>1 DEF CallTypeOK
    <3>2. taken[l] + 1 \in 0 .. Dimensions /\ taken[l] + 1 > 0
      BY <3>1
    <3>3. QED
      BY <2>1, <3>2 DEF CallTypeOK, NotFreed, Places, Leased
  <2>2. ASSUME Register(l)
        PROVE  CallGoal
    BY <2>2 DEF Register, Goto, CallTypeOK, NotFreed, Places, Leased
  <2>3. RestGoal
    BY <1>3 DEF AcquireStep, AcquireKey, Register
  <2>4. QED
    BY <1>2, <1>3, <2>1, <2>2, <2>3 DEF AcquireStep, AcquireKey
<1>4. CASE ExecuteStep(l)
  <2>1. ASSUME place[l] \in Leased,
               NEW next \in {"executing", "stopping", "persisting"},
               Goto(l, next)
        PROVE  CallGoal
    BY <2>1 DEF Goto, CallTypeOK, NotFreed, Places, Leased
  <2>2. RestGoal
    BY <1>4 DEF ExecuteStep, Start, ExecuteReturns, StopRenewal, Persist, Renewals
  <2>3. QED
    BY <1>2, <1>4, <2>1, <2>2 DEF ExecuteStep, Start, ExecuteReturns, StopRenewal, Persist, Leased
<1>5. CASE RenewalStep(l) \/ RenewFails(l) \/ Lapse(l)
  <2>1. UNCHANGED callVars
    BY <1>5 DEF RenewalStep, Tick, Renew, RenewalStops, RenewFails, Lapse
  <2>2. RestGoal
    BY <1>5 DEF RenewalStep, Tick, Renew, RenewalStops, RenewFails, Fault, Lapse, Renewals
  <2>3. QED
    BY <1>1, <2>1, <2>2
<1>6. CASE Release(l)
  <2>1. freed[l] \in 0 .. Dimensions /\ taken[l] \in 0 .. Dimensions /\ freed[l] < taken[l]
    BY <1>6 DEF Release, CallTypeOK
  <2>2. freed[l] + 1 \in 0 .. Dimensions /\ (freed[l] + 1 # taken[l] => freed[l] + 1 < taken[l])
    BY <2>1
  <2>3. freed'[l] = freed[l] + 1
    BY <1>6 DEF Release, CallTypeOK
  <2>4. ASSUME freed'[l] = taken[l]
        PROVE  CallGoal
    BY <1>6, <2>2, <2>3, <2>4 DEF Release, CallTypeOK, NotFreed, Places, Leased
  <2>5. ASSUME freed'[l] # taken[l]
        PROVE  CallGoal
    BY <1>6, <2>2, <2>3, <2>5 DEF Release, CallTypeOK, NotFreed, Places, Leased
  <2>6. RestGoal
    BY <1>6 DEF Release
  <2>7. QED
    BY <2>4, <2>5, <2>6
<1>7. CASE AcquireFails(l) \/ RegisterFails(l)
  <2>1. place[l] \notin {"releasing", "over"} /\ BeginRelease(l)
    BY <1>7 DEF AcquireFails, RegisterFails
  <2>2. RestGoal
    BY <1>7 DEF AcquireFails, RegisterFails, Fault
  <2>3. QED
    BY <1>2, <2>1, <2>2
<1>8. CASE ReleaseFails(l) \/ ProcessDies(l)
  <2>1. Goto(l, "over")
    BY <1>8 DEF ReleaseFails, ProcessDies
  <2>2. CallGoal
    BY <2>1 DEF Goto, CallTypeOK, NotFreed, Places, Leased
  <2>3. RestGoal
    BY <1>8 DEF ReleaseFails, ProcessDies, Fault, Renewals
  <2>4. QED
    BY <2>2, <2>3
<1>9. QED
  BY <1>3, <1>4, <1>5, <1>6, <1>7, <1>8 DEF CallStep, FaultStep

-----------------------------------------------------------------------------
(* Type correctness *)

TypeInvariant == ExecutionTypeOK /\ NotFreed

\* Every step is one of a call, or one of Redis and the recovery loop.
LEMMA StepCases ==
  ASSUME Next
  PROVE  (\E l \in Leases : CallStep(l))
           \/ (LimiterUpkeep /\ UNCHANGED <<callVars, renewal, faults>>)
BY DEF Next, CallStep, LimiterUpkeep, Expire, Reap

LEMMA TypeStep ==
  ASSUME TypeInvariant, [Next]_vars
  PROVE  TypeInvariant'
<1> USE DEF TypeInvariant
<1>1. ExecutionTypeOK <=> /\ LimiterTypeOK
                          /\ CallTypeOK
                          /\ renewal \in [Leases -> Renewals]
                          /\ faults \in 0 .. MaxFaults
  BY DEF ExecutionTypeOK, CallTypeOK
<1>2. ExecutionTypeOK' <=> /\ LimiterTypeOK'
                           /\ CallTypeOK'
                           /\ renewal' \in [Leases -> Renewals]
                           /\ faults' \in 0 .. MaxFaults
  BY DEF ExecutionTypeOK, CallTypeOK
<1>3. ASSUME NEW l \in Leases, CallStep(l)
      PROVE  TypeInvariant'
  <2>1. LimiterTypeOK'
    BY <1>1, <1>3, CallIsOperation, LimiterTyped
  <2>2. QED
    BY <1>1, <1>2, <1>3, <2>1, CallStepTyped
<1>4. CASE LimiterUpkeep /\ UNCHANGED <<callVars, renewal, faults>>
  <2>1. LimiterTypeOK'
    BY <1>1, <1>4 DEF LimiterUpkeep, ReapStale, KeyExpires, Unlapsed, LimiterTypeOK
  <2>2. CallTypeOK' /\ NotFreed'
    BY <1>1, <1>4 DEF CallTypeOK, NotFreed, callVars
  <2>3. QED
    BY <1>1, <1>2, <1>4, <2>1, <2>2
<1>5. CASE UNCHANGED vars
  BY <1>5 DEF vars, limiterVars, callVars, ExecutionTypeOK, LimiterTypeOK, NotFreed
<1>6. QED
  BY <1>3, <1>4, <1>5, StepCases

LEMMA TypeInit == Init => TypeInvariant
BY DimensionsAssumption, MaxFaultsAssumption
   DEF Init, LimiterInit, TypeInvariant, ExecutionTypeOK, LimiterTypeOK, NotFreed,
       Places, Leased, Renewals

\* The types, and how far the acquisition and the release of a lease are at
\* every place of its call.
THEOREM ExecutionTypeCorrect == Spec => []ExecutionTypeOK
<1>1. Spec => []TypeInvariant
  BY TypeInit, TypeStep, PTL DEF Spec
<1>2. TypeInvariant => ExecutionTypeOK
  BY DEF TypeInvariant
<1>3. QED
  BY <1>1, <1>2, PTL

-----------------------------------------------------------------------------
(* Limits *)

\* The call has not begun to give back what it has.
Active == {"acquiring", "registering"} \cup Leased

\* A lease that has not lapsed is in every key that its call has acquired.
SlotsBacked ==
  \A l \in Leases \ lapsed :
     place[l] \in Active => \A d \in 1 .. taken[l] : l \in members[KeyOf[l][d]]

\* What others do to Redis takes no slot away from a lease that has not
\* lapsed, and brings no other lease back to life.
LEMMA OthersKeepSlots ==
  ASSUME LimiterTypeOK, NEW m \in Leases, LimiterOperation(m) \/ LimiterUpkeep,
         NEW l \in Leases, l # m \/ LimiterUpkeep, l \notin lapsed'
  PROVE  l \notin lapsed /\ \A k \in Keys : l \in members[k] => l \in members'[k]
<1> USE DEF LimiterTypeOK
<1>1. CASE LimiterUpkeep
  BY <1>1 DEF LimiterUpkeep, ReapStale, KeyExpires, Unlapsed
<1>2. CASE LimiterOperation(m) /\ l # m
  BY <1>2 DEF LimiterOperation, TakeSlot, FindFull, RegisterKey, FreeSlot, Unlapsed,
              RenewSlots, LeaseLapses, limiterVars
<1>3. QED
  BY <1>1, <1>2

\* A call leaves the places of the other calls alone.
LEMMA OthersKeepPlace ==
  ASSUME CallTypeOK, NEW m \in Leases, CallStep(m), NEW l \in Leases, l # m
  PROVE  place'[l] = place[l] /\ taken'[l] = taken[l]
<1> USE DEF CallTypeOK, BeginRelease, Goto
<1>1. CASE AcquireStep(m) \/ ExecuteStep(m) \/ Release(m)
  BY <1>1 DEF AcquireStep, AcquireKey, Register, ExecuteStep, Start, ExecuteReturns,
              StopRenewal, Persist, Release
<1>2. CASE RenewalStep(m) \/ FaultStep(m) \/ Lapse(m)
  BY <1>2 DEF RenewalStep, Tick, Renew, RenewalStops, FaultStep, AcquireFails, RegisterFails,
              RenewFails, ReleaseFails, ProcessDies, Lapse, callVars
<1>3. QED
  BY <1>1, <1>2 DEF CallStep

\* A call that stays active keeps the slots of its lease; one that acquires a
\* slot is backed by it, and one that renews is backed in all its keys.
LEMMA OwnSlotsBacked ==
  ASSUME ExecutionTypeOK, SlotsBacked, NEW l \in Leases, CallStep(l),
         l \notin lapsed', place'[l] \in Active
  PROVE  \A d \in 1 .. taken'[l] : l \in members'[KeyOf[l][d]]
<1> DEFINE Goal == \A d \in 1 .. taken'[l] : l \in members'[KeyOf[l][d]]
<1> USE DimensionsAssumption, KeyOfAssumption DEF ExecutionTypeOK, LimiterTypeOK
<1>1. ASSUME place' = [place EXCEPT ![l] = IF taken[l] = 0 THEN "over" ELSE "releasing"]
      PROVE  FALSE
  BY <1>1 DEF Active, Leased
<1>2. ~BeginRelease(l)
  BY <1>1 DEF BeginRelease, Goto
<1>3. ASSUME place[l] \in Active, taken'[l] = taken[l], UNCHANGED members, UNCHANGED lapsed
      PROVE  Goal
  BY <1>3 DEF SlotsBacked
<1>4. CASE AcquireStep(l)
  <2>1. CASE Register(l)
    BY <1>3, <2>1 DEF Register, RegisterKey, Goto, Active
  <2>2. CASE AcquireKey(l)
    <3>1. /\ place[l] = "acquiring"
          /\ TakeSlot(NextKey(l), l)
          /\ taken' = [taken EXCEPT ![l] = @ + 1]
      BY <1>2, <2>2 DEF AcquireKey
    <3>2. NextKey(l) \in Keys
      BY <3>1 DEF NextKey
    <3>3. taken[l] \in 0 .. Dimensions /\ taken[l] < Dimensions /\ taken'[l] = taken[l] + 1
      BY <3>1
    <3>4. l \notin lapsed
      BY <3>1 DEF TakeSlot
    <3>5. l \in members'[NextKey(l)]
      BY <3>1, <3>2 DEF TakeSlot
    <3>6. \A k \in Keys : l \in members[k] => l \in members'[k]
      BY <3>1, <3>2, <3>4 DEF TakeSlot, Unlapsed
    <3>7. \A d \in 1 .. taken[l] : l \in members[KeyOf[l][d]]
      BY <3>1, <3>4 DEF SlotsBacked, Active
    <3>8. ASSUME NEW d \in 1 .. taken[l] + 1
          PROVE  l \in members'[KeyOf[l][d]]
      <4>1. d \in 1 .. Dimensions
        BY <3>3
      <4>2. KeyOf[l][d] \in Keys
        BY <4>1
      <4>3. CASE d = taken[l] + 1
        BY <3>5, <4>3 DEF NextKey
      <4>4. CASE d # taken[l] + 1
        <5>1. d \in 1 .. taken[l]
          BY <3>3, <4>4
        <5>2. QED
          BY <3>6, <3>7, <4>2, <5>1
      <4>5. QED
        BY <4>3, <4>4
    <3>9. QED
      BY <3>3, <3>8
  <2>3. QED
    BY <1>4, <2>1, <2>2 DEF AcquireStep
<1>5. CASE ExecuteStep(l)
  BY <1>2, <1>3, <1>5
     DEF ExecuteStep, Start, ExecuteReturns, StopRenewal, Persist, Goto, limiterVars, Active, Leased
<1>6. CASE RenewalStep(l) \/ RenewFails(l)
  <2>1. place'[l] = place[l] /\ taken'[l] = taken[l]
    BY <1>6 DEF RenewalStep, Tick, Renew, RenewalStops, RenewFails, callVars
  <2>2. CASE UNCHANGED limiterVars
    BY <1>3, <2>1, <2>2 DEF limiterVars
  <2>3. CASE RenewSlots(l, KeysOf(l))
    <3>1. \A d \in 1 .. Dimensions : l \in members'[KeyOf[l][d]]
      BY <2>3 DEF RenewSlots, HeldInAll, KeysOf
    <3>2. taken'[l] \in 0 .. Dimensions
      BY <2>1
    <3>3. \A d \in 1 .. taken'[l] : d \in 1 .. Dimensions
      BY <3>2
    <3>4. QED
      BY <3>1, <3>3
  <2>4. QED
    BY <1>6, <2>2, <2>3 DEF RenewalStep, Tick, Renew, RenewalStops, RenewFails
<1>7. CASE Release(l)
  BY <1>7 DEF Release, Active, Leased
<1>8. CASE AcquireFails(l) \/ RegisterFails(l)
  BY <1>2, <1>8 DEF AcquireFails, RegisterFails
<1>9. CASE ReleaseFails(l) \/ ProcessDies(l)
  BY <1>9 DEF ReleaseFails, ProcessDies, Goto, Active, Leased
<1>10. CASE Lapse(l)
  BY <1>10 DEF Lapse, LeaseLapses
<1>11. QED
  BY <1>4, <1>5, <1>6, <1>7, <1>8, <1>9, <1>10 DEF CallStep, FaultStep

LimitInvariant == TypeInvariant /\ SlotsLimited /\ SlotsBacked

LEMMA LimitInit == Init => LimitInvariant
<1> SUFFICES ASSUME Init
             PROVE  SlotsLimited /\ SlotsBacked
  BY TypeInit DEF LimitInvariant
<1>1. SlotsLimited
  <2>1. \A k \in Keys : members[k] = {} /\ Limit[k] \in Nat
    BY LimitAssumption DEF Init, LimiterInit
  <2>2. IsFiniteSet({}) /\ Cardinality({}) = 0
    BY FS_EmptySet
  <2>3. QED
    BY <2>1, <2>2 DEF SlotsLimited
<1>2. SlotsBacked
  BY DEF Init, SlotsBacked
<1>3. QED
  BY <1>1, <1>2

LEMMA LimitStep ==
  ASSUME LimitInvariant, [Next]_vars
  PROVE  LimitInvariant'
<1> USE DEF LimitInvariant
<1>1. TypeInvariant'
  BY TypeStep
<1>2. ExecutionTypeOK /\ LimiterTypeOK /\ CallTypeOK
  BY DEF TypeInvariant, ExecutionTypeOK, CallTypeOK
<1>3. ASSUME NEW m \in Leases, CallStep(m)
      PROVE  SlotsLimited' /\ SlotsBacked'
  <2>1. LimiterOperation(m)
    BY <1>2, <1>3, CallIsOperation
  <2>2. SlotsLimited'
    BY <1>2, <2>1, OperationKeepsLimit
  <2>3. SUFFICES ASSUME NEW l \in Leases \ lapsed', place'[l] \in Active
                 PROVE  \A d \in 1 .. taken'[l] : l \in members'[KeyOf[l][d]]
    BY <2>2 DEF SlotsBacked
  <2>4. CASE l = m
    BY <1>2, <1>3, <2>3, <2>4, OwnSlotsBacked
  <2>5. CASE l # m
    <3>1. place'[l] = place[l] /\ taken'[l] = taken[l]
      BY <1>2, <1>3, <2>5, OthersKeepPlace
    <3>2. l \notin lapsed /\ \A k \in Keys : l \in members[k] => l \in members'[k]
      BY <1>2, <2>1, <2>5, OthersKeepSlots
    <3>3. \A d \in 1 .. taken[l] : d \in 1 .. Dimensions
      BY <1>2, DimensionsAssumption DEF CallTypeOK
    <3>4. \A d \in 1 .. taken[l] : KeyOf[l][d] \in Keys
      BY <3>3, KeyOfAssumption
    <3>5. QED
      BY <2>3, <3>1, <3>2, <3>4 DEF SlotsBacked
  <2>6. QED
    BY <2>4, <2>5
<1>4. CASE LimiterUpkeep /\ UNCHANGED <<callVars, renewal, faults>>
  <2>1. SlotsLimited'
    BY <1>2, <1>4, OperationKeepsLimit
  <2>2. SUFFICES ASSUME NEW l \in Leases \ lapsed', place'[l] \in Active
                 PROVE  \A d \in 1 .. taken'[l] : l \in members'[KeyOf[l][d]]
    BY <1>1, <2>1 DEF SlotsBacked
  <2>3. l \notin lapsed /\ \A k \in Keys : l \in members[k] => l \in members'[k]
    BY <1>2, <1>4, OthersKeepSlots
  <2>4. \A d \in 1 .. taken[l] : d \in 1 .. Dimensions
    BY <1>2, DimensionsAssumption DEF CallTypeOK
  <2>5. \A d \in 1 .. taken[l] : KeyOf[l][d] \in Keys
    BY <2>4, KeyOfAssumption
  <2>6. QED
    BY <1>4, <2>2, <2>3, <2>5 DEF SlotsBacked, callVars
<1>5. CASE UNCHANGED vars
  BY <1>1, <1>5 DEF vars, limiterVars, callVars, SlotsLimited, SlotsBacked
<1>6. QED
  BY <1>1, <1>3, <1>4, <1>5, StepCases

\* No dimension ever has more executions with a valid lease than it admits,
\* and a valid lease is in all the keys of its call: whatever the order in
\* which calls acquire, renew and release, leases lapse, keys expire, the
\* recovery loop reaps, scripts fail and processes die.
THEOREM LimitsAreKept == Spec => [](ExecutionsLimited /\ ValidLeaseIsBacked)
<1>1. Spec => []LimitInvariant
  BY LimitInit, LimitStep, PTL DEF Spec
<1>2. LimitInvariant => ValidLeaseIsBacked
  BY DEF LimitInvariant, SlotsBacked, TypeInvariant, ExecutionTypeOK, ValidLeaseIsBacked,
         HeldInAll, KeysOf, Active
<1>3. LimitInvariant => ExecutionsLimited
  <2> SUFFICES ASSUME LimitInvariant, NEW k \in Keys
               PROVE  Cardinality({l \in Leases \ lapsed : Executing(l) /\ k \in KeysOf(l)})
                        <= Limit[k]
    BY DEF ExecutionsLimited
  <2> DEFINE S == {l \in Leases \ lapsed : Executing(l) /\ k \in KeysOf(l)}
  <2>1. S \subseteq members[k]
    BY <1>2 DEF ValidLeaseIsBacked, HeldInAll, Executing
  <2>2. IsFiniteSet(members[k]) /\ Cardinality(members[k]) <= Limit[k]
    BY DEF LimitInvariant, SlotsLimited
  <2>3. IsFiniteSet(S) /\ Cardinality(S) <= Cardinality(members[k])
    BY <2>1, <2>2, FS_Subset
  <2>4. Cardinality(S) \in Nat /\ Cardinality(members[k]) \in Nat /\ Limit[k] \in Nat
    BY <2>2, <2>3, FS_CardinalityType, LimitAssumption
  <2>5. Cardinality(S) <= Limit[k]
    BY <2>2, <2>3, <2>4
  <2>6. QED
    BY <2>5
<1>4. QED
  BY <1>1, <1>2, <1>3, PTL

\* A call that goes on by its lease has its slot in every dimension, so nobody
\* else is admitted in its place.
COROLLARY LeasesAreBacked == Spec => []ValidLeaseIsBacked
BY LimitsAreKept, PTL

-----------------------------------------------------------------------------
(* Lost leases *)

\* The goroutine is started with the execution and is over before a result
\* is persisted.
RenewalInOrder ==
  \A l \in Leases :
    /\ place[l] \in {"acquiring", "registering", "holding"} => renewal[l] = "off"
    /\ place[l] = "persisting" => renewal[l] = "stopped"

LEMMA RenewalStepInOrder ==
  ASSUME TypeInvariant, RenewalInOrder, [Next]_vars
  PROVE  RenewalInOrder'
<1> SUFFICES ASSUME NEW m \in Leases
             PROVE  /\ place'[m] \in {"acquiring", "registering", "holding"} =>
                         renewal'[m] = "off"
                    /\ place'[m] = "persisting" => renewal'[m] = "stopped"
  BY DEF RenewalInOrder
<1> DEFINE Goal == /\ place'[m] \in {"acquiring", "registering", "holding"} =>
                        renewal'[m] = "off"
                   /\ place'[m] = "persisting" => renewal'[m] = "stopped"
<1>1. place \in [Leases -> Places] /\ renewal \in [Leases -> Renewals]
  BY DEF TypeInvariant, ExecutionTypeOK
<1>2. ASSUME NEW l \in Leases, CallStep(l)
      PROVE  Goal
  <2> USE <1>1 DEF RenewalInOrder, BeginRelease, Goto
  <2>1. CASE AcquireStep(l)
    BY <2>1 DEF AcquireStep, AcquireKey, Register
  <2>2. CASE ExecuteStep(l)
    BY <2>2 DEF ExecuteStep, Start, ExecuteReturns, StopRenewal, Persist
  <2>3. CASE RenewalStep(l) \/ RenewFails(l)
    BY <2>3 DEF RenewalStep, Tick, Renew, RenewalStops, RenewFails, callVars
  <2>4. CASE Release(l)
    BY <2>4 DEF Release
  <2>5. CASE AcquireFails(l) \/ RegisterFails(l) \/ ReleaseFails(l)
    BY <2>5 DEF AcquireFails, RegisterFails, ReleaseFails
  <2>6. CASE ProcessDies(l) \/ Lapse(l)
    BY <2>6 DEF ProcessDies, Lapse, callVars
  <2>7. QED
    BY <1>2, <2>1, <2>2, <2>3, <2>4, <2>5, <2>6 DEF CallStep, FaultStep
<1>3. CASE UNCHANGED <<callVars, renewal>>
  BY <1>3 DEF callVars, RenewalInOrder
<1>4. QED
  BY <1>2, <1>3, StepCases DEF vars

\* A result is persisted only after the renewal goroutine has ended without
\* an error.
THEOREM LostLeases == Spec => []LostLeaseFails
<1>1. Init => RenewalInOrder
  BY DEF Init, RenewalInOrder
<1>2. Spec => []TypeInvariant
  BY TypeInit, TypeStep, PTL DEF Spec
<1>3. RenewalInOrder => LostLeaseFails
  BY DEF RenewalInOrder, LostLeaseFails
<1>4. QED
  BY <1>1, <1>2, <1>3, RenewalStepInOrder, PTL DEF Spec

=============================================================================

------------------------ MODULE ConcurrencyLimiter ------------------------
(***************************************************************************)
(* The Redis side of the concurrency limits                                *)
(* (src/backend/internal/queue/concurrency.go).                            *)
(*                                                                         *)
(* Every limited dimension of a task (global, tenant, user, provider,      *)
(* model) has a key with a sorted set of leases, scored by the time at     *)
(* which they expire.  Every operator below is one command or one Lua      *)
(* script; who calls it is in LeasedExecution.                             *)
(*                                                                         *)
(* Abstractions: a lease has one score, the same in all its keys, which is *)
(* in the past ("lapsed") or not; clocks agree on that.  A dimension with  *)
(* no limit, which Acquire skips, has no key here.                         *)
(***************************************************************************)
EXTENDS Naturals, FiniteSets

CONSTANTS Leases,   \* identifiers of leases, one per call of Acquire
          Keys,     \* keys of the dimensions
          Limit     \* how many leases a key admits

ASSUME LimitAssumption == Limit \in [Keys -> Nat \ {0}]

VARIABLES members,   \* the sorted set of a key
          lapsed,    \* leases whose score is in the past
          known      \* the set of keys that the reaper visits

limiterVars == <<members, lapsed, known>>

LimiterTypeOK ==
  /\ members \in [Keys -> SUBSET Leases]
  /\ lapsed \in SUBSET Leases
  /\ known \in SUBSET Keys

LimiterInit ==
  /\ members = [k \in Keys |-> {}]
  /\ lapsed = {}
  /\ known = {}

\* ZREMRANGEBYSCORE up to now.
Unlapsed(k) == members[k] \ lapsed

HasSlot(k) == Cardinality(Unlapsed(k)) < Limit[k]

-----------------------------------------------------------------------------
\* The acquire script when it finds a free slot.
TakeSlot(k, l) ==
  /\ HasSlot(k)
  /\ members' = [members EXCEPT ![k] = Unlapsed(k) \cup {l}]
  /\ UNCHANGED <<lapsed, known>>

\* The acquire script when the key is full: it has dropped lapsed leases.
FindFull(k) ==
  /\ ~HasSlot(k)
  /\ members' = [members EXCEPT ![k] = Unlapsed(k)]
  /\ UNCHANGED <<lapsed, known>>

\* SADD of the key.
RegisterKey(k) ==
  /\ known' = known \cup {k}
  /\ UNCHANGED <<members, lapsed>>

HeldInAll(l, S) == \A k \in S : l \in members[k]

\* Mutant: the script renews what it finds and does not ask for the rest.
RenewSomeSlots(l, S) ==
  /\ \E k \in S : l \in members[k]
  /\ lapsed' = lapsed \ {l}
  /\ UNCHANGED <<members, known>>

\* Mutant: the script adds the lease again where it is gone.
RenewGoneSlots(l, S) ==
  /\ members' = [k \in Keys |-> IF k \in S THEN members[k] \cup {l} ELSE members[k]]
  /\ lapsed' = lapsed \ {l}
  /\ UNCHANGED known

\* The renew script when the lease is in all its keys; a lapsed one that
\* nobody has removed yet comes back to life.
RenewSlots(l, S) ==
  /\ HeldInAll(l, S)
  /\ lapsed' = lapsed \ {l}
  /\ UNCHANGED <<members, known>>

\* ZREM of the lease.
FreeSlot(k, l) ==
  /\ members' = [members EXCEPT ![k] = @ \ {l}]
  /\ UNCHANGED <<lapsed, known>>

\* Mutant: the reaper deletes a key when all of it is stale.
ReapStaleKey(k) ==
  /\ k \in known
  /\ members[k] \subseteq lapsed
  /\ members' = [members EXCEPT ![k] = {}]
  /\ UNCHANGED <<lapsed, known>>

\* One key of ReapStale.
ReapStale(k) ==
  /\ k \in known
  /\ members' = [members EXCEPT ![k] = Unlapsed(k)]
  /\ UNCHANGED <<lapsed, known>>

\* PEXPIRE: a key that nobody has joined or renewed for a TTL goes away.
KeyExpires(k) ==
  /\ members[k] # {}
  /\ members[k] \subseteq lapsed
  /\ members' = [members EXCEPT ![k] = {}]
  /\ UNCHANGED <<lapsed, known>>

LeaseLapses(l) ==
  /\ lapsed' = lapsed \cup {l}
  /\ UNCHANGED <<members, known>>

=============================================================================

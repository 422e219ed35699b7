---------------------------- MODULE Transactions ----------------------------
(***************************************************************************)
(* Requests of administrators, each served by one MySQL transaction on a   *)
(* connection of its own.  Rows are locked shared or exclusively and stay  *)
(* locked until the transaction ends.  A statement that must wait is an    *)
(* action that is not enabled yet; a refused request, a deadlock, a lock   *)
(* wait that times out and a lost connection all are a Rollback.           *)
(*                                                                         *)
(* Writes become visible when the transaction commits, so they are applied *)
(* with the commit, and their locks are asked for there.                   *)
(***************************************************************************)
EXTENDS Naturals, FiniteSets

CONSTANTS
  Connections,
  Workloads,       \* sets of requests: records with their operation under "kind"
  MaxTransactions  \* how many transactions begin

Requests == UNION Workloads

ASSUME TransactionsAssumption ==
  MaxTransactions \in Nat /\ \A r \in Requests : "kind" \in DOMAIN r /\ r.kind # "none"

\* What a field of a request may say, where it has the field.
MaySay(r, field, values) == field \in DOMAIN r => r[field] \in values

VARIABLES
  workload,   \* the requests that are made
  request,    \* what the transaction of a connection is to do
  step,       \* the last statement it has completed
  shared,     \* the rows it has locked for reading
  exclusive,  \* the rows it has locked for writing
  begun

txVars == <<workload, request, step, shared, exclusive, begun>>

NoRequest == [kind |-> "none"]
Kind(c) == request[c].kind

TxInit ==
  /\ workload \in Workloads
  /\ request = [c \in Connections |-> NoRequest]
  /\ step = [c \in Connections |-> "idle"]
  /\ shared = [c \in Connections |-> {}]
  /\ exclusive = [c \in Connections |-> {}]
  /\ begun = 0

\* What others leave of a set of rows for a reader and for a writer.
MayRead(c, rows) ==
  \A d \in Connections \ {c} : exclusive[d] \cap rows = {}
MayWrite(c, rows) ==
  \A d \in Connections \ {c} : (exclusive[d] \cup shared[d]) \cap rows = {}

Begin(c, admitted) ==
  /\ step[c] = "idle"
  /\ begun < MaxTransactions
  /\ begun' = begun + 1
  /\ \E r \in workload \cap admitted : request' = [request EXCEPT ![c] = r]
  /\ step' = [step EXCEPT ![c] = "begun"]
  /\ UNCHANGED <<workload, shared, exclusive>>

\* A plain SELECT under REPEATABLE READ, or one outside of transactions.
Read(c, next) ==
  /\ step' = [step EXCEPT ![c] = next]
  /\ UNCHANGED <<workload, request, shared, exclusive, begun>>

\* A plain SELECT under SERIALIZABLE.
ReadShared(c, rows, next) ==
  /\ MayRead(c, rows)
  /\ shared' = [shared EXCEPT ![c] = @ \cup rows]
  /\ step' = [step EXCEPT ![c] = next]
  /\ UNCHANGED <<workload, request, exclusive, begun>>

\* SELECT ... FOR UPDATE.
ReadForUpdate(c, rows, next) ==
  /\ MayWrite(c, rows)
  /\ exclusive' = [exclusive EXCEPT ![c] = @ \cup rows]
  /\ step' = [step EXCEPT ![c] = next]
  /\ UNCHANGED <<workload, request, shared, begun>>

End(c) ==
  /\ request' = [request EXCEPT ![c] = NoRequest]
  /\ step' = [step EXCEPT ![c] = "idle"]
  /\ shared' = [shared EXCEPT ![c] = {}]
  /\ exclusive' = [exclusive EXCEPT ![c] = {}]
  /\ UNCHANGED <<workload, begun>>

\* The writes to these rows, and COMMIT.
Commit(c, rows) == MayWrite(c, rows) /\ End(c)

Rollback(c) == step[c] # "idle" /\ End(c)

TxTypeOK ==
  /\ workload \in Workloads
  /\ request \in [Connections -> Requests \cup {NoRequest}]
  /\ begun \in 0 .. MaxTransactions
  /\ \A c \in Connections :
       /\ step[c] = "idle" <=> request[c] = NoRequest
       /\ step[c] = "idle" => shared[c] = {} /\ exclusive[c] = {}
       /\ MayWrite(c, exclusive[c])

=============================================================================

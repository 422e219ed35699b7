--------------------------- MODULE TaskLifecycle ---------------------------
(***************************************************************************)
(* What the task system promises about a task, with no queue, no worker    *)
(* and no crash in sight: a task is a series of openings.  An opening      *)
(* waits, may run once, and ends once with one outcome; the next one comes *)
(* only when the last has ended without success; nothing about an opening  *)
(* changes after its end.  An opening is an attempt of the task, and its   *)
(* number is one above that of an earlier opening, but not always of the   *)
(* last: the numbers may repeat, and even go back.                         *)
(***************************************************************************)
EXTENDS Naturals, Sequences

CONSTANTS Tasks,        \* identifiers of generation tasks
          MaxAttempts   \* max_attempts of a task

VARIABLE history        \* history[t]: the openings of task t, in order

Outcomes == {"SUCCEEDED", "FAILED", "CANCELLED", "TIMED_OUT", "RETRIED"}

\* The outcomes after which the task may be opened again.
Repeatable == {"FAILED", "CANCELLED", "TIMED_OUT"}

Openings == [attempt : 1 .. MaxAttempts, fate : {"waiting", "running"} \cup Outcomes]

HistoryTypeOK == history \in [Tasks -> Seq(Openings)]

Current(t) == Len(history[t])

InFate(t, fates) == history[t] # <<>> /\ history[t][Current(t)].fate \in fates

Move(t, fate) == history' = [history EXCEPT ![t][Current(t)].fate = fate]

Init == history = [t \in Tasks |-> <<>>]

Submit(t) ==
  /\ history[t] = <<>>
  /\ history' = [history EXCEPT ![t] = <<[attempt |-> 1, fate |-> "waiting"]>>]

Start(t) ==
  /\ InFate(t, {"waiting"})
  /\ Move(t, "running")

\* A waiting opening ends without having run only by failure or cancellation.
Abandon(t) ==
  /\ InFate(t, {"waiting"})
  /\ \E fate \in {"FAILED", "CANCELLED"} : Move(t, fate)

End(t) ==
  /\ InFate(t, {"running"})
  /\ \E fate \in Outcomes \ {"RETRIED"} : Move(t, fate)

\* Another opening, counted on from opening i.
Again(t, i, fate) ==
  /\ history[t][i].attempt < MaxAttempts
  /\ history' = [history EXCEPT ![t] =
                   Append([@ EXCEPT ![Current(t)].fate = fate],
                          [attempt |-> @[i].attempt + 1, fate |-> "waiting"])]

\* The worker gives up on a running opening.
Repeat(t) ==
  /\ InFate(t, {"running"})
  /\ \E i \in DOMAIN history[t] : Again(t, i, "RETRIED")

\* A user asks for another attempt of a task that ended without success.
Reopen(t) ==
  /\ InFate(t, Repeatable)
  /\ \E i \in DOMAIN history[t] : Again(t, i, history[t][Current(t)].fate)

Next ==
  \E t \in Tasks :
     Submit(t) \/ Start(t) \/ Abandon(t) \/ End(t) \/ Repeat(t) \/ Reopen(t)

Spec == Init /\ [][Next]_history

=============================================================================

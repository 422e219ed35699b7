---------------------------- MODULE MCTaskSafety ----------------------------
(***************************************************************************)
(* Two loops, two requests, deadlines and a fault are too much for one run *)
(* of TaskSystem all together.  A behaviour has one crew, and the run has  *)
(* the behaviours of every crew.                                           *)
(***************************************************************************)
EXTENDS MCTaskSystem

VARIABLE crew

Loops == {w \in Workers : pc[w] # "idle"}
Requests == {h \in Handlers : call[h] # "idle"}

\* How many loops and requests are under way together, and how much has failed.
AtMost(l, r, f) ==
  /\ Cardinality(Loops) <= l
  /\ Cardinality(Requests) <= r
  /\ faults <= f

BeforeDeadline == \A t \in Tasks : ~overdue[t]

InCrew ==
  \/ crew = "loops" /\ AtMost(2, 1, 0) /\ BeforeDeadline
  \/ crew = "requests" /\ AtMost(1, 2, 1) /\ BeforeDeadline
  \/ crew = "deadlines" /\ AtMost(1, 1, 1)

CrewInit == Init /\ crew \in {"loops", "requests", "deadlines"}

CrewNext == Next /\ UNCHANGED crew /\ InCrew'

CrewSpec == CrewInit /\ [][CrewNext]_<<vars, crew>>

=============================================================================

------------------------- MODULE MCTaskEventStream -------------------------
(* Writers and tasks for the runs of TaskEventStream. *)
EXTENDS TaskEventStream, TLC

CONSTANTS s1, s2, p1, q1, t1, t2

OneTask == {t1}
TwoTasks == {t1, t2}

\* Two status changes and a progress event of one task.
ThreeWriters == {s1, s2, p1}
ThreeTaskOf == (s1 :> t1) @@ (s2 :> t1) @@ (p1 :> t1)
ThreeStatus == {s1, s2}

\* One status change of each of two tasks.
TwoWriters == {s1, q1}
TwoTaskOf == (s1 :> t1) @@ (q1 :> t2)

=============================================================================

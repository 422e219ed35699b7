---------------------------- MODULE MCTaskSystem ----------------------------
(* Model values and symmetry for the runs of TaskSystem. *)
EXTENDS TaskProperties, TLC

CONSTANTS t1, p1, w1, w2, h1, h2

OneTask == {t1}
OneProject == [t \in OneTask |-> p1]
TwoWorkers == {w1, w2}
OneWorker == {w1}
TwoHandlers == {h1, h2}
OneHandler == {h1}

ProcessSymmetry == Permutations(Workers) \cup Permutations(Handlers)

=============================================================================

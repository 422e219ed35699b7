\* A stream of one task with two status changes and a progress event;
\* replays of one event, one disconnection.
CONSTANTS
  s1 = s1
  s2 = s2
  p1 = p1
  q1 = q1
  t1 = t1
  t2 = t2
  Writers <- ThreeWriters
  Tasks <- TwoTasks
  TaskOf <- ThreeTaskOf
  StatusWriters <- ThreeStatus
  Filter <- OneTask
  MaxReplay = 1
  Buffer = 1
  MaxDisconnects = 1
SPECIFICATION FairSpec
INVARIANTS
  ReceivedInOrder
  NoStatusSkipped
PROPERTIES
  StatusArrives
  RevokedStreamEnds
CHECK_DEADLOCK FALSE

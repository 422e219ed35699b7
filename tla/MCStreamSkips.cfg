\* The stream of the workbench, opened for all tasks.
CONSTANTS
  s1 = s1
  s2 = s2
  p1 = p1
  q1 = q1
  t1 = t1
  t2 = t2
  Writers <- TwoWriters
  Tasks <- TwoTasks
  TaskOf <- TwoTaskOf
  StatusWriters <- TwoWriters
  Filter <- TwoTasks
  MaxReplay = 2
  Buffer = 1
  MaxDisconnects = 1
SPECIFICATION Spec
INVARIANT NothingSkipped
CHECK_DEADLOCK FALSE

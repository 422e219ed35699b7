\* One task whose project may be deleted, one worker loop, one fault, fairness.
CONSTANTS
  t1 = t1
  p1 = p1
  w1 = w1
  w2 = w2
  h1 = h1
  h2 = h2
  NoTask = NoTask
  Tasks <- OneTask
  ProjectOf <- OneProject
  Deletable = {p1}
  Workers <- OneWorker
  Handlers <- OneHandler
  MaxDeliveries = 1
  MaxAttempts = 2
  MaxFaults = 1
SPECIFICATION FairSpec
PROPERTIES
  TaskSettles
  RedisDrains

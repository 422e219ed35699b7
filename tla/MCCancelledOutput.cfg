\* A result of a cancelled attempt must not be stored; no faults.
CONSTANTS
  t1 = t1
  p1 = p1
  w1 = w1
  w2 = w2
  h1 = h1
  h2 = h2
  NoTask = NoTask
  Tasks <- OneTask
  ProjectOf <- OneProject
  Deletable = {}
  Workers <- TwoWorkers
  Handlers <- OneHandler
  MaxDeliveries = 2
  MaxAttempts = 2
  MaxFaults = 0
SPECIFICATION Spec
PROPERTY CancelledOutputIgnored

\* One task; two loops and a request, or a loop, two requests and a fault, or
\* a loop, a request, a fault and deadlines.
CONSTANTS
  t1 = t1
  p1 = p1
  w1 = w1
  w2 = w2
  h1 = h1
  h2 = h2
  NoTask = NoTask
  Tasks <- OneTask
  ProjectOf <- OneProject
  Deletable = {}
  Workers <- TwoWorkers
  Handlers <- TwoHandlers
  MaxDeliveries = 0
  MaxAttempts = 2
  MaxFaults = 1
SPECIFICATION CrewSpec
SYMMETRY ProcessSymmetry
INVARIANTS
  OneExecutionPerOpening
  EventsTellTheRow
  DeliveryBound
PROPERTY ImplementsLifecycle

\* Two assets, two purgers, one fault, under fairness.
CONSTANTS
  a1 = a1
  a2 = a2
  a3 = a3
  p1 = p1
  p2 = p2
  Assets <- TwoAssets
  Size <- UnitSize
  Quota = 1
  Purgers <- TwoPurgers
  MaxFaults = 1
SPECIFICATION FairSpec
INVARIANTS
  QuotaRespected
  CounterExact
  AcceptedHasObjects
  PurgedIsGone
PROPERTIES
  ReservationsEnd
  DeletedIsPurged

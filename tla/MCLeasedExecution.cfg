\* Two leases of one tenant, which admits one, two faults.
\* Every lease is used once, so all is quiet when the last one is over.
CHECK_DEADLOCK FALSE
CONSTANTS
  l1 = l1
  l2 = l2
  Leases <- TwoLeases
  Keys <- GlobalAndTenant
  Limit <- TwoThenOne
  Dimensions = 2
  KeyOf <- SameTenant
  MaxFaults = 2
SPECIFICATION FairSpec
INVARIANTS
  ExecutionsLimited
  ValidLeaseIsBacked
  LostLeaseFails
PROPERTIES
  SlotsComeBack
  LostExecutionEnds

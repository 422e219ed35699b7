\* A deleted asset must keep its objects until it is purged; no faults.
CONSTANTS
  a1 = a1
  a2 = a2
  a3 = a3
  p1 = p1
  p2 = p2
  Assets <- TwoAssets
  Size <- UnitSize
  Quota = 2
  Purgers <- OnePurger
  MaxFaults = 0
SPECIFICATION Spec
INVARIANT DeletedHasObjects

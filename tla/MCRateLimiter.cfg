SPECIFICATION Spec
CONSTANTS
  k1 = k1
  k2 = k2
  r1 = r1
  r2 = r2
  Keys <- MCKeys
  Requests <- MCRequests
  Limits <- MCLimits
  Window = 2
  MaxLag = 2
  MaxClock = 6
SYMMETRY MCSymmetry
INVARIANTS
  BucketsRecent
PROPERTIES
  KeepsPromise

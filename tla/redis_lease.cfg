SPECIFICATION FairSpec
CONSTANTS
  w1 = w1
  w2 = w2
  w3 = w3
  None = None
  Owners <- ThreeOwners
  HalfTTL = 4
  Delay = 1
  Faults <- AllFaults
  MaxFaults = 2
  MaxCrashes = 1
INVARIANT HolderHasKey
PROPERTIES AtomicLease DeletesOwnKey OrphansExpire

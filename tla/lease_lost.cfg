SPECIFICATION Spec
CONSTANTS
  w1 = w1
  w2 = w2
  w3 = w3
  None = None
  Owners <- TwoOwners
  HalfTTL = 4
  Delay = 1
  Faults <- ReadFaults
  MaxFaults = 1
  MaxCrashes = 0
INVARIANT LeaseNeverLost

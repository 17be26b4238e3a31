SPECIFICATION Spec
CONSTANTS
  w1 = w1
  w2 = w2
  w3 = w3
  None = None
  Owners <- TwoOwners
  HalfTTL = 2
  Delay = 4
  Faults <- NoFault
  MaxFaults = 0
  MaxCrashes = 0
PROPERTY DeletesOwnKey

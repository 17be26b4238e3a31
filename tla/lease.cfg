SPECIFICATION Spec
CONSTANTS
  r1 = r1
  r2 = r2
  o1 = o1
  None = None
  Orphan = Orphan
  Replicas <- TwoReplicas
  Operators <- NoOperator
  MaxRetries = 1
  LeaseOn = TRUE
  Faults <- NoFault
  MaxFaults = 0
  MaxCrashes = 1
  MaxRequests = 1
  EffectCap = 1
INVARIANTS SingleFlight
SYMMETRY Symmetric
CHECK_DEADLOCK FALSE

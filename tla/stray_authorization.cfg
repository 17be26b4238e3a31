SPECIFICATION Spec
CONSTANTS
  r1 = r1
  r2 = r2
  o1 = o1
  None = None
  Orphan = Orphan
  Replicas <- OneReplica
  Operators <- NoOperator
  MaxRetries = 2
  LeaseOn = TRUE
  Faults <- Transients
  MaxFaults = 1
  MaxCrashes = 0
  MaxRequests = 0
  EffectCap = 1
INVARIANT NoStrayAuthorization
CHECK_DEADLOCK FALSE

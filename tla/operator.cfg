SPECIFICATION Spec
CONSTANTS
  r1 = r1
  r2 = r2
  o1 = o1
  None = None
  Orphan = Orphan
  Replicas <- OneReplica
  Operators <- OneOperator
  MaxRetries = 1
  LeaseOn = FALSE
  Faults <- OperatorFaults
  MaxFaults = 1
  MaxCrashes = 0
  MaxRequests = 2
  EffectCap = 1
INVARIANT OneEventPerStep
PROPERTY NoLostUpdate
CHECK_DEADLOCK FALSE

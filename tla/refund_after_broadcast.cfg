SPECIFICATION Spec
CONSTANTS
  r1 = r1
  r2 = r2
  o1 = o1
  None = None
  Orphan = Orphan
  Replicas <- OneReplica
  Operators <- NoOperator
  MaxRetries = 2
  LeaseOn = TRUE
  Faults <- NoFault
  MaxFaults = 0
  MaxCrashes = 0
  MaxRequests = 0
  EffectCap = 1
INVARIANT NoRefundOnceBroadcast
CHECK_DEADLOCK FALSE

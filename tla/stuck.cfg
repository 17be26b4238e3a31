SPECIFICATION FairSpec
CONSTANTS
  r1 = r1
  r2 = r2
  o1 = o1
  None = None
  Orphan = Orphan
  Replicas <- OneReplica
  Operators <- OneOperator
  MaxRetries = 1
  LeaseOn = TRUE
  Faults <- NoFault
  MaxFaults = 0
  MaxCrashes = 0
  MaxRequests = 1
  EffectCap = 1
PROPERTY ReachesTerminal
CHECK_DEADLOCK FALSE

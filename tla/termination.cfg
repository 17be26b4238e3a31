SPECIFICATION FairSpec
CONSTANTS
  r1 = r1
  r2 = r2
  o1 = o1
  None = None
  Orphan = Orphan
  Replicas <- OneReplica
  Operators <- NoOperator
  MaxRetries = 2
  LeaseOn = TRUE
  Faults <- CallFaults
  MaxFaults = 2
  MaxCrashes = 1
  MaxRequests = 1
  EffectCap = 1
PROPERTY ReachesTerminal
CHECK_DEADLOCK FALSE

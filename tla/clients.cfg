SPECIFICATION ClientsSpec
CONSTANTS
  r1 = r1
  None = None
  Orphan = Orphan
  Replicas <- OneReplica
  Operators <- NoOperator
  MaxRetries = 1
  LeaseOn = TRUE
  Faults <- ReportedFaults
  MaxFaults = 1
  MaxCrashes = 1
  MaxRequests = 1
  EffectCap = 1
  Clients <- Everybody
CHECK_DEADLOCK FALSE
INVARIANT PollerTruthful
PROPERTY ResponseCoherent

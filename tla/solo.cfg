SPECIFICATION Spec
CONSTANTS
  r1 = r1
  r2 = r2
  o1 = o1
  None = None
  Orphan = Orphan
  Replicas <- OneReplica
  Operators <- NoOperator
  MaxRetries = 2
  LeaseOn = TRUE
  Faults <- ReportedFaults
  MaxFaults = 2
  MaxCrashes = 1
  MaxRequests = 1
  EffectCap = 2
INVARIANTS CaptureRefunded RepeatsExplained
PROPERTIES MonitoredRefund LifecycleSpec
CHECK_DEADLOCK FALSE

SPECIFICATION Spec
CONSTANTS
  r1 = r1
  r2 = r2
  o1 = o1
  None = None
  Orphan = Orphan
  Replicas <- OneReplica
  Operators <- NoOperator
  MaxRetries = 2
  LeaseOn = TRUE
  Faults <- LostReplies
  MaxFaults = 1
  MaxCrashes = 0
  MaxRequests = 0
  EffectCap = 2
CHECK_DEADLOCK FALSE
INVARIANT BroadcastOnce
\* The other one:
\* INVARIANT CaptureGivenBack

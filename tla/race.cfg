SPECIFICATION Spec
CONSTANTS
  r1 = r1
  r2 = r2
  o1 = o1
  None = None
  Orphan = Orphan
  Replicas <- TwoReplicas
  Operators <- NoOperator
  MaxRetries = 2
  LeaseOn = FALSE
  Faults <- NoFault
  MaxFaults = 0
  MaxCrashes = 0
  MaxRequests = 1
  EffectCap = 1
INVARIANTS TypeOK SnapshotCoherent PayloadMatchesStep EffectsFollowRecords RecordsFollowEffects SucceededIsPassed OneEventPerStep TransitionsHaveEvents
PROPERTY NoLostUpdate
SYMMETRY Symmetric
CHECK_DEADLOCK FALSE

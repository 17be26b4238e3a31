SPECIFICATION Spec
CONSTANTS
  w1 = w1
  w2 = w2
  o1 = o1
  q1 = q1
  q2 = q2
  Workers <- TwoWorkers
  Operators <- OneOperator
  Relays <- TwoRelays
  LastStep = 1
  MaxRetries = 2
  Limit = 1
INVARIANTS UniqueKeys EventsFollowSaves ClaimedOnce
PROPERTY SavesBuildOnRow
SYMMETRY Symmetric
CHECK_DEADLOCK FALSE

SPECIFICATION FairSpec
CONSTANTS
  q1 = q1
  q2 = q2
  Relays <- TwoRelays
  LastEvent = 4
  TxOf <- TwoTxs
  BatchSize = 2
  Faults <- AllFaults
  MaxFaults = 2
CHECK_DEADLOCK FALSE
INVARIANTS NoDoublePublish PublishedIsOnBus
PROPERTIES OvertakesOthersOnly Settled

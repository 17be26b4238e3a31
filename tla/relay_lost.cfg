SPECIFICATION FairSpec
CONSTANTS
  q1 = q1
  q2 = q2
  Relays <- OneRelay
  LastEvent = 2
  TxOf <- TwoTxs
  BatchSize = 1
  Faults <- BusFaults
  MaxFaults = 1
CHECK_DEADLOCK FALSE
PROPERTY Delivered

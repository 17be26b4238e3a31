SPECIFICATION Spec
CONSTANTS
  q1 = q1
  q2 = q2
  Relays <- TwoRelays
  LastEvent = 4
  TxOf <- TwoTxs
  BatchSize = 2
  Faults <- NoFault
  MaxFaults = 0
CHECK_DEADLOCK FALSE
INVARIANT InOrder

SPECIFICATION FairSpec
CONSTANTS
  t1 = t1
  t2 = t2
  t3 = t3
  c1 = c1
  c2 = c2
  Callers <- TwoCallers
  Idle = Idle
  Txs <- AllTxs
  Old <- AllTxs
  Concurrency = 2
  PartitionOf <- Crowded
  MaxFails = 0
  MaxScanFails = 0
  MaxRestarts = 0
CHECK_DEADLOCK FALSE
PROPERTY RecoveryCompletes

SPECIFICATION ProcessFairSpec
CONSTANTS
  t1 = t1
  t2 = t2
  c1 = c1
  Callers <- OneCaller
  Idle = Idle
  Txs <- TwoTxs
  Old <- OneTx
  Concurrency = 1
  PartitionOf <- FirstPartition
  MaxFails = 1
  MaxScanFails = 1
  MaxRestarts = 1
  MaxDowns = 1
  Envs <- AllEnvs
CHECK_DEADLOCK FALSE
INVARIANT RefusedDoesNothing
\* The others, one at a time:
\* INVARIANT PaymentIsReal
\* PROPERTY ListenErrorExits
\* INVARIANT HandlersKeepConnections

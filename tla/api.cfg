SPECIFICATION ApiFairSpec
CONSTANTS
  t1 = t1
  t2 = t2
  t3 = t3
  c1 = c1
  c2 = c2
  Idle = Idle
  Txs <- AllTxs
  Old <- TwoOld
  Callers <- TwoCallers
  Concurrency = 2
  PartitionOf <- Spread
  MaxFails = 1
  MaxScanFails = 1
  MaxRestarts = 1
  Bypass = FALSE
  TokenLife = 1
  MaxCalls = 1
  MaxDbFails = 1
INVARIANTS OneWorkerPerTx AnswersAreTrue
PROPERTIES AcceptedFinishes CallsAnswered
CHECK_DEADLOCK FALSE

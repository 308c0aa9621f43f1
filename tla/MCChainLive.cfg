CONSTANTS
  Ops = {1, 2}
  Workers = {w1}
  Confirmations = 2
  NoTx = NoTx
  NoWorker = NoWorker
  NoJob = NoJob
  MaxSigned = 1
  MaxAbandons = 0
  RpcMayRefuse = TRUE
  MayEvict = FALSE
  MayReorg = FALSE
SPECIFICATION FairSpec
INVARIANTS
  ConfirmedExecuted
PROPERTIES
  EveryOperationSettles
CHECK_DEADLOCK FALSE

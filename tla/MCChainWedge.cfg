CONSTANTS
  Ops = {1, 2}
  Workers = {w1}
  Confirmations = 2
  NoTx = NoTx
  NoWorker = NoWorker
  NoJob = NoJob
  MaxSigned = 1
  MaxAbandons = 1
  RpcMayRefuse = FALSE
  MayEvict = FALSE
  MayReorg = FALSE
SPECIFICATION FairSpec
PROPERTIES
  LeaseRecovery
CHECK_DEADLOCK FALSE

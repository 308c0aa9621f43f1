CONSTANTS
  Ops = {1}
  Workers = {w1, w2}
  Confirmations = 2
  NoTx = NoTx
  NoWorker = NoWorker
  NoJob = NoJob
  MaxSigned = 3
  MaxAbandons = 2
  RpcMayRefuse = TRUE
  MayEvict = TRUE
  MayReorg = TRUE
SPECIFICATION Spec
SYMMETRY Symmetry
INVARIANTS
  SingleTransaction
PROPERTIES
  ImplementsDurableWrites
CHECK_DEADLOCK FALSE

CONSTANTS
  Defenses = {d1}
  Numbers = {1}
  Callers = {c1, r1}
  Clients = {c1}
  FileClients = {c1}
  FailMode = "last-known-good"
  ClockSkew = 0
  TTL = 1
  MaxSkew = 1
  MaxTime = 2
  MaxFailures = 0
  MaxMisfortunes = 1
SPECIFICATION SyncSpec
INVARIANTS Lineage SyncedWasStable EngineIsCached
PROPERTIES ForwardOnly


CONSTANTS
  Defenses = {d1}
  Numbers = {1, 2}
  Callers = {c1}
  Clients = {c1}
  FileClients = {c1}
  FailMode = "last-known-good"
  ClockSkew = 0
  TTL = 2
  MaxSkew = 0
  MaxTime = 2
  MaxFailures = 0
  MaxMisfortunes = 0
SPECIFICATION SyncSpec
INVARIANTS RecheckIsObeyed


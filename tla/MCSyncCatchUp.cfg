CONSTANTS
  Defenses = {d1}
  Numbers = {1, 2}
  Callers = {c1}
  Clients = {c1}
  FileClients = {c1}
  FailMode = "last-known-good"
  ClockSkew = 0
  TTL = 3
  MaxSkew = 0
  MaxTime = 4
  MaxFailures = 0
  MaxMisfortunes = 0
SPECIFICATION FairSyncSpec
PROPERTIES ClientsCatchUp
CHECK_DEADLOCK FALSE

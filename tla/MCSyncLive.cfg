CONSTANTS
  Defenses = {d1}
  Numbers = {1, 2}
  Callers = {c1}
  Clients = {c1}
  FileClients = {}
  FailMode = "last-known-good"
  ClockSkew = 0
  TTL = 2
  MaxSkew = 0
  MaxTime = 3
  MaxFailures = 1
  MaxMisfortunes = 1
SPECIFICATION FairSyncSpec
PROPERTIES QuarantineIsPublished FreshClientSyncs
CHECK_DEADLOCK FALSE

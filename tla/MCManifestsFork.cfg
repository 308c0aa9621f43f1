CONSTANTS
  Defenses = {d1}
  Numbers = {1, 2}
  Callers = {r1, r2}
  TTL = 2
  MaxSkew = 0
  MaxTime = 3
  MaxFailures = 0
SPECIFICATION FairManifestSpec
PROPERTIES QuarantineIsPublished
CHECK_DEADLOCK FALSE

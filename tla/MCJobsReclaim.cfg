CONSTANTS
  v1 = v1
  v2 = v2
  r1 = r1
  r2 = r2
  Replays = {r1}
  Workers = {w1}
  Validators = {v1}
  Authors = {}
  NoReplay = NoReplay
  Nobody = Nobody
  NoAttestation = NoAttestation
  NoReport = NoReport
  MaxFaults = 0
  MaxLapses = 1
  MaxReports = 1
SPECIFICATION FairSpec
PROPERTIES
  ReclaimWorks
CHECK_DEADLOCK FALSE

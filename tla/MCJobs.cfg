CONSTANTS
  v1 = v1
  v2 = v2
  r1 = r1
  r2 = r2
  Replays = {r1}
  Workers = {w1, w2}
  Validators = {v1, v2}
  Authors = {}
  NoReplay = NoReplay
  Nobody = Nobody
  NoAttestation = NoAttestation
  NoReport = NoReport
  MaxFaults = 1
  MaxLapses = 1
  MaxReports = 2
SPECIFICATION FairSpec
INVARIANTS
  JobOfCompletedReplay
  OneAttestation
PROPERTIES
  ClaimsAreRespected
  ConfirmedIsRecorded
CHECK_DEADLOCK FALSE

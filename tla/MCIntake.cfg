CONSTANTS
  Attempts = {a1, a2, a3}
  Inputs <- AllInputs
  Keys = {"k1", "k2", "k3", "k4", "k5", "k6"}
  NoInput = NoInput
  NoEntry = NoEntry
  NoResult = NoResult
  Problem = Problem
  NoRow = NoRow
  NoUri = NoUri
  Published <- Registered
  MaxFaults = 1
  MaxLapses = 1
  Limit = 1
SPECIFICATION Spec
SYMMETRY Symmetry
INVARIANTS
  AnswersAgree
  AckedIsStored
  EvidenceLossHasCause
  RepeatsHaveCause
PROPERTIES
  PurgeComplete
CHECK_DEADLOCK FALSE

CONSTANTS
  Attempts = {a1, a2}
  Inputs <- OneReceipt
  Keys = {"k1"}
  NoInput = NoInput
  NoEntry = NoEntry
  NoResult = NoResult
  Problem = Problem
  NoRow = NoRow
  NoUri = NoUri
  Published = {}
  MaxFaults = 2
  MaxLapses = 1
  Limit = 1
SPECIFICATION Spec
PROPERTIES
  ExactRetryKeepsEvidence
CHECK_DEADLOCK FALSE

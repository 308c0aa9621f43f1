CONSTANTS
  Defenses = {d1}
  Numbers = {n1}
  Accounts = {alice, bob}
  Authors = {alice}
  Agents = {a1, a2, a3}
  Hashes = {h1}
  Receipts = {}
  NoDefense = NoDefense
  NoKey = NoKey
  NoAccount = NoAccount
  NoAgent = NoAgent
  NoHash = NoHash
  PausableScopes = {"PROMOTION"}
  MaxTime = 2
  MAX_THRESHOLD = 2
  InitialThreshold = 2
  Epochs = {}
  Usages = {}
  MaxFunding = 1
  MaxPayouts = 1
  NoEntity = NoEntity
SPECIFICATION IndexedSpec
SYMMETRY Symmetry
INVARIANTS
  CountIsApprovals
  NoSelfApproval
  StableIsValidated
  TrackRecordsKept
PROPERTIES
  FinalizationIsFinal
  ImplementsLifecycle
CHECK_DEADLOCK FALSE

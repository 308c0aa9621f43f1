CONSTANTS
  Defenses = {d1}
  Numbers = {n1}
  Accounts = {alice, bob}
  Authors = {alice}
  Agents = {a1, a2}
  Hashes = {h1}
  Receipts = {r1}
  NoDefense = NoDefense
  NoKey = NoKey
  NoAccount = NoAccount
  NoAgent = NoAgent
  NoHash = NoHash
  PausableScopes = {"CLAIMS"}
  NoEntity = NoEntity
  MaxTime = 1
  MAX_THRESHOLD = 1
  InitialThreshold = 1
  Epochs = {1}
  Usages = {u1, u2}
  MaxFunding = 2
  MaxPayouts = 2
SPECIFICATION IndexedSpec
SYMMETRY Symmetry
INVARIANTS
  Solvent
  IndexMirrorsContracts
  MetricsAgree
CHECK_DEADLOCK FALSE

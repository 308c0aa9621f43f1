CONSTANTS
  Defenses = {d1}
  Numbers = {n1, n2}
  Accounts = {alice, bob}
  Authors = {alice, bob}
  Agents = {a1, a2}
  Hashes = {h1}
  Receipts = {r1}
  NoDefense = NoDefense
  NoKey = NoKey
  NoAccount = NoAccount
  NoAgent = NoAgent
  NoHash = NoHash
  PausableScopes = {"PUBLICATION", "PROMOTION", "RECEIPT"}
  MaxTime = 2
SPECIFICATION RegistryAloneSpec
SYMMETRY Symmetry
INVARIANTS
  SupersedesWellFounded
PROPERTIES
  PublishedVersionImmutable
  PausedScopeIsFrozen
CHECK_DEADLOCK FALSE

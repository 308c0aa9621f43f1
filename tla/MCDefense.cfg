CONSTANTS
  c1 = c1
  c2 = c2
  unreadable = unreadable
  Calls = {c1, c2}
  Unreadable = unreadable
  BrokenDefense = BrokenDefense
  Durations = {1, 30, 60}
  Names <- NamesHere
  Contents <- ContentsHere
  Public <- exfiltration
  Engines <- EnginesHere
  ReplayBundles <- BundlesHere
  Thresholds <- ThresholdsHere
SPECIFICATION Spec
SYMMETRY Symmetry
INVARIANTS
  OwnReportsVerify
  AcceptedReportsAddUp
  IncidentsAreWhole
  EquivalentIncidentsConverge
PROPERTIES
  NothingHeldBackPasses
CHECK_DEADLOCK FALSE

CONSTANTS
  Defenses = {d1}
  Numbers = {1, 2}
  Callers = {r1, r2}
  TTL = 1
  MaxSkew = 0
  MaxTime = 1
  MaxFailures = 0
SYMMETRY Symmetric
SPECIFICATION ManifestSpec
INVARIANTS AnswersRechecked

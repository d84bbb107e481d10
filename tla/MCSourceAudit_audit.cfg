\* Two actions, three records, one of them possibly retried, misbound or early.
SPECIFICATION AuditSpec
CONSTANTS
  sa = sa
  sb = sb
  s = s
  t = t
  x = x
  y = y
  k1 = k1
  k2 = k2
  Malformed = Malformed
  NaN = NaN
  Threads = {sa, sb}
  SourceOf <- TwoSides
  Correlations = {k1, k2}
  ActionDigests = {x, y}
  WindowStart = 1
  Cutoff = 1
  MaxTime = 2
  Ahead = {sb}
  MaxMade = 3
  MaxSupplied = 3
SYMMETRY Symmetric
INVARIANTS
  RetriesNeverDecide
  AccusationsAreReal
PROPERTIES
  AuditFrozen
CHECK_DEADLOCK FALSE

CONSTANTS
  a = a
  b = b
  c = c
  x = x
  y = y
  g = g
  s1 = s1
  s2 = s2
  s3 = s3
  t1 = t1
  t2 = t2
  p1 = p1
  p2 = p2
  r = r
  NoAccumulator = NoAccumulator
  WordsOfTheText = {}
  Parties = {p1, p2}
  Authorities = {a, b, c}
  Faulty = {c}
  Genesis = g
  Offers <- MCOffers
  Targets = {t1, t2}
  Reconciliations = {r}
  MaxCycles = 2
SPECIFICATION Spec
INVARIANTS
  TypeOK
  SharedHonestySharesStates
  EvidenceServesOnce
  PinnedHistoryIsOwn
SYMMETRY PartySymmetry
CHECK_DEADLOCK FALSE

\* One honest and one faulty archive of a chain with rival rotations.
SPECIFICATION Spec
CONSTANTS
  k1 = k1
  l1 = l1
  k2 = k2
  l2 = l2
  l3 = l3
  m1 = m1
  a1 = a1
  a2 = a2
  v1 = v1
  p1 = p1
  p2 = p2
  ZERO = ZERO
  NoView = NoView
  Authorities = {a1, a2}
  HonestAuthorities = {a1}
  Genesis <- FirstPolicy
  Packages <- RivalPackages
  Contracts = {m1}
  ForgedRefs <- TwoForgedRefs
  ForgedAnchors <- TwoForgedAnchors
  Provenances = {v1}
  Parties = {p1, p2}
  MaxHandoffs = 3
  MaxSequence = 2
  MaxIssued = 3
SYMMETRY Symmetric
INVARIANTS
  ContradictionIsAttributable
  HonestArchiveShowsReplay
  ForkCanBeShown
PROPERTIES
  DisclosuresStable
  ImplementsDirectLineage
CHECK_DEADLOCK FALSE

\* An honest and a faulty authority, two parties, two contexts, forks of two steps.
SPECIFICATION Spec
CONSTANTS
  c1 = c1
  c2 = c2
  ctx1 = ctx1
  ctx2 = ctx2
  a1 = a1
  a2 = a2
  v1 = v1
  ZERO = ZERO
  NoView = NoView
  p1 = p1
  p2 = p2
  Authorities = {a1, a2}
  HonestAuthorities = {a1}
  Contexts = {ctx1, ctx2}
  Commitments = {c1, c2}
  Anchors <- MixedAnchors
  Provenances = {v1}
  MaxSequence = 3
  MaxIssued = 4
  Parties = {p1, p2}
SYMMETRY Symmetric
INVARIANTS
  ForkIsAttributable
  HonestAuthorityNeverAccused
PROPERTIES
  ImplementsLineageView
CHECK_DEADLOCK FALSE

SPECIFICATION Spec
CONSTANTS
  c1 = c1
  c2 = c2
  ctx1 = ctx1
  a1 = a1
  v1 = v1
  w1 = w1
  w2 = w2
  w3 = w3
  w4 = w4
  p1 = p1
  p2 = p2
  ZERO = ZERO
  NoView = NoView
  Authorities = {a1}
  Contexts = {ctx1}
  Commitments = {c1, c2}
  Provenances = {v1}
  Parties = {p1, p2}
  HonestAuthorities = {}
  Anchors <- ChainAnchors
  MaxSequence = 2
  MaxIssued = 2
  Witnesses = {w1, w2, w3, w4}
  FaultyWitnesses = {w4}
  Policies <- ThreeOfFour
  MaxWitnessSequence = 2
  MaxObserved = 6
SYMMETRY Symmetric
PROPERTIES
  ImplementsLineageView
CHECK_DEADLOCK FALSE

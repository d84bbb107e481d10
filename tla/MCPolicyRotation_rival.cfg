\* Two rival rotations, one faulty witness of three.
SPECIFICATION Spec
CONSTANTS
  c1 = c1
  ctx1 = ctx1
  a1 = a1
  v1 = v1
  w1 = w1
  w2 = w2
  w3 = w3
  w4 = w4
  w5 = w5
  p1 = p1
  p2 = p2
  t1 = t1
  ZERO = ZERO
  NoView = NoView
  Authorities = {a1}
  HonestAuthorities = {a1}
  Contexts = {ctx1}
  Commitments = {c1}
  Anchors <- OneAnchor
  Provenances = {v1}
  MaxSequence = 1
  MaxIssued = 1
  Witnesses = {w1, w2, w3, w4, w5}
  FaultyWitnesses = {w3}
  Policies <- RivalPolicies
  Terms = {t1}
  Parties = {p1, p2}
  Start <- FirstStatement
  Genesis <- P1
  MaxSigned = 3
SYMMETRY Symmetric
INVARIANTS
  RotationsComparable
  HonestHandoffNeverAccused
CHECK_DEADLOCK FALSE

\* Two receipts, genuine or forged, one stolen key and one report, two policies.
SPECIFICATION ReviewSpec
CONSTANTS
  a = a
  b = b
  ka = ka
  kb = kb
  kc = kc
  k1 = k1
  k2 = k2
  x = x
  y = y
  Malformed = Malformed
  NaN = NaN
  Threads = {a, b}
  Policies <- TwoPolicies
  IssuedAt <- Issuing
  Claims <- SomeClaims
  Manifests <- SomeManifests
  Expectation <- Expecting
  WindowStart = 0
  Cutoff = 1
  Refresh = 2
  Stealable = {ka}
  MaxTime = 3
  MaxDeedTime = 2
  MaxPerRole = 1
INVARIANTS
  SupportedMeansBothSides
  ForgeryNeverSupported
  ReviewersAgree
  ImplementationsAgree
  ReplacedPolicyLapses
PROPERTIES
  ReportTakesHold
CHECK_DEADLOCK FALSE

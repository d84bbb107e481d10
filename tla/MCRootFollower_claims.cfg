\* Lineages of up to four cycles (nine, if they are all alike), and crafted trees of up to four leaves.
SPECIFICATION FollowSpec
CONSTANTS
  c1 = c1
  c2 = c2
  Context = ctx1
  Commitments = {c1, c2}
  MaxLength = 4
  Steady = c1
  MaxSteady = 9
  MaxClaimed = 4
  CraftedRoots <- Crafted
INVARIANTS
  AcceptedIsAppendOnly
  AppendOnlyIsAccepted
  DisclosureStable
CHECK_DEADLOCK FALSE

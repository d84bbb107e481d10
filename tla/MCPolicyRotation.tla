-------------------------- MODULE MCPolicyRotation --------------------------
(* Instances of PolicyRotation for TLC.                                     *)
EXTENDS PolicyRotation

CONSTANTS c1, ctx1, a1, v1, w1, w2, w3, w4, w5

Policy(epoch, witnesses, threshold) ==
  [id |-> "set", epoch |-> epoch, witnesses |-> witnesses, threshold |-> threshold]

P1 == Policy(1, {w1, w2, w3}, 2)
M1 == Policy(1, {w1, w2, w3, w4}, 3)
S1 == Policy(1, {w1}, 1)
P2 == Policy(2, {w4}, 1)
Q2 == Policy(2, {w2, w3, w4}, 2)
O2 == Policy(2, {w1}, 1)
R2 == Policy(2, {w5}, 1)
P3 == Policy(3, {w4}, 1)

(* Two rival successors of the first policy, or two rotations in a row. *)
RivalPolicies == {P1, P2, R2}
GuardedPolicies == {M1, O2, R2}
SuccessivePolicies == {S1, Q2, P3}

Built == [context |-> ctx1, size |-> 1, root |-> <<c1>>, tip |-> c1, epoch |-> 1]

OneAnchor == {Built}

FirstStatement == Statement(a1, 1, ZERO, v1, Built)

Symmetric == Permutations(Parties)
=============================================================================

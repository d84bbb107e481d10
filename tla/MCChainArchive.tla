--------------------------- MODULE MCChainArchive ---------------------------
(* Instances of ChainArchive for TLC: rival rotations, and an archive that  *)
(* forges references and commitments.                                      *)
EXTENDS ChainArchive

CONSTANTS k1, l1, k2, l2, l3, m1

Policy(epoch) == [id |-> "set", epoch |-> epoch]

(* The quorum package one rotation activates is where the next one starts. *)
Quorum(policy, after) == [policy |-> policy, after |-> after]

FirstPolicy == Policy(1)
Started == Quorum(FirstPolicy, ZERO)

Rotated(active, name) ==
  [active |-> active, activation |-> Quorum(Policy(active.policy.epoch + 1), name)]

K1 == Rotated(Started, k1)
L1 == Rotated(Started, l1)
K2 == Rotated(K1.activation, k2)
L2 == Rotated(K1.activation, l2)
L3 == Rotated(L2.activation, l3)

RivalPackages == {K1, L1, K2, L2, L3}

R1 == Chain!RefOf(K1, FirstPolicy, 1, ZERO)
R2 == Chain!RefOf(L2, FirstPolicy, 2, R1)

(* A reference whose commitment is of another rotation, and what it leads   *)
(* to: as good a predecessor for a rotation as the replayed one.           *)
F1 == [R1 EXCEPT !.step = Chain!Step(L1, 1, ZERO)]
F2 == Chain!RefOf(L2, FirstPolicy, 2, F1)
F3 == Chain!RefOf(L3, FirstPolicy, 3, R2)

TwoForgedRefs == {F1, F2}

(* Forged commitments inside, and a root that does not hold the current     *)
(* step.                                                                   *)
TwoForgedAnchors ==
  { Anchor(<<R1.step, F2.step, F3.step>>, F3, m1), Anchor(<<R1.step, R2.step>>, F2, m1) }

Symmetric == Permutations(Parties)
=============================================================================

-------------------------- MODULE LineageTree_proofs --------------------------
(***************************************************************************)
(* Theorems about the tree over cycle commitments, for trees of any size:  *)
(* what a consistency proof and what a disclosure bind, whoever made them, *)
(* and that every cycle of a lineage can be disclosed.                     *)
(*                                                                         *)
(* The argument: a root fixes the hash at every place of its tree (NodeAt),*)
(* so what hashes up to the root is in its place (StaysInTree), and a hash *)
(* that has the same place in two trees is over the same leaves            *)
(* (PlacedAgree).  Of roots that no lineage need have, what hangs on them  *)
(* is known: the blocks of a bagged frontier (FrontierHung), and what they *)
(* were merged from (AppendBlocksHung); in a tree, what hangs in a place   *)
(* is the node there (HangsInTree).                                        *)
(***************************************************************************)
EXTENDS LineageTree, NaturalOrder_proofs, SequenceTheorems, FiniteSetTheorems

-----------------------------------------------------------------------------
(* Powers of two. *)

PowerStep(p, g, k) == IF k = 0 THEN 1 ELSE 2 * g[k - 1]
Powers == INSTANCE NaturalOrder_proofs WITH Recur <- PowerStep

PowersUpTo(n) == CHOOSE g : g = [m \in 0..n |-> IF m = 0 THEN 1 ELSE 2 * g[m - 1]]

(* The powers up to n exist as a function that computes each from the one
   before. *)
LEMMA PowersUpToExist ==
  ASSUME NEW n \in Nat
  PROVE  PowersUpTo(n) = [m \in 0..n |-> IF m = 0 THEN 1 ELSE 2 * PowersUpTo(n)[m - 1]]
<1>1. Powers!LooksBelow({}, n)
  BY DEF Powers!LooksBelow, PowerStep
<1>2. Powers!Recursive({}, n)
  BY <1>1, Powers!RecursionExists
<1>3. \E g : g = [m \in 0..n |-> IF m = 0 THEN 1 ELSE 2 * g[m - 1]]
  BY <1>2 DEF Powers!Recursive, PowerStep
<1> QED BY <1>3, Zenon DEF PowersUpTo

(* The recursive function PowerOfTwo obeys its equation at every n. *)
LEMMA PowerUnfolds ==
  \A n \in Nat : PowerOfTwo[n] = IF n = 0 THEN 1 ELSE 2 * PowerOfTwo[n - 1]
<1> DEFINE P(n) == PowersUpTo(n)
           f == [n \in Nat |-> P(n)[n]]
<1>1. \A n \in Nat : \A m \in 0..n : P(n)[m] = IF m = 0 THEN 1 ELSE 2 * P(n)[m - 1]
  <2> SUFFICES ASSUME NEW n \in Nat, NEW m \in 0..n
               PROVE  P(n)[m] = IF m = 0 THEN 1 ELSE 2 * P(n)[m - 1]
    OBVIOUS
  <2>1. P(n) = [l \in 0..n |-> IF l = 0 THEN 1 ELSE 2 * P(n)[l - 1]]
    BY PowersUpToExist
  <2> HIDE DEF P
  <2> QED BY <2>1
<1> HIDE DEF P
<1>2. ASSUME NEW n \in Nat PROVE \A m \in 0..n : P(n + 1)[m] = P(n)[m]
  <2> DEFINE T == {m \in 0..n : P(n + 1)[m] = P(n)[m]}
  <2>1. 0 \in T
    BY <1>1
  <2>2. ASSUME NEW m \in 1..n, m - 1 \in T PROVE m \in T
    <3>1. m \in 0..n /\ m \in 0..(n + 1) /\ m # 0 /\ n + 1 \in Nat
      OBVIOUS
    <3> QED BY <1>1, <2>2, <3>1
  <2> QED BY <2>1, <2>2, InductionUpTo
<1>3. f = [n \in Nat |-> IF n = 0 THEN 1 ELSE 2 * f[n - 1]]
  <2>1. ASSUME NEW n \in Nat PROVE f[n] = IF n = 0 THEN 1 ELSE 2 * f[n - 1]
    <3>1. CASE n = 0
      BY <1>1, <3>1
    <3>2. CASE n # 0
      <4>1. n - 1 \in Nat /\ n - 1 \in 0..(n - 1) /\ n \in 0..n /\ (n - 1) + 1 = n
        BY <3>2
      <4>2. P(n)[n] = 2 * P(n)[n - 1]
        BY <1>1, <3>2, <4>1
      <4>3. P(n)[n - 1] = P(n - 1)[n - 1]
        BY <1>2, <4>1
      <4> QED BY <3>2, <4>1, <4>2, <4>3
    <3> QED BY <3>1, <3>2
  <2>2. f = [n \in Nat |-> f[n]]
    OBVIOUS
  <2> HIDE DEF f
  <2> QED BY <2>1, <2>2
<1>4. PowerOfTwo = [n \in Nat |-> IF n = 0 THEN 1 ELSE 2 * PowerOfTwo[n - 1]]
  <2> HIDE DEF f
  <2> QED BY <1>3, Zenon DEF PowerOfTwo
<1> HIDE DEF f
<1> QED BY <1>4

(* Powers of two are positive, exceed their exponents, and double. *)
LEMMA PowerFacts ==
  ASSUME NEW n \in Nat
  PROVE  /\ PowerOfTwo[n] \in Nat /\ PowerOfTwo[n] > n /\ PowerOfTwo[n] >= 1
         /\ PowerOfTwo[n + 1] = 2 * PowerOfTwo[n]
         /\ PowerOfTwo[0] = 1
<1> DEFINE T == {k \in 0..n : PowerOfTwo[k] \in Nat /\ PowerOfTwo[k] > k}
<1>1. 0 \in T
  BY PowerUnfolds
<1>2. ASSUME NEW k \in 1..n, k - 1 \in T PROVE k \in T
  <2>1. PowerOfTwo[k] = 2 * PowerOfTwo[k - 1]
    BY PowerUnfolds
  <2> QED BY <1>2, <2>1
<1>3. n \in T
  <2>1. \A k \in 0..n : k \in T
    <3> HIDE DEF T
    <3> QED BY <1>1, <1>2, InductionUpTo
  <2> HIDE DEF T
  <2> QED BY <2>1
<1>4. PowerOfTwo[n + 1] = 2 * PowerOfTwo[n]
  <2>1. n + 1 \in Nat /\ n + 1 # 0 /\ (n + 1) - 1 = n
    OBVIOUS
  <2> QED BY <2>1, PowerUnfolds
<1> QED BY <1>3, <1>4, PowerUnfolds

(* A smaller exponent has at most half the power. *)
LEMMA PowerMonotone ==
  ASSUME NEW m \in Nat, NEW n \in Nat, m < n
  PROVE  2 * PowerOfTwo[m] <= PowerOfTwo[n]
<1> DEFINE T == {k \in 0..(n - m - 1) : 2 * PowerOfTwo[m] <= PowerOfTwo[m + 1 + k]}
<1>0. n - m - 1 \in Nat
  OBVIOUS
<1>1. 0 \in T
  BY PowerFacts
<1>2. ASSUME NEW k \in 1..(n - m - 1), k - 1 \in T PROVE k \in T
  <2>1. m + k \in Nat /\ m + 1 + (k - 1) = m + k /\ m + 1 + k = (m + k) + 1
    OBVIOUS
  <2>2. PowerOfTwo[(m + k) + 1] = 2 * PowerOfTwo[m + k] /\ PowerOfTwo[m + k] \in Nat
        /\ PowerOfTwo[m] \in Nat
    BY <2>1, PowerFacts
  <2>3. 2 * PowerOfTwo[m] <= PowerOfTwo[m + k]
    BY <1>2, <2>1
  <2> QED BY <2>1, <2>2, <2>3
<1>3. n - m - 1 \in T
  <2> HIDE DEF T
  <2>1. \A k \in 0..(n - m - 1) : k \in T
    BY <1>0, <1>1, <1>2, InductionUpTo
  <2> QED BY <1>0, <2>1
<1>4. m + 1 + (n - m - 1) = n
  OBVIOUS
<1> QED BY <1>3, <1>4

-----------------------------------------------------------------------------
(* Path lengths: the least height of a tree with that many leaves. *)

Height(w, h) == /\ h \in Nat /\ w <= PowerOfTwo[h]
                /\ h = 0 \/ PowerOfTwo[h - 1] < w

(* Every width has a height. *)
LEMMA HeightExists ==
  ASSUME NEW w \in Nat \ {0}
  PROVE  \E h : Height(w, h)
<1> DEFINE T == {h \in Nat : w <= PowerOfTwo[h]}
<1>1. w \in T
  BY PowerFacts
<1>2. PICK h \in T : \A g \in T : h <= g
  <2> HIDE DEF T
  <2>1. T \subseteq Nat
    BY DEF T
  <2> QED BY <1>1, <2>1, LeastElement
<1>3. h = 0 \/ PowerOfTwo[h - 1] < w
  <2> SUFFICES ASSUME h # 0 PROVE PowerOfTwo[h - 1] < w
    OBVIOUS
  <2>1. h - 1 \in Nat /\ ~(h <= h - 1)
    BY <1>2
  <2>2. h - 1 \notin T
    BY <1>2, <2>1
  <2>3. PowerOfTwo[h - 1] \in Nat
    BY <2>1, PowerFacts
  <2> QED BY <2>1, <2>2, <2>3
<1> QED BY <1>2, <1>3 DEF Height

(* A width has no two heights. *)
LEMMA HeightIsUnique ==
  ASSUME NEW w \in Nat \ {0}, NEW g, NEW h, Height(w, g), Height(w, h)
  PROVE  g = h
<1>1. ASSUME NEW a, NEW b, Height(w, a), Height(w, b), a < b PROVE FALSE
  <2>1. a \in Nat /\ b \in Nat /\ b - 1 \in Nat
    BY <1>1 DEF Height
  <2>2. /\ PowerOfTwo[a] \in Nat /\ PowerOfTwo[b - 1] \in Nat
        /\ PowerOfTwo[a] <= PowerOfTwo[b - 1]
    <3>1. CASE a = b - 1
      BY <2>1, <3>1, PowerFacts
    <3>2. CASE a < b - 1
      <4>1. 2 * PowerOfTwo[a] <= PowerOfTwo[b - 1]
        BY <2>1, <3>2, PowerMonotone
      <4> QED BY <2>1, <4>1, PowerFacts
    <3> QED BY <1>1, <2>1, <3>1, <3>2
  <2> QED BY <1>1, <2>1, <2>2 DEF Height
<1>2. g \in Nat /\ h \in Nat
  BY DEF Height
<1>3. ~(g < h) /\ ~(h < g)
  BY <1>1
<1> QED BY <1>2, <1>3

Halved(w) == (w + 1) \div 2

(* Half the width, rounded up, has one height less. *)
LEMMA HeightStep ==
  ASSUME NEW w \in Nat, w > 1
  PROVE  /\ Halved(w) \in Nat \ {0} /\ Halved(w) < w
         /\ \A h : Height(Halved(w), h) <=> (h \in Nat /\ Height(w, h + 1))
<1>1. Halved(w) \in Nat \ {0} /\ Halved(w) < w
  BY DEF Halved
<1>2. ASSUME NEW h \in Nat PROVE Height(Halved(w), h) <=> Height(w, h + 1)
  <2>1. /\ PowerOfTwo[h] \in Nat /\ PowerOfTwo[h + 1] = 2 * PowerOfTwo[h] /\ (h + 1) - 1 = h
        /\ PowerOfTwo[0] = 1 /\ h + 1 # 0
    BY PowerFacts
  <2>2. Halved(w) <= PowerOfTwo[h] <=> w <= PowerOfTwo[h + 1]
    BY <2>1 DEF Halved
  <2>3. CASE h = 0
    BY <2>1, <2>2, <2>3 DEF Height
  <2>4. CASE h # 0
    <3>1. /\ h - 1 \in Nat /\ PowerOfTwo[h - 1] \in Nat
          /\ PowerOfTwo[h] = 2 * PowerOfTwo[h - 1]
      BY <2>4, PowerFacts, PowerUnfolds
    <3>2. PowerOfTwo[h - 1] < Halved(w) <=> PowerOfTwo[h] < w
      BY <3>1 DEF Halved
    <3> QED BY <2>1, <2>2, <2>4, <3>2 DEF Height
  <2> QED BY <2>3, <2>4
<1>3. \A h : Height(Halved(w), h) => h \in Nat
  BY DEF Height
<1> QED BY <1>1, <1>2, <1>3

(* Path lengths exist ... *)
LEMMA PathLengthUnfolds ==
  /\ PathLength[1] = 0
  /\ \A w \in Nat : w > 1 => PathLength[w] = 1 + PathLength[Halved(w)]
<1> DEFINE H(w) == CHOOSE h : Height(w, h)
           f == [w \in Nat \ {0} |-> H(w)]
<1>1. \A w \in Nat \ {0} : Height(w, H(w))
  BY HeightExists
<1> HIDE DEF H
<1>2. f = [w \in Nat \ {0} |-> IF w = 1 THEN 0 ELSE 1 + f[(w + 1) \div 2]]
  <2>1. ASSUME NEW w \in Nat \ {0}
        PROVE  f[w] = IF w = 1 THEN 0 ELSE 1 + f[(w + 1) \div 2]
    <3>1. CASE w = 1
      <4>1. Height(1, 0)
        BY PowerFacts DEF Height
      <4> QED BY <1>1, <3>1, <4>1, HeightIsUnique
    <3>2. CASE w # 1
      <4>1. w \in Nat /\ w > 1
        BY <3>2
      <4>2. Halved(w) \in Nat \ {0}
        BY <4>1, HeightStep
      <4>3. H(Halved(w)) \in Nat /\ Height(w, H(Halved(w)) + 1)
        BY <1>1, <4>1, <4>2, HeightStep
      <4>4. H(w) = H(Halved(w)) + 1
        BY <1>1, <4>3, HeightIsUnique
      <4> QED BY <3>2, <4>2, <4>3, <4>4 DEF Halved
    <3> QED BY <3>1, <3>2
  <2>2. f = [w \in Nat \ {0} |-> f[w]]
    OBVIOUS
  <2> HIDE DEF f
  <2> QED BY <2>1, <2>2
<1>3. PathLength = [w \in Nat \ {0} |-> IF w = 1 THEN 0 ELSE 1 + PathLength[(w + 1) \div 2]]
  <2> HIDE DEF f
  <2> QED BY <1>2, Zenon DEF PathLength
<1> HIDE DEF f
<1>4. \A w \in Nat \ {0} : PathLength[w] = IF w = 1 THEN 0 ELSE 1 + PathLength[Halved(w)]
  BY <1>3 DEF Halved
<1> QED BY <1>4

(* ... and are the least heights. *)
LEMMA PathLengthIsHeight ==
  ASSUME NEW w \in Nat \ {0}
  PROVE  Height(w, PathLength[w])
<1> DEFINE U == {v \in Nat \ {0} : ~Height(v, PathLength[v])}
<1>1. SUFFICES ASSUME U # {} PROVE FALSE
  OBVIOUS
<1>2. PICK v \in U : \A u \in U : v <= u
  <2>1. U \subseteq Nat
    OBVIOUS
  <2> HIDE DEF U
  <2> QED BY <1>1, <2>1, LeastElement
<1>3. CASE v = 1
  BY <1>3, PathLengthUnfolds, PowerFacts DEF Height
<1>4. CASE v # 1
  <2>1. v \in Nat /\ v > 1
    BY <1>4
  <2>2. Halved(v) \in Nat \ {0} /\ Halved(v) < v
    BY <2>1, HeightStep
  <2>3. Height(Halved(v), PathLength[Halved(v)])
    BY <1>2, <2>1, <2>2
  <2>4. PathLength[Halved(v)] \in Nat /\ Height(v, PathLength[Halved(v)] + 1)
    BY <2>1, <2>3, HeightStep
  <2>5. PathLength[v] = PathLength[Halved(v)] + 1
    BY <2>1, <2>4, PathLengthUnfolds
  <2> QED BY <2>4, <2>5
<1> QED BY <1>3, <1>4

-----------------------------------------------------------------------------
(* Hashes are terms. *)

(* Hashes are injective, and no hash of a leaf is that of a node. *)
LEMMA HashFacts ==
  /\ \A i, c, j, d : LeafHash(i, c) = LeafHash(j, d) => i = j /\ c = d
  /\ \A a, b, c, d : NodeHash(a, b) = NodeHash(c, d) => a = c /\ b = d
  /\ \A i, c, a, b : LeafHash(i, c) # NodeHash(a, b)
<1>1. ASSUME NEW i, NEW c, NEW j, NEW d, LeafHash(i, c) = LeafHash(j, d) PROVE i = j /\ c = d
  <2>1. <<"leaf", i, c>>[2] = <<"leaf", j, d>>[2] /\ <<"leaf", i, c>>[3] = <<"leaf", j, d>>[3]
    BY <1>1 DEF LeafHash
  <2> QED BY <2>1
<1>2. ASSUME NEW a, NEW b, NEW c, NEW d, NodeHash(a, b) = NodeHash(c, d) PROVE a = c /\ b = d
  <2>1. <<"node", a, b>>[2] = <<"node", c, d>>[2] /\ <<"node", a, b>>[3] = <<"node", c, d>>[3]
    BY <1>2 DEF NodeHash
  <2> QED BY <2>1
<1>3. ASSUME NEW i, NEW c, NEW a, NEW b, LeafHash(i, c) = NodeHash(a, b) PROVE FALSE
  <2>1. <<"leaf", i, c>>[1] = <<"node", a, b>>[1]
    BY <1>3 DEF LeafHash, NodeHash
  <2> QED BY <2>1
<1> QED BY <1>1, <1>2, <1>3

(* The hash of a leaf is not that of a node. *)
LEMMA LeafIsNoNode ==
  ASSUME NEW i, NEW c, NEW a, NEW b
  PROVE  LeafHash(i, c) # NodeHash(a, b)
BY HashFacts

-----------------------------------------------------------------------------
(* The levels of a tree. *)

(* What the leaves of a lineage are: one for each of its indexes. *)
IsLeaves(leaves) ==
  /\ Len(leaves) \in Nat \ {0} /\ DOMAIN leaves = 1..Len(leaves)
  /\ \A i \in DOMAIN leaves : \E c : leaves[i] = LeafHash(i, c)

LeafSequence(leaves) == Len(leaves) \in Nat \ {0} /\ DOMAIN leaves = 1..Len(leaves)

Top(leaves) == PathLength[Len(leaves)]
Width(leaves, h) == Len(Levels(leaves)[h])

(* The hash at position i of level h, both from 0. *)
At(leaves, h, i) == Levels(leaves)[h][i + 1]

LevelStep(leaves, g, k) == IF k = 0 THEN leaves ELSE NextLevel(g[k - 1])
Level == INSTANCE NaturalOrder_proofs WITH Recur <- LevelStep

(* The levels start at the leaves, each the next level of the one below. *)
LEMMA LevelsUnfold ==
  ASSUME NEW leaves, Top(leaves) \in Nat
  PROVE  /\ Levels(leaves)[0] = leaves
         /\ \A h \in 1..Top(leaves) : Levels(leaves)[h] = NextLevel(Levels(leaves)[h - 1])
<1> DEFINE n == Top(leaves)
           e(g, h) == IF h = 0 THEN leaves ELSE NextLevel(g[h - 1])
<1>1. Level!LooksBelow(leaves, n)
  BY DEF Level!LooksBelow, LevelStep
<1>2. Level!Recursive(leaves, n)
  BY <1>1, Level!RecursionExists
<1>3. \E g : g = [h \in 0..n |-> e(g, h)]
  BY <1>2 DEF Level!Recursive, LevelStep
<1>4. Levels(leaves) = [h \in 0..n |-> e(Levels(leaves), h)]
  BY <1>3, Zenon DEF Levels, Top
<1> DEFINE g == Levels(leaves)
<1> HIDE DEF g
<1>5. g = [h \in 0..n |-> e(g, h)]
  BY <1>4 DEF g
<1>6. \A h \in 0..n : g[h] = e(g, h)
  <2> HIDE DEF e
  <2> QED BY <1>5
<1> QED BY <1>6 DEF g

(* The next level has half the width, an odd last node paired with itself. *)
LEMMA NextLevelFacts ==
  ASSUME NEW level, NEW w \in Nat, w > 1, Len(level) = w
  PROVE  /\ Len(NextLevel(level)) = Halved(w)
         /\ DOMAIN NextLevel(level) = 1..Halved(w)
         /\ \A i \in Nat : i < Halved(w) =>
              /\ 2 * i < w
              /\ NextLevel(level)[i + 1]
                   = NodeHash(level[2 * i + 1],
                              IF 2 * i + 1 < w THEN level[2 * i + 2] ELSE level[2 * i + 1])
<1>1. NextLevel(level)
        = [i \in 1..Halved(w) |->
             NodeHash(level[2 * i - 1], IF 2 * i <= w THEN level[2 * i] ELSE level[2 * i - 1])]
  BY DEF NextLevel, Halved
<1>2. Halved(w) \in Nat
  BY DEF Halved
<1>3. DOMAIN NextLevel(level) = 1..Halved(w) /\ Len(NextLevel(level)) = Halved(w)
  BY <1>1, <1>2
<1>4. ASSUME NEW i \in Nat, i < Halved(w)
      PROVE  /\ 2 * i < w
             /\ NextLevel(level)[i + 1]
                  = NodeHash(level[2 * i + 1],
                             IF 2 * i + 1 < w THEN level[2 * i + 2] ELSE level[2 * i + 1])
  <2>1. /\ i + 1 \in 1..Halved(w) /\ 2 * (i + 1) - 1 = 2 * i + 1 /\ 2 * (i + 1) = 2 * i + 2
        /\ 2 * i + 2 <= w <=> 2 * i + 1 < w
    BY <1>2, <1>4
  <2>2. 2 * i < w
    BY <1>4 DEF Halved
  <2> QED BY <1>1, <2>1, <2>2
<1> QED BY <1>3, <1>4

(* Every level but the last is longer than one, and no level is empty; the  *)
(* levels end where the width does.                                        *)
LEMMA LevelHeights ==
  ASSUME NEW leaves, LeafSequence(leaves), NEW h \in 0..Top(leaves)
  PROVE  /\ Top(leaves) \in Nat
         /\ Width(leaves, h) \in Nat \ {0}
         /\ DOMAIN Levels(leaves)[h] = 1..Width(leaves, h)
         /\ PathLength[Width(leaves, h)] = Top(leaves) - h
<1> DEFINE n == Top(leaves)
           lv == Levels(leaves)
           T == {k \in 0..n : /\ Len(lv[k]) \in Nat \ {0} /\ DOMAIN lv[k] = 1..Len(lv[k])
                              /\ PathLength[Len(lv[k])] = n - k}
<1>1. n \in Nat
  BY PathLengthIsHeight DEF LeafSequence, Top, Height
<1>2. lv[0] = leaves /\ \A k \in 1..n : lv[k] = NextLevel(lv[k - 1])
  BY <1>1, LevelsUnfold
<1> HIDE DEF lv
<1>3. 0 \in T
  BY <1>1, <1>2 DEF LeafSequence, Top
<1> HIDE DEF n
<1>4. ASSUME NEW k \in 1..n, k - 1 \in T PROVE k \in T
  <2>1. PICK w : w = Len(lv[k - 1])
    OBVIOUS
  <2>2. w \in Nat \ {0} /\ PathLength[w] = n - (k - 1)
    BY <1>4, <2>1
  <2>3. w > 1
    BY <1>1, <2>2, PathLengthUnfolds
  <2>4. Len(lv[k]) = Halved(w) /\ DOMAIN lv[k] = 1..Halved(w)
    BY <1>2, <2>1, <2>2, <2>3, NextLevelFacts
  <2>5. Halved(w) \in Nat \ {0} /\ PathLength[w] = 1 + PathLength[Halved(w)]
    BY <2>2, <2>3, HeightStep, PathLengthUnfolds
  <2>6. PathLength[Halved(w)] \in Nat
    BY <2>5, PathLengthIsHeight DEF Height
  <2>7. PathLength[Halved(w)] = n - k
    BY <1>1, <2>2, <2>5, <2>6
  <2> QED BY <2>4, <2>5, <2>7
<1>5. \A k \in 0..n : k \in T
  <2> HIDE DEF T
  <2> QED BY <1>1, <1>3, <1>4, InductionUpTo
<1> QED BY <1>1, <1>5 DEF n, lv, Width

(* Where there is a position at all. *)
OnLevel(leaves, h, i) == h \in 0..Top(leaves) /\ i \in Nat /\ i < Width(leaves, h)

(* The top level has one node, which is the root; the bottom one has the
   leaves. *)
LEMMA TopFacts ==
  ASSUME NEW leaves, LeafSequence(leaves)
  PROVE  /\ Top(leaves) \in Nat /\ Width(leaves, Top(leaves)) = 1
         /\ Width(leaves, 0) = Len(leaves)
         /\ MerkleRoot(leaves) = At(leaves, Top(leaves), 0)
         /\ \A i \in Nat : At(leaves, 0, i) = leaves[i + 1]
<1> DEFINE n == Top(leaves)
           w == Width(leaves, n)
<1>1. n \in Nat
  BY PathLengthIsHeight DEF LeafSequence, Top, Height
<1>2. n \in 0..n
  <2> HIDE DEF n
  <2> QED BY <1>1
<1>3. w \in Nat \ {0} /\ PathLength[w] = n - n
  BY <1>2, LevelHeights
<1>4. w = 1
  <2>1. n - n = 0
    <3> HIDE DEF n
    <3> QED BY <1>1
  <2>2. SUFFICES ASSUME w > 1 PROVE FALSE
    <3> HIDE DEF w, n
    <3> QED BY <1>3, <2>2
  <2>3. PathLength[w] = 1 + PathLength[Halved(w)] /\ Halved(w) \in Nat \ {0}
    <3> HIDE DEF w, n
    <3> QED BY <1>3, <2>2, PathLengthUnfolds, HeightStep
  <2>4. PathLength[Halved(w)] \in Nat
    BY <2>3, PathLengthIsHeight DEF Height
  <2> HIDE DEF w, n
  <2> QED BY <1>3, <2>1, <2>3, <2>4
<1>5. Levels(leaves)[0] = leaves
  BY <1>1, LevelsUnfold
<1> QED BY <1>1, <1>4, <1>5 DEF MerkleRoot, At, Top, Width

(* Below the top a level is wider than one, and the next has half its width. *)
LEMMA WidthStep ==
  ASSUME NEW leaves, LeafSequence(leaves), NEW h \in Nat, h < Top(leaves)
  PROVE  /\ Width(leaves, h) \in Nat /\ Width(leaves, h) > 1
         /\ Width(leaves, h + 1) = Halved(Width(leaves, h))
         /\ Levels(leaves)[h + 1] = NextLevel(Levels(leaves)[h])
<1> DEFINE n == Top(leaves)
           w == Width(leaves, h)
<1>1. n \in Nat
  BY TopFacts
<1>2. h \in 0..n /\ h + 1 \in 1..n /\ (h + 1) - 1 = h
  <2> HIDE DEF n
  <2> QED BY <1>1 DEF n
<1>3. w \in Nat \ {0} /\ PathLength[w] = n - h
  BY <1>2, LevelHeights
<1>4. w > 1
  <2> HIDE DEF w, n
  <2> QED BY <1>1, <1>2, <1>3, PathLengthUnfolds
<1>5. Levels(leaves)[h + 1] = NextLevel(Levels(leaves)[h])
  BY <1>1, <1>2, LevelsUnfold
<1>6. Width(leaves, h + 1) = Halved(w)
  BY <1>3, <1>4, <1>5, NextLevelFacts DEF Width
<1> QED BY <1>3, <1>4, <1>5, <1>6

(* Position i of level h stands for the leaves from i * 2^h on. *)
LEMMA PositionsAt ==
  ASSUME NEW leaves, LeafSequence(leaves), NEW h \in 0..Top(leaves)
  PROVE  \A i \in Nat : OnLevel(leaves, h, i) <=> i * PowerOfTwo[h] < Len(leaves)
<1> DEFINE n == Top(leaves)
           N == Len(leaves)
           Fits(k) == \A i \in Nat : i < Width(leaves, k) <=> i * PowerOfTwo[k] < N
           T == {k \in 0..n : Fits(k)}
<1>1. n \in Nat /\ N \in Nat
  BY TopFacts DEF LeafSequence
<1>2. 0 \in T
  <2>1. Width(leaves, 0) = N /\ PowerOfTwo[0] = 1 /\ \A i \in Nat : i * 1 = i
    BY TopFacts, PowerFacts
  <2> HIDE DEF n, N
  <2> QED BY <1>1, <2>1
<1>3. ASSUME NEW k \in 1..n, k - 1 \in T PROVE k \in T
  <2> DEFINE w == Width(leaves, k - 1)
             q == PowerOfTwo[k - 1]
  <2>1. k - 1 \in Nat /\ k - 1 < n /\ (k - 1) + 1 = k
    <3> HIDE DEF n
    <3> QED BY <1>1
  <2>2. w \in Nat /\ Width(leaves, k) = Halved(w)
    BY <2>1, WidthStep
  <2>3. q \in Nat /\ PowerOfTwo[k] = 2 * q
    BY <2>1, PowerFacts
  <2>4. ASSUME NEW i \in Nat PROVE i < Width(leaves, k) <=> i * PowerOfTwo[k] < N
    <3>1. 2 * i \in Nat /\ (2 * i < w <=> (2 * i) * q < N)
      BY <1>3
    <3>2. (2 * i) * q = i * (2 * q)
      <4> HIDE DEF q
      <4> QED BY <2>3
    <3>3. i < Halved(w) <=> 2 * i < w
      <4> HIDE DEF w
      <4> QED BY <2>2 DEF Halved
    <3> HIDE DEF w, q
    <3> QED BY <2>2, <2>3, <3>1, <3>2, <3>3
  <2> QED BY <2>4
<1>4. \A k \in 0..n : k \in T
  <2> HIDE DEF T, n
  <2> QED BY <1>1, <1>2, <1>3, InductionUpTo
<1>5. Fits(h)
  BY <1>4
<1> QED BY <1>5 DEF OnLevel

(* A node above the bottom is the hash of its two children, or of the only one
   twice. *)
LEMMA NodeAt ==
  ASSUME NEW leaves, LeafSequence(leaves), NEW h \in Nat, NEW i, OnLevel(leaves, h + 1, i)
  PROVE  /\ OnLevel(leaves, h, 2 * i)
         /\ At(leaves, h + 1, i)
              = NodeHash(At(leaves, h, 2 * i),
                         IF 2 * i + 1 < Width(leaves, h) THEN At(leaves, h, 2 * i + 1)
                         ELSE At(leaves, h, 2 * i))
<1> DEFINE n == Top(leaves)
           w == Width(leaves, h)
<1>1. n \in Nat /\ h \in 0..n /\ h < n /\ i \in Nat
  <2>1. n \in Nat
    BY TopFacts
  <2> QED BY <2>1 DEF OnLevel
<1>2. /\ w \in Nat /\ w > 1 /\ Levels(leaves)[h + 1] = NextLevel(Levels(leaves)[h])
      /\ i < Halved(w)
  BY <1>1, WidthStep DEF OnLevel
<1>3. /\ 2 * i < w
      /\ At(leaves, h + 1, i)
           = NodeHash(Levels(leaves)[h][2 * i + 1],
                      IF 2 * i + 1 < w THEN Levels(leaves)[h][2 * i + 2]
                      ELSE Levels(leaves)[h][2 * i + 1])
  BY <1>1, <1>2, NextLevelFacts DEF Width, At
<1>4. (2 * i + 1) + 1 = 2 * i + 2 /\ 2 * i \in Nat
  BY <1>1
<1> QED BY <1>1, <1>3, <1>4 DEF At, OnLevel

(* No two positions of a level hold the same hash. *)
LEMMA HashesDiffer ==
  ASSUME NEW leaves, IsLeaves(leaves), NEW h, NEW i, NEW j,
         OnLevel(leaves, h, i), OnLevel(leaves, h, j), At(leaves, h, i) = At(leaves, h, j)
  PROVE  i = j
<1> DEFINE n == Top(leaves)
           Apart(k) == \A x, y \in Nat :
                         /\ OnLevel(leaves, k, x) /\ OnLevel(leaves, k, y)
                         /\ At(leaves, k, x) = At(leaves, k, y)
                         => x = y
           T == {k \in 0..n : Apart(k)}
<1>1. LeafSequence(leaves) /\ n \in Nat
  BY TopFacts DEF IsLeaves, LeafSequence
<1>2. 0 \in T
  <2>1. ASSUME NEW x \in Nat, NEW y \in Nat, OnLevel(leaves, 0, x), OnLevel(leaves, 0, y),
               At(leaves, 0, x) = At(leaves, 0, y)
        PROVE  x = y
    <3>1. Width(leaves, 0) = Len(leaves) /\ leaves[x + 1] = leaves[y + 1]
      <4>1. At(leaves, 0, x) = leaves[x + 1] /\ At(leaves, 0, y) = leaves[y + 1]
        BY <1>1, TopFacts
      <4>2. Width(leaves, 0) = Len(leaves)
        BY <1>1, TopFacts
      <4> QED BY <2>1, <4>1, <4>2
    <3>2. x + 1 \in DOMAIN leaves /\ y + 1 \in DOMAIN leaves
      BY <2>1, <3>1 DEF IsLeaves, OnLevel
    <3>3. PICK c, d : leaves[x + 1] = LeafHash(x + 1, c) /\ leaves[y + 1] = LeafHash(y + 1, d)
      BY <3>2 DEF IsLeaves
    <3>4. x + 1 = y + 1
      BY <3>1, <3>3, HashFacts
    <3> QED BY <3>4
  <2> QED BY <1>1, <2>1
<1>3. ASSUME NEW k \in 1..n, k - 1 \in T PROVE k \in T
  <2>1. k - 1 \in Nat /\ (k - 1) + 1 = k
    OBVIOUS
  <2>2. ASSUME NEW x \in Nat, NEW y \in Nat, OnLevel(leaves, k, x), OnLevel(leaves, k, y),
               At(leaves, k, x) = At(leaves, k, y)
        PROVE  x = y
    <3>1. /\ OnLevel(leaves, k - 1, 2 * x) /\ OnLevel(leaves, k - 1, 2 * y)
          /\ At(leaves, k - 1, 2 * x) = At(leaves, k - 1, 2 * y)
      <4>1. PICK l \in Nat : k = l + 1 /\ k - 1 = l
        BY <2>1
      <4>2. ASSUME NEW z, OnLevel(leaves, l + 1, z)
            PROVE  OnLevel(leaves, l, 2 * z)
                   /\ \E r : At(leaves, l + 1, z) = NodeHash(At(leaves, l, 2 * z), r)
        BY <1>1, <4>2, NodeAt
      <4> QED BY <2>2, <4>1, <4>2, HashFacts
    <3>2. 2 * x = 2 * y
      BY <1>3, <3>1
    <3> QED BY <3>2
  <2> QED BY <2>2
<1>4. \A k \in 0..n : k \in T
  <2> HIDE DEF T, n
  <2> QED BY <1>1, <1>2, <1>3, InductionUpTo
<1>5. h \in 0..n /\ i \in Nat /\ j \in Nat
  BY DEF OnLevel
<1>6. Apart(h)
  BY <1>4, <1>5
<1> QED BY <1>5, <1>6

(* At the bottom of the tree is the leaf of each position. *)
LEMMA LeafAtBottom ==
  ASSUME NEW leaves, IsLeaves(leaves), NEW i, OnLevel(leaves, 0, i)
  PROVE  \E c : At(leaves, 0, i) = LeafHash(i + 1, c) /\ leaves[i + 1] = LeafHash(i + 1, c)
<1>1. LeafSequence(leaves)
  BY DEF IsLeaves, LeafSequence
<1>2. i \in Nat /\ i < Width(leaves, 0)
  BY DEF OnLevel
<1>3. At(leaves, 0, i) = leaves[i + 1] /\ Width(leaves, 0) = Len(leaves)
  BY <1>1, <1>2, TopFacts
<1>4. i + 1 \in DOMAIN leaves
  BY <1>2, <1>3 DEF IsLeaves
<1> QED BY <1>3, <1>4 DEF IsLeaves

-----------------------------------------------------------------------------
(* Membership paths of current tips. *)

ClimbStep(p, g, k) == IF k = 0 THEN p[1] ELSE Climb(g[k - 1], p[2][k])
Climbing == INSTANCE NaturalOrder_proofs WITH Recur <- ClimbStep

StartNode(leaf, index, size) == [ok |-> TRUE, hash |-> leaf, index |-> index, width |-> size]

(* The nodes passed on the way up. *)
Climbs(node, leaf, index, size, path) ==
  /\ node[0] = StartNode(leaf, index, size)
  /\ \A k \in 1..Len(path) : node[k] = Climb(node[k - 1], path[k])

(* A climb is a chain of nodes, one for each entry of the path. *)
LEMMA ClimbedUnfolds ==
  ASSUME NEW leaf, NEW index, NEW size, NEW path, Len(path) \in Nat
  PROVE  \E node : /\ Climbs(node, leaf, index, size, path)
                   /\ Climbed(leaf, index, size, path) = node[Len(path)]
<1> DEFINE n == Len(path)
           start == StartNode(leaf, index, size)
           p == <<start, path>>
           e(g, k) == IF k = 0 THEN start ELSE Climb(g[k - 1], path[k])
           Nodes == CHOOSE g : g = [k \in 0..n |-> e(g, k)]
<1>1. \A g, k : ClimbStep(p, g, k) = e(g, k)
  <2>1. p[1] = start /\ p[2] = path
    OBVIOUS
  <2> HIDE DEF p, start
  <2> QED BY <2>1 DEF ClimbStep
<1>2. Climbing!LooksBelow(p, n)
  <2>1. \A k \in 0..n : \A g, h : (\A m \in 0..(k - 1) : g[m] = h[m]) => e(g, k) = e(h, k)
    OBVIOUS
  <2> HIDE DEF p, e
  <2> QED BY <1>1, <2>1 DEF Climbing!LooksBelow
<1>3. \E g : g = [k \in 0..n |-> ClimbStep(p, g, k)]
  BY <1>2, Climbing!RecursionExists DEF Climbing!Recursive
<1>4. \E g : g = [k \in 0..n |-> e(g, k)]
  <2> HIDE DEF p, e
  <2> QED BY <1>1, <1>3
<1>5. Nodes = [k \in 0..n |-> e(Nodes, k)]
  BY <1>4, Zenon
<1>6. Climbed(leaf, index, size, path) = Nodes[n]
  BY Zenon DEF Climbed, StartNode
<1> HIDE DEF Nodes
<1>7. \A k \in 0..n : Nodes[k] = e(Nodes, k)
  <2> HIDE DEF e
  <2> QED BY <1>5
<1>8. Climbs(Nodes, leaf, index, size, path)
  BY <1>7 DEF Climbs
<1> QED BY <1>6, <1>8

(* What one step of the climb computes, and what it takes to be accepted. *)
LEMMA ClimbFields ==
  ASSUME NEW node, NEW entry
  PROVE  /\ Climb(node, entry).index = node.index \div 2
         /\ Climb(node, entry).width = (node.width + 1) \div 2
         /\ Climb(node, entry).hash = IF node.index % 2 = 1 THEN NodeHash(entry.hash, node.hash)
                                      ELSE NodeHash(node.hash, entry.hash)
         /\ Climb(node, entry).ok =>
              /\ node.ok
              /\ node.index % 2 = 1 \/ node.index + 1 < node.width \/ entry.hash = node.hash
  BY DEF Climb

(* On the way up from the last leaf every node is the last of its level. *)
LEMMA TipIsLast ==
  ASSUME NEW node, NEW leaf, NEW index, NEW size, NEW path,
         Climbs(node, leaf, index, size, path),
         index \in Nat, size = index + 1, Len(path) \in Nat
  PROVE  \A k \in 0..Len(path) : node[k].index \in Nat /\ node[k].width = node[k].index + 1
<1> DEFINE n == Len(path)
           T == {k \in 0..n : node[k].index \in Nat /\ node[k].width = node[k].index + 1}
<1>1. 0 \in T
  BY DEF Climbs, StartNode
<1>2. ASSUME NEW k \in 1..n, k - 1 \in T PROVE k \in T
  <2> DEFINE i == node[k - 1].index
  <2>1. i \in Nat /\ node[k - 1].width = i + 1
    BY <1>2
  <2>2. node[k].index = i \div 2 /\ node[k].width = (node[k - 1].width + 1) \div 2
    BY ClimbFields DEF Climbs
  <2>3. i \div 2 \in Nat /\ ((i + 1) + 1) \div 2 = (i \div 2) + 1
    <3> HIDE DEF i
    <3> QED BY <2>1
  <2> HIDE DEF i
  <2> QED BY <2>1, <2>2, <2>3
<1>3. \A k \in 0..n : k \in T
  <2> HIDE DEF T
  <2> QED BY <1>1, <1>2, InductionUpTo
<1> QED BY <1>3

(* A verified path is sound at every step. *)
SoundSteps(node, path) ==
  \A k \in 1..Len(path) :
    node[k - 1].index % 2 = 1 \/ path[k].hash = node[k - 1].hash

(* If the climb from the last position is accepted, so was each of its steps. *)
LEMMA StepsAreSound ==
  ASSUME NEW node, NEW leaf, NEW index, NEW size, NEW path,
         Climbs(node, leaf, index, size, path),
         index \in Nat, size = index + 1, Len(path) \in Nat, node[Len(path)].ok
  PROVE  SoundSteps(node, path)
<1> DEFINE n == Len(path)
           T == {k \in 0..n : node[n - k].ok}
<1>1. 0 \in T
  OBVIOUS
<1>2. ASSUME NEW k \in 1..n PROVE node[k].ok => node[k - 1].ok
  <2>1. node[k] = Climb(node[k - 1], path[k])
    BY DEF Climbs
  <2> QED BY <2>1, ClimbFields
<1>3. ASSUME NEW k \in 1..n, k - 1 \in T PROVE k \in T
  <2>1. n - (k - 1) \in 1..n /\ (n - (k - 1)) - 1 = n - k
    OBVIOUS
  <2> QED BY <1>2, <1>3, <2>1
<1>4. \A k \in 0..n : k \in T
  <2> HIDE DEF T
  <2> QED BY <1>1, <1>3, InductionUpTo
<1>5. ASSUME NEW k \in 1..n
      PROVE  node[k - 1].index % 2 = 1 \/ path[k].hash = node[k - 1].hash
  <2>1. node[k].ok
    <3>1. n - k \in 0..n /\ n - (n - k) = k
      OBVIOUS
    <3> QED BY <1>4, <3>1
  <2>2. node[k] = Climb(node[k - 1], path[k])
    BY DEF Climbs
  <2>3. node[k - 1].index \in Nat /\ node[k - 1].width = node[k - 1].index + 1
    <3>1. \A l \in 0..n : node[l].index \in Nat /\ node[l].width = node[l].index + 1
      BY TipIsLast
    <3>2. k - 1 \in 0..n
      OBVIOUS
    <3> QED BY <3>1, <3>2
  <2>4. ~(node[k - 1].index + 1 < node[k - 1].width)
    BY <2>3
  <2>5. \/ node[k - 1].index % 2 = 1 \/ node[k - 1].index + 1 < node[k - 1].width
        \/ path[k].hash = node[k - 1].hash
    BY <2>1, <2>2, ClimbFields
  <2> QED BY <2>4, <2>5
<1> QED BY <1>5 DEF SoundSteps

(* The way up from a leaf to the root of a tree starts at its bottom and    *)
(* stays in it.                                                            *)
LEMMA StaysInTree ==
  ASSUME NEW leaves, NEW node, NEW leaf, NEW index, NEW size, NEW path,
         IsLeaves(leaves), Climbs(node, leaf, index, size, path), Len(path) \in Nat,
         node[Len(path)].hash = MerkleRoot(leaves), \E i, c : leaf = LeafHash(i, c)
  PROVE  /\ Len(path) = Top(leaves)
         /\ \A k \in 0..Top(leaves) :
              \E m : OnLevel(leaves, k, m) /\ node[k].hash = At(leaves, k, m)
<1> DEFINE n == Len(path)
           top == Top(leaves)
           In(k) == \E m : OnLevel(leaves, top - k, m) /\ node[n - k].hash = At(leaves, top - k, m)
           T == {k \in 0..n : k <= top /\ In(k)}
<1>1. LeafSequence(leaves) /\ top \in Nat /\ Width(leaves, top) = 1
      /\ MerkleRoot(leaves) = At(leaves, top, 0)
  BY TopFacts DEF IsLeaves, LeafSequence
<1>2. 0 \in T
  <2>1. OnLevel(leaves, top, 0)
    <3> HIDE DEF top
    <3> QED BY <1>1 DEF OnLevel, top
  <2>2. top - 0 = top /\ n - 0 = n
    <3> HIDE DEF top, n
    <3> QED BY <1>1 DEF n
  <2>3. In(0)
    <3> HIDE DEF top, n
    <3> QED BY <1>1, <2>1, <2>2 DEF n
  <2> HIDE DEF top, In
  <2> QED BY <1>1, <2>3
<1>3. ASSUME NEW k \in 1..n, k - 1 \in T PROVE k \in T
  <2>1. PICK l \in 1..n : l = n - (k - 1) /\ l - 1 = n - k
    OBVIOUS
  <2>2. PICK m : OnLevel(leaves, top - (k - 1), m)
                 /\ node[l].hash = At(leaves, top - (k - 1), m)
    BY <1>3, <2>1
  <2>3. \E a, b : node[l].hash = NodeHash(a, b) /\ node[l - 1].hash \in {a, b}
    BY ClimbFields DEF Climbs
  <2>4. k <= top
    <3>1. SUFFICES ASSUME k = top + 1 PROVE FALSE
      <4>1. k - 1 <= top
        BY <1>3
      <4> HIDE DEF top
      <4> QED BY <1>1, <3>1, <4>1
    <3>2. top - (k - 1) = 0
      <4> HIDE DEF top
      <4> QED BY <1>1, <3>1
    <3>3. \E c : node[l].hash = LeafHash(m + 1, c)
      BY <2>2, <3>2, LeafAtBottom
    <3>4. PICK a, b, c : node[l].hash = NodeHash(a, b) /\ node[l].hash = LeafHash(m + 1, c)
      BY <2>3, <3>3
    <3>5. LeafHash(m + 1, c) # NodeHash(a, b)
      BY LeafIsNoNode
    <3> QED BY <3>4, <3>5, Zenon
  <2>5. PICK h \in Nat : h = top - k /\ h + 1 = top - (k - 1)
    <3> HIDE DEF top
    <3> QED BY <1>1, <2>4
  <2>6. OnLevel(leaves, h + 1, m) /\ node[l].hash = At(leaves, h + 1, m)
    BY <2>2, <2>5
  <2>7. /\ OnLevel(leaves, h, 2 * m)
        /\ At(leaves, h + 1, m)
             = NodeHash(At(leaves, h, 2 * m),
                        IF 2 * m + 1 < Width(leaves, h) THEN At(leaves, h, 2 * m + 1)
                        ELSE At(leaves, h, 2 * m))
    BY <1>1, <2>6, NodeAt
  <2>8. 2 * m + 1 < Width(leaves, h) => OnLevel(leaves, h, 2 * m + 1)
    BY <2>6, <2>7 DEF OnLevel
  <2>9. \E q : OnLevel(leaves, h, q) /\ node[l - 1].hash = At(leaves, h, q)
    <3>1. PICK a, b : node[l].hash = NodeHash(a, b) /\ node[l - 1].hash \in {a, b}
      BY <2>3
    <3>2. /\ a = At(leaves, h, 2 * m)
          /\ b = IF 2 * m + 1 < Width(leaves, h) THEN At(leaves, h, 2 * m + 1)
                 ELSE At(leaves, h, 2 * m)
      BY <2>6, <2>7, <3>1, HashFacts
    <3> QED BY <2>7, <2>8, <3>1, <3>2
  <2> QED BY <2>1, <2>4, <2>5, <2>9
<1>4. \A k \in 0..n : k \in T
  <2> HIDE DEF T
  <2> QED BY <1>2, <1>3, InductionUpTo
<1>5. n \in T
  <2> HIDE DEF T
  <2> QED BY <1>4
<1>6. PICK l : OnLevel(leaves, top - n, l) /\ leaf = At(leaves, top - n, l)
  <2>1. n - n = 0
    OBVIOUS
  <2> QED BY <1>5, <2>1 DEF Climbs, StartNode
<1>7. n = top
  <2>1. SUFFICES ASSUME n < top PROVE FALSE
    <3>1. n <= top
      BY <1>5
    <3> HIDE DEF top
    <3> QED BY <1>1, <2>1, <3>1
  <2>2. PICK h \in Nat : top - n = h + 1
    <3>1. top - n - 1 \in Nat /\ top - n = (top - n - 1) + 1
      <4> HIDE DEF top
      <4> QED BY <1>1, <2>1
    <3> QED BY <3>1
  <2>3. OnLevel(leaves, h + 1, l) /\ leaf = At(leaves, h + 1, l)
    BY <1>6, <2>2
  <2>4. \E a, b : leaf = NodeHash(a, b)
    <3>1. At(leaves, h + 1, l)
            = NodeHash(At(leaves, h, 2 * l),
                       IF 2 * l + 1 < Width(leaves, h) THEN At(leaves, h, 2 * l + 1)
                       ELSE At(leaves, h, 2 * l))
      BY <1>1, <2>3, NodeAt
    <3> QED BY <2>3, <3>1
  <2> QED BY <2>4, HashFacts
<1>8. ASSUME NEW k \in 0..top
      PROVE  \E m : OnLevel(leaves, k, m) /\ node[k].hash = At(leaves, k, m)
  <2>1. n - k \in 0..n /\ top - (n - k) = k /\ n - (n - k) = k
    <3> HIDE DEF top
    <3> QED BY <1>1, <1>7
  <2>2. n - k \in T
    <3> HIDE DEF T
    <3> QED BY <1>4, <2>1
  <2>3. In(n - k)
    BY <2>2
  <2> QED BY <2>1, <2>3
<1> QED BY <1>7, <1>8

(* A path that verifies for the claimed tip binds the claimed size. *)
LEMMA TipBinds ==
  ASSUME NEW leaves, IsLeaves(leaves), NEW size \in Nat \ {0}, NEW tip, NEW path,
         VerifyPath(LeafHash(size, tip), size - 1, size, path, MerkleRoot(leaves))
  PROVE  size = Len(leaves) /\ leaves[size] = LeafHash(size, tip)
<1> DEFINE n == Len(path)
           w(k) == Width(leaves, k)
<1>0. PICK index \in Nat : size = index + 1 /\ index = size - 1
  OBVIOUS
<1>a. PICK leaf : leaf = LeafHash(size, tip)
  OBVIOUS
<1>1. n \in Nat /\ LeafSequence(leaves)
  <2>1. n = PathLength[size]
    BY DEF VerifyPath
  <2> QED BY <2>1, PathLengthIsHeight DEF Height, IsLeaves, LeafSequence
<1>2. PICK node : /\ Climbs(node, leaf, index, size, path)
                  /\ Climbed(leaf, index, size, path) = node[n]
  BY <1>1, ClimbedUnfolds
<1>3. node[n].ok /\ node[n].width = 1 /\ node[n].index = 0 /\ node[n].hash = MerkleRoot(leaves)
  <2> QED BY <1>0, <1>a, <1>2 DEF VerifyPath
<1>4. \A k \in 0..n : node[k].index \in Nat /\ node[k].width = node[k].index + 1
  BY <1>0, <1>1, <1>2, TipIsLast
<1>5. \A k \in 1..n : node[k - 1].index % 2 = 1 \/ path[k].hash = node[k - 1].hash
  <2>1. Len(path) \in Nat /\ Climbs(node, leaf, index, size, path) /\ node[Len(path)].ok
    BY <1>1, <1>2, <1>3
  <2>2. SoundSteps(node, path)
    BY <1>0, <2>1, StepsAreSound
  <2> QED BY <2>2 DEF SoundSteps
<1>6. /\ n = Top(leaves)
      /\ \A k \in 0..n : \E m : OnLevel(leaves, k, m) /\ node[k].hash = At(leaves, k, m)
  <2>1. \E i, c : leaf = LeafHash(i, c)
    BY <1>a
  <2>2. /\ Len(path) = Top(leaves)
        /\ \A k \in 0..Top(leaves) :
             \E m : OnLevel(leaves, k, m) /\ node[k].hash = At(leaves, k, m)
    <3>1. /\ Len(path) \in Nat /\ Climbs(node, leaf, index, size, path)
          /\ node[Len(path)].hash = MerkleRoot(leaves)
      BY <1>1, <1>2, <1>3
    <3> QED BY <2>1, <3>1, StaysInTree
  <2> QED BY <2>2
<1> DEFINE Placed(k) == /\ OnLevel(leaves, k, node[k].index)
                        /\ node[k].hash = At(leaves, k, node[k].index)
           T == {k \in 0..n : Placed(k)}
<1>7. 0 \in T
  <2>1. node[0].hash = leaf /\ node[0].index = size - 1
    BY <1>0, <1>2 DEF Climbs, StartNode
  <2>2. PICK m : OnLevel(leaves, 0, m) /\ leaf = At(leaves, 0, m)
    BY <1>1, <1>6, <2>1
  <2>3. PICK c : At(leaves, 0, m) = LeafHash(m + 1, c)
    BY <2>2, LeafAtBottom
  <2>4. LeafHash(size, tip) = LeafHash(m + 1, c)
    BY <1>a, <2>2, <2>3
  <2>5. size = m + 1
    BY <2>4, HashFacts, Zenon
  <2>6. m = size - 1
    BY <2>2, <2>5 DEF OnLevel
  <2> QED BY <1>1, <2>1, <2>2, <2>6
(* A step up from where the node is: both children are known. *)
<1>8. ASSUME NEW k \in 1..n, Placed(k - 1)
      PROVE  /\ Placed(k)
             /\ node[k - 1].index % 2 # 1 => w(k - 1) = node[k - 1].index + 1
  <2> DEFINE i == node[k - 1].index
  <2>1. PICK h \in Nat : h = k - 1 /\ h + 1 = k /\ h \in 0..n
    OBVIOUS
  <2>2. i \in Nat /\ OnLevel(leaves, h, i) /\ node[h].hash = At(leaves, h, i)
    BY <1>4, <1>8, <2>1
  <2>3. PICK m : OnLevel(leaves, h + 1, m) /\ node[k].hash = At(leaves, h + 1, m)
    BY <1>6, <2>1
  <2>4. /\ OnLevel(leaves, h, 2 * m)
        /\ At(leaves, h + 1, m)
             = NodeHash(At(leaves, h, 2 * m),
                        IF 2 * m + 1 < w(h) THEN At(leaves, h, 2 * m + 1)
                        ELSE At(leaves, h, 2 * m))
    BY <1>1, <2>3, NodeAt
  <2>5. 2 * m + 1 < w(h) => OnLevel(leaves, h, 2 * m + 1)
    BY <2>3, <2>4 DEF OnLevel
  <2>6. node[k] = Climb(node[h], path[k]) /\ node[k].index = i \div 2
    BY <1>2, <2>1, ClimbFields DEF Climbs
  <2>7. m \in Nat /\ i < w(h) /\ w(h) \in Nat
    BY <1>1, <1>6, <2>1, <2>2, <2>3, LevelHeights DEF OnLevel
  <2>8. CASE i % 2 = 1
    <3>1. node[k].hash = NodeHash(path[k].hash, node[h].hash)
      BY <2>1, <2>6, <2>8, ClimbFields
    <3>2. At(leaves, h, i) = IF 2 * m + 1 < w(h) THEN At(leaves, h, 2 * m + 1)
                             ELSE At(leaves, h, 2 * m)
      BY <2>2, <2>3, <2>4, <3>1, HashFacts
    <3>3. i = IF 2 * m + 1 < w(h) THEN 2 * m + 1 ELSE 2 * m
      BY <2>2, <2>4, <2>5, <3>2, HashesDiffer
    <3>4. i = 2 * m + 1 /\ i \div 2 = m
      <4> HIDE DEF i
      <4> QED BY <2>2, <2>7, <2>8, <3>3
    <3> QED BY <2>1, <2>3, <2>6, <2>8, <3>4
  <2>9. CASE i % 2 # 1
    <3>1. node[k].hash = NodeHash(node[h].hash, path[k].hash)
      BY <2>1, <2>6, <2>9, ClimbFields
    <3>2. path[k].hash = node[h].hash
      BY <1>5, <2>1, <2>9
    <3>3. /\ At(leaves, h, i) = At(leaves, h, 2 * m)
          /\ At(leaves, h, i) = IF 2 * m + 1 < w(h) THEN At(leaves, h, 2 * m + 1)
                                ELSE At(leaves, h, 2 * m)
      BY <2>2, <2>3, <2>4, <3>1, <3>2, HashFacts
    <3>4. i = 2 * m
      BY <2>2, <2>4, <3>3, HashesDiffer
    <3>5. ~(2 * m + 1 < w(h))
      <4>1. SUFFICES ASSUME 2 * m + 1 < w(h) PROVE FALSE
        OBVIOUS
      <4>2. i = 2 * m + 1
        BY <2>2, <2>5, <3>3, <4>1, HashesDiffer
      <4> HIDE DEF i
      <4> QED BY <2>7, <3>4, <4>2
    <3>6. w(h) = i + 1 /\ i \div 2 = m
      <4> HIDE DEF i, w
      <4> QED BY <2>2, <2>7, <3>4, <3>5
    <3> QED BY <2>1, <2>3, <2>6, <3>6
  <2> QED BY <2>8, <2>9
<1>9. \A k \in 0..n : k \in T
  <2>1. ASSUME NEW k \in 1..n, k - 1 \in T PROVE k \in T
    BY <1>8, <2>1
  <2> HIDE DEF T
  <2> QED BY <1>1, <1>7, <2>1, InductionUpTo
(* And down again: no level is wider than claimed. *)
<1> DEFINE U == {k \in 0..n : w(n - k) = node[n - k].index + 1}
<1>10. 0 \in U
  <2>1. n - 0 = n /\ w(n) = 1
    BY <1>1, <1>6, TopFacts
  <2> QED BY <1>3, <2>1
<1>11. ASSUME NEW k \in 1..n, k - 1 \in U PROVE k \in U
  <2> DEFINE i == node[n - k].index
  <2>1. PICK h \in Nat : h = n - k /\ h + 1 = n - (k - 1) /\ h + 1 \in 1..n /\ h \in 0..n
    <3>1. n - k \in Nat /\ (n - k) + 1 = n - (k - 1) /\ (n - k) + 1 \in 1..n /\ n - k \in 0..n
      <4> HIDE DEF n
      <4> QED BY <1>1
    <3> QED BY <3>1
  <2>2. w(h + 1) = node[h + 1].index + 1 /\ node[h + 1].index = i \div 2
    <3>1. w(h + 1) = node[h + 1].index + 1
      BY <1>11, <2>1
    <3>2. node[h + 1] = Climb(node[h], path[h + 1])
      <4>1. (h + 1) - 1 = h
        OBVIOUS
      <4> QED BY <1>2, <2>1, <4>1 DEF Climbs
    <3> QED BY <2>1, <3>1, <3>2, ClimbFields
  <2>3. h < Top(leaves)
    BY <1>1, <1>6, <2>1
  <2>4. w(h) \in Nat /\ w(h + 1) = Halved(w(h))
    BY <1>1, <2>3, WidthStep
  <2>5. h \in T
    BY <1>9, <2>1
  <2>6. i \in Nat /\ i < w(h)
    BY <1>4, <2>1, <2>5 DEF OnLevel
  <2>7. i % 2 # 1 => w(h) = i + 1
    <3>1. (h + 1) - 1 = h
      OBVIOUS
    <3> QED BY <1>8, <2>1, <2>5, <3>1
  <2>8. w(h) = i + 1
    <3> DEFINE v == w(h)
    <3>1. v \in Nat /\ (v + 1) \div 2 = (i \div 2) + 1 /\ i \in Nat /\ i < v
          /\ (i % 2 # 1 => v = i + 1)
      BY <2>2, <2>4, <2>6, <2>7 DEF Halved
    <3> HIDE DEF v, i
    <3>2. v = i + 1
      BY <3>1
    <3> QED BY <3>2 DEF v
  <2> QED BY <2>1, <2>8
<1>12. w(0) = node[0].index + 1
  <2>1. \A k \in 0..n : k \in U
    <3> HIDE DEF U
    <3> QED BY <1>1, <1>10, <1>11, InductionUpTo
  <2>2. n \in 0..n /\ n - n = 0
    <3> HIDE DEF n
    <3> QED BY <1>1
  <2>3. n \in U
    <3> HIDE DEF U
    <3> QED BY <2>1, <2>2
  <2> QED BY <2>2, <2>3
<1>13. node[0].index = size - 1 /\ node[0].hash = leaf
  BY <1>0, <1>2 DEF Climbs, StartNode
<1>14. size = Len(leaves)
  BY <1>1, <1>12, <1>13, TopFacts
<1>15. leaf = leaves[size]
  <2>1. 0 \in T
    BY <1>7
  <2>2. leaf = At(leaves, 0, size - 1)
    BY <1>13, <2>1
  <2>3. size - 1 \in Nat /\ (size - 1) + 1 = size
    OBVIOUS
  <2>4. At(leaves, 0, size - 1) = leaves[(size - 1) + 1]
    BY <1>1, <2>3, TopFacts
  <2> QED BY <2>2, <2>3, <2>4
<1> QED BY <1>a, <1>14, <1>15

-----------------------------------------------------------------------------
(* Lists: sequences of whatever elements. *)

Listed(s) == Len(s) \in Nat /\ s = [i \in 1..Len(s) |-> s[i]]

Elements(s) == {s[i] : i \in 1..Len(s)}

(* A list of elements of S is a sequence over S. *)
LEMMA ListedIsSeq ==
  ASSUME NEW s, Listed(s), NEW S, Elements(s) \subseteq S
  PROVE  s \in Seq(S)
<1>1. PICK n \in Nat : n = Len(s)
  BY DEF Listed
<1>2. \A i \in 1..n : s[i] \in S
  BY <1>1 DEF Elements
<1>3. s \in [1..n -> S]
  BY <1>1, <1>2 DEF Listed
<1> QED BY <1>3

(* A sequence over S is a list of elements of S. *)
LEMMA SeqIsListed ==
  ASSUME NEW S, NEW s \in Seq(S)
  PROVE  Listed(s) /\ \A i \in 1..Len(s) : s[i] \in S
<1>1. Len(s) \in Nat /\ DOMAIN s = 1..Len(s) /\ \A i \in 1..Len(s) : s[i] \in S
  OBVIOUS
<1>2. s = [i \in 1..Len(s) |-> s[i]]
  OBVIOUS
<1> QED BY <1>1, <1>2 DEF Listed

(* A function on 1..n is a list of length n. *)
LEMMA ListOfLength ==
  ASSUME NEW s, NEW n \in Nat, s = [i \in 1..n |-> s[i]]
  PROVE  Listed(s) /\ Len(s) = n
<1> DEFINE S == {s[i] : i \in 1..n}
<1>1. s \in [1..n -> S]
  <2>1. \A i \in 1..n : s[i] \in S
    OBVIOUS
  <2> HIDE DEF S
  <2> QED BY <2>1
<1>2. s \in Seq(S) /\ Len(s) = n
  <2> HIDE DEF S
  <2> QED BY <1>1
<1> QED BY <1>2 DEF Listed

(* The length and elements of a list with x put in front. *)
LEMMA ConsFacts ==
  ASSUME NEW x, NEW t, Listed(t)
  PROVE  /\ Listed(<<x>> \o t) /\ Len(<<x>> \o t) = Len(t) + 1
         /\ (<<x>> \o t)[1] = x
         /\ \A i \in 1..Len(t) : (<<x>> \o t)[i + 1] = t[i]
<1> DEFINE S == Elements(t) \cup {x}
<1>1. t \in Seq(S)
  <2> HIDE DEF S
  <2> QED BY ListedIsSeq DEF S
<1>2. <<x>> \in Seq(S)
  OBVIOUS
<1> HIDE DEF S
<1>3. <<x>> \o t \in Seq(S) /\ Len(<<x>> \o t) = Len(t) + 1
  BY <1>1, <1>2
<1>4. (<<x>> \o t)[1] = x /\ \A i \in 1..Len(t) : (<<x>> \o t)[i + 1] = t[i]
  BY <1>1, <1>2
<1> QED BY <1>3, <1>4, SeqIsListed

(* The length and elements of a list with x appended. *)
LEMMA AppendFacts ==
  ASSUME NEW t, NEW x, Listed(t)
  PROVE  /\ Listed(Append(t, x)) /\ Len(Append(t, x)) = Len(t) + 1
         /\ Append(t, x)[Len(t) + 1] = x
         /\ \A i \in 1..Len(t) : Append(t, x)[i] = t[i]
<1> DEFINE S == Elements(t) \cup {x}
<1>1. t \in Seq(S)
  <2> HIDE DEF S
  <2> QED BY ListedIsSeq DEF S
<1>2. x \in S
  OBVIOUS
<1> HIDE DEF S
<1>3. Append(t, x) \in Seq(S) /\ Len(Append(t, x)) = Len(t) + 1
  BY <1>1, <1>2
<1>4. Append(t, x)[Len(t) + 1] = x /\ \A i \in 1..Len(t) : Append(t, x)[i] = t[i]
  BY <1>1, <1>2
<1> QED BY <1>3, <1>4, SeqIsListed

(* The length and elements of the first n of a list. *)
LEMMA FirstFacts ==
  ASSUME NEW t, NEW n \in Nat, Listed(t), n <= Len(t)
  PROVE  /\ Listed(SubSeq(t, 1, n)) /\ Len(SubSeq(t, 1, n)) = n
         /\ \A i \in 1..n : SubSeq(t, 1, n)[i] = t[i]
<1>1. t \in Seq(Elements(t)) /\ Len(t) \in Nat
  BY ListedIsSeq DEF Listed
<1>2. SubSeq(t, 1, n) \in Seq(Elements(t)) /\ Len(SubSeq(t, 1, n)) = n
  BY <1>1
<1>3. \A i \in 1..n : SubSeq(t, 1, n)[i] = t[i]
  BY <1>1
<1> QED BY <1>2, <1>3, SeqIsListed

-----------------------------------------------------------------------------
(* The shapes of a frontier. *)

IsPower(n) == \E k \in Nat : n = PowerOfTwo[k]

(* The largest power of two in n is at most n and more than half of it. *)
LEMMA LargestPowerFacts ==
  ASSUME NEW n \in Nat \ {0}
  PROVE  /\ IsPower(LargestPower(n)) /\ LargestPower(n) \in Nat \ {0}
         /\ LargestPower(n) <= n /\ n < 2 * LargestPower(n)
<1> DEFINE P(k) == PowerOfTwo[k] <= n /\ n < PowerOfTwo[k + 1]
           T == {k \in Nat : PowerOfTwo[k] <= n}
           c == CHOOSE k \in 0..n : P(k)
<1>1. \A k \in Nat : /\ PowerOfTwo[k] \in Nat /\ PowerOfTwo[k] > k /\ PowerOfTwo[k] >= 1
                     /\ PowerOfTwo[k + 1] = 2 * PowerOfTwo[k] /\ PowerOfTwo[0] = 1
  BY PowerFacts
<1>2. PICK k \in T : \A l \in T : l <= k
  <2>1. T \subseteq Nat /\ 0 \in T /\ \A l \in T : l <= n
    BY <1>1
  <2> HIDE DEF T
  <2> QED BY <2>1, GreatestElement
<1>3. k \in 0..n /\ P(k)
  <2>1. k \in Nat /\ k + 1 \in Nat /\ k + 1 \notin T
    BY <1>2
  <2> QED BY <1>1, <1>2, <2>1
<1>4. c \in 0..n /\ P(c)
  <2> HIDE DEF P
  <2> QED BY <1>3
<1>5. LargestPower(n) = PowerOfTwo[c]
  BY DEF LargestPower
<1> HIDE DEF c
<1> QED BY <1>1, <1>4, <1>5 DEF IsPower

(* Powers of two are positive. *)
LEMMA PowerPositive ==
  ASSUME NEW a, IsPower(a)
  PROVE  a \in Nat \ {0}
BY PowerFacts DEF IsPower

(* Twice a power of two is one. *)
LEMMA PowerDoubles ==
  ASSUME NEW a, IsPower(a)
  PROVE  IsPower(2 * a)
<1>1. PICK k \in Nat : a = PowerOfTwo[k]
  BY DEF IsPower
<1>2. k + 1 \in Nat /\ PowerOfTwo[k + 1] = 2 * a
  BY <1>1, PowerFacts
<1> QED BY <1>2 DEF IsPower

(* Of two different powers of two the larger is at least twice the smaller. *)
LEMMA PowersApart ==
  ASSUME NEW a, NEW b, IsPower(a), IsPower(b)
  PROVE  a \in Nat \ {0} /\ b \in Nat \ {0} /\ (a < b => 2 * a <= b)
<1>1. PICK k \in Nat, l \in Nat : a = PowerOfTwo[k] /\ b = PowerOfTwo[l]
  BY DEF IsPower
<1>2. PowerOfTwo[k] \in Nat /\ PowerOfTwo[k] >= 1 /\ PowerOfTwo[l] \in Nat /\ PowerOfTwo[l] >= 1
  BY PowerFacts
<1>3. CASE k < l
  BY <1>1, <1>2, <1>3, PowerMonotone
<1>4. CASE k = l
  BY <1>1, <1>2, <1>4
<1>5. CASE l < k
  <2>1. 2 * PowerOfTwo[l] <= PowerOfTwo[k]
    BY <1>5, PowerMonotone
  <2> QED BY <1>1, <1>2, <2>1
<1> QED BY <1>3, <1>4, <1>5

(* Blocks from one position to another, each at least twice the next. *)
Falling(s, from, to) ==
  /\ Listed(s) /\ Len(s) > 0
  /\ s[1].start = from /\ s[1].size <= to - from /\ to - from < 2 * s[1].size
  /\ \A j \in 1..Len(s) : /\ IsPower(s[j].size) /\ s[j].start \in Nat
                          /\ s[j].start + s[j].size <= to
  /\ \A j \in 1..(Len(s) - 1) : /\ s[j + 1].start = s[j].start + s[j].size
                                /\ 2 * s[j + 1].size <= s[j].size
  /\ s[Len(s)].start + s[Len(s)].size = to

PrefixStep(size, g, r) ==
  IF r = 0 THEN <<>>
  ELSE <<[start |-> size - r, size |-> LargestPower(r)]>> \o g[r - LargestPower(r)]
Prefixing == INSTANCE NaturalOrder_proofs WITH Recur <- PrefixStep

(* The shapes of a prefix: the largest power that fits, then those of the rest. *)
LEMMA PrefixShapesUnfold ==
  ASSUME NEW size \in Nat
  PROVE  \E g : /\ PrefixShapes(size) = g[size] /\ g[0] = <<>>
                /\ \A r \in 1..size :
                     g[r] = <<[start |-> size - r, size |-> LargestPower(r)]>>
                              \o g[r - LargestPower(r)]
<1> DEFINE e(g, r) == IF r = 0 THEN <<>>
                      ELSE LET block == LargestPower(r)
                           IN  <<[start |-> size - r, size |-> block]>> \o g[r - block]
           G == CHOOSE g : g = [r \in 0..size |-> e(g, r)]
<1>1. Prefixing!LooksBelow(size, size)
  <2>1. ASSUME NEW k \in 0..size, NEW g, NEW h, \A m \in 0..(k - 1) : g[m] = h[m]
        PROVE  PrefixStep(size, g, k) = PrefixStep(size, h, k)
    <3>1. CASE k = 0
      BY <3>1 DEF PrefixStep
    <3>2. CASE k # 0
      <4>1. LargestPower(k) \in Nat \ {0} /\ LargestPower(k) <= k
        BY <3>2, LargestPowerFacts
      <4>2. k - LargestPower(k) \in 0..(k - 1)
        BY <4>1
      <4>3. g[k - LargestPower(k)] = h[k - LargestPower(k)]
        BY <2>1, <4>2
      <4> QED BY <3>2, <4>3 DEF PrefixStep
    <3> QED BY <3>1, <3>2
  <2> QED BY <2>1 DEF Prefixing!LooksBelow
<1>2. \E g : g = [r \in 0..size |-> PrefixStep(size, g, r)]
  BY <1>1, Prefixing!RecursionExists DEF Prefixing!Recursive
<1>3. \E g : g = [r \in 0..size |-> e(g, r)]
  BY <1>2 DEF PrefixStep
<1>4. G = [r \in 0..size |-> e(G, r)]
  BY <1>3, Zenon
<1>5. PrefixShapes(size) = G[size]
  BY Zenon DEF PrefixShapes
<1> HIDE DEF G
<1>6. \A r \in 0..size : G[r] = e(G, r)
  <2> HIDE DEF e
  <2> QED BY <1>4
<1>7. G[0] = <<>> /\ \A r \in 1..size :
        G[r] = <<[start |-> size - r, size |-> LargestPower(r)]>> \o G[r - LargestPower(r)]
  <2>1. G[0] = <<>>
    <3>1. 0 \in 0..size
      OBVIOUS
    <3>2. G[0] = e(G, 0)
      BY <1>6, <3>1
    <3>3. e(G, 0) = <<>>
      OBVIOUS
    <3> QED BY <3>2, <3>3
  <2>2. ASSUME NEW r \in 1..size
        PROVE  G[r] = <<[start |-> size - r, size |-> LargestPower(r)]>>
                        \o G[r - LargestPower(r)]
    <3>1. r \in 0..size /\ r # 0
      OBVIOUS
    <3>2. G[r] = e(G, r)
      BY <1>6, <3>1
    <3> QED BY <3>1, <3>2
  <2> QED BY <2>1, <2>2
<1> QED BY <1>5, <1>7

(* The shapes of a prefix fall: each is at least twice the next. *)
LEMMA PrefixShapesFall ==
  ASSUME NEW size \in Nat \ {0}
  PROVE  Falling(PrefixShapes(size), 0, size)
<1>1. PICK g : /\ PrefixShapes(size) = g[size] /\ g[0] = <<>>
               /\ \A r \in 1..size :
                    g[r] = <<[start |-> size - r, size |-> LargestPower(r)]>>
                             \o g[r - LargestPower(r)]
  BY PrefixShapesUnfold
<1> DEFINE U == {r \in 1..size : ~Falling(g[r], size - r, size)}
<1>2. U = {}
  <2>1. SUFFICES ASSUME U # {} PROVE FALSE
    OBVIOUS
  <2>2. PICK r \in U : \A q \in U : r <= q
    <3>1. U \subseteq Nat
      OBVIOUS
    <3> HIDE DEF U
    <3> QED BY <2>1, <3>1, LeastElement
  <2> DEFINE b == LargestPower(r)
             x == [start |-> size - r, size |-> b]
             t == g[r - b]
  <2>3. r \in 1..size /\ b \in Nat \ {0} /\ b <= r /\ r < 2 * b /\ IsPower(b)
    BY LargestPowerFacts
  <2>4. g[r] = <<x>> \o t
    BY <1>1
  <2>5. x.start = size - r /\ x.size = b
    OBVIOUS
  <2> HIDE DEF x
  <2>6. CASE r = b
    <3>1. t = <<>>
      <4> HIDE DEF b
      <4>1. r - b = 0
        BY <2>3, <2>6
      <4> QED BY <1>1, <4>1
    <3>2. Listed(t) /\ Len(t) = 0
      BY <3>1 DEF Listed
    <3>3. /\ Listed(g[r]) /\ Len(g[r]) = 1 /\ g[r][1] = x
      BY <2>4, <3>2, ConsFacts
    <3> HIDE DEF b, t
    <3>4. Falling(g[r], size - r, size)
      BY <2>3, <2>5, <2>6, <3>3 DEF Falling
    <3> QED BY <2>2, <3>4
  <2>7. CASE r # b
    <3> DEFINE q == r - b
    <3>1. q \in 1..size /\ q < r /\ q < b
      <4> HIDE DEF b
      <4> QED BY <2>3, <2>7
    <3>2. Falling(t, size - q, size)
      <4>1. q \notin U
        <5> HIDE DEF U, b
        <5> QED BY <2>2, <2>3, <3>1
      <4> QED BY <3>1, <4>1
    <3>3. /\ Listed(t) /\ Len(t) \in Nat /\ Len(t) > 0 /\ t[1].start = size - q
          /\ t[1].size <= q /\ IsPower(t[1].size)
      <4>1. size - (size - q) = q
        <5> HIDE DEF b
        <5> QED BY <2>3
      <4> HIDE DEF t, q
      <4> QED BY <3>1, <3>2, <4>1 DEF Falling, Listed
    <3>4. 2 * t[1].size <= b
      <4>1. t[1].size < b /\ t[1].size \in Nat
        <5> HIDE DEF t, b
        <5> QED BY <2>3, <3>1, <3>3, PowersApart
      <4> HIDE DEF t, b
      <4> QED BY <2>3, <3>3, <4>1, PowersApart
    <3>5. /\ Listed(g[r]) /\ Len(g[r]) = Len(t) + 1 /\ g[r][1] = x
          /\ \A j \in 1..Len(t) : g[r][j + 1] = t[j]
      BY <2>4, <3>3, ConsFacts
    <3> HIDE DEF t, b
    <3>6. ASSUME NEW j \in 1..Len(g[r])
          PROVE  /\ IsPower(g[r][j].size) /\ g[r][j].start \in Nat
                 /\ g[r][j].start + g[r][j].size <= size
      <4>1. CASE j = 1
        BY <2>3, <2>5, <3>5, <4>1
      <4>2. CASE j # 1
        <5>1. j - 1 \in 1..Len(t) /\ (j - 1) + 1 = j
          BY <3>3, <3>5, <4>2
        <5> QED BY <3>2, <3>5, <5>1 DEF Falling
      <4> QED BY <4>1, <4>2
    <3>7. ASSUME NEW j \in 1..(Len(g[r]) - 1)
          PROVE  /\ g[r][j + 1].start = g[r][j].start + g[r][j].size
                 /\ 2 * g[r][j + 1].size <= g[r][j].size
      <4>1. CASE j = 1
        <5>1. g[r][1 + 1] = t[1]
          BY <3>3, <3>5
        <5> QED BY <2>3, <2>5, <3>3, <3>4, <3>5, <4>1, <5>1
      <4>2. CASE j # 1
        <5>1. PICK i \in 1..(Len(t) - 1) : j = i + 1
          <6>1. PICK n \in Nat : n = Len(t)
            BY <3>3
          <6>2. j \in 1..n
            BY <3>5, <6>1
          <6>3. j - 1 \in 1..(n - 1) /\ j = (j - 1) + 1
            BY <4>2, <6>2
          <6> QED BY <6>1, <6>3
        <5>2. g[r][j] = t[i] /\ g[r][j + 1] = t[i + 1]
          <6>1. i \in 1..Len(t) /\ i + 1 \in 1..Len(t)
            BY <3>3, <5>1
          <6>2. g[r][i + 1] = t[i] /\ g[r][(i + 1) + 1] = t[i + 1]
            BY <3>5, <6>1
          <6> QED BY <5>1, <6>2
        <5> QED BY <3>2, <5>1, <5>2 DEF Falling
      <4> QED BY <4>1, <4>2
    <3>8. g[r][Len(g[r])] = t[Len(t)]
      BY <3>3, <3>5
    <3>9. Falling(g[r], size - r, size)
      <4>1. t[Len(t)].start + t[Len(t)].size = size
        BY <3>2 DEF Falling
      <4>2. /\ g[r][1].start = size - r /\ g[r][1].size <= size - (size - r)
            /\ size - (size - r) < 2 * g[r][1].size
        BY <2>3, <2>5, <3>5
      <4>3. Len(g[r]) > 0
        BY <3>3, <3>5
      <4> QED BY <3>5, <3>6, <3>7, <3>8, <4>1, <4>2, <4>3 DEF Falling
    <3> QED BY <2>2, <3>9
  <2> QED BY <2>6, <2>7
<1>3. Falling(g[size], size - size, size)
  <2>1. size \notin U
    BY <1>2
  <2> QED BY <2>1
<1> QED BY <1>1, <1>3

-----------------------------------------------------------------------------
(* Hashes in their places. *)

(* The hash of so many leaves from start on is what the tree has there. *)
Placed(leaves, hash, size, start) ==
  \E h, i : /\ OnLevel(leaves, h, i) /\ hash = At(leaves, h, i)
            /\ size = PowerOfTwo[h] /\ start = i * PowerOfTwo[h]

(* Both halves of a hash that is in its place are in theirs. *)
LEMMA HalvesPlaced ==
  ASSUME NEW leaves, NEW left, NEW right, NEW size, NEW start,
         Placed(leaves, NodeHash(left, right), 2 * size, start),
         LeafSequence(leaves), size \in Nat
  PROVE  /\ Placed(leaves, left, size, start) /\ start \in Nat
         /\ start + size < Len(leaves) => Placed(leaves, right, size, start + size)
<1>1. PICK h, i : /\ OnLevel(leaves, h, i) /\ NodeHash(left, right) = At(leaves, h, i)
                  /\ 2 * size = PowerOfTwo[h] /\ start = i * PowerOfTwo[h]
  BY DEF Placed
<1>2. i \in Nat /\ h \in Nat /\ h \in 0..Top(leaves) /\ Top(leaves) \in Nat
  <2>1. Top(leaves) \in Nat
    BY TopFacts
  <2> QED BY <1>1, <2>1 DEF OnLevel
<1>3. PICK l \in Nat : h = l + 1 /\ l \in 0..Top(leaves)
  <2>1. h # 0
    BY <1>1, PowerFacts
  <2>2. h - 1 \in Nat /\ h = (h - 1) + 1 /\ h - 1 \in 0..Top(leaves)
    BY <1>2, <2>1
  <2> QED BY <2>2
<1>4. PICK p \in Nat : p = PowerOfTwo[l] /\ size = p /\ start = i * (2 * p)
  <2>1. PowerOfTwo[l] \in Nat /\ PowerOfTwo[h] = 2 * PowerOfTwo[l]
    BY <1>3, PowerFacts
  <2> QED BY <1>1, <2>1
<1>5. start = (2 * i) * p /\ start + size = (2 * i + 1) * p /\ start \in Nat
      /\ 2 * i \in Nat /\ 2 * i + 1 \in Nat
  BY <1>2, <1>4
<1>6. /\ OnLevel(leaves, l, 2 * i)
      /\ NodeHash(left, right)
           = NodeHash(At(leaves, l, 2 * i),
                      IF 2 * i + 1 < Width(leaves, l) THEN At(leaves, l, 2 * i + 1)
                      ELSE At(leaves, l, 2 * i))
  BY <1>1, <1>3, NodeAt
<1>7. /\ left = At(leaves, l, 2 * i)
      /\ 2 * i + 1 < Width(leaves, l) => right = At(leaves, l, 2 * i + 1)
  BY <1>6, HashFacts
<1>8. Placed(leaves, left, size, start)
  BY <1>4, <1>5, <1>6, <1>7 DEF Placed
<1>9. ASSUME start + size < Len(leaves) PROVE Placed(leaves, right, size, start + size)
  <2>1. OnLevel(leaves, l, 2 * i + 1)
    <3>1. \A j \in Nat : OnLevel(leaves, l, j) <=> j * PowerOfTwo[l] < Len(leaves)
      BY <1>3, PositionsAt
    <3>2. (2 * i + 1) * PowerOfTwo[l] < Len(leaves)
      BY <1>4, <1>5, <1>9
    <3> QED BY <1>5, <3>1, <3>2
  <2>2. right = At(leaves, l, 2 * i + 1)
    BY <1>7, <2>1 DEF OnLevel
  <2> QED BY <1>4, <1>5, <2>1, <2>2 DEF Placed
<1> QED BY <1>5, <1>8, <1>9

-----------------------------------------------------------------------------
(* Roots that no lineage need have.  A hash hangs on the root an anchor     *)
(* claims if a membership path of that size could join it.                 *)

Joined(size, h, i, x, y) ==
  \E other : /\ y = IF i % 2 = 1 THEN NodeHash(other, x) ELSE NodeHash(x, other)
             /\ i % 2 = 1 \/ (i + 1) * PowerOfTwo[h] < size \/ other = x

Lineal(anchor, h, c, p) ==
  /\ p[PathLength[anchor.size]] = 0 /\ c[PathLength[anchor.size]] = anchor.root
  /\ \A q \in h..(PathLength[anchor.size] - 1) :
       /\ p[q + 1] = p[q] \div 2
       /\ Joined(anchor.size, q, p[q], c[q], c[q + 1])

Hangs(anchor, h, i, x) ==
  /\ h \in 0..PathLength[anchor.size] /\ i \in Nat
  /\ \E c, p : p[h] = i /\ c[h] = x /\ Lineal(anchor, h, c, p)

(* The height of an anchor's root is a number, and its size fits below it. *)
LEMMA SummitFacts ==
  ASSUME NEW anchor, anchor.size \in Nat \ {0}
  PROVE  /\ PathLength[anchor.size] \in Nat
         /\ anchor.size <= PowerOfTwo[PathLength[anchor.size]]
<1>1. Height(anchor.size, PathLength[anchor.size])
  BY PathLengthIsHeight
<1> QED BY <1>1 DEF Height

(* The root hangs on itself. *)
LEMMA RootHangs ==
  ASSUME NEW anchor, anchor.size \in Nat \ {0}
  PROVE  Hangs(anchor, PathLength[anchor.size], 0, anchor.root)
<1>1. PICK n \in Nat : n = PathLength[anchor.size]
  BY SummitFacts
<1> DEFINE c == [q \in {n} |-> anchor.root]
           p == [q \in {n} |-> 0]
<1>2. p[n] = 0 /\ c[n] = anchor.root /\ n..(n - 1) = {}
  OBVIOUS
<1> HIDE DEF c, p
<1>3. Lineal(anchor, n, c, p)
  BY <1>1, <1>2 DEF Lineal
<1> QED BY <1>1, <1>2, <1>3 DEF Hangs

(* Nothing but the root hangs at the root's height. *)
LEMMA HighestHangs ==
  ASSUME NEW anchor, anchor.size \in Nat \ {0}, NEW i, NEW x,
         Hangs(anchor, PathLength[anchor.size], i, x)
  PROVE  i = 0 /\ x = anchor.root
BY DEF Hangs, Lineal

(* What hangs below the root was joined to something that hangs one level up. *)
LEMMA HangsUp ==
  ASSUME NEW anchor, anchor.size \in Nat \ {0}, NEW h \in Nat, h < PathLength[anchor.size],
         NEW i, NEW x, Hangs(anchor, h, i, x)
  PROVE  \E y : Hangs(anchor, h + 1, i \div 2, y) /\ Joined(anchor.size, h, i, x, y)
<1>1. PICK n \in Nat : n = PathLength[anchor.size]
  BY SummitFacts
<1>2. PICK c, p : p[h] = i /\ c[h] = x /\ Lineal(anchor, h, c, p)
  BY DEF Hangs
<1>3. h \in h..(n - 1) /\ h + 1 \in 0..n /\ i \in Nat /\ i \div 2 \in Nat
      /\ \A q \in (h + 1)..(n - 1) : q \in h..(n - 1)
  BY <1>1 DEF Hangs
<1>4. p[h + 1] = i \div 2 /\ Joined(anchor.size, h, i, x, c[h + 1])
  BY <1>1, <1>2, <1>3 DEF Lineal
<1>5. Lineal(anchor, h + 1, c, p)
  BY <1>1, <1>2, <1>3 DEF Lineal
<1> QED BY <1>1, <1>3, <1>4, <1>5 DEF Hangs

(* What joins to a hash that hangs, hangs as well. *)
LEMMA HangsDown ==
  ASSUME NEW anchor, anchor.size \in Nat \ {0}, NEW h \in Nat, NEW i \in Nat, NEW x, NEW y,
         Hangs(anchor, h + 1, i \div 2, y), Joined(anchor.size, h, i, x, y)
  PROVE  Hangs(anchor, h, i, x)
<1>1. PICK n \in Nat : n = PathLength[anchor.size]
  BY SummitFacts
<1>2. PICK c, p : p[h + 1] = i \div 2 /\ c[h + 1] = y /\ Lineal(anchor, h + 1, c, p)
  BY DEF Hangs
<1>3. h + 1 \in 0..n /\ h < n
  BY <1>1 DEF Hangs
<1> DEFINE d == [q \in h..n |-> IF q = h THEN x ELSE c[q]]
           r == [q \in h..n |-> IF q = h THEN i ELSE p[q]]
<1>4. /\ d[h] = x /\ r[h] = i
      /\ \A q \in (h + 1)..n : d[q] = c[q] /\ r[q] = p[q]
  BY <1>3
<1> HIDE DEF d, r
<1>5. n \in (h + 1)..n /\ h + 1 \in (h + 1)..n
  BY <1>3
<1>6. ASSUME NEW q \in h..(n - 1)
      PROVE  r[q + 1] = r[q] \div 2 /\ Joined(anchor.size, q, r[q], d[q], d[q + 1])
  <2>1. CASE q = h
    BY <1>2, <1>4, <1>5, <2>1
  <2>2. CASE q # h
    <3>1. q \in (h + 1)..(n - 1) /\ q \in (h + 1)..n /\ q + 1 \in (h + 1)..n
      BY <2>2
    <3> QED BY <1>1, <1>2, <1>4, <3>1 DEF Lineal
  <2> QED BY <2>1, <2>2
<1>7. Lineal(anchor, h, d, r)
  BY <1>1, <1>2, <1>4, <1>5, <1>6 DEF Lineal
<1>8. h \in 0..n
  BY <1>3
<1> QED BY <1>1, <1>4, <1>7, <1>8 DEF Hangs

(* No two hashes join to the same one in the same place. *)
LEMMA JoinedAlone ==
  ASSUME NEW size, NEW h, NEW i, NEW x, NEW z, NEW y,
         Joined(size, h, i, x, y), Joined(size, h, i, z, y)
  PROVE  x = z
<1>1. CASE i % 2 = 1
  <2>1. PICK a, b : y = NodeHash(a, x) /\ y = NodeHash(b, z)
    BY <1>1 DEF Joined
  <2> QED BY <2>1 DEF NodeHash
<1>2. CASE i % 2 # 1
  <2>1. PICK a, b : y = NodeHash(x, a) /\ y = NodeHash(z, b)
    BY <1>2 DEF Joined
  <2> QED BY <2>1 DEF NodeHash
<1> QED BY <1>1, <1>2

(* One hash hangs in a place. *)
LEMMA HangsAlone ==
  ASSUME NEW anchor, anchor.size \in Nat \ {0}
  PROVE  \A h, i, x, z : Hangs(anchor, h, i, x) /\ Hangs(anchor, h, i, z) => x = z
<1>1. PICK n \in Nat : n = PathLength[anchor.size]
  BY SummitFacts
<1> DEFINE One(h) == \A i, x, z : Hangs(anchor, h, i, x) /\ Hangs(anchor, h, i, z) => x = z
           T == {k \in 0..n : One(n - k)}
<1>2. 0 \in T
  <2>1. One(n)
    BY <1>1, HighestHangs
  <2> HIDE DEF One
  <2> QED BY <2>1
<1>3. ASSUME NEW k \in 1..n, k - 1 \in T PROVE k \in T
  <2>1. PICK h \in Nat : h = n - k /\ h + 1 = n - (k - 1) /\ h < n
    <3>1. n - k \in Nat /\ (n - k) + 1 = n - (k - 1) /\ n - k < n
      OBVIOUS
    <3> QED BY <3>1
  <2>2. One(h + 1)
    <3> HIDE DEF One
    <3> QED BY <1>3, <2>1
  <2>3. ASSUME NEW i, NEW x, NEW z, Hangs(anchor, h, i, x), Hangs(anchor, h, i, z)
        PROVE  x = z
    <3>1. PICK y : Hangs(anchor, h + 1, i \div 2, y) /\ Joined(anchor.size, h, i, x, y)
      BY <1>1, <2>1, <2>3, HangsUp
    <3>2. PICK w : Hangs(anchor, h + 1, i \div 2, w) /\ Joined(anchor.size, h, i, z, w)
      BY <1>1, <2>1, <2>3, HangsUp
    <3>3. y = w
      BY <2>2, <3>1, <3>2
    <3> QED BY <3>1, <3>2, <3>3, JoinedAlone
  <2>4. One(h)
    BY <2>3
  <2> HIDE DEF One
  <2> QED BY <2>1, <2>4
<1>4. \A k \in 0..n : k \in T
  <2> HIDE DEF T
  <2> QED BY <1>2, <1>3, InductionUpTo
<1>5. ASSUME NEW h \in 0..n PROVE One(h)
  <2>1. n - h \in 0..n /\ n - (n - h) = h
    OBVIOUS
  <2>2. n - h \in T
    <3> HIDE DEF T
    <3> QED BY <1>4, <2>1
  <2> HIDE DEF One
  <2> QED BY <2>1, <2>2
<1>6. \A h, i, x : Hangs(anchor, h, i, x) => h \in 0..n
  BY <1>1 DEF Hangs
<1> QED BY <1>5, <1>6

-----------------------------------------------------------------------------
(* Membership paths, of any size claimed.                                  *)

(* Twice as many of a size are as many of twice the size. *)
LEMMA DoubledPlace ==
  \A i, q \in Nat : (2 * i) * q = i * (2 * q)
OBVIOUS

(* The climb's width bounds the positions at each level as the size does. *)
LEMMA ClimbedWidths ==
  ASSUME NEW node, NEW leaf, NEW index \in Nat, NEW size \in Nat \ {0}, NEW path,
         Len(path) \in Nat, Climbs(node, leaf, index, size, path)
  PROVE  \A k \in 0..Len(path) :
           /\ node[k].index \in Nat /\ node[k].width \in Nat
           /\ \A i \in Nat : i < node[k].width <=> i * PowerOfTwo[k] < size
<1> DEFINE n == Len(path)
           Fits(k) == /\ node[k].index \in Nat /\ node[k].width \in Nat
                      /\ \A i \in Nat : i < node[k].width <=> i * PowerOfTwo[k] < size
           T == {k \in 0..n : Fits(k)}
<1>1. 0 \in T
  <2>1. node[0].index = index /\ node[0].width = size
    BY DEF Climbs, StartNode
  <2>2. PowerOfTwo[0] = 1 /\ \A i \in Nat : i * 1 = i
    BY PowerFacts
  <2> HIDE DEF n
  <2> QED BY <2>1, <2>2 DEF n
<1>2. ASSUME NEW k \in 1..n, k - 1 \in T PROVE k \in T
  <2>1. PICK w \in Nat, j \in Nat : w = node[k - 1].width /\ j = node[k - 1].index
    BY <1>2
  <2>2. node[k].width = (w + 1) \div 2 /\ node[k].index = j \div 2
    BY <2>1, ClimbFields DEF Climbs
  <2>3. PICK q \in Nat : q = PowerOfTwo[k - 1] /\ PowerOfTwo[k] = 2 * q
    <3>1. k - 1 \in Nat /\ (k - 1) + 1 = k
      OBVIOUS
    <3> QED BY <3>1, PowerFacts
  <2>4. ASSUME NEW i \in Nat PROVE i < node[k].width <=> i * PowerOfTwo[k] < size
    <3>1. 2 * i < w <=> (2 * i) * q < size
      <4>1. \A m \in Nat : m < w <=> m * q < size
        BY <1>2, <2>1, <2>3
      <4>2. 2 * i \in Nat
        OBVIOUS
      <4> QED BY <4>1, <4>2, Zenon
    <3>2. (2 * i) * q = i * (2 * q)
      BY DoubledPlace
    <3>3. i < (w + 1) \div 2 <=> 2 * i < w
      OBVIOUS
    <3> QED BY <2>2, <2>3, <3>1, <3>2, <3>3
  <2>5. node[k].width \in Nat /\ node[k].index \in Nat
    BY <2>2
  <2> QED BY <2>4, <2>5
<1>3. \A k \in 0..n : k \in T
  <2> HIDE DEF T
  <2> QED BY <1>1, <1>2, InductionUpTo
<1> QED BY <1>3

(* Nothing that was refused on the way up is accepted at the top. *)
LEMMA OkThroughout ==
  ASSUME NEW node, NEW leaf, NEW index, NEW size, NEW path, NEW n \in Nat, n = Len(path),
         Climbs(node, leaf, index, size, path), node[n].ok
  PROVE  \A k \in 0..n : node[k].ok
<1> DEFINE T == {k \in 0..n : node[n - k].ok}
<1>1. 0 \in T
  OBVIOUS
<1>2. ASSUME NEW k \in 1..n, k - 1 \in T PROVE k \in T
  <2>1. PICK l \in 1..n : l = n - (k - 1) /\ l - 1 = n - k
    OBVIOUS
  <2>2. node[l].ok /\ node[l] = Climb(node[l - 1], path[l])
    BY <1>2, <2>1 DEF Climbs
  <2>3. node[l - 1].ok
    BY <2>2, ClimbFields
  <2> QED BY <2>1, <2>3
<1>3. \A k \in 0..n : k \in T
  <2> HIDE DEF T
  <2> QED BY <1>1, <1>2, InductionUpTo
<1>4. ASSUME NEW k \in 0..n PROVE node[k].ok
  <2>1. n - k \in 0..n /\ n - (n - k) = k
    OBVIOUS
  <2> QED BY <1>3, <2>1
<1> QED BY <1>4

(* What a membership path verifies hangs at the bottom.                    *)
LEMMA VerifiedHangs ==
  ASSUME NEW anchor, anchor.size \in Nat \ {0}, NEW leaf, NEW index, NEW path,
         VerifyPath(leaf, index, anchor.size, path, anchor.root)
  PROVE  Hangs(anchor, 0, index, leaf)
<1>1. PICK n \in Nat : n = PathLength[anchor.size]
  BY SummitFacts
<1>2. PICK size \in Nat \ {0} : size = anchor.size
  OBVIOUS
<1>3. index \in Nat /\ Len(path) = n
  BY <1>1 DEF VerifyPath
<1>4. PICK node : /\ Climbs(node, leaf, index, size, path)
                  /\ Climbed(leaf, index, size, path) = node[n]
  BY <1>3, ClimbedUnfolds
<1>5. node[n].ok /\ node[n].index = 0 /\ node[n].hash = anchor.root
  BY <1>2, <1>4 DEF VerifyPath
<1> DEFINE c == [q \in 0..n |-> node[q].hash]
           p == [q \in 0..n |-> node[q].index]
<1>6. p[0] = index /\ c[0] = leaf /\ p[n] = 0 /\ c[n] = anchor.root
  BY <1>4, <1>5 DEF Climbs, StartNode
<1>7. ASSUME NEW q \in 0..(n - 1)
      PROVE  p[q + 1] = p[q] \div 2 /\ Joined(size, q, p[q], c[q], c[q + 1])
  <2>1. q \in 0..n /\ q + 1 \in 1..n /\ q + 1 \in 0..n /\ (q + 1) - 1 = q
    OBVIOUS
  <2>2. c[q] = node[q].hash /\ p[q] = node[q].index
        /\ c[q + 1] = node[q + 1].hash /\ p[q + 1] = node[q + 1].index
    BY <2>1
  <2>3. node[q + 1] = Climb(node[q], path[q + 1]) /\ node[q + 1].ok
    BY <1>3, <1>4, <1>5, <2>1, OkThroughout DEF Climbs
  <2> DEFINE entry == path[q + 1]
  <2>4. /\ node[q + 1].index = node[q].index \div 2
        /\ node[q + 1].hash = IF node[q].index % 2 = 1 THEN NodeHash(entry.hash, node[q].hash)
                              ELSE NodeHash(node[q].hash, entry.hash)
        /\ node[q].index % 2 = 1 \/ node[q].index + 1 < node[q].width
             \/ entry.hash = node[q].hash
    BY <2>3, ClimbFields
  <2>5. node[q].index + 1 < node[q].width => (node[q].index + 1) * PowerOfTwo[q] < size
    <3>1. node[q].index \in Nat /\ \A i \in Nat : i < node[q].width <=> i * PowerOfTwo[q] < size
      BY <1>3, <1>4, <2>1, ClimbedWidths
    <3>2. node[q].index + 1 \in Nat
      BY <3>1
    <3> QED BY <3>1, <3>2
  <2> HIDE DEF entry, c, p
  <2>6. Joined(size, q, node[q].index, node[q].hash, node[q + 1].hash)
    BY <2>4, <2>5, Zenon DEF Joined
  <2> QED BY <2>2, <2>4, <2>6
<1> HIDE DEF c, p
<1>8. Lineal(anchor, 0, c, p)
  BY <1>1, <1>2, <1>6, <1>7 DEF Lineal
<1> QED BY <1>1, <1>3, <1>6, <1>8 DEF Hangs

-----------------------------------------------------------------------------
(* Subtrees that hang on a root. *)

(* A hash of a subtree over size positions from start on hangs on the root. *)
Hung(anchor, hash, size, start) ==
  \E h, i : /\ Hangs(anchor, h, i, hash)
            /\ size = PowerOfTwo[h] /\ start = i * PowerOfTwo[h]

(* The root is hung as a subtree over all positions up to the padded size. *)
LEMMA RootHung ==
  ASSUME NEW anchor, anchor.size \in Nat \ {0}, NEW size,
         size = PowerOfTwo[PathLength[anchor.size]]
  PROVE  Hung(anchor, anchor.root, size, 0)
<1>1. PICK n \in Nat : n = PathLength[anchor.size]
  BY SummitFacts
<1>2. Hangs(anchor, n, 0, anchor.root)
  BY <1>1, RootHangs
<1>3. 0 = 0 * PowerOfTwo[n]
  BY PowerFacts
<1> QED BY <1>1, <1>2, <1>3 DEF Hung

(* The halves of a block, and what is paired with itself. *)
LEMMA HalvesHung ==
  ASSUME NEW anchor, NEW left, NEW right, NEW size, NEW start,
         Hung(anchor, NodeHash(left, right), 2 * size, start),
         anchor.size \in Nat \ {0}, size \in Nat
  PROVE  /\ start \in Nat /\ Hung(anchor, right, size, start + size)
         /\ start + size < anchor.size \/ right = left => Hung(anchor, left, size, start)
<1>1. PICK h, i : /\ Hangs(anchor, h, i, NodeHash(left, right))
                  /\ 2 * size = PowerOfTwo[h] /\ start = i * PowerOfTwo[h]
  BY DEF Hung
<1>2. i \in Nat /\ h \in Nat
  BY <1>1, SummitFacts DEF Hangs
<1>3. PICK l \in Nat : h = l + 1
  <2>1. h # 0
    BY <1>1, PowerFacts
  <2>2. h - 1 \in Nat /\ h = (h - 1) + 1
    BY <1>2, <2>1
  <2> QED BY <2>2
<1>4. PICK p \in Nat : p = PowerOfTwo[l] /\ size = p /\ start = i * (2 * p)
  <2>1. PowerOfTwo[l] \in Nat /\ PowerOfTwo[h] = 2 * PowerOfTwo[l]
    BY <1>3, PowerFacts
  <2> QED BY <1>1, <2>1
<1>5. start = (2 * i) * p /\ start + size = (2 * i + 1) * p /\ start \in Nat
      /\ 2 * i \in Nat /\ 2 * i + 1 \in Nat
  BY <1>2, <1>4
<1>6. PICK m, n \in Nat : /\ m = 2 * i /\ n = 2 * i + 1 /\ n = m + 1 /\ m \in Nat
                          /\ m \div 2 = i /\ n \div 2 = i /\ n % 2 = 1 /\ m % 2 # 1
  BY <1>2
<1>7. Hangs(anchor, l + 1, i, NodeHash(left, right))
  BY <1>1, <1>3
<1>8. Hung(anchor, right, size, start + size)
  <2>1. Joined(anchor.size, l, n, right, NodeHash(left, right))
    BY <1>6 DEF Joined
  <2>2. Hangs(anchor, l, n, right)
    BY <1>6, <1>7, <2>1, HangsDown
  <2> QED BY <1>4, <1>5, <1>6, <2>2 DEF Hung
<1>9. ASSUME start + size < anchor.size \/ right = left PROVE Hung(anchor, left, size, start)
  <2>1. (m + 1) * PowerOfTwo[l] < anchor.size \/ right = left
    BY <1>4, <1>5, <1>6, <1>9
  <2>2. Joined(anchor.size, l, m, left, NodeHash(left, right))
    BY <1>6, <2>1, Zenon DEF Joined
  <2>3. Hangs(anchor, l, m, left)
    BY <1>6, <1>7, <2>2, HangsDown
  <2> QED BY <1>4, <1>5, <1>6, <2>3 DEF Hung
<1> QED BY <1>5, <1>8, <1>9

-----------------------------------------------------------------------------
(* What a frontier is bagged into. *)

LiftStep(p, g, k) == IF k = 0 THEN p[1] ELSE Double(g[k - 1], p[2])
Lifting == INSTANCE NaturalOrder_proofs WITH Recur <- LiftStep

(* Lifting a bagged block is doubling it until it has the size asked for. *)
LEMMA LiftUnfolds ==
  ASSUME NEW bagged, NEW size, size \in Nat
  PROVE  \E g : /\ Lift(bagged, size) = g[size] /\ g[0] = bagged
                /\ \A k \in 1..size : g[k] = Double(g[k - 1], size)
<1> DEFINE p == <<bagged, size>>
           e(g, k) == IF k = 0 THEN bagged ELSE Double(g[k - 1], size)
           G == CHOOSE g : g = [k \in 0..size |-> e(g, k)]
<1>1. \A g, k : LiftStep(p, g, k) = e(g, k)
  <2>1. p[1] = bagged /\ p[2] = size
    OBVIOUS
  <2> HIDE DEF p
  <2> QED BY <2>1 DEF LiftStep
<1>2. Lifting!LooksBelow(p, size)
  <2>1. \A k \in 0..size : \A g, h : (\A m \in 0..(k - 1) : g[m] = h[m]) => e(g, k) = e(h, k)
    OBVIOUS
  <2> HIDE DEF p, e
  <2> QED BY <1>1, <2>1 DEF Lifting!LooksBelow
<1>3. \E g : g = [k \in 0..size |-> LiftStep(p, g, k)]
  BY <1>2, Lifting!RecursionExists DEF Lifting!Recursive
<1>4. \E g : g = [k \in 0..size |-> e(g, k)]
  <2> HIDE DEF p, e
  <2> QED BY <1>1, <1>3
<1>5. G = [k \in 0..size |-> e(G, k)]
  BY <1>4, Zenon
<1>6. Lift(bagged, size) = G[size]
  BY Zenon DEF Lift
<1> HIDE DEF G
<1>7. \A k \in 0..size : G[k] = e(G, k)
  <2> HIDE DEF e
  <2> QED BY <1>5
<1> QED BY <1>6, <1>7

(* If a lifted block hangs on a root, so does the block that was lifted. *)
LEMMA LiftHung ==
  ASSUME NEW anchor, NEW bagged, NEW size, NEW start,
         Hung(anchor, Lift(bagged, size).hash, size, start),
         anchor.size \in Nat \ {0}, IsPower(size), IsPower(bagged.size), bagged.size <= size
  PROVE  Hung(anchor, bagged.hash, bagged.size, start)
<1>1. size \in Nat \ {0}
  BY PowersApart
<1>2. PICK g : /\ Lift(bagged, size) = g[size] /\ g[0] = bagged
               /\ \A k \in 1..size : g[k] = Double(g[k - 1], size)
  BY <1>1, LiftUnfolds
<1> DEFINE Grows(k) == /\ IsPower(g[k].size) /\ g[k].size <= size
                       /\ g[k].size = size \/ g[k].size > k
           T == {k \in 0..size : Grows(k)}
           In(k) == Hung(anchor, g[k].hash, g[k].size, start)
           U == {k \in 0..size : In(size - k)}
<1>3. 0 \in T
  <2>1. bagged.size \in Nat \ {0}
    BY PowerPositive
  <2>2. 0 \in 0..size /\ bagged.size > 0
    BY <1>1, <2>1
  <2> QED BY <1>2, <2>2
<1>4. ASSUME NEW k \in 1..size, k - 1 \in T PROVE k \in T
  <2> DEFINE s == g[k - 1].size
  <2>1. IsPower(s) /\ s \in Nat \ {0} /\ s <= size /\ (s = size \/ s > k - 1)
    BY <1>4, PowersApart
  <2>2. g[k] = Double(g[k - 1], size)
    BY <1>2
  <2>3. CASE s >= size
    <3>1. g[k].size = s
      BY <2>2, <2>3 DEF Double
    <3>2. s = size
      <4> HIDE DEF s
      <4> QED BY <1>1, <2>1, <2>3
    <3> QED BY <2>1, <3>1, <3>2
  <2>4. CASE ~(s >= size)
    <3>1. g[k].size = 2 * s
      BY <2>2, <2>4 DEF Double
    <3>2. 2 * s <= size
      BY <1>1, <2>1, <2>4, PowersApart
    <3>3. IsPower(2 * s)
      BY <2>1, PowerDoubles
    <3>4. 2 * s > k
      BY <1>1, <2>1, <2>4
    <3> QED BY <3>1, <3>2, <3>3, <3>4
  <2> QED BY <2>3, <2>4
<1>5. \A k \in 0..size : Grows(k)
  <2>1. \A k \in 0..size : k \in T
    <3> HIDE DEF T
    <3> QED BY <1>1, <1>3, <1>4, InductionUpTo
  <2> QED BY <2>1
<1>6. 0 \in U
  <2>1. Grows(size)
    BY <1>1, <1>5
  <2>2. g[size].size = size
    BY <1>1, <2>1, PowersApart
  <2>3. size - 0 = size
    BY <1>1
  <2> QED BY <1>1, <1>2, <2>2, <2>3
<1>7. ASSUME NEW k \in 1..size, k - 1 \in U PROVE k \in U
  <2>1. PICK l \in 1..size : l = size - (k - 1) /\ l - 1 = size - k /\ l - 1 \in 0..size
    <3>1. size - (k - 1) \in 1..size /\ (size - (k - 1)) - 1 = size - k
          /\ (size - (k - 1)) - 1 \in 0..size
      BY <1>1
    <3> QED BY <3>1
  <2>2. In(l)
    BY <1>7, <2>1
  <2>3. g[l] = Double(g[l - 1], size) /\ IsPower(g[l - 1].size)
    BY <1>2, <1>5, <2>1
  <2>4. CASE g[l - 1].size >= size
    BY <2>1, <2>2, <2>3, <2>4 DEF Double
  <2>5. CASE ~(g[l - 1].size >= size)
    <3>1. g[l].size = 2 * g[l - 1].size /\ g[l].hash = NodeHash(g[l - 1].hash, g[l - 1].hash)
      BY <2>3, <2>5 DEF Double
    <3>2. g[l - 1].size \in Nat
      BY <2>3, PowersApart
    <3>3. Hung(anchor, NodeHash(g[l - 1].hash, g[l - 1].hash), 2 * g[l - 1].size, start)
      BY <2>2, <3>1
    <3>4. In(l - 1)
      BY <3>2, <3>3, HalvesHung
    <3> QED BY <2>1, <3>4
  <2> QED BY <2>4, <2>5
<1>8. In(0)
  <2>1. \A k \in 0..size : k \in U
    <3> HIDE DEF U
    <3> QED BY <1>1, <1>6, <1>7, InductionUpTo
  <2>2. size \in U /\ size - size = 0
    <3> HIDE DEF U
    <3> QED BY <1>1, <2>1
  <2> QED BY <2>2
<1> QED BY <1>2, <1>8

BagStep(frontier, g, k) ==
  IF k = 0 THEN [size |-> frontier[Len(frontier)].size, hash |-> frontier[Len(frontier)].hash]
  ELSE Pair(frontier[Len(frontier) - k], g[k - 1])
Bagging == INSTANCE NaturalOrder_proofs WITH Recur <- BagStep

(* What is bagged after each of n blocks but the last. *)
Bags(g, frontier, n) ==
  /\ RootOfFrontier(frontier) = g[n].hash
  /\ g[0].size = frontier[n + 1].size /\ g[0].hash = frontier[n + 1].hash
  /\ \A k \in 1..n :
       /\ g[k].size = 2 * frontier[(n + 1) - k].size
       /\ g[k].hash = NodeHash(frontier[(n + 1) - k].hash,
                               Lift(g[k - 1], frontier[(n + 1) - k].size).hash)

(* Bagging a frontier goes from its last block to its first. *)
LEMMA BagUnfolds ==
  ASSUME NEW frontier, NEW n, n \in Nat, Len(frontier) = n + 1
  PROVE  \E g : Bags(g, frontier, n)
<1> DEFINE last == Len(frontier)
           first == [size |-> frontier[last].size, hash |-> frontier[last].hash]
           e(g, k) == IF k = 0 THEN first ELSE Pair(frontier[last - k], g[k - 1])
           G == CHOOSE g : g = [k \in 0..(last - 1) |-> e(g, k)]
<1>1. last - 1 = n
  OBVIOUS
<1>2. Bagging!LooksBelow(frontier, n)
  BY DEF Bagging!LooksBelow, BagStep
<1>3. \E g : g = [k \in 0..n |-> BagStep(frontier, g, k)]
  BY <1>2, Bagging!RecursionExists DEF Bagging!Recursive
<1>4. \E g : g = [k \in 0..(last - 1) |-> e(g, k)]
  BY <1>1, <1>3 DEF BagStep
<1>5. G = [k \in 0..(last - 1) |-> e(G, k)]
  BY <1>4, Zenon
<1>6. RootOfFrontier(frontier) = G[last - 1].hash
  BY Zenon DEF RootOfFrontier
<1> HIDE DEF G
<1>7. \A k \in 0..n : G[k] = e(G, k)
  <2> HIDE DEF e
  <2> QED BY <1>1, <1>5
<1>8. G[0].size = frontier[n + 1].size /\ G[0].hash = frontier[n + 1].hash
  <2>1. G[0] = first
    BY <1>7
  <2> QED BY <2>1
<1>9. \A k \in 1..n : G[k] = Pair(frontier[(n + 1) - k], G[k - 1])
  BY <1>7
<1>10. \A b, x : Pair(b, x).size = 2 * b.size
                /\ Pair(b, x).hash = NodeHash(b.hash, Lift(x, b.size).hash)
  BY DEF Pair
<1>11. \A k \in 1..n :
         /\ G[k].size = 2 * frontier[(n + 1) - k].size
         /\ G[k].hash = NodeHash(frontier[(n + 1) - k].hash,
                                 Lift(G[k - 1], frontier[(n + 1) - k].size).hash)
  BY <1>9, <1>10
<1>12. Bags(G, frontier, n)
  BY <1>1, <1>6, <1>8, <1>11 DEF Bags
<1> QED BY <1>12

(* The blocks of a frontier that is bagged into a root hang on it, in the   *)
(* places their sizes give them.                                           *)
LEMMA FrontierHung ==
  ASSUME NEW anchor, NEW f, anchor.size \in Nat \ {0}, Falling(f, 0, anchor.size),
         RootOfFrontier(f) = anchor.root
  PROVE  \A j \in 1..Len(f) : Hung(anchor, f[j].hash, f[j].size, f[j].start)
<1> DEFINE N == anchor.size
<1>1. N \in Nat \ {0}
  OBVIOUS
<1>2. PICK n \in Nat : Len(f) = n + 1
  <2>1. Len(f) \in Nat /\ Len(f) > 0
    BY DEF Falling, Listed
  <2>2. Len(f) - 1 \in Nat /\ Len(f) = (Len(f) - 1) + 1
    BY <2>1
  <2> QED BY <2>2
<1>a. PICK g : Bags(g, f, n)
  BY <1>2, BagUnfolds
<1>3. RootOfFrontier(f) = g[n].hash /\ g[0].size = f[n + 1].size /\ g[0].hash = f[n + 1].hash
  BY <1>a DEF Bags
<1>4. \A k \in 1..n : /\ g[k].size = 2 * f[(n + 1) - k].size
                      /\ g[k].hash = NodeHash(f[(n + 1) - k].hash,
                                              Lift(g[k - 1], f[(n + 1) - k].size).hash)
  BY <1>a DEF Bags
<1>5. /\ f[1].start = 0 /\ f[1].size <= N /\ N < 2 * f[1].size
      /\ \A j \in 1..(n + 1) : /\ IsPower(f[j].size) /\ f[j].size \in Nat \ {0}
                               /\ f[j].start \in Nat /\ f[j].start + f[j].size <= N
      /\ \A j \in 1..n : /\ f[j + 1].start = f[j].start + f[j].size
                         /\ 2 * f[j + 1].size <= f[j].size
      /\ f[n + 1].start + f[n + 1].size = N
  <2>1. (n + 1) - 1 = n /\ N - 0 = N
    BY <1>1
  <2> QED BY <1>2, <2>1, PowerPositive DEF Falling
<1> DEFINE In(k) == Hung(anchor, g[k].hash, g[k].size, f[(n + 1) - k].start)
           U == {k \in 0..n : In(n - k)}
<1>6. Height(N, PathLength[anchor.size])
  BY <1>1, PathLengthIsHeight
<1>7. g[n].size = PowerOfTwo[PathLength[anchor.size]]
  <2>1. PICK k \in Nat : f[1].size = PowerOfTwo[k]
    BY <1>5 DEF IsPower
  <2>2. PowerOfTwo[k] \in Nat /\ PowerOfTwo[k + 1] = 2 * PowerOfTwo[k]
        /\ (k # 0 => PowerOfTwo[k - 1] \in Nat /\ 2 * PowerOfTwo[k - 1] = PowerOfTwo[k])
    <3>1. k # 0 => k - 1 \in Nat /\ (k - 1) + 1 = k
      OBVIOUS
    <3> QED BY <3>1, PowerFacts
  <2>3. CASE n = 0
    <3>1. N = PowerOfTwo[k]
      BY <1>1, <1>5, <2>1, <2>2, <2>3
    <3>2. Height(N, k)
      BY <1>1, <2>2, <3>1 DEF Height
    <3>3. k = PathLength[anchor.size]
      BY <1>1, <1>6, <3>2, HeightIsUnique
    <3> QED BY <1>3, <2>1, <2>3, <3>3
  <2>4. CASE n # 0
    <3>1. PowerOfTwo[k] < N
      <4>1. 1 \in 1..n /\ 1 + 1 \in 1..(n + 1)
        BY <2>4
      <4>2. f[1 + 1].start = f[1].start + f[1].size
            /\ f[1 + 1].start + f[1 + 1].size <= N /\ f[1 + 1].size \in Nat \ {0}
        BY <1>5, <4>1
      <4> QED BY <1>1, <1>5, <2>1, <2>2, <4>2
    <3>2. Height(N, k + 1)
      <4>1. (k + 1) - 1 = k /\ k + 1 \in Nat
        OBVIOUS
      <4>2. N <= PowerOfTwo[k + 1]
        BY <1>1, <1>5, <2>1, <2>2
      <4> QED BY <3>1, <4>1, <4>2 DEF Height
    <3>3. k + 1 = PathLength[anchor.size]
      BY <1>1, <1>6, <3>2, HeightIsUnique
    <3>4. (n + 1) - n = 1
      OBVIOUS
    <3>5. n \in 1..n
      BY <2>4
    <3>6. g[n].size = 2 * f[1].size
      BY <1>4, <3>4, <3>5
    <3> QED BY <2>1, <2>2, <3>3, <3>6
  <2> QED BY <2>3, <2>4
<1>8. 0 \in U
  <2>1. n - 0 = n /\ (n + 1) - n = 1 /\ 0 \in 0..n
    OBVIOUS
  <2>2. Hung(anchor, anchor.root, g[n].size, 0)
    BY <1>6, <1>7, RootHung
  <2> QED BY <1>3, <1>5, <2>1, <2>2
<1>9. ASSUME NEW k \in 1..n, In(k)
      PROVE  /\ Hung(anchor, f[(n + 1) - k].hash, f[(n + 1) - k].size, f[(n + 1) - k].start)
             /\ In(k - 1)
  <2>1. PICK j \in 1..n : j = (n + 1) - k /\ j + 1 = (n + 1) - (k - 1) /\ j \in 1..(n + 1)
                          /\ j + 1 \in 1..(n + 1)
    <3>1. (n + 1) - k \in 1..n /\ ((n + 1) - k) + 1 = (n + 1) - (k - 1)
          /\ (n + 1) - k \in 1..(n + 1) /\ ((n + 1) - k) + 1 \in 1..(n + 1)
      OBVIOUS
    <3> QED BY <3>1
  <2> DEFINE lifted == Lift(g[k - 1], f[j].size).hash
  <2>2. Hung(anchor, NodeHash(f[j].hash, lifted), 2 * f[j].size, f[j].start)
    BY <1>4, <1>9, <2>1
  <2>3. /\ f[j].size \in Nat /\ IsPower(f[j].size) /\ f[j + 1].start = f[j].start + f[j].size
        /\ f[j + 1].start < N /\ 2 * f[j + 1].size <= f[j].size /\ IsPower(f[j + 1].size)
        /\ f[j + 1].size \in Nat
    <3>1. j \in 1..Len(f) /\ j + 1 \in 1..Len(f) /\ j \in 1..(Len(f) - 1)
      BY <1>2, <2>1
    <3>2. /\ IsPower(f[j].size) /\ IsPower(f[j + 1].size) /\ f[j + 1].start \in Nat
          /\ f[j + 1].start + f[j + 1].size <= N
          /\ f[j + 1].start = f[j].start + f[j].size /\ 2 * f[j + 1].size <= f[j].size
      BY <3>1 DEF Falling
    <3>3. f[j].size \in Nat \ {0} /\ f[j + 1].size \in Nat \ {0}
      BY <3>2, PowersApart
    <3> QED BY <1>1, <3>2, <3>3
  <2>4. /\ Hung(anchor, f[j].hash, f[j].size, f[j].start)
        /\ Hung(anchor, lifted, f[j].size, f[j + 1].start)
    <3> HIDE DEF lifted
    <3> QED BY <2>2, <2>3, HalvesHung
  <2>5. IsPower(g[k - 1].size) /\ g[k - 1].size <= f[j].size
    <3>1. CASE k = 1
      <4>1. j + 1 = n + 1 /\ k - 1 = 0
        BY <2>1, <3>1
      <4>2. g[k - 1].size = f[j + 1].size
        BY <1>3, <4>1
      <4> QED BY <2>3, <4>2
    <3>2. CASE k # 1
      <4>1. k - 1 \in 1..n
        BY <3>2
      <4>2. g[k - 1].size = 2 * f[j + 1].size
        BY <1>4, <2>1, <4>1
      <4>3. IsPower(2 * f[j + 1].size)
        BY <2>3, PowerDoubles
      <4> QED BY <2>3, <4>2, <4>3
    <3> QED BY <3>1, <3>2
  <2>6. Hung(anchor, g[k - 1].hash, g[k - 1].size, f[j + 1].start)
    BY <2>3, <2>4, <2>5, LiftHung
  <2> QED BY <2>1, <2>4, <2>6
<1>10. \A k \in 0..n : In(k)
  <2>1. ASSUME NEW k \in 1..n, k - 1 \in U PROVE k \in U
    <3>1. n - (k - 1) \in 1..n /\ (n - (k - 1)) - 1 = n - k
      OBVIOUS
    <3> HIDE DEF In
    <3> QED BY <1>9, <2>1, <3>1
  <2>2. \A k \in 0..n : k \in U
    <3> HIDE DEF U
    <3> QED BY <1>8, <2>1, InductionUpTo
  <2>3. ASSUME NEW k \in 0..n PROVE In(k)
    <3>1. n - k \in 0..n /\ n - (n - k) = k
      OBVIOUS
    <3>2. n - k \in U
      <4> HIDE DEF U
      <4> QED BY <2>2, <3>1
    <3>3. In(n - (n - k))
      BY <3>2
    <3> HIDE DEF In
    <3> QED BY <3>1, <3>3
  <2> QED BY <2>3
<1>11. ASSUME NEW j \in 1..(n + 1) PROVE Hung(anchor, f[j].hash, f[j].size, f[j].start)
  <2>1. CASE j = n + 1
    <3>1. In(0) /\ (n + 1) - 0 = n + 1
      BY <1>10
    <3> QED BY <1>3, <2>1, <3>1
  <2>2. CASE j # n + 1
    <3>1. (n + 1) - j \in 1..n /\ (n + 1) - ((n + 1) - j) = j /\ (n + 1) - j \in 0..n
      BY <2>2
    <3>2. In((n + 1) - j)
      <4> HIDE DEF In
      <4> QED BY <1>10, <3>1
    <3> QED BY <1>9, <3>1, <3>2
  <2> QED BY <2>1, <2>2
<1> QED BY <1>2, <1>11

-----------------------------------------------------------------------------
(* The shapes of what is appended. *)

(* A number below the divisor is its own remainder. *)
LEMMA SmallRemainder ==
  ASSUME NEW n \in Nat, NEW m \in Nat, n < m
  PROVE  n % m = n
OBVIOUS

(* The lowest bit of a positive number is positive. *)
LEMMA LowestBitPositive ==
  ASSUME NEW n \in Nat \ {0}
  PROVE  LowestBit(n) \in Nat \ {0}
<1> DEFINE P(k) == n % PowerOfTwo[k] = 0 /\ n % PowerOfTwo[k + 1] # 0
           T == {k \in 0..n : n % PowerOfTwo[k] = 0}
           c == CHOOSE k \in 0..n : P(k)
<1>1. \A k \in Nat : PowerOfTwo[k] \in Nat \ {0} /\ PowerOfTwo[k] > k /\ PowerOfTwo[0] = 1
  BY PowerFacts
<1>2. 0 \in T
  <2>1. n % 1 = 0 /\ 0 \in 0..n
    OBVIOUS
  <2> QED BY <1>1, <2>1
<1>3. PICK k \in T : \A l \in T : l <= k
  <2>1. T \subseteq Nat /\ \A l \in T : l <= n
    OBVIOUS
  <2> HIDE DEF T
  <2> QED BY <1>2, <2>1, GreatestElement
<1>4. k # n
  <2>1. n % PowerOfTwo[n] = n
    BY <1>1, SmallRemainder
  <2> QED BY <1>3, <2>1
<1>5. k \in 0..n /\ P(k)
  <2>1. k + 1 \in 0..n /\ k + 1 \notin T
    BY <1>3, <1>4
  <2> QED BY <1>3, <2>1
<1>6. c \in 0..n
  <2> HIDE DEF P
  <2> QED BY <1>5
<1>7. LowestBit(n) = PowerOfTwo[c]
  BY DEF LowestBit
<1> HIDE DEF c
<1> QED BY <1>1, <1>6, <1>7

(* How many leaves the block at the cursor covers. *)
StepSize(cursor, end) ==
  IF cursor = 0 \/ LargestPower(end - cursor) < LowestBit(cursor) THEN LargestPower(end - cursor)
  ELSE LowestBit(cursor)

(* The next block of a suffix is not empty and does not pass its end. *)
LEMMA StepSizeFits ==
  ASSUME NEW cursor \in Nat, NEW end \in Nat, cursor < end
  PROVE  StepSize(cursor, end) \in 1..(end - cursor)
<1>1. end - cursor \in Nat \ {0}
  OBVIOUS
<1>2. LargestPower(end - cursor) \in 1..(end - cursor)
  BY <1>1, LargestPowerFacts
<1>3. cursor # 0 => LowestBit(cursor) \in Nat \ {0}
  BY LowestBitPositive
<1> QED BY <1>2, <1>3 DEF StepSize

(* A list of blocks of some size each. *)
Sized(s) == Listed(s) /\ \A j \in 1..Len(s) : s[j].size \in Nat \ {0}

SuffixStep(end, g, r) ==
  IF r = 0 THEN <<>>
  ELSE <<[start |-> end - r, size |-> StepSize(end - r, end)]>> \o g[r - StepSize(end - r, end)]
Suffixing == INSTANCE NaturalOrder_proofs WITH Recur <- SuffixStep

(* The shapes of a suffix: the next block, then those from its end on. *)
LEMMA SuffixShapesUnfold ==
  ASSUME NEW start \in Nat, NEW end \in Nat, start <= end
  PROVE  \E g : /\ SuffixShapes(start, end) = g[start] /\ g[end] = <<>>
                /\ \A cursor \in start..(end - 1) :
                     g[cursor] = <<[start |-> cursor, size |-> StepSize(cursor, end)]>>
                                   \o g[cursor + StepSize(cursor, end)]
<1> DEFINE e(g, cursor) ==
             IF cursor = end THEN <<>>
             ELSE LET most == LargestPower(end - cursor)
                      size == IF cursor = 0 \/ most < LowestBit(cursor) THEN most
                              ELSE LowestBit(cursor)
                  IN  <<[start |-> cursor, size |-> size]>> \o g[cursor + size]
           G == CHOOSE g : g = [cursor \in start..end |-> e(g, cursor)]
           n == end - start
<1>1. n \in Nat
  OBVIOUS
<1>2. ASSUME NEW r \in 1..n
      PROVE  r - StepSize(end - r, end) \in 0..(r - 1)
  <2>1. end - r \in Nat /\ end - r < end /\ end - (end - r) = r
    OBVIOUS
  <2>2. StepSize(end - r, end) \in 1..r
    BY <2>1, StepSizeFits
  <2> QED BY <2>2
<1>3. Suffixing!LooksBelow(end, n)
  <2>1. ASSUME NEW k \in 0..n, NEW g, NEW h, \A m \in 0..(k - 1) : g[m] = h[m]
        PROVE  SuffixStep(end, g, k) = SuffixStep(end, h, k)
    <3>1. CASE k = 0
      BY <3>1 DEF SuffixStep
    <3>2. CASE k # 0
      <4>1. k - StepSize(end - k, end) \in 0..(k - 1)
        BY <1>2, <3>2
      <4>2. g[k - StepSize(end - k, end)] = h[k - StepSize(end - k, end)]
        BY <2>1, <4>1
      <4> QED BY <3>2, <4>2 DEF SuffixStep
    <3> QED BY <3>1, <3>2
  <2> QED BY <2>1 DEF Suffixing!LooksBelow
<1>4. PICK f : f = [r \in 0..n |-> SuffixStep(end, f, r)]
  BY <1>1, <1>3, Suffixing!RecursionExists DEF Suffixing!Recursive
<1> DEFINE h == [cursor \in start..end |-> f[end - cursor]]
<1>5. ASSUME NEW cursor \in start..end PROVE h[cursor] = e(h, cursor)
  <2>1. end - cursor \in 0..n /\ end - (end - cursor) = cursor
    OBVIOUS
  <2>2. f[end - cursor] = SuffixStep(end, f, end - cursor)
    BY <1>4, <2>1
  <2>3. CASE cursor = end
    BY <2>2, <2>3 DEF SuffixStep
  <2>4. CASE cursor # end
    <3> DEFINE s == StepSize(cursor, end)
    <3>1. s \in 1..(end - cursor)
      BY <2>4, StepSizeFits
    <3>2. cursor + s \in start..end /\ end - (cursor + s) = (end - cursor) - s
      <4> HIDE DEF s
      <4> QED BY <3>1
    <3>3. h[cursor + s] = f[(end - cursor) - s]
      <4> HIDE DEF s
      <4> QED BY <3>2
    <3>4. f[end - cursor] = <<[start |-> cursor, size |-> s]>> \o f[(end - cursor) - s]
      BY <2>1, <2>2, <2>4 DEF SuffixStep
    <3>5. h[cursor] = <<[start |-> cursor, size |-> s]>> \o h[cursor + s]
      BY <3>3, <3>4
    <3> HIDE DEF h
    <3> QED BY <2>4, <3>5 DEF StepSize
  <2> QED BY <2>3, <2>4
<1>6. h = [cursor \in start..end |-> h[cursor]]
  OBVIOUS
<1> HIDE DEF h
<1>7. h = [cursor \in start..end |-> e(h, cursor)]
  <2> HIDE DEF e
  <2> QED BY <1>5, <1>6
<1>8. G = [cursor \in start..end |-> e(G, cursor)]
  <2>1. \E g : g = [cursor \in start..end |-> e(g, cursor)]
    BY <1>7
  <2> QED BY <2>1, Zenon
<1>9. SuffixShapes(start, end) = G[start]
  BY Zenon DEF SuffixShapes
<1> HIDE DEF G
<1>10. \A cursor \in start..end : G[cursor] = e(G, cursor)
  <2> HIDE DEF e
  <2> QED BY <1>8
<1>11. G[end] = <<>>
  <2>1. end \in start..end
    OBVIOUS
  <2> QED BY <1>10, <2>1
<1>12. ASSUME NEW cursor \in start..(end - 1)
       PROVE  G[cursor] = <<[start |-> cursor, size |-> StepSize(cursor, end)]>>
                           \o G[cursor + StepSize(cursor, end)]
  <2>1. cursor \in start..end /\ cursor # end
    OBVIOUS
  <2>2. G[cursor] = e(G, cursor)
    BY <1>10, <2>1
  <2> QED BY <2>1, <2>2 DEF StepSize
<1> QED BY <1>9, <1>11, <1>12

(* The shapes of a suffix are all of a positive size. *)
LEMMA SuffixShapesSized ==
  ASSUME NEW start \in Nat, NEW end \in Nat, start <= end
  PROVE  Sized(SuffixShapes(start, end))
<1>1. PICK g : /\ SuffixShapes(start, end) = g[start] /\ g[end] = <<>>
               /\ \A cursor \in start..(end - 1) :
                    g[cursor] = <<[start |-> cursor, size |-> StepSize(cursor, end)]>>
                                  \o g[cursor + StepSize(cursor, end)]
  BY SuffixShapesUnfold
<1> DEFINE U == {r \in 0..(end - start) : ~Sized(g[end - r])}
<1>2. U = {}
  <2>1. SUFFICES ASSUME U # {} PROVE FALSE
    OBVIOUS
  <2>2. PICK r \in U : \A q \in U : r <= q
    <3>1. U \subseteq Nat
      OBVIOUS
    <3> HIDE DEF U
    <3> QED BY <2>1, <3>1, LeastElement
  <2>3. CASE r = 0
    <3>1. end - r = end
      BY <2>3
    <3>2. Listed(<<>>) /\ Len(<<>>) = 0
      BY DEF Listed
    <3>3. Sized(g[end - r])
      BY <1>1, <3>1, <3>2 DEF Sized
    <3> QED BY <2>2, <3>3
  <2>4. CASE r # 0
    <3> DEFINE cursor == end - r
               s == StepSize(cursor, end)
               x == [start |-> cursor, size |-> s]
               t == g[cursor + s]
    <3>1. cursor \in start..(end - 1) /\ cursor \in Nat /\ cursor < end
      BY <2>4
    <3>2. s \in 1..(end - cursor)
      BY <3>1, StepSizeFits
    <3>3. PICK q \in 0..(end - start) : q < r /\ cursor + s = end - q
      <4> DEFINE q == r - s
      <4>1. q \in 0..(end - start) /\ q < r /\ cursor + s = end - q
        <5> HIDE DEF s
        <5> QED BY <3>1, <3>2
      <4> QED BY <4>1
    <3>4. Sized(t)
      <4>1. q \notin U
        <5>1. ~(r <= q)
          BY <3>3
        <5> HIDE DEF U
        <5> QED BY <2>2, <5>1
      <4>2. Sized(g[end - q])
        BY <4>1
      <4> QED BY <3>3, <4>2
    <3>5. g[end - r] = <<x>> \o t
      BY <1>1, <3>1
    <3>6. x.size = s
      OBVIOUS
    <3> HIDE DEF x, t, s, cursor
    <3>7. /\ Listed(g[end - r]) /\ Len(g[end - r]) = Len(t) + 1 /\ g[end - r][1] = x
          /\ \A j \in 1..Len(t) : g[end - r][j + 1] = t[j]
      <4>1. Listed(t)
        BY <3>4 DEF Sized
      <4> QED BY <3>5, <4>1, ConsFacts
    <3>8. ASSUME NEW j \in 1..Len(g[end - r]) PROVE g[end - r][j].size \in Nat \ {0}
      <4>1. CASE j = 1
        BY <3>2, <3>6, <3>7, <4>1
      <4>2. CASE j # 1
        <5>1. Len(t) \in Nat
          BY <3>4 DEF Sized, Listed
        <5>2. j - 1 \in 1..Len(t) /\ (j - 1) + 1 = j
          BY <3>7, <4>2, <5>1
        <5>3. g[end - r][j] = t[j - 1]
          BY <3>7, <5>2
        <5> QED BY <3>4, <5>2, <5>3 DEF Sized
      <4> QED BY <4>1, <4>2
    <3>9. Sized(g[end - r])
      BY <3>7, <3>8 DEF Sized
    <3> QED BY <2>2, <3>9
  <2> QED BY <2>3, <2>4
<1>3. Sized(g[start])
  <2>1. end - start \in 0..(end - start) /\ end - (end - start) = start
    OBVIOUS
  <2>2. end - start \notin U
    BY <1>2
  <2> QED BY <2>1, <2>2
<1> QED BY <1>1, <1>3

-----------------------------------------------------------------------------
(* Merging blocks. *)

AllPlaced(leaves, s) ==
  \A j \in 1..Len(s) : /\ Placed(leaves, s[j].hash, s[j].size, s[j].start)
                       /\ s[j].start + s[j].size <= Len(leaves)

AllHung(anchor, s) ==
  \A j \in 1..Len(s) : /\ Hung(anchor, s[j].hash, s[j].size, s[j].start)
                       /\ s[j].start + s[j].size <= anchor.size

(* What was merged into blocks that hang on a root hangs on it. *)
Merged(anchor, s, t) ==
  /\ Sized(t)
  /\ AllHung(anchor, t) => AllHung(anchor, s)

(* What was merged into the merger of others was merged from those. *)
LEMMA MergedInTurn ==
  ASSUME NEW anchor, NEW s, NEW t, NEW u, Merged(anchor, s, t), Merged(anchor, t, u)
  PROVE  Merged(anchor, s, u)
BY DEF Merged

(* Merging the last two blocks loses nothing: both hang if the merger does. *)
LEMMA MergeLastHung ==
  ASSUME NEW anchor, NEW s, anchor.size \in Nat \ {0}, Sized(s)
  PROVE  Merged(anchor, s, MergeLast(s))
<1> DEFINE n == Len(s)
           t == MergeLast(s)
<1>1. n \in Nat /\ Listed(s) /\ \A j \in 1..n : s[j].size \in Nat \ {0}
  BY DEF Sized, Listed
<1>2. CASE \/ n < 2 \/ s[n - 1].size # s[n].size
           \/ s[n - 1].start + s[n - 1].size # s[n].start
  <2>1. t = s
    BY <1>2 DEF MergeLast
  <2> QED BY <2>1 DEF Merged
<1>3. CASE ~(\/ n < 2 \/ s[n - 1].size # s[n].size
             \/ s[n - 1].start + s[n - 1].size # s[n].start)
  <2> DEFINE l == s[n - 1]
             r == s[n]
             b == [start |-> l.start, size |-> 2 * r.size, hash |-> NodeHash(l.hash, r.hash)]
  <2>1. n - 2 \in Nat /\ n - 2 <= n /\ n - 1 \in 1..n /\ n \in 1..n /\ (n - 2) + 1 = n - 1
        /\ l.size = r.size /\ l.start + l.size = r.start
    BY <1>1, <1>3
  <2>2. t = Append(SubSeq(s, 1, n - 2), b)
    BY <1>3 DEF MergeLast
  <2>3. b.start = l.start /\ b.size = 2 * r.size /\ b.hash = NodeHash(l.hash, r.hash)
    OBVIOUS
  <2>4. r.size \in Nat \ {0}
    BY <1>1, <2>1
  <2> HIDE DEF b, l, r, t, n
  <2>5. /\ Listed(SubSeq(s, 1, n - 2)) /\ Len(SubSeq(s, 1, n - 2)) = n - 2
        /\ \A i \in 1..(n - 2) : SubSeq(s, 1, n - 2)[i] = s[i]
    BY <1>1, <2>1, FirstFacts DEF n
  <2>6. /\ Listed(t) /\ Len(t) = n - 1 /\ t[n - 1] = b
        /\ \A i \in 1..(n - 2) : t[i] = s[i]
    BY <2>1, <2>2, <2>5, AppendFacts
  <2>7. Sized(t)
    <3>1. ASSUME NEW j \in 1..(n - 1) PROVE t[j].size \in Nat \ {0}
      <4>1. CASE j = n - 1
        BY <2>3, <2>4, <2>6, <4>1
      <4>2. CASE j # n - 1
        <5>1. j \in 1..(n - 2) /\ j \in 1..n
          BY <1>1, <4>2
        <5> QED BY <1>1, <2>6, <5>1
      <4> QED BY <4>1, <4>2
    <3> QED BY <2>6, <3>1 DEF Sized
  <2>8. ASSUME AllHung(anchor, t) PROVE AllHung(anchor, s)
    <3>1. \A j \in 1..(n - 1) : /\ Hung(anchor, t[j].hash, t[j].size, t[j].start)
                                /\ t[j].start + t[j].size <= anchor.size
      BY <2>6, <2>8 DEF AllHung
    <3>2. /\ Hung(anchor, NodeHash(l.hash, r.hash), 2 * r.size, l.start)
          /\ l.start + 2 * r.size <= anchor.size
      <4>1. n - 1 \in 1..(n - 1)
        BY <1>1, <2>1
      <4> QED BY <2>3, <2>6, <3>1, <4>1
    <3>3. anchor.size \in Nat
      OBVIOUS
    <3>4. Hung(anchor, l.hash, r.size, l.start) /\ l.start \in Nat
      BY <2>4, <3>2, HalvesHung
    <3>5. Hung(anchor, r.hash, r.size, l.start + r.size)
      <4>1. l.start + r.size < anchor.size
        BY <2>4, <3>2, <3>3, <3>4
      <4> QED BY <2>4, <3>2, <4>1, HalvesHung
    <3>6. l.start + r.size <= anchor.size /\ r.start + r.size <= anchor.size
      BY <2>1, <2>4, <3>2, <3>3, <3>4
    <3>7. ASSUME NEW j \in 1..n
          PROVE  /\ Hung(anchor, s[j].hash, s[j].size, s[j].start)
                 /\ s[j].start + s[j].size <= anchor.size
      <4>1. CASE j = n
        BY <2>1, <3>5, <3>6, <4>1 DEF r
      <4>2. CASE j = n - 1
        BY <2>1, <3>4, <3>6, <4>2 DEF l
      <4>3. CASE j # n /\ j # n - 1
        <5>1. j \in 1..(n - 2) /\ j \in 1..(n - 1)
          BY <1>1, <4>3
        <5> QED BY <2>6, <3>1, <5>1
      <4> QED BY <4>1, <4>2, <4>3
    <3> QED BY <3>7 DEF AllHung, n
  <2> QED BY <2>7, <2>8 DEF Merged, t
<1> QED BY <1>2, <1>3

MergeStep(p, g, k) == IF k = 0 THEN Append(p[1], p[2]) ELSE MergeLast(g[k - 1])
Merging == INSTANCE NaturalOrder_proofs WITH Recur <- MergeStep

Carries(g, frontier, block) ==
  /\ AppendBlock(frontier, block) = g[Len(frontier)]
  /\ g[0] = Append(frontier, block)
  /\ \A k \in 1..Len(frontier) : g[k] = MergeLast(g[k - 1])

(* Appending a block is a run of carries. *)
LEMMA AppendBlockUnfolds ==
  ASSUME NEW frontier, NEW block, Len(frontier) \in Nat
  PROVE  \E g : Carries(g, frontier, block)
<1> DEFINE n == Len(frontier)
           p == <<frontier, block>>
           e(g, k) == IF k = 0 THEN Append(frontier, block) ELSE MergeLast(g[k - 1])
           G == CHOOSE g : g = [k \in 0..n |-> e(g, k)]
<1>1. \A g, k : MergeStep(p, g, k) = e(g, k)
  <2>1. p[1] = frontier /\ p[2] = block
    OBVIOUS
  <2> HIDE DEF p
  <2> QED BY <2>1 DEF MergeStep
<1>2. Merging!LooksBelow(p, n)
  <2>1. \A k \in 0..n : \A g, h : (\A m \in 0..(k - 1) : g[m] = h[m]) => e(g, k) = e(h, k)
    OBVIOUS
  <2> HIDE DEF p, e
  <2> QED BY <1>1, <2>1 DEF Merging!LooksBelow
<1>3. \E g : g = [k \in 0..n |-> MergeStep(p, g, k)]
  BY <1>2, Merging!RecursionExists DEF Merging!Recursive
<1>4. \E g : g = [k \in 0..n |-> e(g, k)]
  <2> HIDE DEF p, e
  <2> QED BY <1>1, <1>3
<1>5. G = [k \in 0..n |-> e(G, k)]
  BY <1>4, Zenon
<1>6. AppendBlock(frontier, block) = G[n]
  BY Zenon DEF AppendBlock
<1> HIDE DEF G
<1>7. \A k \in 0..n : G[k] = e(G, k)
  <2> HIDE DEF e
  <2> QED BY <1>5
<1>8. Carries(G, frontier, block)
  <2>1. n \in Nat
    OBVIOUS
  <2>2. G[0] = Append(frontier, block)
    <3>1. 0 \in 0..n
      BY <2>1
    <3> QED BY <1>7, <3>1
  <2>3. ASSUME NEW k \in 1..n PROVE G[k] = MergeLast(G[k - 1])
    <3>1. k \in 0..n /\ k # 0
      BY <2>1
    <3> QED BY <1>7, <3>1
  <2> QED BY <1>6, <2>2, <2>3 DEF Carries
<1> QED BY <1>8

(* A frontier with a block appended is merged from the frontier. *)
LEMMA AppendBlockHung ==
  ASSUME NEW anchor, NEW frontier, NEW block,
         anchor.size \in Nat \ {0}, Sized(frontier), block.size \in Nat \ {0}
  PROVE  Merged(anchor, frontier, AppendBlock(frontier, block))
<1> DEFINE n == Len(frontier)
<1>1. n \in Nat /\ Listed(frontier) /\ \A j \in 1..n : frontier[j].size \in Nat \ {0}
  BY DEF Sized, Listed
<1>2. PICK g : /\ AppendBlock(frontier, block) = g[n]
               /\ g[0] = Append(frontier, block)
               /\ \A k \in 1..n : g[k] = MergeLast(g[k - 1])
  <2>1. Len(frontier) \in Nat
    BY <1>1
  <2>2. \E g : Carries(g, frontier, block)
    BY <2>1, AppendBlockUnfolds
  <2> QED BY <2>2 DEF Carries
<1> DEFINE T == {k \in 0..n : Merged(anchor, frontier, g[k])}
<1>3. 0 \in T
  <2>1. /\ Listed(g[0]) /\ Len(g[0]) = n + 1 /\ g[0][n + 1] = block
        /\ \A i \in 1..n : g[0][i] = frontier[i]
    BY <1>1, <1>2, AppendFacts
  <2>2. Sized(g[0])
    <3>1. ASSUME NEW j \in 1..(n + 1) PROVE g[0][j].size \in Nat \ {0}
      <4>1. j = n + 1 \/ j \in 1..n
        BY <1>1
      <4> QED BY <1>1, <2>1, <4>1
    <3> QED BY <2>1, <3>1 DEF Sized
  <2>3. AllHung(anchor, g[0]) => AllHung(anchor, frontier)
    <3>1. \A i \in 1..n : i \in 1..(n + 1)
      BY <1>1
    <3> QED BY <2>1, <3>1 DEF AllHung
  <2>4. Merged(anchor, frontier, g[0])
    BY <2>2, <2>3 DEF Merged
  <2> QED BY <1>1, <2>4
<1>4. ASSUME NEW k \in 1..n, k - 1 \in T PROVE k \in T
  <2>1. Merged(anchor, frontier, g[k - 1]) /\ g[k] = MergeLast(g[k - 1])
    BY <1>2, <1>4
  <2>2. Merged(anchor, g[k - 1], g[k])
    BY <2>1, MergeLastHung DEF Merged
  <2>3. Merged(anchor, frontier, g[k])
    BY <2>1, <2>2, MergedInTurn
  <2> QED BY <2>3
<1>5. n \in T
  <2>1. \A k \in 0..n : k \in T
    <3> HIDE DEF T
    <3> QED BY <1>1, <1>3, <1>4, InductionUpTo
  <2> HIDE DEF T
  <2> QED BY <1>1, <2>1
<1> QED BY <1>2, <1>5

ExtendStep(p, g, k) == IF k = 0 THEN p[1] ELSE AppendBlock(g[k - 1], p[2][k])
Extending == INSTANCE NaturalOrder_proofs WITH Recur <- ExtendStep

(* Appending blocks is appending them one after the other. *)
LEMMA AppendBlocksUnfold ==
  ASSUME NEW frontier, NEW blocks, Len(blocks) \in Nat
  PROVE  \E g : /\ AppendBlocks(frontier, blocks) = g[Len(blocks)]
                /\ g[0] = frontier
                /\ \A k \in 1..Len(blocks) : g[k] = AppendBlock(g[k - 1], blocks[k])
<1> DEFINE n == Len(blocks)
           p == <<frontier, blocks>>
           e(g, k) == IF k = 0 THEN frontier ELSE AppendBlock(g[k - 1], blocks[k])
           G == CHOOSE g : g = [k \in 0..n |-> e(g, k)]
<1>1. \A g, k : ExtendStep(p, g, k) = e(g, k)
  <2>1. p[1] = frontier /\ p[2] = blocks
    OBVIOUS
  <2> HIDE DEF p
  <2> QED BY <2>1 DEF ExtendStep
<1>2. Extending!LooksBelow(p, n)
  <2>1. \A k \in 0..n : \A g, h : (\A m \in 0..(k - 1) : g[m] = h[m]) => e(g, k) = e(h, k)
    OBVIOUS
  <2> HIDE DEF p, e
  <2> QED BY <1>1, <2>1 DEF Extending!LooksBelow
<1>3. \E g : g = [k \in 0..n |-> ExtendStep(p, g, k)]
  BY <1>2, Extending!RecursionExists DEF Extending!Recursive
<1>4. \E g : g = [k \in 0..n |-> e(g, k)]
  <2> HIDE DEF p, e
  <2> QED BY <1>1, <1>3
<1>5. G = [k \in 0..n |-> e(G, k)]
  BY <1>4, Zenon
<1>6. AppendBlocks(frontier, blocks) = G[n]
  BY Zenon DEF AppendBlocks
<1> HIDE DEF G
<1>7. \A k \in 0..n : G[k] = e(G, k)
  <2> HIDE DEF e
  <2> QED BY <1>5
<1> QED BY <1>6, <1>7

(* A frontier with blocks appended is merged from the frontier. *)
LEMMA AppendBlocksHung ==
  ASSUME NEW anchor, NEW frontier, NEW blocks,
         anchor.size \in Nat \ {0}, Sized(frontier), Sized(blocks)
  PROVE  Merged(anchor, frontier, AppendBlocks(frontier, blocks))
<1> DEFINE n == Len(blocks)
<1>1. n \in Nat /\ \A j \in 1..n : blocks[j].size \in Nat \ {0}
  BY DEF Sized, Listed
<1>2. PICK g : /\ AppendBlocks(frontier, blocks) = g[n]
               /\ g[0] = frontier
               /\ \A k \in 1..n : g[k] = AppendBlock(g[k - 1], blocks[k])
  BY <1>1, AppendBlocksUnfold
<1> DEFINE T == {k \in 0..n : Merged(anchor, frontier, g[k])}
<1>3. 0 \in T
  BY <1>1, <1>2 DEF Merged
<1>4. ASSUME NEW k \in 1..n, k - 1 \in T PROVE k \in T
  <2>1. /\ Merged(anchor, frontier, g[k - 1]) /\ g[k] = AppendBlock(g[k - 1], blocks[k])
        /\ blocks[k].size \in Nat \ {0}
    BY <1>1, <1>2, <1>4
  <2>2. Merged(anchor, g[k - 1], g[k])
    BY <2>1, AppendBlockHung DEF Merged
  <2>3. Merged(anchor, frontier, g[k])
    BY <2>1, <2>2, MergedInTurn
  <2> QED BY <2>3
<1>5. n \in T
  <2>1. \A k \in 0..n : k \in T
    <3> HIDE DEF T
    <3> QED BY <1>1, <1>3, <1>4, InductionUpTo
  <2> HIDE DEF T
  <2> QED BY <1>1, <2>1
<1> QED BY <1>2, <1>5

-----------------------------------------------------------------------------
(* A hash has one place only, and what is in a place is determined by it. *)

(* Only the power of 0 is 1. *)
LEMMA PowerIsOne ==
  ASSUME NEW h \in Nat, PowerOfTwo[h] = 1
  PROVE  h = 0
<1>1. PowerOfTwo[0] = 1
  BY PowerFacts
<1>2. 0 < h => 2 * PowerOfTwo[0] <= PowerOfTwo[h]
  BY PowerMonotone
<1> QED BY <1>1, <1>2

(* A single position's place is held by its leaf. *)
LEMMA PlacedAlone ==
  ASSUME NEW leaves, NEW hash, NEW start, LeafSequence(leaves), Placed(leaves, hash, 1, start)
  PROVE  start \in Nat /\ hash = leaves[start + 1]
<1>1. PICK h, i : /\ OnLevel(leaves, h, i) /\ hash = At(leaves, h, i)
                  /\ 1 = PowerOfTwo[h] /\ start = i * PowerOfTwo[h]
  BY DEF Placed
<1>2. h \in Nat /\ i \in Nat
  <2>1. Top(leaves) \in Nat
    BY TopFacts
  <2> QED BY <1>1, <2>1 DEF OnLevel
<1>3. h = 0 /\ start = i
  <2>1. h = 0
    BY <1>1, <1>2, PowerIsOne
  <2>2. start = i * 1
    BY <1>1
  <2> QED BY <1>2, <2>1, <2>2
<1> QED BY <1>1, <1>2, <1>3, TopFacts

(* A place of more than one position is held by a node. *)
LEMMA PlacedIsNode ==
  ASSUME NEW leaves, NEW hash, NEW size, NEW start,
         LeafSequence(leaves), size > 1, size \in Nat, Placed(leaves, hash, size, start)
  PROVE  \E left, right : hash = NodeHash(left, right)
<1>1. PICK h, i : /\ OnLevel(leaves, h, i) /\ hash = At(leaves, h, i)
                  /\ size = PowerOfTwo[h]
  BY DEF Placed
<1>2. h \in Nat
  <2>1. Top(leaves) \in Nat
    BY TopFacts
  <2> QED BY <1>1, <2>1 DEF OnLevel
<1>3. PICK l \in Nat : h = l + 1
  <2>1. h # 0
    BY <1>1, PowerFacts
  <2>2. h - 1 \in Nat /\ h = (h - 1) + 1
    BY <1>2, <2>1
  <2> QED BY <2>2
<1>4. \E left, right : At(leaves, l + 1, i) = NodeHash(left, right)
  <2>1. OnLevel(leaves, l + 1, i)
    BY <1>1, <1>3
  <2> QED BY <2>1, NodeAt
<1> QED BY <1>1, <1>3, <1>4

(* The same hash in the same place of two trees is over the same leaves. *)
Agree(a, b, start, size) == \A p \in start..(start + size - 1) : a[p + 1] = b[p + 1]

SameLeaves(a, b, size) ==
  \A hash, start :
    /\ Placed(a, hash, size, start) /\ start + size <= Len(a)
    /\ Placed(b, hash, size, start) /\ start + size <= Len(b)
    => Agree(a, b, start, size)

(* If equal hashes of one size are over the same leaves, so are those of twice
   the size. *)
LEMMA HalvesAgree ==
  ASSUME NEW a, NEW b, NEW size, LeafSequence(a), LeafSequence(b),
         size \in Nat \ {0}, SameLeaves(a, b, size)
  PROVE  SameLeaves(a, b, 2 * size)
<1> SUFFICES ASSUME NEW hash, NEW start,
                    Placed(a, hash, 2 * size, start), start + 2 * size <= Len(a),
                    Placed(b, hash, 2 * size, start), start + 2 * size <= Len(b)
             PROVE  Agree(a, b, start, 2 * size)
  BY DEF SameLeaves
<1>1. PICK left, right : hash = NodeHash(left, right)
  <2>1. 2 * size \in Nat /\ 2 * size > 1
    OBVIOUS
  <2> QED BY <2>1, PlacedIsNode
<1>2. Len(a) \in Nat /\ Len(b) \in Nat /\ size \in Nat
  BY DEF LeafSequence
<1>3. Placed(a, NodeHash(left, right), 2 * size, start) /\ Placed(b, NodeHash(left, right), 2 * size, start)
  BY <1>1
<1>4. Placed(a, left, size, start) /\ Placed(b, left, size, start) /\ start \in Nat
  BY <1>2, <1>3, HalvesPlaced
<1>5. /\ start + size < Len(a) /\ start + size < Len(b)
      /\ (start + size) + size <= Len(a) /\ (start + size) + size <= Len(b)
      /\ start + size <= Len(a) /\ start + size <= Len(b)
  BY <1>2, <1>4
<1>6. Placed(a, right, size, start + size) /\ Placed(b, right, size, start + size)
  BY <1>2, <1>3, <1>5, HalvesPlaced
<1>7. Agree(a, b, start, size) /\ Agree(a, b, start + size, size)
  BY <1>4, <1>5, <1>6 DEF SameLeaves
<1>8. ASSUME NEW p \in start..(start + 2 * size - 1) PROVE a[p + 1] = b[p + 1]
  <2>1. p \in start..(start + size - 1) \/ p \in (start + size)..((start + size) + size - 1)
    BY <1>2, <1>4
  <2> QED BY <1>7, <2>1 DEF Agree
<1> QED BY <1>8 DEF Agree

(* Equal hashes in the same place of two trees are over the same leaves, at all
   sizes. *)
LEMMA PlacedAgree ==
  ASSUME NEW a, NEW b, NEW size, LeafSequence(a), LeafSequence(b), IsPower(size)
  PROVE  SameLeaves(a, b, size)
<1>1. PICK n \in Nat : size = PowerOfTwo[n]
  BY DEF IsPower
<1> DEFINE T == {k \in 0..n : SameLeaves(a, b, PowerOfTwo[k])}
<1>2. 0 \in T
  <2>1. SUFFICES SameLeaves(a, b, 1)
    BY <1>1, PowerFacts
  <2>2. SUFFICES ASSUME NEW hash, NEW start, Placed(a, hash, 1, start), Placed(b, hash, 1, start)
                 PROVE  Agree(a, b, start, 1)
    BY DEF SameLeaves
  <2>3. start \in Nat /\ a[start + 1] = b[start + 1]
    BY <2>2, PlacedAlone
  <2>4. \A p \in start..(start + 1 - 1) : p = start
    BY <2>3
  <2> QED BY <2>3, <2>4 DEF Agree
<1>3. ASSUME NEW k \in 1..n, k - 1 \in T PROVE k \in T
  <2>1. PowerOfTwo[k] = 2 * PowerOfTwo[k - 1] /\ PowerOfTwo[k - 1] \in Nat \ {0}
    <3>1. k - 1 \in Nat /\ (k - 1) + 1 = k
      BY <1>3
    <3> QED BY <3>1, PowerFacts
  <2>2. SameLeaves(a, b, PowerOfTwo[k])
    BY <1>3, <2>1, HalvesAgree
  <2> QED BY <2>2
<1>4. \A k \in 0..n : k \in T
  <2> HIDE DEF T
  <2> QED BY <1>1, <1>2, <1>3, InductionUpTo
<1>5. n \in T
  <2> HIDE DEF T
  <2>1. n \in 0..n
    OBVIOUS
  <2> QED BY <1>4, <2>1
<1> QED BY <1>1, <1>5

(* A list that falls from 0 covers every position. *)
LEMMA FallingCovers ==
  ASSUME NEW s, NEW size \in Nat, Falling(s, 0, size), NEW p \in 0..(size - 1)
  PROVE  \E j \in 1..Len(s) : p \in s[j].start..(s[j].start + s[j].size - 1)
<1> DEFINE T == {j \in 1..Len(s) : s[j].start <= p}
<1>1. /\ Len(s) \in Nat \ {0} /\ s[1].start = 0
      /\ s[Len(s)].start + s[Len(s)].size = size
      /\ \A j \in 1..(Len(s) - 1) : s[j + 1].start = s[j].start + s[j].size
  BY DEF Falling, Listed
<1>2. \A j \in 1..Len(s) : s[j].start \in Nat /\ s[j].size \in Nat
  <2>1. \A j \in 1..Len(s) : IsPower(s[j].size) /\ s[j].start \in Nat
    BY DEF Falling
  <2> QED BY <2>1, PowersApart
<1>3. PICK j \in T : \A i \in T : i <= j
  <2>1. T \subseteq Nat /\ 1 \in T /\ \A i \in T : i <= Len(s)
    BY <1>1
  <2> HIDE DEF T
  <2>2. T # {} /\ Len(s) \in Nat
    BY <1>1, <2>1
  <2> QED BY <2>1, <2>2, GreatestElement
<1>4. j \in 1..Len(s) /\ s[j].start <= p
  OBVIOUS
<1>5. p < s[j].start + s[j].size
  <2>1. CASE j = Len(s)
    BY <1>1, <1>2, <2>1
  <2>2. CASE j # Len(s)
    <3>1. j \in 1..(Len(s) - 1) /\ j + 1 \in 1..Len(s) /\ ~(j + 1 <= j)
      BY <1>1, <1>4, <2>2
    <3>2. ~(s[j + 1].start <= p)
      BY <1>3, <3>1
    <3>3. s[j + 1].start = s[j].start + s[j].size /\ s[j + 1].start \in Nat
      BY <1>1, <1>2, <3>1
    <3> QED BY <3>2, <3>3
  <2> QED BY <2>1, <2>2
<1>6. p \in s[j].start..(s[j].start + s[j].size - 1)
  <2>1. s[j].start \in Nat /\ s[j].size \in Nat
    BY <1>2, <1>4
  <2> QED BY <1>4, <1>5, <2>1
<1> QED BY <1>4, <1>6

(* A frontier whose blocks are in their places in two trees. *)
LEMMA CoveredAgree ==
  ASSUME NEW a, NEW b, NEW f, LeafSequence(a), LeafSequence(b),
         Falling(f, 0, Len(a)), AllPlaced(a, f), AllPlaced(b, f)
  PROVE  \A i \in 1..Len(a) : a[i] = b[i]
<1>1. ASSUME NEW i \in 1..Len(a) PROVE a[i] = b[i]
  <2>1. Len(a) \in Nat /\ i - 1 \in 0..(Len(a) - 1) /\ (i - 1) + 1 = i
    BY DEF LeafSequence
  <2>2. PICK j \in 1..Len(f) : i - 1 \in f[j].start..(f[j].start + f[j].size - 1)
    BY <2>1, FallingCovers
  <2>3. IsPower(f[j].size)
    BY DEF Falling
  <2>4. SameLeaves(a, b, f[j].size)
    BY <2>3, PlacedAgree
  <2>5. Agree(a, b, f[j].start, f[j].size)
    BY <2>4 DEF SameLeaves, AllPlaced
  <2> QED BY <2>1, <2>2, <2>5 DEF Agree
<1> QED BY <1>1

-----------------------------------------------------------------------------
(* Lists of blocks with the shapes the verifier recomputes. *)

(* The shapes of a list of blocks, one by one. *)
LEMMA ShapesOfList ==
  ASSUME NEW f, Listed(f)
  PROVE  /\ Len(Shapes(f)) = Len(f) /\ Listed(Shapes(f))
         /\ \A j \in 1..Len(f) : Shapes(f)[j].start = f[j].start /\ Shapes(f)[j].size = f[j].size
<1>1. PICK n \in Nat : n = Len(f)
  BY DEF Listed
<1>2. DOMAIN f = 1..n
  BY <1>1 DEF Listed
<1>3. Shapes(f) = [j \in 1..n |-> [start |-> f[j].start, size |-> f[j].size]]
  BY <1>2 DEF Shapes
<1>4. Shapes(f) = [j \in 1..n |-> Shapes(f)[j]]
  BY <1>3
<1>5. Listed(Shapes(f)) /\ Len(Shapes(f)) = n
  BY <1>4, ListOfLength
<1>6. \A j \in 1..n : Shapes(f)[j].start = f[j].start /\ Shapes(f)[j].size = f[j].size
  BY <1>3
<1> QED BY <1>1, <1>5, <1>6

(* Blocks fall if their shapes do. *)
LEMMA ShapesFall ==
  ASSUME NEW f, NEW to, Listed(f), Falling(Shapes(f), 0, to)
  PROVE  Falling(f, 0, to)
<1>1. /\ Len(Shapes(f)) = Len(f) /\ Len(f) \in Nat
      /\ \A j \in 1..Len(f) : Shapes(f)[j].start = f[j].start /\ Shapes(f)[j].size = f[j].size
  BY ShapesOfList DEF Listed
<1>2. 1 \in 1..Len(f) /\ Len(f) \in 1..Len(f) /\ Len(f) > 0
      /\ \A j \in 1..(Len(f) - 1) : j \in 1..Len(f) /\ j + 1 \in 1..Len(f)
  <2>1. Len(f) > 0
    BY <1>1 DEF Falling
  <2> QED BY <1>1, <2>1
<1> QED BY <1>1, <1>2 DEF Falling

(* Falling blocks have positive sizes. *)
LEMMA FallingSized ==
  ASSUME NEW f, NEW to, Falling(f, 0, to)
  PROVE  Sized(f)
<1>1. Listed(f) /\ \A j \in 1..Len(f) : IsPower(f[j].size)
  BY DEF Falling
<1> QED BY <1>1, PowersApart DEF Sized

(* Blocks have positive sizes if their shapes do. *)
LEMMA ShapesSized ==
  ASSUME NEW f, Listed(f), Sized(Shapes(f))
  PROVE  Sized(f)
<1>1. /\ Len(Shapes(f)) = Len(f)
      /\ \A j \in 1..Len(f) : Shapes(f)[j].start = f[j].start /\ Shapes(f)[j].size = f[j].size
  BY ShapesOfList
<1> QED BY <1>1 DEF Sized

-----------------------------------------------------------------------------
(* What a consistency proof binds, whoever made it. *)

(* If a frontier bags to an anchor's root, all its blocks hang on that root. *)
LEMMA RootHangsAll ==
  ASSUME NEW anchor, NEW f, anchor.size \in Nat \ {0}, Falling(f, 0, anchor.size),
         RootOfFrontier(f) = anchor.root
  PROVE  AllHung(anchor, f)
<1>1. \A j \in 1..Len(f) : Hung(anchor, f[j].hash, f[j].size, f[j].start)
  BY FrontierHung
<1>2. \A j \in 1..Len(f) : f[j].start + f[j].size <= anchor.size
  BY DEF Falling
<1> QED BY <1>1, <1>2 DEF AllHung

(* In the tree of some leaves, what hangs in a place is the node there.    *)
LEMMA HangsInTree ==
  ASSUME NEW leaves, LeafSequence(leaves), NEW anchor,
         anchor.size = Len(leaves), anchor.root = MerkleRoot(leaves)
  PROVE  \A h, i, x : Hangs(anchor, h, i, x) /\ i * PowerOfTwo[h] < Len(leaves)
                      => OnLevel(leaves, h, i) /\ x = At(leaves, h, i)
<1>1. PICK n \in Nat : n = Top(leaves) /\ n = PathLength[anchor.size]
                       /\ MerkleRoot(leaves) = At(leaves, n, 0)
  BY TopFacts DEF Top
<1>2. PICK N \in Nat \ {0} : N = Len(leaves) /\ N = anchor.size
  BY DEF LeafSequence
<1>3. \A h \in 0..n : \A i \in Nat : i * PowerOfTwo[h] < N => OnLevel(leaves, h, i)
  BY <1>1, <1>2, PositionsAt
<1> DEFINE In(h) == \A i, x : Hangs(anchor, h, i, x) /\ i * PowerOfTwo[h] < N
                              => x = At(leaves, h, i)
           T == {k \in 0..n : In(n - k)}
<1>4. 0 \in T
  <2>1. \A i, x : Hangs(anchor, n, i, x) => i = 0 /\ x = anchor.root
    BY <1>1, <1>2, HighestHangs
  <2>2. In(n)
    BY <1>1, <2>1
  <2> HIDE DEF In
  <2> QED BY <2>2
<1>5. ASSUME NEW k \in 1..n, k - 1 \in T PROVE k \in T
  <2>1. PICK h \in Nat : h = n - k /\ h + 1 = n - (k - 1) /\ h < n /\ h \in 0..n
                         /\ h + 1 \in 0..n
    <3>1. n - k \in Nat /\ (n - k) + 1 = n - (k - 1) /\ n - k < n /\ n - k \in 0..n
          /\ (n - k) + 1 \in 0..n
      OBVIOUS
    <3> QED BY <3>1
  <2>2. In(h + 1)
    <3> HIDE DEF In
    <3> QED BY <1>5, <2>1
  <2>3. PICK q \in Nat : q = PowerOfTwo[h] /\ PowerOfTwo[h + 1] = 2 * q
    BY PowerFacts
  <2>4. ASSUME NEW i, NEW x, Hangs(anchor, h, i, x), i * PowerOfTwo[h] < N
        PROVE  x = At(leaves, h, i)
    <3>1. i \in Nat
      BY <2>4 DEF Hangs
    <3>2. PICK j \in Nat : j = i \div 2 /\ (i = 2 * j \/ i = 2 * j + 1)
      BY <3>1
    <3>3. PICK y : Hangs(anchor, h + 1, j, y) /\ Joined(anchor.size, h, i, x, y)
      BY <1>1, <1>2, <2>1, <2>4, <3>2, HangsUp
    <3>4. j * PowerOfTwo[h + 1] < N
      <4>1. (2 * j) * q = j * (2 * q)
        BY DoubledPlace
      <4>2. (2 * j) * q <= i * q
        <5>1. (2 * j + 1) * q = (2 * j) * q + q /\ (2 * j) * q \in Nat
          OBVIOUS
        <5> QED BY <3>2, <5>1
      <4>3. i * q < N /\ i * q \in Nat
        BY <2>3, <2>4, <3>1
      <4>4. PICK a \in Nat, b \in Nat : a = (2 * j) * q /\ b = i * q /\ a = j * (2 * q)
        <5>1. (2 * j) * q \in Nat
          OBVIOUS
        <5> QED BY <4>1, <4>3, <5>1
      <4>5. a < N
        BY <4>2, <4>3, <4>4
      <4> QED BY <2>3, <4>4, <4>5
    <3>5. OnLevel(leaves, h + 1, j) /\ y = At(leaves, h + 1, j)
      BY <1>3, <2>1, <2>2, <3>3, <3>4
    <3>6. y = NodeHash(At(leaves, h, 2 * j),
                       IF 2 * j + 1 < Width(leaves, h) THEN At(leaves, h, 2 * j + 1)
                       ELSE At(leaves, h, 2 * j))
      BY <3>5, NodeAt
    <3>7. CASE i = 2 * j
      <4>1. i % 2 # 1
        BY <3>7
      <4>2. \E other : y = NodeHash(x, other)
        BY <3>3, <4>1 DEF Joined
      <4> QED BY <3>6, <3>7, <4>2, HashFacts
    <3>8. CASE i = 2 * j + 1
      <4>1. i % 2 = 1
        BY <3>8
      <4>2. \E other : y = NodeHash(other, x)
        BY <3>3, <4>1 DEF Joined
      <4>3. 2 * j + 1 < Width(leaves, h)
        BY <1>3, <2>1, <2>4, <3>1, <3>8 DEF OnLevel
      <4>4. y = NodeHash(At(leaves, h, 2 * j), At(leaves, h, i))
        BY <3>6, <3>8, <4>3
      <4> QED BY <4>2, <4>4 DEF NodeHash
    <3> QED BY <3>2, <3>7, <3>8
  <2>5. In(h)
    BY <2>4
  <2> HIDE DEF In
  <2> QED BY <2>1, <2>5
<1>6. \A k \in 0..n : k \in T
  <2> HIDE DEF T
  <2> QED BY <1>4, <1>5, InductionUpTo
<1>7. ASSUME NEW h \in 0..n PROVE In(h)
  <2>1. n - h \in 0..n /\ n - (n - h) = h
    OBVIOUS
  <2>2. n - h \in T
    <3> HIDE DEF T
    <3> QED BY <1>6, <2>1
  <2> HIDE DEF In
  <2> QED BY <2>1, <2>2
<1>8. \A h, i, x : Hangs(anchor, h, i, x) => h \in 0..n /\ i \in Nat
  BY <1>1 DEF Hangs
<1> QED BY <1>2, <1>3, <1>7, <1>8

(* So blocks that hang on the root of a tree are in their places in it. *)
LEMMA AllHungPlaced ==
  ASSUME NEW leaves, LeafSequence(leaves), NEW anchor, NEW s,
         anchor.size = Len(leaves), anchor.root = MerkleRoot(leaves),
         Sized(s), AllHung(anchor, s)
  PROVE  AllPlaced(leaves, s)
<1>1. PICK N \in Nat \ {0} : N = Len(leaves) /\ N = anchor.size
  BY DEF LeafSequence
<1>2. ASSUME NEW j \in 1..Len(s)
      PROVE  /\ Placed(leaves, s[j].hash, s[j].size, s[j].start)
             /\ s[j].start + s[j].size <= Len(leaves)
  <2>1. PICK h, i : /\ Hangs(anchor, h, i, s[j].hash)
                    /\ s[j].size = PowerOfTwo[h] /\ s[j].start = i * PowerOfTwo[h]
    BY DEF AllHung, Hung
  <2>2. s[j].start + s[j].size <= N /\ s[j].size \in Nat \ {0}
    BY <1>1 DEF AllHung, Sized
  <2>3. h \in Nat /\ i \in Nat
    <3>1. PathLength[anchor.size] \in Nat
      BY <1>1, SummitFacts
    <3>2. h \in 0..PathLength[anchor.size] /\ i \in Nat
      BY <2>1, Zenon DEF Hangs
    <3> QED BY <3>1, <3>2
  <2>4. PICK p \in Nat \ {0}, b \in Nat : p = PowerOfTwo[h] /\ b = i * PowerOfTwo[h]
    <3>1. PowerOfTwo[h] \in Nat /\ PowerOfTwo[h] >= 1
      <4>1. \A n \in Nat : PowerOfTwo[n] \in Nat /\ PowerOfTwo[n] >= 1
        BY PowerFacts
      <4> QED BY <2>3, <4>1, Zenon
    <3>2. PICK p \in Nat \ {0} : p = PowerOfTwo[h]
      BY <3>1
    <3>3. i * p \in Nat
      BY <2>3
    <3> QED BY <3>2, <3>3
  <2>5. i * PowerOfTwo[h] < Len(leaves)
    BY <1>1, <2>1, <2>2, <2>4
  <2>6. OnLevel(leaves, h, i) /\ s[j].hash = At(leaves, h, i)
    BY <2>1, <2>5, HangsInTree
  <2> QED BY <1>1, <2>1, <2>2, <2>6 DEF Placed
<1> QED BY <1>2 DEF AllPlaced

(***************************************************************************)
(* The frontier of a package that verifies hangs on both roots, each block *)
(* in one and the same place, whatever the roots are.                      *)
(***************************************************************************)
LEMMA FrontierShared ==
  ASSUME NEW old, NEW new, NEW proof, old.size \in Nat \ {0}, new.size \in Nat \ {0},
         Listed(proof.frontier), Listed(proof.appended),
         VerifyRootConsistency(old, new, proof)
  PROVE  /\ Falling(proof.frontier, 0, old.size)
         /\ AllHung(old, proof.frontier) /\ AllHung(new, proof.frontier)
<1> DEFINE f == proof.frontier
           g == AppendBlocks(proof.frontier, proof.appended)
<1>1. /\ old.size < new.size
      /\ Shapes(f) = PrefixShapes(old.size) /\ RootOfFrontier(f) = old.root
      /\ Shapes(proof.appended) = SuffixShapes(old.size, new.size)
      /\ Shapes(g) = PrefixShapes(new.size) /\ RootOfFrontier(g) = new.root
  BY DEF VerifyRootConsistency
<1>2. Falling(f, 0, old.size)
  <2>1. Falling(Shapes(f), 0, old.size)
    BY <1>1, PrefixShapesFall
  <2> QED BY <2>1, ShapesFall
<1>3. AllHung(old, f)
  BY <1>1, <1>2, RootHangsAll
<1>4. Sized(f) /\ Sized(proof.appended)
  <2>1. Sized(f)
    BY <1>2, FallingSized
  <2>2. Sized(SuffixShapes(old.size, new.size))
    <3>1. old.size \in Nat /\ new.size \in Nat /\ old.size <= new.size
      BY <1>1
    <3> QED BY <3>1, SuffixShapesSized
  <2>3. Sized(proof.appended)
    BY <1>1, <2>2, ShapesSized
  <2> QED BY <2>1, <2>3
<1>5. Merged(new, f, g)
  BY <1>4, AppendBlocksHung
<1>6. AllHung(new, g)
  <2>1. Listed(g)
    BY <1>5 DEF Merged, Sized
  <2>2. Falling(Shapes(g), 0, new.size)
    BY <1>1, PrefixShapesFall
  <2>3. Falling(g, 0, new.size)
    BY <2>1, <2>2, ShapesFall
  <2> QED BY <1>1, <2>3, RootHangsAll
<1>7. AllHung(new, f)
  BY <1>5, <1>6 DEF Merged
<1> QED BY <1>2, <1>3, <1>7

(* The two endpoints, and that the old leaves are the first of the new.   *)
Extends(a, b, old, new) ==
  /\ old.size = Len(a) /\ a[old.size] = LeafHash(old.size, old.tip)
  /\ new.size = Len(b) /\ b[new.size] = LeafHash(new.size, new.tip)
  /\ old.context = new.context /\ old.size < new.size /\ old.epoch < new.epoch
  /\ \A i \in 1..Len(a) : a[i] = b[i]

(***************************************************************************)
(* A package that verifies between the roots of two trees shows that the   *)
(* later tree begins with the leaves of the earlier one, and that the      *)
(* sizes and tips the anchors claim are theirs, for trees of any size and  *)
(* whatever the package holds.                                             *)
(***************************************************************************)
THEOREM ConsistencyIsSound ==
  ASSUME NEW a, NEW b, NEW old, NEW new, NEW proof, IsLeaves(a), IsLeaves(b),
         old.size \in Nat \ {0}, new.size \in Nat \ {0},
         old.root = MerkleRoot(a), new.root = MerkleRoot(b),
         Listed(proof.frontier), Listed(proof.appended),
         VerifyRootConsistency(old, new, proof)
  PROVE  Extends(a, b, old, new)
<1> DEFINE f == proof.frontier
<1>1. /\ old.context = new.context /\ old.size < new.size /\ old.epoch < new.epoch
      /\ TipBound(old, proof.oldTipPath) /\ TipBound(new, proof.newTipPath)
  BY DEF VerifyRootConsistency
<1>2. LeafSequence(a) /\ LeafSequence(b)
  BY DEF LeafSequence, IsLeaves
<1>3. old.size = Len(a) /\ a[old.size] = LeafHash(old.size, old.tip)
  <2>1. VerifyPath(LeafHash(old.size, old.tip), old.size - 1, old.size,
                   proof.oldTipPath, MerkleRoot(a))
    BY <1>1 DEF TipBound
  <2> QED BY <2>1, TipBinds
<1>4. new.size = Len(b) /\ b[new.size] = LeafHash(new.size, new.tip)
  <2>1. VerifyPath(LeafHash(new.size, new.tip), new.size - 1, new.size,
                   proof.newTipPath, MerkleRoot(b))
    BY <1>1 DEF TipBound
  <2> QED BY <2>1, TipBinds
<1>5. Falling(f, 0, old.size) /\ AllHung(old, f) /\ AllHung(new, f)
  BY FrontierShared
<1>6. Sized(f)
  BY <1>5, FallingSized
<1>7. AllPlaced(a, f)
  BY <1>2, <1>3, <1>5, <1>6, AllHungPlaced
<1>8. AllPlaced(b, f)
  BY <1>2, <1>4, <1>5, <1>6, AllHungPlaced
<1>9. Falling(f, 0, Len(a))
  BY <1>3, <1>5
<1>10. \A i \in 1..Len(a) : a[i] = b[i]
  BY <1>2, <1>7, <1>8, <1>9, CoveredAgree
<1> QED BY <1>1, <1>3, <1>4, <1>10 DEF Extends


(* The leaves of a lineage. *)

(* The leaves of a lineage hash each commitment with its index. *)
LEMMA LeavesOfLineage ==
  ASSUME NEW S, NEW cs \in Seq(S), cs # <<>>
  PROVE  /\ IsLeaves(Leaves(cs)) /\ Len(Leaves(cs)) = Len(cs)
         /\ \A i \in 1..Len(cs) : Leaves(cs)[i] = LeafHash(i, cs[i])
<1>1. PICK n \in Nat \ {0} : n = Len(cs) /\ DOMAIN cs = 1..n
  <2>1. Len(cs) \in Nat /\ Len(cs) # 0 /\ DOMAIN cs = 1..Len(cs)
    OBVIOUS
  <2> QED BY <2>1
<1>2. Leaves(cs) = [i \in 1..n |-> LeafHash(i, cs[i])]
  BY <1>1 DEF Leaves
<1>3. \A i \in 1..n : Leaves(cs)[i] = LeafHash(i, cs[i])
  BY <1>2
<1>4. Leaves(cs) = [i \in 1..n |-> Leaves(cs)[i]]
  BY <1>2
<1>5. Len(Leaves(cs)) = n
  BY <1>1, <1>4, ListOfLength
<1>6. DOMAIN Leaves(cs) = 1..n
  BY <1>2
<1> QED BY <1>1, <1>3, <1>5, <1>6 DEF IsLeaves

-----------------------------------------------------------------------------
(***************************************************************************)
(* Selective disclosure.  A membership path that verifies under the root   *)
(* of a lineage shows the commitment that lineage has at the disclosed     *)
(* index, whatever size and tip the anchor claims, and then these are the  *)
(* lineage's own (verify_selective_lineage_disclosure).                    *)
(***************************************************************************)
THEOREM DisclosureIsSound ==
  ASSUME NEW S, NEW cs \in Seq(S), NEW anchor, NEW index, NEW commitment, NEW path, NEW tipPath,
         cs # <<>>, anchor.size \in Nat \ {0}, anchor.root = MerkleRoot(Leaves(cs)),
         VerifyDisclosure(anchor, index, commitment, path, tipPath)
  PROVE  /\ index \in 1..Len(cs) /\ cs[index] = commitment
         /\ anchor.size = Len(cs) /\ anchor.tip = cs[Len(cs)]
<1> DEFINE leaves == Leaves(cs)
           size == anchor.size
           leaf == LeafHash(index, commitment)
<1>1. /\ IsLeaves(leaves) /\ LeafSequence(leaves) /\ Len(leaves) = Len(cs)
      /\ \A i \in 1..Len(cs) : leaves[i] = LeafHash(i, cs[i])
  BY LeavesOfLineage DEF IsLeaves, LeafSequence
<1>2. /\ VerifyPath(leaf, index - 1, size, path, MerkleRoot(leaves))
      /\ VerifyPath(LeafHash(size, anchor.tip), size - 1, size, tipPath, MerkleRoot(leaves))
  BY DEF VerifyDisclosure, TipBound
<1> HIDE DEF leaves
<1>3. size = Len(cs) /\ leaves[size] = LeafHash(size, anchor.tip) /\ Len(cs) \in 1..Len(cs)
  <2>1. size = Len(leaves) /\ leaves[size] = LeafHash(size, anchor.tip)
    BY <1>1, <1>2, TipBinds
  <2> QED BY <1>1, <2>1
<1>4. anchor.tip = cs[Len(cs)]
  BY <1>1, <1>3, HashFacts
<1>5. \E i \in 1..Len(cs) : leaf = leaves[i]
  <2>1. Len(path) \in Nat
    BY <1>2, PathLengthIsHeight DEF VerifyPath, Height
  <2>2. PICK node : /\ Climbs(node, leaf, index - 1, size, path)
                    /\ Climbed(leaf, index - 1, size, path) = node[Len(path)]
    BY <2>1, ClimbedUnfolds
  <2>3. node[Len(path)].hash = MerkleRoot(leaves)
    BY <1>2, <2>2 DEF VerifyPath
  <2>4. \E i, c : leaf = LeafHash(i, c)
    OBVIOUS
  <2> HIDE DEF leaf
  <2>5. \A k \in 0..Top(leaves) : \E m : OnLevel(leaves, k, m) /\ node[k].hash = At(leaves, k, m)
    BY <1>1, <2>1, <2>2, <2>3, <2>4, StaysInTree
  <2>6. 0 \in 0..Top(leaves) /\ Width(leaves, 0) = Len(cs)
    BY <1>1, TopFacts
  <2>7. PICK m : OnLevel(leaves, 0, m) /\ node[0].hash = At(leaves, 0, m)
    BY <2>5, <2>6
  <2>8. m \in Nat /\ m < Len(cs) /\ leaf = leaves[m + 1]
    <3>1. m \in Nat /\ m < Len(cs)
      BY <2>6, <2>7 DEF OnLevel
    <3>2. node[0].hash = leaf
      BY <2>2 DEF Climbs, StartNode
    <3>3. At(leaves, 0, m) = leaves[m + 1]
      BY <1>1, <3>1, TopFacts
    <3> QED BY <2>7, <3>1, <3>2, <3>3
  <2>9. m + 1 \in 1..Len(cs)
    BY <1>3, <2>8
  <2> QED BY <2>8, <2>9
<1>6. PICK i \in 1..Len(cs) : LeafHash(index, commitment) = LeafHash(i, cs[i])
  BY <1>1, <1>5
<1>7. index = i /\ commitment = cs[i]
  BY <1>6, HashFacts, Zenon
<1> QED BY <1>3, <1>4, <1>7
-----------------------------------------------------------------------------
(* Membership paths of every leaf, as they are built. *)

(* Halving a quotient is dividing by twice the divisor. *)
LEMMA DivideTwice ==
  ASSUME NEW n \in Nat, NEW d \in Nat \ {0}
  PROVE  /\ n \div d \in Nat
         /\ (n \div d) \div 2 = n \div (2 * d)
<1> DEFINE q == n \div d
           r == n % d
           b == q % 2
           h == q \div 2
<1>1. q \in Nat /\ r \in 0..(d - 1) /\ n = d * q + r
  OBVIOUS
<1> HIDE DEF q, r
<1>2. h \in Nat /\ b \in 0..1 /\ q = 2 * h + b
  BY <1>1
<1> HIDE DEF h, b
<1>3. PICK e \in Nat : e = 2 * d /\ e # 0
  OBVIOUS
<1>4. PICK s \in 0..(e - 1) : n = e * h + s
  <2>1. b * d + r \in 0..(e - 1)
    <3>1. CASE b = 0
      BY <1>1, <1>3, <3>1
    <3>2. CASE b = 1
      BY <1>1, <1>3, <3>2
    <3> QED BY <1>2, <3>1, <3>2
  <2>2. n = e * h + (b * d + r)
    <3>1. d * (2 * h + b) = (2 * d) * h + b * d
      BY <1>2
    <3> QED BY <1>1, <1>2, <1>3, <3>1
  <2> QED BY <2>1, <2>2
<1>5. n \div e = h
  BY <1>2, <1>3, <1>4
<1> QED BY <1>1, <1>2, <1>3, <1>5 DEF q, h

(* The position of the ancestor of a leaf, k levels up. *)
Above(index, k) == index \div PowerOfTwo[k]

(* The ancestors of a position, each half the one below. *)
LEMMA AboveFacts ==
  ASSUME NEW index \in Nat
  PROVE  /\ Above(index, 0) = index
         /\ \A k \in Nat : Above(index, k) \in Nat /\ Above(index, k + 1) = Above(index, k) \div 2
<1>1. Above(index, 0) = index
  <2>1. PowerOfTwo[0] = 1 /\ index \div 1 = index
    BY PowerFacts
  <2> QED BY <2>1 DEF Above
<1>2. ASSUME NEW k \in Nat
      PROVE  Above(index, k) \in Nat /\ Above(index, k + 1) = Above(index, k) \div 2
  <2>1. PICK d \in Nat \ {0} : d = PowerOfTwo[k] /\ PowerOfTwo[k + 1] = 2 * d
    <3>1. PowerOfTwo[k] \in Nat \ {0} /\ PowerOfTwo[k + 1] = 2 * PowerOfTwo[k]
      BY PowerFacts
    <3> QED BY <3>1
  <2>2. index \div d \in Nat /\ (index \div d) \div 2 = index \div (2 * d)
    BY DivideTwice
  <2> QED BY <2>1, <2>2 DEF Above
<1> QED BY <1>1, <1>2

(* Half of what is below a width is below its half, rounded up. *)
LEMMA HalfBelow ==
  ASSUME NEW i \in Nat
  PROVE  i \div 2 \in Nat /\ \A w \in Nat : i < w => i \div 2 < (w + 1) \div 2
OBVIOUS

(* The ancestors of a leaf are all in the tree. *)
LEMMA AncestorsInTree ==
  ASSUME NEW leaves, LeafSequence(leaves), NEW index \in Nat, index < Len(leaves)
  PROVE  \A k \in 0..Top(leaves) : OnLevel(leaves, k, Above(index, k))
<1> DEFINE n == Top(leaves)
           T == {k \in 0..n : OnLevel(leaves, k, Above(index, k))}
<1>1. n \in Nat /\ Width(leaves, 0) = Len(leaves)
  BY TopFacts
<1>2. 0 \in T
  <2>1. 0 \in 0..n /\ Above(index, 0) = index
    BY <1>1, AboveFacts
  <2> QED BY <1>1, <2>1 DEF OnLevel
<1>3. ASSUME NEW k \in 1..n, k - 1 \in T PROVE k \in T
  <2>1. PICK h \in Nat : h = k - 1 /\ k = h + 1 /\ h < n
    BY <1>1
  <2>2. PICK i \in Nat : i = Above(index, h) /\ i < Width(leaves, h)
    BY <1>3, <2>1 DEF OnLevel
  <2>3. Above(index, k) = i \div 2
    BY <2>1, <2>2, AboveFacts
  <2>4. Width(leaves, h) \in Nat /\ Width(leaves, k) = Halved(Width(leaves, h))
    BY <2>1, WidthStep
  <2>5. i \div 2 \in Nat /\ i \div 2 < Halved(Width(leaves, h))
    <3>1. PICK w \in Nat : w = Width(leaves, h)
      BY <2>4
    <3>2. i \div 2 < (w + 1) \div 2
      BY <2>2, <3>1, HalfBelow
    <3>3. i \div 2 \in Nat
      BY HalfBelow
    <3> QED BY <3>1, <3>2, <3>3 DEF Halved
  <2> QED BY <2>3, <2>4, <2>5 DEF OnLevel
<1>4. \A k \in 0..n : k \in T
  <2> HIDE DEF T, n
  <2> QED BY <1>1, <1>2, <1>3, InductionUpTo
<1> QED BY <1>4

(* The entry of a path beside position i of level h. *)
BuiltEntry(leaves, h, i) ==
  [side |-> IF i % 2 = 1 THEN "left" ELSE "right",
   hash |-> At(leaves, h, IF i % 2 = 1 THEN i - 1
                          ELSE IF i + 1 < Width(leaves, h) THEN i + 1 ELSE i)]

(* The built path has an entry for each level: the sibling there. *)
LEMMA PathEntries ==
  ASSUME NEW leaves, LeafSequence(leaves), NEW index \in Nat
  PROVE  /\ Len(MerklePath(leaves, index)) = Top(leaves)
         /\ \A k \in 1..Top(leaves) :
              MerklePath(leaves, index)[k] = BuiltEntry(leaves, k - 1, Above(index, k - 1))
<1> DEFINE path == MerklePath(leaves, index)
<1>1. PICK n \in Nat : n = Top(leaves)
  BY TopFacts
<1>2. path = [k \in 1..n |-> BuiltEntry(leaves, k - 1, Above(index, k - 1))]
  <2>1. PathLength[Len(leaves)] = n
    BY <1>1 DEF Top
  <2> QED BY <2>1 DEF MerklePath, BuiltEntry, Above, At, Width
<1>3. path = [k \in 1..n |-> path[k]]
  BY <1>2
<1>4. \A k \in 1..n : path[k] = BuiltEntry(leaves, k - 1, Above(index, k - 1))
  BY <1>2
<1>5. Len(path) = n
  <2> HIDE DEF path
  <2> QED BY <1>3, ListOfLength
<1> QED BY <1>1, <1>4, <1>5

(* Where a built path has come to after some steps. *)
NodeOf(leaves, h, i) ==
  [ok |-> TRUE, hash |-> At(leaves, h, i), index |-> i, width |-> Width(leaves, h)]

(* With the entry built for a node, the climb from it goes to its parent. *)
LEMMA ClimbOfBuilt ==
  ASSUME NEW leaves, LeafSequence(leaves), NEW h \in Nat, h < Top(leaves),
         NEW i, OnLevel(leaves, h, i)
  PROVE  Climb(NodeOf(leaves, h, i), BuiltEntry(leaves, h, i)) = NodeOf(leaves, h + 1, i \div 2)
<1> DEFINE w == Width(leaves, h)
           node == NodeOf(leaves, h, i)
           entry == BuiltEntry(leaves, h, i)
<1>1. i \in Nat /\ i < w /\ w \in Nat /\ Width(leaves, h + 1) = Halved(w)
  BY WidthStep DEF OnLevel
<1>2. PICK m \in Nat : m = i \div 2 /\ OnLevel(leaves, h + 1, m)
  <2>1. i \div 2 \in Nat /\ i \div 2 < Halved(w)
    <3>1. PICK v \in Nat : v = w
      BY <1>1
    <3>2. i \div 2 < (v + 1) \div 2
      BY <1>1, <3>1
    <3> QED BY <1>1, <3>1, <3>2 DEF Halved
  <2>2. h + 1 \in 0..Top(leaves)
    BY TopFacts
  <2> QED BY <1>1, <2>1, <2>2 DEF OnLevel
<1>3. At(leaves, h + 1, m)
        = NodeHash(At(leaves, h, 2 * m),
                   IF 2 * m + 1 < w THEN At(leaves, h, 2 * m + 1) ELSE At(leaves, h, 2 * m))
  BY <1>2, NodeAt
<1>4. /\ node.ok = TRUE /\ node.hash = At(leaves, h, i) /\ node.index = i /\ node.width = w
      /\ entry.side = (IF i % 2 = 1 THEN "left" ELSE "right")
      /\ entry.hash = At(leaves, h, IF i % 2 = 1 THEN i - 1 ELSE IF i + 1 < w THEN i + 1 ELSE i)
  BY DEF NodeOf, BuiltEntry
<1>5. NodeOf(leaves, h + 1, m)
        = [ok |-> TRUE, hash |-> At(leaves, h + 1, m), index |-> m, width |-> Halved(w)]
  BY <1>1 DEF NodeOf
<1> HIDE DEF node, entry, w
<1>6. CASE i % 2 = 1
  <2>1. i - 1 = 2 * m /\ i = 2 * m + 1
    BY <1>1, <1>2, <1>6
  <2>2. NodeHash(entry.hash, node.hash) = At(leaves, h + 1, m)
    BY <1>1, <1>3, <1>4, <1>6, <2>1
  <2> QED BY <1>2, <1>4, <1>5, <1>6, <2>2 DEF Climb, Halved, node, entry
<1>7. CASE i % 2 # 1
  <2>1. i = 2 * m
    BY <1>1, <1>2, <1>7
  <2>2. NodeHash(node.hash, entry.hash) = At(leaves, h + 1, m)
    BY <1>1, <1>3, <1>4, <1>7, <2>1
  <2>3. i + 1 < w \/ entry.hash = node.hash
    BY <1>4, <1>7
  <2> QED BY <1>2, <1>4, <1>5, <1>7, <2>2, <2>3 DEF Climb, Halved, node, entry
<1> QED BY <1>6, <1>7

(* The path that is built for a leaf verifies for it. *)
LEMMA BuiltPathVerifies ==
  ASSUME NEW leaves, LeafSequence(leaves), NEW index \in Nat, index < Len(leaves)
  PROVE  VerifyPath(leaves[index + 1], index, Len(leaves), MerklePath(leaves, index),
                    MerkleRoot(leaves))
<1> DEFINE path == MerklePath(leaves, index)
           size == Len(leaves)
           leaf == leaves[index + 1]
<1>1. PICK n \in Nat : n = Top(leaves)
  BY TopFacts
<1>2. /\ Len(path) = n
      /\ \A k \in 1..n : path[k] = BuiltEntry(leaves, k - 1, Above(index, k - 1))
  BY <1>1, PathEntries
<1>3. \A k \in 0..n : OnLevel(leaves, k, Above(index, k))
  BY <1>1, AncestorsInTree
<1> HIDE DEF path
<1>4. PICK node : /\ Climbs(node, leaf, index, size, path)
                  /\ Climbed(leaf, index, size, path) = node[n]
  <2>1. Len(path) \in Nat
    BY <1>2
  <2>2. \E node : /\ Climbs(node, leaf, index, size, path)
                  /\ Climbed(leaf, index, size, path) = node[Len(path)]
    <3> HIDE DEF leaf, size
    <3> QED BY <2>1, ClimbedUnfolds
  <2> QED BY <1>2, <2>2
<1> DEFINE T == {k \in 0..n : node[k] = NodeOf(leaves, k, Above(index, k))}
<1>5. 0 \in T
  <2>1. leaf = At(leaves, 0, index) /\ size = Width(leaves, 0) /\ Above(index, 0) = index
    BY TopFacts, AboveFacts
  <2>2. node[0] = NodeOf(leaves, 0, Above(index, 0))
    BY <1>4, <2>1 DEF Climbs, StartNode, NodeOf
  <2> QED BY <2>2
<1>6. ASSUME NEW k \in 1..n, k - 1 \in T PROVE k \in T
  <2>1. PICK h \in Nat : h = k - 1 /\ k = h + 1 /\ h \in 0..n /\ h < Top(leaves)
    BY <1>1
  <2>2. node[k] = Climb(NodeOf(leaves, h, Above(index, h)), BuiltEntry(leaves, h, Above(index, h)))
    BY <1>2, <1>4, <1>6, <2>1 DEF Climbs
  <2>3. node[k] = NodeOf(leaves, h + 1, Above(index, h) \div 2)
    BY <1>3, <2>1, <2>2, ClimbOfBuilt
  <2>4. Above(index, k) = Above(index, h) \div 2
    BY <2>1, AboveFacts
  <2> QED BY <2>1, <2>3, <2>4
<1>7. node[n] = NodeOf(leaves, n, Above(index, n))
  <2>1. \A k \in 0..n : k \in T
    <3> HIDE DEF T
    <3> QED BY <1>5, <1>6, InductionUpTo
  <2> QED BY <2>1
<1>8. Above(index, n) = 0 /\ Width(leaves, n) = 1 /\ MerkleRoot(leaves) = At(leaves, n, 0)
  <2>1. OnLevel(leaves, n, Above(index, n)) /\ Width(leaves, n) = 1
        /\ MerkleRoot(leaves) = At(leaves, n, 0)
    BY <1>1, <1>3, TopFacts
  <2> QED BY <2>1 DEF OnLevel
<1>9. /\ node[n].ok /\ node[n].width = 1 /\ node[n].index = 0
      /\ node[n].hash = MerkleRoot(leaves)
  BY <1>7, <1>8 DEF NodeOf
<1>10. index \in 0..(size - 1) /\ Len(path) = PathLength[size]
  BY <1>1, <1>2 DEF LeafSequence, Top
<1> QED BY <1>4, <1>9, <1>10 DEF VerifyPath, path

(***************************************************************************)
(* And every cycle can be shown: the disclosure that is built for it       *)
(* (build_selective_lineage_disclosure) verifies under the anchor of its   *)
(* lineage, at every index and size.                                       *)
(***************************************************************************)
THEOREM DisclosureIsComplete ==
  ASSUME NEW S, NEW cs \in Seq(S), NEW anchor, NEW index \in 1..Len(cs),
         anchor.size = Len(cs), anchor.tip = cs[Len(cs)], anchor.root = MerkleRoot(Leaves(cs))
  PROVE  VerifyDisclosure(anchor, index, cs[index], MerklePath(Leaves(cs), index - 1),
                          MerklePath(Leaves(cs), Len(cs) - 1))
<1> DEFINE leaves == Leaves(cs)
<1>1. /\ LeafSequence(leaves) /\ Len(leaves) = Len(cs) /\ Len(cs) \in Nat \ {0}
      /\ \A i \in 1..Len(cs) : leaves[i] = LeafHash(i, cs[i])
  <2>1. cs # <<>> /\ Len(cs) \in Nat \ {0}
    OBVIOUS
  <2> QED BY <2>1, LeavesOfLineage DEF IsLeaves, LeafSequence
<1> HIDE DEF leaves
<1>2. ASSUME NEW i \in 1..Len(cs)
      PROVE  VerifyPath(LeafHash(i, cs[i]), i - 1, Len(cs), MerklePath(leaves, i - 1),
                        MerkleRoot(leaves))
  <2>1. i - 1 \in Nat /\ i - 1 < Len(leaves) /\ (i - 1) + 1 = i
    BY <1>1
  <2>2. VerifyPath(leaves[(i - 1) + 1], i - 1, Len(leaves), MerklePath(leaves, i - 1),
                   MerkleRoot(leaves))
    BY <1>1, <2>1, BuiltPathVerifies
  <2> QED BY <1>1, <2>1, <2>2
<1>3. Len(cs) \in 1..Len(cs)
  BY <1>1
<1> QED BY <1>2, <1>3 DEF VerifyDisclosure, TipBound, leaves
-----------------------------------------------------------------------------
(* Multiples. *)

Multiple(a, b) == \E m \in Nat : a = m * b

(* Products distribute and associate, as the provers need it stated. *)
LEMMA Distribute ==
  \A m, n, b \in Nat : /\ (m + n) * b = m * b + n * b /\ m * (n * b) = (m * n) * b
                       /\ m * b \in Nat /\ m + n \in Nat /\ m * n \in Nat
                       /\ m * (2 * b) = (2 * m) * b
OBVIOUS

(* One more multiple, as the provers need it stated. *)
LEMMA Successor ==
  \A m, b \in Nat : (m + 1) * b = m * b + b /\ m * b \in Nat /\ 1 * b = b /\ 0 * b = 0
OBVIOUS

(* Multiples: of themselves, added, and of multiples. *)
LEMMA MultipleFacts ==
  ASSUME NEW a \in Nat, NEW b \in Nat, NEW c \in Nat
  PROVE  /\ Multiple(0, c) /\ Multiple(c, c)
         /\ Multiple(a, c) /\ Multiple(b, c) => Multiple(a + b, c)
         /\ Multiple(a, b) /\ Multiple(b, c) => Multiple(a, c)
<1>1. Multiple(0, c) /\ Multiple(c, c)
  BY Successor DEF Multiple
<1>2. ASSUME Multiple(a, c), Multiple(b, c) PROVE Multiple(a + b, c)
  <2>1. PICK m \in Nat, n \in Nat : a = m * c /\ b = n * c
    BY <1>2 DEF Multiple
  <2>2. m + n \in Nat /\ a + b = (m + n) * c
    BY <2>1, Distribute
  <2> QED BY <2>2 DEF Multiple
<1>3. ASSUME Multiple(a, b), Multiple(b, c) PROVE Multiple(a, c)
  <2>1. PICK m \in Nat, n \in Nat : a = m * b /\ b = n * c
    BY <1>3 DEF Multiple
  <2>2. m * n \in Nat /\ m * b = (m * n) * c
    BY <2>1, Distribute
  <2> QED BY <2>1, <2>2 DEF Multiple
<1> QED BY <1>1, <1>2, <1>3

(* A multiple of 2c is one of c, and so is the next. *)
LEMMA TwiceMultiple ==
  ASSUME NEW a \in Nat, NEW c \in Nat, Multiple(a, 2 * c)
  PROVE  Multiple(a, c) /\ Multiple(a + c, c)
<1>1. PICK m \in Nat : a = m * (2 * c)
  BY DEF Multiple
<1>2. 2 * m \in Nat /\ a = (2 * m) * c
  BY <1>1, Distribute
<1>3. Multiple(a, c)
  BY <1>2 DEF Multiple
<1> QED BY <1>3, MultipleFacts

(* A power is a multiple of every power that is not greater. *)
LEMMA PowersDivide ==
  ASSUME NEW a, NEW b, IsPower(a), IsPower(b), b <= a
  PROVE  Multiple(a, b) /\ (b < a => Multiple(a, 2 * b))
<1>1. PICK m \in Nat, n \in Nat : a = PowerOfTwo[m] /\ b = PowerOfTwo[n]
  BY DEF IsPower
<1> DEFINE T == {k \in 0..m : n + k > m \/ Multiple(PowerOfTwo[n + k], b)}
<1>2. 0 \in T
  <2>1. n + 0 = n /\ b \in Nat
    BY <1>1, PowerPositive
  <2> QED BY <1>1, <2>1, MultipleFacts
<1>3. ASSUME NEW k \in 1..m, k - 1 \in T PROVE k \in T
  <2>1. SUFFICES ASSUME ~(n + k > m) PROVE Multiple(PowerOfTwo[n + k], b)
    OBVIOUS
  <2>2. Multiple(PowerOfTwo[n + (k - 1)], b)
    BY <1>3, <2>1
  <2>3. PICK p \in Nat : p = PowerOfTwo[n + (k - 1)] /\ PowerOfTwo[n + k] = 2 * p
    <3>1. PICK j \in Nat : j = n + (k - 1) /\ n + k = j + 1
      OBVIOUS
    <3>2. PowerOfTwo[j] \in Nat /\ PowerOfTwo[j + 1] = 2 * PowerOfTwo[j]
      BY PowerFacts
    <3> QED BY <3>1, <3>2
  <2>4. b \in Nat /\ 2 * p = p + p
    BY PowerPositive
  <2> QED BY <2>2, <2>3, <2>4, MultipleFacts
<1>4. n <= m
  <2>1. SUFFICES ASSUME m < n PROVE FALSE
    OBVIOUS
  <2>2. 2 * a <= b /\ a \in Nat \ {0} /\ b \in Nat
    BY <1>1, <2>1, PowerMonotone, PowerPositive
  <2> QED BY <2>2
<1>5. \A k \in 0..m : k \in T
  <2> HIDE DEF T
  <2> QED BY <1>2, <1>3, InductionUpTo
<1>6. Multiple(a, b)
  <2>1. m - n \in 0..m /\ n + (m - n) = m
    BY <1>4
  <2> QED BY <1>1, <1>5, <2>1
<1>7. ASSUME b < a PROVE Multiple(a, 2 * b)
  <2>1. PICK q \in Nat : a = q * b
    BY <1>6 DEF Multiple
  <2>2. n < m
    <3>1. n # m /\ a \in Nat /\ b \in Nat
      BY <1>1, <1>7, PowerPositive
    <3> QED BY <1>4, <3>1
  <2>3. PICK l \in Nat : m = l + 1 /\ n <= l
    <3>1. m - 1 \in Nat /\ m = (m - 1) + 1 /\ n <= m - 1
      BY <2>2
    <3> QED BY <3>1
  <2>4. a = 2 * PowerOfTwo[l] /\ PowerOfTwo[l] \in Nat /\ b \in Nat
    BY <1>1, <2>3, PowerFacts, PowerPositive
  <2>5. Multiple(PowerOfTwo[l], b)
    <3>1. PICK k \in Nat : l = n + k /\ k \in 0..m /\ ~(n + k > m)
      <4>1. l - n \in Nat /\ l = n + (l - n) /\ l - n \in 0..m /\ ~(n + (l - n) > m)
        BY <2>3
      <4> QED BY <4>1
    <3> QED BY <1>5, <3>1
  <2>6. PICK r \in Nat : PowerOfTwo[l] = r * b
    BY <2>5 DEF Multiple
  <2>7. 2 * (r * b) = r * (2 * b)
    BY <2>4
  <2> QED BY <2>4, <2>6, <2>7 DEF Multiple
<1> QED BY <1>6, <1>7
-----------------------------------------------------------------------------
(* Frontiers: blocks from 0 on, each at least twice the next. *)

Frontier(s, to) ==
  /\ Listed(s) /\ Len(s) \in Nat \ {0} /\ s[1].start = 0 /\ to \in Nat
  /\ \A j \in 1..Len(s) : IsPower(s[j].size) /\ s[j].start \in Nat
  /\ \A j \in 1..(Len(s) - 1) : /\ s[j + 1].start = s[j].start + s[j].size
                                /\ 2 * s[j + 1].size <= s[j].size
  /\ s[Len(s)].start + s[Len(s)].size = to

(* Every block ends by the end, and covers more than half of what is left. *)
LEMMA FrontierEnds ==
  ASSUME NEW s, NEW to, Frontier(s, to)
  PROVE  \A j \in 1..Len(s) : /\ s[j].size \in Nat \ {0} /\ s[j].start \in Nat
                              /\ s[j].start + s[j].size <= to
                              /\ to < s[j].start + 2 * s[j].size
<1>1. PICK n \in Nat : Len(s) = n + 1
  <2>1. Len(s) - 1 \in Nat /\ Len(s) = (Len(s) - 1) + 1
    BY DEF Frontier
  <2> QED BY <2>1
<1> DEFINE j(k) == (n + 1) - k
           T == {k \in 0..n : /\ s[j(k)].start + s[j(k)].size <= to
                              /\ to < s[j(k)].start + 2 * s[j(k)].size}
<1>2. \A i \in 1..(n + 1) : s[i].size \in Nat \ {0} /\ s[i].start \in Nat
  BY <1>1, PowerPositive DEF Frontier
<1>3. 0 \in T
  <2>1. PICK x \in Nat \ {0}, y \in Nat : s[n + 1].size = x /\ s[n + 1].start = y
    <3>1. n + 1 \in 1..(n + 1)
      OBVIOUS
    <3> QED BY <1>2, <3>1
  <2>2. to = y + x /\ (n + 1) - 0 = n + 1
    BY <1>1, <2>1 DEF Frontier
  <2>3. y + x <= to /\ to < y + 2 * x
    BY <2>1, <2>2
  <2> QED BY <2>1, <2>2, <2>3
<1>4. ASSUME NEW k \in 1..n, k - 1 \in T PROVE k \in T
  <2>1. PICK i \in 1..n : i = j(k) /\ i + 1 = j(k - 1)
    <3>1. (n + 1) - k \in 1..n /\ ((n + 1) - k) + 1 = (n + 1) - (k - 1)
      OBVIOUS
    <3> QED BY <3>1
  <2>2. s[i + 1].start + s[i + 1].size <= to /\ to < s[i + 1].start + 2 * s[i + 1].size
    BY <1>4, <2>1
  <2>3. s[i + 1].start = s[i].start + s[i].size /\ 2 * s[i + 1].size <= s[i].size
    <3>1. i \in 1..(Len(s) - 1)
      BY <1>1
    <3> QED BY <3>1 DEF Frontier
  <2>4. /\ s[i].size \in Nat \ {0} /\ s[i].start \in Nat
        /\ s[i + 1].size \in Nat \ {0} /\ s[i + 1].start \in Nat /\ to \in Nat
    <3>1. i \in 1..(n + 1) /\ i + 1 \in 1..(n + 1)
      OBVIOUS
    <3> QED BY <1>2, <3>1 DEF Frontier
  <2>5. s[i].start + s[i].size <= to /\ to < s[i].start + 2 * s[i].size
    BY <2>2, <2>3, <2>4
  <2> QED BY <2>1, <2>5
<1>5. \A k \in 0..n : k \in T
  <2> HIDE DEF T
  <2> QED BY <1>3, <1>4, InductionUpTo
<1>6. ASSUME NEW i \in 1..(n + 1)
      PROVE  s[i].start + s[i].size <= to /\ to < s[i].start + 2 * s[i].size
  <2>1. (n + 1) - i \in 0..n /\ (n + 1) - ((n + 1) - i) = i
    OBVIOUS
  <2> QED BY <1>5, <2>1
<1> QED BY <1>1, <1>2, <1>6

(* A frontier falls. *)
LEMMA FrontierFalls ==
  ASSUME NEW s, NEW to, Frontier(s, to)
  PROVE  Falling(s, 0, to)
<1>1. 1 \in 1..Len(s)
  BY DEF Frontier
<1>2. /\ s[1].start = 0 /\ s[1].size \in Nat \ {0} /\ to \in Nat
      /\ s[1].start + s[1].size <= to /\ to < s[1].start + 2 * s[1].size
  BY <1>1, FrontierEnds DEF Frontier
<1>3. s[1].size <= to - 0 /\ to - 0 < 2 * s[1].size
  BY <1>2
<1>4. \A j \in 1..Len(s) : /\ IsPower(s[j].size) /\ s[j].start \in Nat
                            /\ s[j].start + s[j].size <= to
  BY FrontierEnds, Zenon DEF Frontier
<1>5. /\ Listed(s) /\ Len(s) > 0 /\ s[1].start = 0
      /\ \A j \in 1..(Len(s) - 1) : /\ s[j + 1].start = s[j].start + s[j].size
                                    /\ 2 * s[j + 1].size <= s[j].size
      /\ s[Len(s)].start + s[Len(s)].size = to
  BY DEF Frontier
<1> QED BY <1>3, <1>4, <1>5 DEF Falling

(* Blocks that fall from 0 are a frontier. *)
LEMMA FallingIsFrontier ==
  ASSUME NEW s, NEW to \in Nat, Falling(s, 0, to)
  PROVE  Frontier(s, to)
<1>1. Len(s) \in Nat \ {0}
  BY DEF Falling, Listed
<1> QED BY <1>1 DEF Falling, Frontier

(* Every block starts at a multiple of twice its size. *)
LEMMA FrontierAligned ==
  ASSUME NEW s, NEW to, Frontier(s, to)
  PROVE  \A j \in 1..Len(s) : Multiple(s[j].start, 2 * s[j].size)
<1>1. PICK n \in Nat : Len(s) = n + 1
  <2>1. Len(s) - 1 \in Nat /\ Len(s) = (Len(s) - 1) + 1
    BY DEF Frontier
  <2> QED BY <2>1
<1> DEFINE T == {k \in 0..n : Multiple(s[k + 1].start, 2 * s[k + 1].size)}
<1>2. \A i \in 1..(n + 1) : s[i].size \in Nat \ {0} /\ s[i].start \in Nat /\ IsPower(s[i].size)
  BY <1>1, PowerPositive DEF Frontier
<1>3. 0 \in T
  <2>1. s[0 + 1].start = 0 /\ 2 * s[0 + 1].size \in Nat
    <3>1. 1 \in 1..(n + 1) /\ 0 + 1 = 1
      OBVIOUS
    <3> QED BY <1>2, <3>1 DEF Frontier
  <2> QED BY <2>1, MultipleFacts
<1>4. ASSUME NEW k \in 1..n, k - 1 \in T PROVE k \in T
  <2>1. PICK x, y, st \in Nat : x = s[k].size /\ y = s[k + 1].size /\ st = s[k].start
                                /\ x \in Nat \ {0} /\ y \in Nat \ {0} /\ IsPower(x) /\ IsPower(y)
    <3>1. k \in 1..(n + 1) /\ k + 1 \in 1..(n + 1)
      OBVIOUS
    <3> QED BY <1>2, <3>1
  <2>2. s[k + 1].start = st + x /\ 2 * y <= x
    <3>1. k \in 1..(Len(s) - 1)
      BY <1>1
    <3> QED BY <2>1, <3>1 DEF Frontier
  <2>3. Multiple(st, 2 * x)
    <3>1. (k - 1) + 1 = k
      OBVIOUS
    <3> QED BY <1>4, <2>1, <3>1
  <2>4. Multiple(x, 2 * y)
    <3>1. y < x /\ y <= x
      BY <2>1, <2>2
    <3> QED BY <2>1, <3>1, PowersDivide
  <2>5. Multiple(2 * x, 2 * y)
    <3>1. 2 * x = x + x /\ 2 * y \in Nat /\ x \in Nat
      BY <2>1
    <3> QED BY <2>4, <3>1, MultipleFacts
  <2>6. Multiple(st + x, 2 * y)
    <3>1. st \in Nat /\ x \in Nat /\ 2 * x \in Nat /\ 2 * y \in Nat
      BY <2>1
    <3>2. Multiple(st, 2 * y)
      BY <2>3, <2>5, <3>1, MultipleFacts
    <3> QED BY <2>4, <3>1, <3>2, MultipleFacts
  <2> QED BY <2>1, <2>2, <2>6
<1>5. \A k \in 0..n : k \in T
  <2> HIDE DEF T
  <2> QED BY <1>3, <1>4, InductionUpTo
<1>6. ASSUME NEW i \in 1..(n + 1) PROVE Multiple(s[i].start, 2 * s[i].size)
  <2>1. i - 1 \in 0..n /\ (i - 1) + 1 = i
    OBVIOUS
  <2> QED BY <1>5, <2>1
<1> QED BY <1>1, <1>6

(* There is one way to cover so many leaves. *)
LEMMA FrontiersAlike ==
  ASSUME NEW s, NEW t, NEW to, Frontier(s, to), Frontier(t, to)
  PROVE  /\ Len(s) = Len(t)
         /\ \A j \in 1..Len(s) : s[j].start = t[j].start /\ s[j].size = t[j].size
<1> DEFINE Alike(j) == s[j].start = t[j].start /\ s[j].size = t[j].size
           T == {k \in 0..Len(s) : k <= Len(t) /\ \A j \in 1..k : Alike(j)}
<1>1. Len(s) \in Nat \ {0} /\ Len(t) \in Nat \ {0} /\ to \in Nat
  BY DEF Frontier
<1>2. 0 \in T
  BY <1>1
<1>3. ASSUME NEW k \in 1..Len(s), k - 1 \in T PROVE k \in T
  <2>1. k - 1 <= Len(t) /\ \A j \in 1..(k - 1) : Alike(j)
    BY <1>3
  <2>2. k <= Len(t) /\ s[k].start = t[k].start
    <3>1. CASE k = 1
      BY <1>1, <3>1 DEF Frontier
    <3>2. CASE k # 1
      <4>1. PICK l \in Nat : k = l + 1 /\ l \in 1..(Len(s) - 1) /\ l = k - 1
        <5>1. k - 1 \in Nat /\ k = (k - 1) + 1 /\ k - 1 \in 1..(Len(s) - 1)
          BY <1>1, <3>2
        <5> QED BY <5>1
      <4>2. s[k].start = s[l].start + s[l].size
        BY <4>1 DEF Frontier
      <4>3. Alike(l) /\ l <= Len(t)
        BY <2>1, <4>1
      <4>4. l # Len(t)
        <5>1. SUFFICES ASSUME l = Len(t) PROVE FALSE
          OBVIOUS
        <5>2. t[l].start + t[l].size = to
          BY <5>1 DEF Frontier
        <5>3. /\ s[k].start + s[k].size <= to /\ s[k].size \in Nat \ {0} /\ s[k].start \in Nat
          BY FrontierEnds
        <5>4. s[k].start = to
          BY <4>2, <4>3, <5>2
        <5> QED BY <1>1, <5>3, <5>4
      <4>5. l \in 1..(Len(t) - 1) /\ k <= Len(t)
        BY <1>1, <4>1, <4>3, <4>4
      <4>6. t[k].start = t[l].start + t[l].size
        BY <4>1, <4>5 DEF Frontier
      <4> QED BY <4>2, <4>3, <4>5, <4>6
    <3> QED BY <3>1, <3>2
  <2>3. s[k].size = t[k].size
    <3>1. k \in 1..Len(t)
      BY <1>1, <2>2
    <3>2. /\ s[k].start + s[k].size <= to /\ to < s[k].start + 2 * s[k].size
          /\ t[k].start + t[k].size <= to /\ to < t[k].start + 2 * t[k].size
          /\ s[k].start \in Nat
      BY <3>1, FrontierEnds
    <3>3. IsPower(s[k].size) /\ IsPower(t[k].size)
      BY <3>1 DEF Frontier
    <3>4. PICK x, y : x = s[k].size /\ y = t[k].size
      OBVIOUS
    <3>5. /\ x \in Nat \ {0} /\ y \in Nat \ {0} /\ (x < y => 2 * x <= y) /\ (y < x => 2 * y <= x)
      BY <3>3, <3>4, PowersApart
    <3>6. PICK st \in Nat : st = s[k].start /\ st = t[k].start
      BY <2>2, <3>2
    <3>7. st + x <= to /\ to < st + 2 * x /\ st + y <= to /\ to < st + 2 * y
      BY <3>2, <3>4, <3>6
    <3>8. x = y
      BY <1>1, <3>5, <3>7
    <3> QED BY <3>4, <3>8
  <2>4. \A j \in 1..k : Alike(j)
    <3>1. ASSUME NEW j \in 1..k PROVE Alike(j)
      <4>1. j = k \/ j \in 1..(k - 1)
        OBVIOUS
      <4> QED BY <2>1, <2>2, <2>3, <4>1
    <3> QED BY <3>1
  <2> QED BY <2>2, <2>4
<1>4. Len(s) <= Len(t) /\ \A j \in 1..Len(s) : Alike(j)
  <2>1. \A k \in 0..Len(s) : k \in T
    <3> HIDE DEF T
    <3> QED BY <1>1, <1>2, <1>3, InductionUpTo
  <2>2. Len(s) \in 0..Len(s)
    BY <1>1
  <2> QED BY <2>1, <2>2
<1>5. Len(s) = Len(t)
  <2>1. SUFFICES ASSUME Len(s) < Len(t) PROVE FALSE
    BY <1>1, <1>4
  <2>2. PICK l \in Nat : l = Len(s) /\ l \in 1..Len(s) /\ l \in 1..(Len(t) - 1) /\ l + 1 \in 1..Len(t)
    BY <1>1, <2>1
  <2>3. s[l].start + s[l].size = to /\ t[l + 1].start = t[l].start + t[l].size
    BY <2>2 DEF Frontier
  <2>4. t[l + 1].start = to
    BY <1>4, <2>2, <2>3
  <2>5. t[l + 1].start + t[l + 1].size <= to /\ t[l + 1].size \in Nat \ {0}
    BY <2>2, FrontierEnds
  <2> QED BY <1>1, <2>4, <2>5
<1> QED BY <1>4, <1>5
-----------------------------------------------------------------------------
(* Upwards: what is in its place beside its sibling has its parent above.   *)

(* A positive factor cancels. *)
LEMMA Cancel ==
  \A a, b \in Nat, p \in Nat \ {0} : a * p = b * p => a = b
OBVIOUS

(* Equal powers have equal exponents. *)
LEMMA PowerInjective ==
  ASSUME NEW m \in Nat, NEW n \in Nat, PowerOfTwo[m] = PowerOfTwo[n]
  PROVE  m = n
<1>1. \A k \in Nat : PowerOfTwo[k] \in Nat /\ PowerOfTwo[k] >= 1
  BY PowerFacts
<1>2. m < n => 2 * PowerOfTwo[m] <= PowerOfTwo[n]
  BY PowerMonotone
<1>3. n < m => 2 * PowerOfTwo[n] <= PowerOfTwo[m]
  BY PowerMonotone
<1> QED BY <1>1, <1>2, <1>3

(* A place is a position of one level. *)
LEMMA PlaceOnLevel ==
  ASSUME NEW leaves, NEW hash, NEW size, NEW start, NEW h \in Nat, NEW i \in Nat,
         LeafSequence(leaves), Placed(leaves, hash, size, start),
         size = PowerOfTwo[h], start = i * size
  PROVE  OnLevel(leaves, h, i) /\ hash = At(leaves, h, i)
<1>1. PICK k, j : /\ OnLevel(leaves, k, j) /\ hash = At(leaves, k, j)
                  /\ PowerOfTwo[h] = PowerOfTwo[k] /\ i * PowerOfTwo[h] = j * PowerOfTwo[k]
  BY Zenon DEF Placed
<1>2. k \in Nat /\ j \in Nat
  BY <1>1, TopFacts DEF OnLevel
<1>3. h = k
  BY <1>1, <1>2, PowerInjective
<1>4. PICK p \in Nat \ {0} : p = PowerOfTwo[h]
  BY PowerFacts
<1>5. i = j
  BY <1>1, <1>2, <1>3, <1>4, Cancel
<1> QED BY <1>1, <1>3, <1>5

(* The level above, over a position of an even number. *)
LEMMA ParentLevel ==
  ASSUME NEW leaves, NEW h \in Nat, NEW m \in Nat, LeafSequence(leaves),
         OnLevel(leaves, h, 2 * m), OnLevel(leaves, h, 2 * m + 1) \/ m # 0
  PROVE  OnLevel(leaves, h + 1, m)
<1>1. Width(leaves, h) \in Nat /\ Width(leaves, h) # 1 /\ h \in 0..Top(leaves)
  BY LevelHeights DEF OnLevel
<1>2. h < Top(leaves)
  <2>1. h # Top(leaves)
    BY <1>1, TopFacts
  <2> QED BY <1>1, <2>1, TopFacts
<1>3. PICK w \in Nat : w = Width(leaves, h) /\ Width(leaves, h + 1) = Halved(w) /\ 2 * m < w
  BY <1>2, WidthStep DEF OnLevel
<1>4. m < (w + 1) \div 2
  BY <1>3
<1>5. h + 1 \in 0..Top(leaves)
  BY <1>2, TopFacts
<1> QED BY <1>3, <1>4, <1>5 DEF OnLevel, Halved

(* Two neighbours in their places, or an odd last one twice, make their
   parent's. *)
LEMMA ParentPlaced ==
  ASSUME NEW leaves, NEW left, NEW right, NEW size \in Nat, NEW start \in Nat,
         LeafSequence(leaves), Placed(leaves, left, size, start), Multiple(start, 2 * size),
         \/ Placed(leaves, right, size, start + size)
         \/ right = left /\ start # 0 /\ Len(leaves) <= start + size
  PROVE  Placed(leaves, NodeHash(left, right), 2 * size, start)
<1>1. PICK h \in Nat : size = PowerOfTwo[h] /\ size \in Nat \ {0} /\ 2 * size = PowerOfTwo[h + 1]
                       /\ h \in 0..Top(leaves)
  <2>1. PICK h, i : OnLevel(leaves, h, i) /\ size = PowerOfTwo[h]
    BY DEF Placed
  <2>2. h \in Nat /\ h \in 0..Top(leaves)
    BY <2>1, TopFacts DEF OnLevel
  <2>3. PowerOfTwo[h] \in Nat \ {0} /\ PowerOfTwo[h + 1] = 2 * PowerOfTwo[h]
    <3>1. PICK k \in Nat : k = h
      BY <2>2
    <3>2. /\ PowerOfTwo[k] \in Nat /\ PowerOfTwo[k] >= 1
          /\ PowerOfTwo[k + 1] = 2 * PowerOfTwo[k]
      BY PowerFacts
    <3> QED BY <3>1, <3>2
  <2>4. size = PowerOfTwo[h] /\ size \in Nat \ {0} /\ 2 * size = PowerOfTwo[h + 1]
    BY <2>1, <2>3
  <2> QED BY <2>2, <2>4
<1>2. PICK m \in Nat : start = m * (2 * size)
  BY DEF Multiple
<1>3. PICK i \in Nat : i = 2 * m /\ start = i * size /\ start + size = (i + 1) * size
                       /\ i + 1 \in Nat
  <2>1. PICK i \in Nat : i = 2 * m
    OBVIOUS
  <2>2. m * (2 * size) = i * size
    BY <2>1, Distribute
  <2>3. (i + 1) * size = i * size + size
    BY Successor
  <2> QED BY <1>2, <2>1, <2>2, <2>3
<1>4. OnLevel(leaves, h, 2 * m) /\ left = At(leaves, h, 2 * m)
  <2>1. OnLevel(leaves, h, i) /\ left = At(leaves, h, i)
    BY <1>1, <1>3, PlaceOnLevel
  <2> QED BY <1>3, <2>1
<1>5. CASE Placed(leaves, right, size, start + size)
  <2>1. OnLevel(leaves, h, 2 * m + 1) /\ right = At(leaves, h, 2 * m + 1)
    <3>1. PICK j \in Nat : j = i + 1 /\ start + size = j * size
      BY <1>3
    <3>2. OnLevel(leaves, h, j) /\ right = At(leaves, h, j)
      BY <1>1, <1>5, <3>1, PlaceOnLevel
    <3> QED BY <1>3, <3>1, <3>2
  <2>2. OnLevel(leaves, h + 1, m)
    BY <1>4, <2>1, ParentLevel
  <2>3. At(leaves, h + 1, m) = NodeHash(left, right)
    BY <1>4, <2>1, <2>2, NodeAt DEF OnLevel
  <2> QED BY <1>1, <1>2, <2>2, <2>3 DEF Placed
<1>6. CASE right = left /\ start # 0 /\ Len(leaves) <= start + size
  <2>1. m # 0
    <3>1. 0 * (2 * size) = 0
      OBVIOUS
    <3> QED BY <1>2, <1>6, <3>1
  <2>2. OnLevel(leaves, h + 1, m)
    BY <1>4, <2>1, ParentLevel
  <2>3. ~(2 * m + 1 < Width(leaves, h))
    <3>1. SUFFICES ASSUME 2 * m + 1 < Width(leaves, h) PROVE FALSE
      OBVIOUS
    <3>2. OnLevel(leaves, h, 2 * m + 1)
      BY <1>1, <1>3, <3>1 DEF OnLevel
    <3>3. (i + 1) * size < Len(leaves)
      BY <1>1, <1>3, <3>2, PositionsAt
    <3> QED BY <1>3, <1>6, <3>3 DEF LeafSequence
  <2>4. At(leaves, h + 1, m) = NodeHash(left, right)
    BY <1>4, <1>6, <2>2, <2>3, NodeAt
  <2> QED BY <1>1, <1>2, <2>2, <2>4 DEF Placed
<1> QED BY <1>5, <1>6

(* What is bagged is lifted along the right edge of the tree. *)
LEMMA LiftedPlaced ==
  ASSUME NEW leaves, NEW bagged, NEW size, NEW start \in Nat \ {0},
         LeafSequence(leaves), IsPower(size), IsPower(bagged.size), bagged.size <= size,
         Placed(leaves, bagged.hash, bagged.size, start), Multiple(start, size),
         Len(leaves) <= start + bagged.size
  PROVE  Placed(leaves, Lift(bagged, size).hash, size, start)
<1>1. size \in Nat \ {0} /\ bagged.size \in Nat \ {0} /\ Len(leaves) \in Nat
  BY PowersApart DEF LeafSequence
<1>2. PICK g : /\ Lift(bagged, size) = g[size] /\ g[0] = bagged
               /\ \A k \in 1..size : g[k] = Double(g[k - 1], size)
  <2>1. size \in Nat
    BY <1>1
  <2> QED BY <2>1, LiftUnfolds
<1> DEFINE Grows(k) == /\ IsPower(g[k].size) /\ g[k].size <= size
                       /\ g[k].size = size \/ g[k].size > k
                       /\ Len(leaves) <= start + g[k].size
                       /\ Placed(leaves, g[k].hash, g[k].size, start)
           T == {k \in 0..size : Grows(k)}
<1>3. 0 \in T
  <2>1. 0 \in 0..size /\ bagged.size > 0
    BY <1>1
  <2> QED BY <1>2, <2>1
<1>4. ASSUME NEW k \in 1..size, k - 1 \in T PROVE k \in T
  <2>1. PICK s : s = g[k - 1].size /\ IsPower(s) /\ s \in Nat \ {0}
                 /\ s <= size /\ (s = size \/ s > k - 1) /\ Len(leaves) <= start + s
    BY <1>4, PowersApart
  <2>2. g[k] = Double(g[k - 1], size)
    BY <1>2
  <2>3. CASE s >= size
    <3>1. g[k] = g[k - 1]
      BY <2>1, <2>2, <2>3 DEF Double
    <3>2. s = size
      BY <1>1, <2>1, <2>3
    <3>3. Grows(k - 1) /\ size <= size
      BY <1>1, <1>4
    <3>4. Grows(k)
      BY <2>1, <3>1, <3>2, <3>3
    <3> QED BY <3>4
  <2>4. CASE ~(s >= size)
    <3>1. g[k].size = 2 * s /\ g[k].hash = NodeHash(g[k - 1].hash, g[k - 1].hash)
      BY <2>1, <2>2, <2>4 DEF Double
    <3>2. 2 * s <= size
      BY <1>1, <2>1, <2>4, PowersApart
    <3>3. IsPower(2 * s)
      BY <2>1, PowerDoubles
    <3>4. 2 * s > k /\ Len(leaves) <= start + 2 * s
      BY <1>1, <2>1, <2>4
    <3>5. Multiple(start, 2 * s)
      <4>1. Multiple(size, 2 * s) /\ 2 * s \in Nat
        BY <2>1, <3>2, <3>3, PowersDivide
      <4> QED BY <1>1, <4>1, MultipleFacts
    <3>6. Placed(leaves, NodeHash(g[k - 1].hash, g[k - 1].hash), 2 * s, start)
      <4>1. Placed(leaves, g[k - 1].hash, s, start) /\ start # 0
        BY <1>4, <2>1
      <4> QED BY <2>1, <3>5, <4>1, ParentPlaced
    <3> QED BY <3>1, <3>2, <3>3, <3>4, <3>6
  <2> QED BY <2>3, <2>4
<1>5. Grows(size)
  <2>1. \A k \in 0..size : k \in T
    <3> HIDE DEF T
    <3> QED BY <1>1, <1>3, <1>4, InductionUpTo
  <2>2. size \in 0..size
    BY <1>1
  <2> QED BY <2>1, <2>2
<1>6. g[size].size = size
  BY <1>1, <1>5, PowersApart
<1> QED BY <1>2, <1>5, <1>6

(* The frontier of a tree is bagged into its root. *)
LEMMA PlacedRoots ==
  ASSUME NEW leaves, NEW f, LeafSequence(leaves), Frontier(f, Len(leaves)), AllPlaced(leaves, f)
  PROVE  RootOfFrontier(f) = MerkleRoot(leaves)
<1> DEFINE size == Len(leaves)
<1>1. PICK n \in Nat : Len(f) = n + 1
  <2>1. Len(f) - 1 \in Nat /\ Len(f) = (Len(f) - 1) + 1
    BY DEF Frontier
  <2> QED BY <2>1
<1>2. PICK g : Bags(g, f, n)
  BY <1>1, BagUnfolds
<1>3. /\ \A i \in 1..(n + 1) : /\ IsPower(f[i].size) /\ f[i].size \in Nat \ {0}
                               /\ f[i].start \in Nat /\ size < f[i].start + 2 * f[i].size
                               /\ Placed(leaves, f[i].hash, f[i].size, f[i].start)
                               /\ Multiple(f[i].start, 2 * f[i].size)
      /\ size \in Nat \ {0}
  <2>1. \A i \in 1..(n + 1) : /\ f[i].size \in Nat \ {0}
                              /\ f[i].start \in Nat /\ size < f[i].start + 2 * f[i].size
    BY <1>1, FrontierEnds
  <2>2. \A i \in 1..(n + 1) : IsPower(f[i].size) /\ Placed(leaves, f[i].hash, f[i].size, f[i].start)
    BY <1>1 DEF Frontier, AllPlaced
  <2>3. \A i \in 1..(n + 1) : Multiple(f[i].start, 2 * f[i].size)
    BY <1>1, FrontierAligned
  <2> QED BY <2>1, <2>2, <2>3 DEF LeafSequence
<1> HIDE DEF size
<1> DEFINE Bagged(k, i) == /\ IsPower(g[k].size) /\ g[k].size <= 2 * f[i].size
                           /\ i # n + 1 \/ g[k].size = f[i].size
                           /\ size <= f[i].start + g[k].size
                           /\ Placed(leaves, g[k].hash, g[k].size, f[i].start)
           T == {k \in 0..n : Bagged(k, (n + 1) - k)}
<1>4. 0 \in T
  <2>1. n + 1 \in 1..(n + 1) /\ (n + 1) - 0 = n + 1
    OBVIOUS
  <2>2. g[0].size = f[n + 1].size /\ g[0].hash = f[n + 1].hash
    BY <1>2 DEF Bags
  <2>3. f[n + 1].start + f[n + 1].size = size
    BY <1>1 DEF Frontier, size
  <2>4. PICK x \in Nat \ {0} : x = f[n + 1].size /\ x <= 2 * x
    BY <1>3, <2>1
  <2> QED BY <1>3, <2>1, <2>2, <2>3, <2>4
<1>5. ASSUME NEW k \in 1..n, k - 1 \in T PROVE k \in T
  <2>1. PICK i \in 1..n : i = (n + 1) - k /\ i + 1 = (n + 1) - (k - 1)
    <3>1. (n + 1) - k \in 1..n /\ ((n + 1) - k) + 1 = (n + 1) - (k - 1)
      OBVIOUS
    <3> QED BY <3>1
  <2>2. i \in 1..(n + 1) /\ i + 1 \in 1..(n + 1) /\ i \in 1..(Len(f) - 1) /\ i # n + 1
    BY <1>1
  <2>3. Bagged(k - 1, i + 1)
    BY <1>5, <2>1
  <2>4. PICK x \in Nat \ {0}, y \in Nat \ {0}, z \in Nat \ {0}, st \in Nat :
          /\ x = f[i].size /\ y = f[i + 1].size /\ z = g[k - 1].size /\ st = f[i].start
          /\ IsPower(x) /\ IsPower(z)
    BY <1>3, <2>2, <2>3, PowerPositive
  <2>5. f[i + 1].start = st + x /\ 2 * y <= x
    BY <2>2, <2>4 DEF Frontier
  <2>6. z <= x
    <3>1. z <= 2 * y
      BY <2>3, <2>4
    <3> QED BY <2>5, <3>1
  <2>7. g[k].size = 2 * x /\ g[k].hash = NodeHash(f[i].hash, Lift(g[k - 1], x).hash)
    BY <1>2, <2>1, <2>4 DEF Bags
  <2>8. Multiple(st, 2 * x) /\ Multiple(st + x, x)
    <3>1. Multiple(st, 2 * x)
      BY <1>3, <2>2, <2>4
    <3> QED BY <2>2, <2>4, <3>1, TwiceMultiple
  <2>9. Placed(leaves, Lift(g[k - 1], x).hash, x, st + x)
    <3>1. st + x \in Nat \ {0}
      OBVIOUS
    <3>2. /\ Placed(leaves, g[k - 1].hash, g[k - 1].size, st + x)
          /\ Len(leaves) <= st + x + g[k - 1].size /\ g[k - 1].size <= x
          /\ IsPower(g[k - 1].size)
      BY <2>3, <2>4, <2>5, <2>6 DEF size
    <3> QED BY <2>4, <2>8, <3>1, <3>2, LiftedPlaced
  <2>10. Placed(leaves, g[k].hash, g[k].size, st)
    <3>1. Placed(leaves, f[i].hash, x, st) /\ x \in Nat /\ st \in Nat
      BY <1>3, <2>2, <2>4
    <3>2. Placed(leaves, NodeHash(f[i].hash, Lift(g[k - 1], x).hash), 2 * x, st)
      BY <2>8, <2>9, <3>1, ParentPlaced
    <3> QED BY <2>7, <3>2
  <2>11. size <= st + 2 * x /\ IsPower(2 * x) /\ 2 * x <= 2 * x
    <3>1. size < st + 2 * x /\ size \in Nat
      BY <1>3, <2>2, <2>4
    <3>2. IsPower(2 * x)
      BY <2>4, PowerDoubles
    <3>3. PICK e \in Nat, d \in Nat, s \in Nat : d = 2 * x /\ e = st + 2 * x /\ s = size /\ s < e
      <4>1. 2 * x \in Nat /\ st + 2 * x \in Nat
        OBVIOUS
      <4> QED BY <3>1, <4>1
    <3>4. s <= e /\ d <= d
      BY <3>3
    <3> QED BY <3>2, <3>3, <3>4
  <2>12. Bagged(k, i)
    BY <2>2, <2>4, <2>7, <2>10, <2>11
  <2> QED BY <2>1, <2>12
<1>6. Bagged(n, 1)
  <2>1. \A k \in 0..n : k \in T
    <3> HIDE DEF T
    <3> QED BY <1>4, <1>5, InductionUpTo
  <2>2. n \in 0..n /\ (n + 1) - n = 1
    OBVIOUS
  <2> QED BY <2>1, <2>2
<1>7. Placed(leaves, g[n].hash, g[n].size, 0) /\ size <= g[n].size /\ IsPower(g[n].size)
  <2>1. f[1].start = 0 /\ g[n].size \in Nat
    BY <1>6, PowerPositive DEF Frontier
  <2> QED BY <1>6, <2>1
<1>8. PICK h \in Nat : g[n].size = PowerOfTwo[h]
  BY <1>7 DEF IsPower
<1>9. OnLevel(leaves, h, 0) /\ g[n].hash = At(leaves, h, 0)
  <2>1. PICK i \in Nat : i = 0 /\ 0 = i * g[n].size
    <3>1. g[n].size \in Nat
      BY <1>7, PowerPositive
    <3> QED BY <3>1, Successor
  <2>2. OnLevel(leaves, h, i) /\ g[n].hash = At(leaves, h, i)
    BY <1>7, <1>8, <2>1, PlaceOnLevel
  <2> QED BY <2>1, <2>2
<1>10. h = Top(leaves)
  <2>1. ~OnLevel(leaves, h, 1)
    <3>1. PICK p \in Nat, u \in Nat : p = PowerOfTwo[h] /\ u = 1 /\ u * p = p
      <4>1. PICK p \in Nat : p = PowerOfTwo[h]
        BY PowerFacts
      <4>2. 1 * p = p
        OBVIOUS
      <4> QED BY <4>1, <4>2
    <3>2. ~(u * PowerOfTwo[h] < Len(leaves))
      BY <1>3, <1>7, <1>8, <3>1 DEF size
    <3> QED BY <1>9, <3>1, <3>2, PositionsAt DEF OnLevel
  <2>2. Width(leaves, h) = 1
    BY <1>9, <2>1, LevelHeights DEF OnLevel
  <2>3. PathLength[1] = Top(leaves) - h /\ Top(leaves) \in Nat
    BY <1>9, <2>2, LevelHeights DEF OnLevel
  <2> QED BY <2>3, PathLengthUnfolds
<1>11. RootOfFrontier(f) = g[n].hash
  BY <1>2 DEF Bags
<1> QED BY <1>9, <1>10, <1>11, TopFacts
-----------------------------------------------------------------------------
(* A frontier that a block is appended to stays one: carries run to their end. *)

(* A frontier but for its last block, which may be as large as its neighbour. *)
Carrying(s, to) ==
  /\ Listed(s) /\ Len(s) \in Nat \ {0} /\ s[1].start = 0 /\ to \in Nat
  /\ \A j \in 1..Len(s) : IsPower(s[j].size) /\ s[j].start \in Nat
  /\ \A j \in 1..(Len(s) - 1) : s[j + 1].start = s[j].start + s[j].size
  /\ \A j \in 1..(Len(s) - 2) : 2 * s[j + 1].size <= s[j].size
  /\ Len(s) > 1 => s[Len(s)].size <= s[Len(s) - 1].size
  /\ s[Len(s)].start + s[Len(s)].size = to

Equals(s) == Len(s) > 1 /\ s[Len(s) - 1].size = s[Len(s)].size

(* Without two last blocks of one size there is nothing to merge: it is a
   frontier. *)
LEMMA NothingToCarry ==
  ASSUME NEW s, NEW to, Carrying(s, to), ~Equals(s)
  PROVE  Frontier(s, to) /\ MergeLast(s) = s
<1>1. PICK n \in Nat \ {0} : n = Len(s)
  BY DEF Carrying
<1>2. \A j \in 1..(n - 1) : 2 * s[j + 1].size <= s[j].size
  <2>1. ASSUME NEW j \in 1..(n - 1) PROVE 2 * s[j + 1].size <= s[j].size
    <3>1. CASE j = n - 1
      <4>1. j + 1 = n /\ n > 1
        BY <3>1
      <4>2. /\ IsPower(s[n].size) /\ IsPower(s[n - 1].size)
            /\ s[n].size <= s[n - 1].size /\ s[n - 1].size # s[n].size
        <5>1. n \in 1..n /\ n - 1 \in 1..n
          BY <4>1
        <5> QED BY <1>1, <4>1, <5>1 DEF Carrying, Equals
      <4> QED BY <3>1, <4>1, <4>2, PowersApart
    <3>2. CASE j # n - 1
      <4>1. j \in 1..(n - 2)
        BY <3>2
      <4> QED BY <1>1, <4>1 DEF Carrying
    <3> QED BY <3>1, <3>2
  <2> QED BY <2>1
<1>3. Frontier(s, to)
  BY <1>1, <1>2 DEF Carrying, Frontier
<1>4. n < 2 \/ s[n - 1].size # s[n].size
  BY <1>1 DEF Equals
<1> QED BY <1>1, <1>3, <1>4 DEF MergeLast

(* The blocks before the last. *)
LEMMA FrontOfCarrying ==
  ASSUME NEW s, NEW to, NEW n \in Nat, Carrying(s, to), Len(s) = n + 2
  PROVE  Frontier(SubSeq(s, 1, n + 1), s[n + 2].start)
<1> DEFINE t == SubSeq(s, 1, n + 1)
<1>1. Listed(t) /\ Len(t) = n + 1 /\ \A i \in 1..(n + 1) : t[i] = s[i]
  <2>1. PICK m \in Nat : m = n + 1 /\ m <= Len(s)
    OBVIOUS
  <2> QED BY <2>1, FirstFacts DEF Carrying
<1> HIDE DEF t
<1>2. \A j \in 1..(n + 1) : IsPower(s[j].size) /\ s[j].start \in Nat
  BY DEF Carrying
<1>3. \A j \in 1..n : s[j + 1].start = s[j].start + s[j].size /\ 2 * s[j + 1].size <= s[j].size
  <2>1. \A j \in 1..n : j \in 1..(Len(s) - 1) /\ j \in 1..(Len(s) - 2)
    OBVIOUS
  <2> QED BY <2>1 DEF Carrying
<1>4. s[n + 2].start = s[n + 1].start + s[n + 1].size /\ s[n + 2].start \in Nat /\ s[1].start = 0
  <2>1. n + 1 \in 1..(Len(s) - 1) /\ (n + 1) + 1 = n + 2 /\ n + 2 \in 1..Len(s)
    OBVIOUS
  <2> QED BY <2>1 DEF Carrying
<1>5. \A j \in 1..(n + 1) : IsPower(t[j].size) /\ t[j].start \in Nat
  BY <1>1, <1>2
<1>6. \A j \in 1..n : t[j + 1].start = t[j].start + t[j].size /\ 2 * t[j + 1].size <= t[j].size
  <2>1. \A j \in 1..n : j \in 1..(n + 1) /\ j + 1 \in 1..(n + 1)
    OBVIOUS
  <2> QED BY <1>1, <1>3, <2>1
<1>7. t[1].start = 0 /\ t[n + 1].start + t[n + 1].size = s[n + 2].start
  <2>1. 1 \in 1..(n + 1) /\ n + 1 \in 1..(n + 1)
    OBVIOUS
  <2> QED BY <1>1, <1>4, <2>1
<1>8. Len(t) - 1 = n /\ n + 1 \in Nat \ {0}
  BY <1>1
<1>9. Frontier(t, s[n + 2].start)
  BY <1>1, <1>4, <1>5, <1>6, <1>7, <1>8 DEF Frontier
<1> QED BY <1>9 DEF t

(* One carry keeps the blocks in their places, and there is one block less. *)
LEMMA CarryOnce ==
  ASSUME NEW leaves, NEW s, NEW to, LeafSequence(leaves), Carrying(s, to), AllPlaced(leaves, s),
         Equals(s)
  PROVE  /\ Carrying(MergeLast(s), to) /\ AllPlaced(leaves, MergeLast(s))
         /\ Len(MergeLast(s)) = Len(s) - 1
<1>1. PICK n \in Nat : Len(s) = n + 2
  <2>1. Len(s) - 2 \in Nat /\ Len(s) = (Len(s) - 2) + 2
    BY DEF Carrying, Equals
  <2> QED BY <2>1
<1> DEFINE l == s[n + 1]
           r == s[n + 2]
           b == [start |-> l.start, size |-> 2 * r.size, hash |-> NodeHash(l.hash, r.hash)]
           t == MergeLast(s)
<1>2. (n + 2) - 1 = n + 1 /\ (n + 2) - 2 = n
  OBVIOUS
<1>3. /\ n + 1 \in 1..(n + 2) /\ n + 2 \in 1..(n + 2) /\ n + 1 \in 1..((n + 2) - 1)
      /\ (n + 1) + 1 = n + 2
  OBVIOUS
<1>4. /\ l.size = r.size /\ r.start = l.start + r.size /\ IsPower(r.size)
      /\ l.start \in Nat /\ r.start + r.size = to /\ to \in Nat
  BY <1>1, <1>2, <1>3 DEF Carrying, Equals
<1>5. t = Append(SubSeq(s, 1, n), b)
  <2>1. ~(\/ Len(s) < 2 \/ s[Len(s) - 1].size # s[Len(s)].size
          \/ s[Len(s) - 1].start + s[Len(s) - 1].size # s[Len(s)].start)
    BY <1>1, <1>2, <1>4
  <2> QED BY <1>1, <1>2, <2>1 DEF MergeLast
<1>6. b.start = l.start /\ b.size = 2 * r.size /\ b.hash = NodeHash(l.hash, r.hash)
  OBVIOUS
<1> HIDE DEF b, t
<1>7. Listed(t) /\ Len(t) = n + 1 /\ t[n + 1] = b /\ \A i \in 1..n : t[i] = s[i]
  <2>1. n <= Len(s) /\ Listed(s)
    BY <1>1 DEF Carrying
  <2>2. Listed(SubSeq(s, 1, n)) /\ Len(SubSeq(s, 1, n)) = n
        /\ \A i \in 1..n : SubSeq(s, 1, n)[i] = s[i]
    BY <2>1, FirstFacts
  <2> QED BY <1>5, <2>2, AppendFacts
<1>8. r.size \in Nat \ {0} /\ IsPower(2 * r.size)
  BY <1>4, PowerPositive, PowerDoubles
<1>9. \A j \in 1..n : /\ j \in 1..Len(s) /\ j \in 1..(Len(s) - 1) /\ j \in 1..(Len(s) - 2)
                      /\ j \in 1..(n + 1)
  BY <1>1
<1>10. \A j \in 1..n : /\ IsPower(s[j].size) /\ s[j].start \in Nat
                       /\ s[j + 1].start = s[j].start + s[j].size
                       /\ 2 * s[j + 1].size <= s[j].size
  BY <1>9 DEF Carrying
<1>11. Carrying(t, to)
  <2>1. ASSUME NEW j \in 1..(n + 1) PROVE IsPower(t[j].size) /\ t[j].start \in Nat
    <3>1. j = n + 1 \/ j \in 1..n
      OBVIOUS
    <3> QED BY <1>4, <1>6, <1>7, <1>8, <1>10, <3>1
  <2>2. ASSUME NEW j \in 1..n
        PROVE  t[j + 1].start = t[j].start + t[j].size /\ t[j + 1].size <= t[j].size
    <3>1. CASE j = n
      <4>1. t[n + 1] = b /\ t[n] = s[n] /\ n \in 1..n
        BY <1>7, <3>1
      <4>2. b.start = s[n].start + s[n].size /\ b.size <= s[n].size
        BY <1>4, <1>6, <1>10, <4>1
      <4> QED BY <3>1, <4>1, <4>2
    <3>2. CASE j # n
      <4>1. j + 1 \in 1..n
        BY <3>2
      <4>2. t[j] = s[j] /\ t[j + 1] = s[j + 1]
        BY <1>7, <4>1
      <4>3. s[j + 1].size \in Nat /\ s[j].size \in Nat
        BY <1>10, <4>1, PowerPositive
      <4> QED BY <1>10, <4>2, <4>3
    <3> QED BY <3>1, <3>2
  <2>3. ASSUME NEW j \in 1..(n - 1) PROVE 2 * t[j + 1].size <= t[j].size
    <3>1. j \in 1..n /\ j + 1 \in 1..n
      OBVIOUS
    <3> QED BY <1>7, <1>10, <3>1
  <2>4. t[1].start = 0
    <3>1. CASE n = 0
      BY <1>6, <1>7, <3>1 DEF Carrying
    <3>2. CASE n # 0
      <4>1. 1 \in 1..n
        BY <3>2
      <4> QED BY <1>7, <4>1 DEF Carrying
    <3> QED BY <3>1, <3>2
  <2>5. t[n + 1].start + t[n + 1].size = to
    <3>1. b.start = l.start /\ b.size = r.size + r.size
      BY <1>6, <1>8
    <3> QED BY <1>4, <1>7, <1>8, <3>1
  <2>6. n + 1 > 1 => t[n + 1].size <= t[n].size
    <3>1. ASSUME n + 1 > 1 PROVE n \in 1..n
      BY <3>1
    <3> QED BY <2>2, <3>1
  <2>7. Len(t) = n + 1 /\ Len(t) - 1 = n /\ Len(t) - 2 = n - 1 /\ n + 1 \in Nat \ {0}
    BY <1>7
  <2> QED BY <1>4, <1>7, <2>1, <2>2, <2>3, <2>4, <2>5, <2>6, <2>7 DEF Carrying
<1>12. AllPlaced(leaves, t)
  <2>1. \A j \in 1..(n + 2) : /\ Placed(leaves, s[j].hash, s[j].size, s[j].start)
                              /\ s[j].start + s[j].size <= Len(leaves)
    BY <1>1 DEF AllPlaced
  <2>2. Placed(leaves, NodeHash(l.hash, r.hash), 2 * r.size, l.start)
    <3>1. Multiple(l.start, 2 * r.size)
      <4>1. Frontier(SubSeq(s, 1, n + 1), s[n + 2].start)
        BY <1>1, FrontOfCarrying
      <4>2. SubSeq(s, 1, n + 1)[n + 1] = l /\ Len(SubSeq(s, 1, n + 1)) = n + 1
        <5>1. PICK m \in Nat : m = n + 1 /\ m <= Len(s) /\ m \in 1..m
          BY <1>1
        <5> QED BY <5>1, FirstFacts DEF Carrying
      <4>3. n + 1 \in 1..(n + 1)
        OBVIOUS
      <4>4. Multiple(l.start, 2 * l.size)
        BY <4>1, <4>2, <4>3, FrontierAligned
      <4> QED BY <1>4, <4>4
    <3>2. /\ Placed(leaves, l.hash, r.size, l.start)
          /\ Placed(leaves, r.hash, r.size, l.start + r.size)
      BY <1>3, <1>4, <2>1
    <3> QED BY <1>4, <1>8, <3>1, <3>2, ParentPlaced
  <2>3. l.start + 2 * r.size <= Len(leaves)
    <3>1. r.start + r.size <= Len(leaves)
      BY <1>3, <2>1
    <3> QED BY <1>4, <1>8, <3>1
  <2>4. ASSUME NEW j \in 1..(n + 1)
        PROVE  /\ Placed(leaves, t[j].hash, t[j].size, t[j].start)
               /\ t[j].start + t[j].size <= Len(leaves)
    <3>1. CASE j = n + 1
      BY <1>6, <1>7, <2>2, <2>3, <3>1
    <3>2. CASE j # n + 1
      <4>1. j \in 1..n /\ j \in 1..(n + 2)
        BY <3>2
      <4> QED BY <1>7, <2>1, <4>1
    <3> QED BY <3>1, <3>2
  <2> QED BY <1>7, <2>4 DEF AllPlaced
<1> QED BY <1>1, <1>2, <1>7, <1>11, <1>12 DEF t

(* A frontier is a run of carries at its end. *)
LEMMA FrontierCarries ==
  ASSUME NEW s, NEW to, Frontier(s, to)
  PROVE  Carrying(s, to) /\ ~Equals(s)
<1>1. PICK n \in Nat \ {0} : n = Len(s)
  BY DEF Frontier
<1>2. \A j \in 1..n : IsPower(s[j].size) /\ s[j].size \in Nat \ {0}
  BY <1>1, PowerPositive DEF Frontier
<1>3. \A j \in 1..(n - 1) : 2 * s[j + 1].size <= s[j].size
  BY <1>1 DEF Frontier
<1>4. n > 1 => s[n].size <= s[n - 1].size /\ s[n].size # s[n - 1].size
  <2>1. SUFFICES ASSUME n > 1
                 PROVE  s[n].size <= s[n - 1].size /\ s[n].size # s[n - 1].size
    OBVIOUS
  <2>2. PICK m \in Nat : m = n - 1 /\ m + 1 = n /\ m \in 1..(n - 1) /\ m \in 1..n /\ n \in 1..n
    BY <2>1
  <2>3. 2 * s[n].size <= s[m].size /\ s[n].size \in Nat \ {0} /\ s[m].size \in Nat
    BY <1>2, <1>3, <2>2
  <2> QED BY <2>2, <2>3
<1>5. \A j \in 1..(n - 2) : j \in 1..(n - 1)
  OBVIOUS
<1>6. Carrying(s, to)
  BY <1>1, <1>3, <1>4, <1>5 DEF Frontier, Carrying
<1> QED BY <1>1, <1>4, <1>6 DEF Equals

(* A frontier with the next block appended is one, its blocks in their places. *)
LEMMA AppendBlockFrontier ==
  ASSUME NEW leaves, NEW f, NEW from, NEW to, NEW block, LeafSequence(leaves),
         Frontier(f, from), AllPlaced(leaves, f), block.start = from, from + block.size = to,
         IsPower(block.size), block.size <= f[Len(f)].size, to <= Len(leaves),
         Placed(leaves, block.hash, block.size, from)
  PROVE  Frontier(AppendBlock(f, block), to) /\ AllPlaced(leaves, AppendBlock(f, block))
<1>1. PICK n \in Nat \ {0} : n = Len(f)
  BY DEF Frontier
<1>2. PICK g : Carries(g, f, block)
  BY <1>1, AppendBlockUnfolds
<1>3. /\ AppendBlock(f, block) = g[n] /\ g[0] = Append(f, block)
      /\ \A k \in 1..n : g[k] = MergeLast(g[k - 1])
  BY <1>1, <1>2 DEF Carries
<1> DEFINE s == g[0]
<1>4. Listed(s) /\ Len(s) = n + 1 /\ s[n + 1] = block /\ \A i \in 1..n : s[i] = f[i]
  BY <1>1, <1>3, AppendFacts DEF Frontier
<1> HIDE DEF s
<1>5. from \in Nat /\ to \in Nat /\ block.size \in Nat \ {0}
  BY PowerPositive DEF Frontier
<1>6. Carrying(s, to)
  <2>1. ASSUME NEW j \in 1..(n + 1) PROVE IsPower(s[j].size) /\ s[j].start \in Nat
    <3>1. j = n + 1 \/ j \in 1..n
      OBVIOUS
    <3> QED BY <1>1, <1>4, <1>5, <3>1 DEF Frontier
  <2>2. ASSUME NEW j \in 1..n PROVE s[j + 1].start = s[j].start + s[j].size
    <3>1. CASE j = n
      BY <1>1, <1>4, <3>1 DEF Frontier
    <3>2. CASE j # n
      <4>1. j + 1 \in 1..n /\ j \in 1..(n - 1)
        BY <3>2
      <4> QED BY <1>1, <1>4, <4>1 DEF Frontier
    <3> QED BY <3>1, <3>2
  <2>3. ASSUME NEW j \in 1..(n - 1) PROVE 2 * s[j + 1].size <= s[j].size
    <3>1. j \in 1..n /\ j + 1 \in 1..n
      OBVIOUS
    <3> QED BY <1>1, <1>4, <3>1 DEF Frontier
  <2>4. s[1].start = 0 /\ s[n + 1].start + s[n + 1].size = to /\ s[n + 1].size <= s[n].size
    <3>1. 1 \in 1..n /\ n \in 1..n
      OBVIOUS
    <3> QED BY <1>1, <1>4, <3>1 DEF Frontier
  <2>5. Len(s) = n + 1 /\ Len(s) - 1 = n /\ Len(s) - 2 = n - 1 /\ n + 1 \in Nat \ {0}
    BY <1>4
  <2> QED BY <1>4, <1>5, <2>1, <2>2, <2>3, <2>4, <2>5 DEF Carrying
<1>7. AllPlaced(leaves, s)
  <2>1. ASSUME NEW j \in 1..(n + 1)
        PROVE  /\ Placed(leaves, s[j].hash, s[j].size, s[j].start)
               /\ s[j].start + s[j].size <= Len(leaves)
    <3>1. j = n + 1 \/ j \in 1..n
      OBVIOUS
    <3> QED BY <1>1, <1>4, <3>1 DEF AllPlaced
  <2> QED BY <1>4, <2>1 DEF AllPlaced
<1> DEFINE Good(k) == /\ Carrying(g[k], to) /\ AllPlaced(leaves, g[k])
                      /\ ~Equals(g[k]) \/ Len(g[k]) = (n + 1) - k
           T == {k \in 0..n : Good(k)}
<1>8. 0 \in T
  BY <1>4, <1>6, <1>7 DEF s
<1>9. ASSUME NEW k \in 1..n, k - 1 \in T PROVE k \in T
  <2>1. Good(k - 1) /\ g[k] = MergeLast(g[k - 1])
    BY <1>3, <1>9
  <2>2. CASE Equals(g[k - 1])
    <3>1. /\ Carrying(g[k], to) /\ AllPlaced(leaves, g[k])
          /\ Len(g[k]) = Len(g[k - 1]) - 1
      BY <2>1, <2>2, CarryOnce
    <3>2. Len(g[k - 1]) = (n + 1) - (k - 1)
      BY <2>1, <2>2
    <3> QED BY <3>1, <3>2
  <2>3. CASE ~Equals(g[k - 1])
    <3>1. g[k] = g[k - 1]
      BY <2>1, <2>3, NothingToCarry
    <3> QED BY <2>1, <2>3, <3>1
  <2> QED BY <2>2, <2>3
<1>10. Good(n)
  <2>1. \A k \in 0..n : k \in T
    <3> HIDE DEF T
    <3> QED BY <1>8, <1>9, InductionUpTo
  <2>2. n \in 0..n
    OBVIOUS
  <2> QED BY <2>1, <2>2
<1>11. ~Equals(g[n])
  BY <1>10 DEF Equals
<1>12. Frontier(g[n], to)
  BY <1>10, <1>11, NothingToCarry
<1> QED BY <1>3, <1>10, <1>12
-----------------------------------------------------------------------------
(* The blocks that are built are in their places. *)

SubtreeStep(leaves, g, n) ==
  [at \in Nat |-> IF n <= 1 THEN leaves[at + 1]
                  ELSE NodeHash(g[n \div 2][at], g[n \div 2][at + n \div 2])]
Subtree == INSTANCE NaturalOrder_proofs WITH Recur <- SubtreeStep

(* The roots of the subtrees of every size up to a bound. *)
Subtrees(g, leaves, size) ==
  /\ \A start : SubtreeRoot(leaves, start, size) = g[size][start]
  /\ \A n \in 0..size : g[n] = SubtreeStep(leaves, g, n)

(* The root of a subtree: that of its halves, down to the leaves. *)
LEMMA SubtreeUnfolds ==
  ASSUME NEW leaves, NEW size \in Nat
  PROVE  \E g : Subtrees(g, leaves, size)
<1> DEFINE G == CHOOSE g : g = [n \in 0..size |-> SubtreeStep(leaves, g, n)]
<1>1. Subtree!LooksBelow(leaves, size)
  <2>1. ASSUME NEW k \in 0..size, NEW g, NEW h, \A m \in 0..(k - 1) : g[m] = h[m]
        PROVE  SubtreeStep(leaves, g, k) = SubtreeStep(leaves, h, k)
    <3>1. CASE k <= 1
      BY <3>1 DEF SubtreeStep
    <3>2. CASE ~(k <= 1)
      <4>1. k \div 2 \in 0..(k - 1)
        BY <3>2
      <4>2. g[k \div 2] = h[k \div 2]
        BY <2>1, <4>1
      <4> QED BY <4>2 DEF SubtreeStep
    <3> QED BY <3>1, <3>2
  <2> QED BY <2>1 DEF Subtree!LooksBelow
<1>2. \E g : g = [n \in 0..size |-> SubtreeStep(leaves, g, n)]
  BY <1>1, Subtree!RecursionExists DEF Subtree!Recursive
<1>3. G = [n \in 0..size |-> SubtreeStep(leaves, G, n)]
  BY <1>2, Zenon
<1>4. \A start : SubtreeRoot(leaves, start, size) = G[size][start]
  BY Zenon DEF SubtreeRoot, SubtreeStep
<1> HIDE DEF G
<1>5. \A n \in 0..size : G[n] = SubtreeStep(leaves, G, n)
  BY <1>3
<1>6. Subtrees(G, leaves, size)
  BY <1>4, <1>5 DEF Subtrees
<1> QED BY <1>6

(* What ends within the leaves starts there, and is no larger. *)
LEMMA Beneath == \A c, l \in Nat, p \in Nat \ {0} : c + p <= l => c < l /\ p <= l
OBVIOUS

(* A block within the leaves is a position of some level. *)
LEMMA FullBlock ==
  ASSUME NEW leaves, LeafSequence(leaves), NEW h \in Nat, NEW i \in Nat,
         (i + 1) * PowerOfTwo[h] <= Len(leaves)
  PROVE  OnLevel(leaves, h, i)
<1>1. PICK n \in Nat : n = Top(leaves) /\ Len(leaves) \in Nat /\ Len(leaves) <= PowerOfTwo[n]
  BY PathLengthIsHeight, TopFacts DEF LeafSequence, Top, Height
<1>2. PICK p \in Nat \ {0} : p = PowerOfTwo[h]
  <2>1. PowerOfTwo[h] \in Nat /\ PowerOfTwo[h] >= 1
    BY PowerFacts
  <2> QED BY <2>1
<1>3. p <= Len(leaves) /\ i * p < Len(leaves)
  <2>1. (i + 1) * p = i * p + p /\ i * p \in Nat
    <3>1. p \in Nat
      OBVIOUS
    <3> QED BY Zenon, <3>1, Successor
  <2>2. PICK c \in Nat : c = i * p /\ c + p <= Len(leaves)
    <3>1. (i + 1) * p <= Len(leaves)
      BY <1>2
    <3> QED BY <2>1, <3>1
  <2>3. c < Len(leaves) /\ p <= Len(leaves)
    BY Zenon, <1>1, <2>2, Beneath
  <2> QED BY <2>2, <2>3
<1>4. h \in 0..n
  <2>1. SUFFICES ASSUME n < h PROVE FALSE
    OBVIOUS
  <2>2. 2 * PowerOfTwo[n] <= PowerOfTwo[h]
    BY <2>1, PowerMonotone
  <2>3. PowerOfTwo[n] \in Nat /\ PowerOfTwo[n] >= 1
    BY PowerFacts
  <2> QED BY <1>1, <1>2, <1>3, <2>2, <2>3
<1> QED BY <1>1, <1>2, <1>3, <1>4, PositionsAt

(* A node over a full block has both its children. *)
LEMMA FullNode ==
  ASSUME NEW leaves, LeafSequence(leaves), NEW h \in Nat, NEW i \in Nat,
         (i + 1) * PowerOfTwo[h + 1] <= Len(leaves)
  PROVE  /\ (2 * i + 1) * PowerOfTwo[h] <= Len(leaves)
         /\ (2 * i + 2) * PowerOfTwo[h] <= Len(leaves)
         /\ At(leaves, h + 1, i) = NodeHash(At(leaves, h, 2 * i), At(leaves, h, 2 * i + 1))
<1>1. PICK p \in Nat \ {0} : p = PowerOfTwo[h] /\ PowerOfTwo[h + 1] = 2 * p
  <2>1. PowerOfTwo[h] \in Nat /\ PowerOfTwo[h] >= 1 /\ PowerOfTwo[h + 1] = 2 * PowerOfTwo[h]
    BY PowerFacts
  <2> QED BY <2>1
<1>2. PICK j \in Nat : j = 2 * i + 1 /\ 2 * i + 2 = j + 1
  OBVIOUS
<1>3. (j + 1) * p <= Len(leaves) /\ j * p <= Len(leaves)
  <2>1. (i + 1) * (2 * p) = (2 * (i + 1)) * p
    BY Distribute
  <2>2. 2 * (i + 1) = j + 1
    BY <1>2
  <2>3. (i + 1) * (2 * p) = (j + 1) * p
    BY <2>1, <2>2, Zenon
  <2>4. (j + 1) * p = j * p + p /\ j * p \in Nat
    BY Successor
  <2>5. (i + 1) * (2 * p) <= Len(leaves) /\ Len(leaves) \in Nat
    BY <1>1 DEF LeafSequence
  <2> QED BY <2>3, <2>4, <2>5
<1>4. OnLevel(leaves, h, j)
  BY <1>1, <1>3, FullBlock
<1>5. OnLevel(leaves, h + 1, i)
  <2>1. PICK k \in Nat : k = h + 1 /\ (i + 1) * PowerOfTwo[k] <= Len(leaves)
    OBVIOUS
  <2> QED BY <2>1, FullBlock
<1>6. At(leaves, h + 1, i) = NodeHash(At(leaves, h, 2 * i), At(leaves, h, j))
  BY <1>2, <1>4, <1>5, NodeAt DEF OnLevel
<1> QED BY <1>1, <1>2, <1>3, <1>6

(* The root of a full subtree is the node of the tree in its position. *)
LEMMA SubtreeAt ==
  ASSUME NEW leaves, NEW top \in Nat, NEW i \in Nat, LeafSequence(leaves),
         (i + 1) * PowerOfTwo[top] <= Len(leaves)
  PROVE  SubtreeRoot(leaves, i * PowerOfTwo[top], PowerOfTwo[top]) = At(leaves, top, i)
<1>1. PICK size \in Nat : size = PowerOfTwo[top]
  BY PowerFacts
<1>2. PICK g : Subtrees(g, leaves, size)
  BY SubtreeUnfolds
<1> DEFINE Right(h, p) == \A m \in Nat : (m + 1) * p <= Len(leaves) => g[p][m * p] = At(leaves, h, m)
           T == {h \in 0..top : Right(h, PowerOfTwo[h])}
<1>3. ASSUME NEW h \in 0..top PROVE PowerOfTwo[h] \in 0..size /\ PowerOfTwo[h] \in Nat \ {0}
  <2>1. PICK p \in Nat \ {0} : p = PowerOfTwo[h]
    <3>1. h \in Nat
      OBVIOUS
    <3>2. PowerOfTwo[h] \in Nat /\ PowerOfTwo[h] >= 1
      BY <3>1, PowerFacts
    <3> QED BY <3>2
  <2>2. p <= size
    <3>1. CASE h = top
      BY <1>1, <2>1, <3>1
    <3>2. CASE h # top
      <4>1. 2 * PowerOfTwo[h] <= PowerOfTwo[top]
        <5>1. h < top
          BY <3>2
        <5> QED BY <5>1, PowerMonotone
      <4> QED BY <1>1, <2>1, <4>1
    <3> QED BY <3>1, <3>2
  <2> QED BY <2>1, <2>2
<1>4. 0 \in T
  <2>1. PowerOfTwo[0] = 1 /\ 0 \in 0..top
    BY PowerFacts
  <2>2. g[1] = SubtreeStep(leaves, g, 1)
    BY <1>2, <1>3, <2>1 DEF Subtrees
  <2>3. ASSUME NEW m \in Nat PROVE g[1][m * 1] = At(leaves, 0, m)
    <3>1. At(leaves, 0, m) = leaves[m + 1]
      BY TopFacts
    <3>2. m * 1 = m /\ 1 <= 1
      OBVIOUS
    <3>3. SubtreeStep(leaves, g, 1)[m] = leaves[m + 1]
      BY <3>2 DEF SubtreeStep
    <3> QED BY <2>2, <3>1, <3>2, <3>3
  <2> QED BY <2>1, <2>3
<1>5. ASSUME NEW h \in 1..top, h - 1 \in T PROVE h \in T
  <2>1. PICK l \in 0..top : l = h - 1 /\ l + 1 = h /\ l \in Nat
    <3>1. h - 1 \in 0..top /\ (h - 1) + 1 = h /\ h - 1 \in Nat
      OBVIOUS
    <3> QED BY <3>1
  <2>2. PICK p \in Nat \ {0} : p = PowerOfTwo[l] /\ PowerOfTwo[h] = 2 * p
    <3>1. PowerOfTwo[l] \in Nat \ {0} /\ PowerOfTwo[l + 1] = 2 * PowerOfTwo[l]
      <4>1. PowerOfTwo[l] \in Nat \ {0}
        BY <1>3
      <4>2. l \in Nat
        BY <2>1
      <4>3. PowerOfTwo[l + 1] = 2 * PowerOfTwo[l]
        BY <4>2, PowerFacts
      <4> QED BY <4>1, <4>3
    <3> QED BY <2>1, <3>1
  <2>3. g[2 * p] = SubtreeStep(leaves, g, 2 * p)
    <3>1. h \in 0..top
      OBVIOUS
    <3>2. PowerOfTwo[h] \in 0..size
      BY <1>3, <3>1
    <3> QED BY <1>2, <2>2, <3>2 DEF Subtrees
  <2>4. ASSUME NEW m \in Nat, (m + 1) * (2 * p) <= Len(leaves)
        PROVE  g[2 * p][m * (2 * p)] = At(leaves, h, m)
    <3>1. PICK a \in Nat, b \in Nat : a = 2 * m /\ b = 2 * m + 1 /\ b = a + 1 /\ b + 1 = 2 * m + 2
      OBVIOUS
    <3>2. m * (2 * p) = a * p /\ a * p + p = b * p /\ a * p \in Nat
      <4>1. m * (2 * p) = (2 * m) * p
        BY Distribute
      <4>2. (a + 1) * p = a * p + p /\ a * p \in Nat
        BY Successor
      <4> QED BY <3>1, <4>1, <4>2, Zenon
    <3>3. (2 * p) \div 2 = p /\ ~(2 * p <= 1)
      OBVIOUS
    <3>4. g[2 * p][a * p] = NodeHash(g[p][a * p], g[p][b * p])
      BY <2>3, <3>2, <3>3 DEF SubtreeStep
    <3>5. /\ (a + 1) * p <= Len(leaves) /\ (b + 1) * p <= Len(leaves)
          /\ At(leaves, h, m) = NodeHash(At(leaves, l, a), At(leaves, l, b))
      <4>1. (m + 1) * PowerOfTwo[l + 1] <= Len(leaves)
        BY <2>1, <2>2, <2>4
      <4>2. /\ (2 * m + 1) * PowerOfTwo[l] <= Len(leaves)
            /\ (2 * m + 2) * PowerOfTwo[l] <= Len(leaves)
            /\ At(leaves, l + 1, m) = NodeHash(At(leaves, l, 2 * m), At(leaves, l, 2 * m + 1))
        BY <2>1, <4>1, FullNode
      <4> QED BY <2>1, <2>2, <3>1, <4>2, Zenon
    <3>6. g[p][a * p] = At(leaves, l, a) /\ g[p][b * p] = At(leaves, l, b)
      <4>1. Right(l, p)
        BY <1>5, <2>1, <2>2
      <4> QED BY <3>5, <4>1
    <3> QED BY <3>2, <3>4, <3>5, <3>6
  <2>5. Right(h, PowerOfTwo[h])
    BY <2>2, <2>4
  <2> QED BY <2>5
<1>6. Right(top, size)
  <2>1. \A h \in 0..top : h \in T
    <3> HIDE DEF T
    <3> QED BY <1>4, <1>5, InductionUpTo
  <2> QED BY <1>1, <2>1
<1>7. g[size][i * size] = At(leaves, top, i)
  BY <1>1, <1>6
<1> QED BY <1>1, <1>2, <1>7 DEF Subtrees

(* The root of an aligned block within the leaves is in its place. *)
LEMMA BlockPlaced ==
  ASSUME NEW leaves, NEW size, NEW start, LeafSequence(leaves), IsPower(size),
         Multiple(start, size), start + size <= Len(leaves)
  PROVE  Placed(leaves, SubtreeRoot(leaves, start, size), size, start)
<1>1. PICK h \in Nat, i \in Nat : size = PowerOfTwo[h] /\ start = i * size
  BY DEF IsPower, Multiple
<1>2. (i + 1) * PowerOfTwo[h] <= Len(leaves)
  <2>1. size \in Nat
    BY PowerPositive
  <2>2. (i + 1) * size = i * size + size
    BY <2>1, Successor
  <2> QED BY <1>1, <2>2
<1>3. OnLevel(leaves, h, i)
  BY <1>2, FullBlock
<1>4. SubtreeRoot(leaves, i * PowerOfTwo[h], PowerOfTwo[h]) = At(leaves, h, i)
  BY <1>2, SubtreeAt
<1> QED BY <1>1, <1>3, <1>4 DEF Placed

(* A block of a tree is where it was in every tree that begins with its leaves. *)
LEMMA GrownAt ==
  ASSUME NEW a, NEW b, LeafSequence(a), LeafSequence(b), Len(a) <= Len(b),
         \A p \in 1..Len(a) : a[p] = b[p]
  PROVE  \A h \in Nat : \A i \in Nat :
           (i + 1) * PowerOfTwo[h] <= Len(a) => At(a, h, i) = At(b, h, i)
<1> SUFFICES ASSUME NEW n \in Nat
             PROVE  \A i \in Nat : (i + 1) * PowerOfTwo[n] <= Len(a) => At(a, n, i) = At(b, n, i)
  OBVIOUS
<1> DEFINE Same(h) == \A i \in Nat : (i + 1) * PowerOfTwo[h] <= Len(a) => At(a, h, i) = At(b, h, i)
           T == {h \in 0..n : Same(h)}
<1>1. Len(a) \in Nat /\ Len(b) \in Nat
  BY DEF LeafSequence
<1>2. 0 \in T
  <2>1. ASSUME NEW i \in Nat, (i + 1) * PowerOfTwo[0] <= Len(a) PROVE At(a, 0, i) = At(b, 0, i)
    <3>1. PowerOfTwo[0] = 1 /\ (i + 1) * 1 = i + 1
      BY PowerFacts
    <3>2. i + 1 \in 1..Len(a)
      BY <1>1, <2>1, <3>1
    <3> QED BY <3>2, TopFacts
  <2> QED BY <2>1
<1>3. ASSUME NEW h \in 1..n, h - 1 \in T PROVE h \in T
  <2>1. PICK l \in Nat : l = h - 1 /\ l + 1 = h
    OBVIOUS
  <2>2. ASSUME NEW i \in Nat, (i + 1) * PowerOfTwo[h] <= Len(a) PROVE At(a, h, i) = At(b, h, i)
    <3>1. /\ (2 * i + 1) * PowerOfTwo[l] <= Len(a)
          /\ (2 * i + 2) * PowerOfTwo[l] <= Len(a)
          /\ At(a, l + 1, i) = NodeHash(At(a, l, 2 * i), At(a, l, 2 * i + 1))
      BY <2>1, <2>2, FullNode
    <3>2. At(b, l + 1, i) = NodeHash(At(b, l, 2 * i), At(b, l, 2 * i + 1))
      <4>1. PICK w \in Nat : w = (i + 1) * PowerOfTwo[h]
        <5>1. h \in Nat
          OBVIOUS
        <5>2. PICK p \in Nat : p = PowerOfTwo[h]
          BY <5>1, PowerFacts
        <5>3. (i + 1) * p \in Nat
          OBVIOUS
        <5> QED BY <5>2, <5>3
      <4>2. (i + 1) * PowerOfTwo[l + 1] <= Len(b)
        BY <1>1, <2>1, <2>2, <4>1
      <4> QED BY <4>2, FullNode
    <3>3. PICK c \in Nat, d \in Nat : /\ c = 2 * i /\ d = 2 * i + 1
                                      /\ c + 1 = 2 * i + 1 /\ d + 1 = 2 * i + 2
      OBVIOUS
    <3>4. (c + 1) * PowerOfTwo[l] <= Len(a) /\ (d + 1) * PowerOfTwo[l] <= Len(a)
      BY <3>1, <3>3, Zenon
    <3>5. At(a, l, c) = At(b, l, c) /\ At(a, l, d) = At(b, l, d)
      <4>1. Same(l)
        BY <1>3, <2>1
      <4> QED BY <3>4, <4>1
    <3> QED BY <2>1, <3>1, <3>2, <3>3, <3>5, Zenon
  <2> QED BY <2>2
<1>4. Same(n)
  <2>1. \A h \in 0..n : h \in T
    <3> HIDE DEF T
    <3> QED BY <1>2, <1>3, InductionUpTo
  <2>2. n \in 0..n
    OBVIOUS
  <2> QED BY <2>1, <2>2
<1> QED BY <1>4

(* What is in its place in a tree still is when leaves are added. *)
LEMMA GrownPlaced ==
  ASSUME NEW a, NEW b, NEW hash, NEW size, NEW start, LeafSequence(a), LeafSequence(b),
         Len(a) <= Len(b), \A p \in 1..Len(a) : a[p] = b[p],
         Placed(a, hash, size, start), start + size <= Len(a)
  PROVE  Placed(b, hash, size, start)
<1>1. PICK h, i : /\ OnLevel(a, h, i) /\ hash = At(a, h, i)
                  /\ size = PowerOfTwo[h] /\ start = i * PowerOfTwo[h]
  BY DEF Placed
<1>2. h \in Nat /\ i \in Nat
  BY <1>1, TopFacts DEF OnLevel
<1>3. PICK w \in Nat : w = (i + 1) * PowerOfTwo[h] /\ w <= Len(a)
  <2>1. PICK p \in Nat : p = PowerOfTwo[h]
    BY <1>2, PowerFacts
  <2>2. (i + 1) * p = i * p + p /\ i * p \in Nat
    BY <1>2, Successor
  <2>3. i * p + p <= Len(a)
    BY <1>1, <2>1
  <2> QED BY <2>1, <2>2, <2>3
<1>4. Len(a) \in Nat /\ Len(b) \in Nat
  BY DEF LeafSequence
<1>5. At(b, h, i) = hash
  BY <1>1, <1>2, <1>3, GrownAt
<1>6. OnLevel(b, h, i)
  BY <1>2, <1>3, <1>4, FullBlock
<1> QED BY <1>1, <1>5, <1>6 DEF Placed
=============================================================================

----------------------------- MODULE LineageTree -----------------------------
(***************************************************************************)
(* The membership tree over cycle commitments, its membership paths        *)
(* (ttrace/lineage_membership.py) and the proof that one root extends      *)
(* another (ttrace/lineage_consistency_core.py).                           *)
(*                                                                         *)
(* Hashes are terms: SHA-256 is taken to be collision free and the schemas *)
(* of leaves and nodes keep them apart.  A proof is judged by the terms it *)
(* rebuilds, never by looking inside a term; only a prover does that.      *)
(*                                                                         *)
(* A loop is a function from the number of rounds to what it has computed. *)
(***************************************************************************)
EXTENDS Integers, SequencesExt

LeafHash(index, commitment) == <<"leaf", index, commitment>>
NodeHash(left, right) == <<"node", left, right>>

(* 1 << n. *)
PowerOfTwo[n \in Nat] == IF n = 0 THEN 1 ELSE 2 * PowerOfTwo[n - 1]

-----------------------------------------------------------------------------
(* The tree: an odd node at the end of a level is paired with itself. *)

Leaves(commitments) == [i \in DOMAIN commitments |-> LeafHash(i, commitments[i])]

NextLevel(level) ==
  [i \in 1..((Len(level) + 1) \div 2) |->
     NodeHash(level[2 * i - 1],
              IF 2 * i <= Len(level) THEN level[2 * i] ELSE level[2 * i - 1])]

PathLength[width \in Nat \ {0}] ==
  IF width = 1 THEN 0 ELSE 1 + PathLength[(width + 1) \div 2]

(* The levels over the leaves, of which the last is the root. *)
Levels(leaves) ==
  LET level[h \in 0..PathLength[Len(leaves)]] ==
        IF h = 0 THEN leaves ELSE NextLevel(level[h - 1])
  IN  level

MerkleRoot(leaves) == Levels(leaves)[PathLength[Len(leaves)]][1]

MerklePath(leaves, index) ==
  [k \in 1..PathLength[Len(leaves)] |->
     LET level    == Levels(leaves)[k - 1]
         position == index \div PowerOfTwo[k - 1]
         sibling  == IF position % 2 = 1 THEN position - 1
                     ELSE IF position + 1 < Len(level) THEN position + 1 ELSE position
     IN  [side |-> IF position % 2 = 1 THEN "left" ELSE "right",
          hash |-> level[sibling + 1]]]

(* One step of _verify_merkle_path from a node to its parent. *)
Climb(node, entry) ==
  LET isRight == node.index % 2 = 1
      paired  == isRight \/ node.index + 1 < node.width
  IN  [ok      |-> /\ node.ok
                   /\ entry.side = (IF isRight THEN "left" ELSE "right")
                   /\ paired \/ entry.hash = node.hash,
       hash    |-> IF isRight THEN NodeHash(entry.hash, node.hash)
                   ELSE NodeHash(node.hash, entry.hash),
       index   |-> node.index \div 2,
       width   |-> (node.width + 1) \div 2]

(* The loop of _verify_merkle_path. *)
Climbed(leaf, index, size, path) ==
  LET node[k \in 0..Len(path)] ==
        IF k = 0 THEN [ok |-> TRUE, hash |-> leaf, index |-> index, width |-> size]
        ELSE Climb(node[k - 1], path[k])
  IN  node[Len(path)]

VerifyPath(leaf, index, size, path, root) ==
  /\ index \in 0..(size - 1)
  /\ Len(path) = PathLength[size]
  /\ LET top == Climbed(leaf, index, size, path)
     IN  top.ok /\ top.width = 1 /\ top.index = 0 /\ top.hash = root

-----------------------------------------------------------------------------
(* Compact frontiers: the maximal aligned subtrees of a tree. *)

(* 1 << (n.bit_length() - 1), and n & -n. *)
LargestPower(n) ==
  PowerOfTwo[CHOOSE k \in 0..n : PowerOfTwo[k] <= n /\ n < PowerOfTwo[k + 1]]

LowestBit(n) ==
  PowerOfTwo[CHOOSE k \in 0..n : n % PowerOfTwo[k] = 0 /\ n % PowerOfTwo[k + 1] # 0]

SubtreeRoot(leaves, start, size) ==
  LET root[n \in 0..size] ==
        [at \in Nat |-> IF n <= 1 THEN leaves[at + 1]
                        ELSE NodeHash(root[n \div 2][at], root[n \div 2][at + n \div 2])]
  IN  root[size][start]

(* What is left of the tree is covered by its largest block first. *)
PrefixShapes(size) ==
  LET shapes[remaining \in 0..size] ==
        IF remaining = 0 THEN <<>>
        ELSE LET block == LargestPower(remaining)
             IN  <<[start |-> size - remaining, size |-> block]>> \o shapes[remaining - block]
  IN  shapes[size]

(* Mutant: the largest block that is left, aligned or not. *)
SuffixShapesUnaligned(start, end) ==
  [i \in DOMAIN PrefixShapes(end - start) |->
     [PrefixShapes(end - start)[i] EXCEPT !.start = start + @]]

(* Halving the lowest set bit until it fits leaves the smaller power. *)
SuffixShapes(start, end) ==
  LET shapes[cursor \in start..end] ==
        IF cursor = end THEN <<>>
        ELSE LET most == LargestPower(end - cursor)
                 size == IF cursor = 0 \/ most < LowestBit(cursor) THEN most
                         ELSE LowestBit(cursor)
             IN  <<[start |-> cursor, size |-> size]>> \o shapes[cursor + size]
  IN  shapes[start]

Blocks(leaves, shapes) ==
  [i \in DOMAIN shapes |->
     [start |-> shapes[i].start, size |-> shapes[i].size,
      hash  |-> SubtreeRoot(leaves, shapes[i].start, shapes[i].size)]]

Shapes(blocks) ==
  [i \in DOMAIN blocks |-> [start |-> blocks[i].start, size |-> blocks[i].size]]

(* _bag_frontier_to_membership_root, from the last block to the first: what *)
(* is bagged is paired with itself until it has the size of the next block. *)
Double(bagged, size) ==
  IF bagged.size >= size THEN bagged
  ELSE [size |-> 2 * bagged.size, hash |-> NodeHash(bagged.hash, bagged.hash)]

Lift(bagged, size) ==
  LET lifted[k \in 0..size] == IF k = 0 THEN bagged ELSE Double(lifted[k - 1], size)
  IN  lifted[size]

Pair(block, bagged) ==
  [size |-> 2 * block.size, hash |-> NodeHash(block.hash, Lift(bagged, block.size).hash)]

RootOfFrontier(frontier) ==
  LET last == Len(frontier)
      bagged[k \in 0..(last - 1)] ==
        IF k = 0 THEN [size |-> frontier[last].size, hash |-> frontier[last].hash]
        ELSE Pair(frontier[last - k], bagged[k - 1])
  IN  bagged[last - 1].hash

(* _append_block: equal neighbours are merged, as carries are. *)
MergeLast(blocks) ==
  LET n == Len(blocks)
  IN  IF \/ n < 2 \/ blocks[n - 1].size # blocks[n].size
         \/ blocks[n - 1].start + blocks[n - 1].size # blocks[n].start
      THEN blocks
      ELSE Append(SubSeq(blocks, 1, n - 2),
                  [start |-> blocks[n - 1].start, size |-> 2 * blocks[n].size,
                   hash  |-> NodeHash(blocks[n - 1].hash, blocks[n].hash)])

AppendBlock(frontier, block) ==
  LET merged[k \in 0..Len(frontier)] ==
        IF k = 0 THEN Append(frontier, block) ELSE MergeLast(merged[k - 1])
  IN  merged[Len(frontier)]

AppendBlocks(frontier, blocks) ==
  LET extended[k \in 0..Len(blocks)] ==
        IF k = 0 THEN frontier ELSE AppendBlock(extended[k - 1], blocks[k])
  IN  extended[Len(blocks)]

-----------------------------------------------------------------------------
(* Verifiers and builders.  An anchor claims a root, a size and a tip. *)

TipBound(anchor, path) ==
  VerifyPath(LeafHash(anchor.size, anchor.tip), anchor.size - 1, anchor.size, path, anchor.root)

(* Mutant: sizes and tips are taken from the anchors. *)
VerifyRootConsistencyNoTips(old, new, proof) ==
  /\ old.context = new.context
  /\ old.size < new.size
  /\ old.epoch < new.epoch
  /\ Shapes(proof.frontier) = PrefixShapes(old.size)
  /\ RootOfFrontier(proof.frontier) = old.root
  /\ Shapes(proof.appended) = SuffixShapes(old.size, new.size)
  /\ LET frontier == AppendBlocks(proof.frontier, proof.appended)
     IN  /\ Shapes(frontier) = PrefixShapes(new.size)
         /\ RootOfFrontier(frontier) = new.root

(* Mutant: the frontier is never compared with the old root. *)
VerifyRootConsistencyAnyFrontier(old, new, proof) ==
  /\ old.context = new.context
  /\ old.size < new.size
  /\ old.epoch < new.epoch
  /\ TipBound(old, proof.oldTipPath)
  /\ TipBound(new, proof.newTipPath)
  /\ Shapes(proof.frontier) = PrefixShapes(old.size)
  /\ Shapes(proof.appended) = SuffixShapes(old.size, new.size)
  /\ LET frontier == AppendBlocks(proof.frontier, proof.appended)
     IN  /\ Shapes(frontier) = PrefixShapes(new.size)
         /\ RootOfFrontier(frontier) = new.root

(* verify_lineage_root_consistency. *)
VerifyRootConsistency(old, new, proof) ==
  /\ old.context = new.context
  /\ old.size < new.size
  /\ old.epoch < new.epoch
  /\ TipBound(old, proof.oldTipPath)
  /\ TipBound(new, proof.newTipPath)
  /\ Shapes(proof.frontier) = PrefixShapes(old.size)
  /\ RootOfFrontier(proof.frontier) = old.root
  /\ Shapes(proof.appended) = SuffixShapes(old.size, new.size)
  /\ LET frontier == AppendBlocks(proof.frontier, proof.appended)
     IN  /\ Shapes(frontier) = PrefixShapes(new.size)
         /\ RootOfFrontier(frontier) = new.root

(* The proof build_lineage_root_consistency_package puts together. *)
BuildProof(oldCommitments, newCommitments) ==
  LET old == Leaves(oldCommitments)  new == Leaves(newCommitments)
  IN  [frontier   |-> Blocks(old, PrefixShapes(Len(old))),
       appended   |-> Blocks(new, SuffixShapes(Len(old), Len(new))),
       oldTipPath |-> MerklePath(old, Len(old) - 1),
       newTipPath |-> MerklePath(new, Len(new) - 1)]

(* verify_selective_lineage_disclosure, of commitment at a cycle index. *)
VerifyDisclosure(anchor, index, commitment, path, tipPath) ==
  /\ VerifyPath(LeafHash(index, commitment), index - 1, anchor.size, path, anchor.root)
  /\ TipBound(anchor, tipPath)
=============================================================================

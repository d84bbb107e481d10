---------------------------- MODULE RootFollower ----------------------------
(***************************************************************************)
(* A relying party that follows membership roots with nothing but          *)
(* consistency proofs, and asks for selective disclosures under them       *)
(* (ttrace/lineage_consistency_core.py, ttrace/lineage_membership.py).     *)
(*                                                                         *)
(* An anchor may claim any size and any tip for any root; the anchor       *)
(* validator ties none of them to the leaves.  Since hashes are terms, a   *)
(* root admits at most one value for every hash a proof has to supply, so  *)
(* the prover below, which looks inside roots, finds a proof whenever the  *)
(* verifier can be made to accept one.                                     *)
(***************************************************************************)
EXTENDS LineageTree

CONSTANTS
  Context,      (* the one membership context followed                       *)
  Commitments,  (* cycle commitment digests                                  *)
  MaxLength,    (* bound on the cycles of a lineage                          *)
  Steady,       (* a commitment ...                                          *)
  MaxSteady,    (* ... and a bound on the lineages that only repeat it       *)
  MaxClaimed,   (* bound on the size an anchor with a crafted root claims    *)
  CraftedRoots  (* roots made of leaves in places no lineage puts them       *)

ASSUME BoundsAssumption == MaxLength \in Nat /\ MaxSteady \in Nat /\ MaxClaimed \in Nat

VARIABLE trail  (* the anchors accepted, oldest first *)

Lineages ==
  {cs \in SeqOf(Commitments, MaxLength) : cs # <<>>}
    \cup {[i \in 1..size |-> Steady] : size \in 1..MaxSteady}

Anchor(size, root, tip) ==
  [context |-> Context, size |-> size, root |-> root, tip |-> tip, epoch |-> size]

(* build_lineage_membership_anchor. *)
AnchorOf(cs) == Anchor(Len(cs), MerkleRoot(Leaves(cs)), Last(cs))

HonestAnchors == {AnchorOf(cs) : cs \in Lineages}

Anchors ==
  HonestAnchors \cup
  { Anchor(size, root, tip) : size \in 1..MaxClaimed, tip \in Commitments,
      root \in CraftedRoots \cup
               {MerkleRoot(Leaves(cs)) : cs \in {h \in Lineages : Len(h) <= MaxClaimed}} }

-----------------------------------------------------------------------------
(* The prover. *)

NoHash == <<"none">>

IsNode(hash) == hash[1] = "node"

Child(hash, bit) == IF IsNode(hash) THEN hash[bit + 2] ELSE NoHash

Descend(hash, height, position) ==
  LET node[k \in 0..height] ==
        IF k = 0 THEN hash
        ELSE Child(node[k - 1], (position \div PowerOfTwo[height - k]) % 2)
  IN  node[height]

(* The path from the leaf at index up to root, in a tree of that size. *)
PathIn(root, index, size) ==
  LET height == PathLength[size]
  IN  [k \in 1..height |->
         LET position == index \div PowerOfTwo[k - 1]
             sibling  == IF position % 2 = 1 THEN position - 1 ELSE position + 1
         IN  [side |-> IF position % 2 = 1 THEN "left" ELSE "right",
              hash |-> Descend(root, height - (k - 1), sibling)]]

BlocksIn(root, size, shapes) ==
  [i \in DOMAIN shapes |->
     LET level == PathLength[shapes[i].size]
     IN  [start |-> shapes[i].start, size |-> shapes[i].size,
          hash  |-> Descend(root, PathLength[size] - level,
                            shapes[i].start \div shapes[i].size)]]

(* The old frontier may be taken from either tree. *)
Proof(source, old, new) ==
  [frontier   |-> BlocksIn(source.root, source.size, PrefixShapes(old.size)),
   appended   |-> BlocksIn(new.root, new.size, SuffixShapes(old.size, new.size)),
   oldTipPath |-> PathIn(old.root, old.size - 1, old.size),
   newTipPath |-> PathIn(new.root, new.size - 1, new.size)]

(* Some disclosure of commitment at index verifies under the anchor. *)
Disclosable(anchor, index, commitment) ==
  VerifyDisclosure(anchor, index, commitment,
                   PathIn(anchor.root, index - 1, anchor.size),
                   PathIn(anchor.root, anchor.size - 1, anchor.size))

-----------------------------------------------------------------------------
FollowInit == trail = <<>>

(* The first anchor is taken as it comes. *)
Pin(anchor) == trail = <<>> /\ trail' = <<anchor>>

Follow(new) ==
  /\ trail # <<>>
  /\ Last(trail).size < new.size
  /\ \E source \in {Last(trail), new} :
       VerifyRootConsistency(Last(trail), new, Proof(source, Last(trail), new))
  /\ trail' = Append(trail, new)

FollowNext == \E anchor \in Anchors : Pin(anchor) \/ Follow(anchor)

FollowSpec == FollowInit /\ [][FollowNext]_trail

-----------------------------------------------------------------------------
(* Properties. *)

(* Lineage-level reading of anchors whose root some lineage has. *)
Lineage(anchor) == {cs \in Lineages : MerkleRoot(Leaves(cs)) = anchor.root}

Statements == INSTANCE AnchorStatements WITH
  Authorities <- {}, HonestAuthorities <- {}, Contexts <- {Context}, Anchors <- {},
  Provenances <- {}, ZERO <- 0, MaxSequence <- 1, MaxIssued <- 1, issued <- {}

Reading(anchor, cs) == [anchor EXCEPT !.root = cs]

(***************************************************************************)
(* Whatever sizes and tips were claimed and whatever proof was supplied, a *)
(* party that moved from the root of one lineage to the root of another    *)
(* moved along an append-only history: the algorithm on hashes accepts     *)
(* nothing AnchorStatements!AppendOnly would refuse.                       *)
(***************************************************************************)
AcceptedIsAppendOnly ==
  \A k \in 2..Len(trail) :
    \A old \in Lineage(trail[k - 1]), new \in Lineage(trail[k]) :
      Statements!AppendOnly(Reading(trail[k - 1], old), Reading(trail[k], new))

(***************************************************************************)
(* And it accepts everything AppendOnly admits: from the anchor of any     *)
(* lineage, the package built for each of its extensions verifies, at      *)
(* every size, powers of two and odd sizes alike.                          *)
(***************************************************************************)
AppendOnlyIsAccepted ==
  trail # <<>> /\ Last(trail) \in HonestAnchors =>
    \A old \in Lineage(Last(trail)), new \in Lineages :
      IsStrictPrefix(old, new) =>
        VerifyRootConsistency(Last(trail), AnchorOf(new), BuildProof(old, new))

(***************************************************************************)
(* Disclosures never contradict one another.  A cycle that could be        *)
(* disclosed under an accepted root can be disclosed under every root that *)
(* was accepted later, with that commitment and no other, even where the   *)
(* roots are not those of any lineage.                                     *)
(***************************************************************************)
DisclosureStable ==
  \A k \in 2..Len(trail) :
    \A index \in 1..trail[k - 1].size, commitment \in Commitments :
      Disclosable(trail[k - 1], index, commitment) =>
        \A other \in Commitments :
          Disclosable(trail[k], index, other) <=> other = commitment
=============================================================================

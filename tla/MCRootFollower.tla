--------------------------- MODULE MCRootFollower ---------------------------
(* An instance of RootFollower for TLC.                                     *)
EXTENDS RootFollower

CONSTANTS c1, c2

(* Leaves a crafted tree is put together from, in any order and number. *)
Pieces == {LeafHash(1, c1), LeafHash(2, c2), LeafHash(3, c1)}

Crafted == {MerkleRoot(s) : s \in SeqOf(Pieces, 4) \ {<<>>}}
=============================================================================

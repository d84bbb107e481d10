-------------------------- MODULE MCWitnessQuorum --------------------------
(* Instances of WitnessQuorum for TLC. *)
EXTENDS WitnessQuorum

CONSTANTS c1, c2, ctx1, w1, w2, w3, w4

Built(context, root, epoch) ==
  [context |-> context, size |-> Len(root), root |-> root,
   tip |-> root[Len(root)], epoch |-> epoch]

(* Rival first cycles, a continuation of one of them, and an anchor whose   *)
(* claimed tip its root does not bind.                                      *)
SplitAnchors ==
  { Built(ctx1, <<c1>>, 1), Built(ctx1, <<c2>>, 1), Built(ctx1, <<c1, c2>>, 2),
    [Built(ctx1, <<c1>>, 1) EXCEPT !.tip = c2] }

(* One honest chain with a choice of continuation. *)
ChainAnchors ==
  { Built(ctx1, <<c1>>, 1), Built(ctx1, <<c1, c1>>, 2), Built(ctx1, <<c1, c2>>, 2) }

(* Beside it a policy whose threshold is no majority. *)
TwoOfThree ==
  { [id |-> "set-1", epoch |-> 1, witnesses |-> {w1, w2, w3}, threshold |-> 2],
    [id |-> "set-1", epoch |-> 2, witnesses |-> {w1, w2}, threshold |-> 1] }

ThreeOfFour ==
  {[id |-> "set-1", epoch |-> 1, witnesses |-> {w1, w2, w3, w4}, threshold |-> 3]}

Symmetric == Permutations(Parties) \cup Permutations(Witnesses \ FaultyWitnesses)
=============================================================================

-------------------------- MODULE MCDirectLineage --------------------------
(* Instances of DirectLineage for TLC.  Anchors attest histories over two   *)
(* commitments, some sharing a prefix and some not.                         *)
EXTENDS DirectLineage

CONSTANTS c1, c2, ctx1, ctx2

Built(context, root, epoch) ==
  [context |-> context, size |-> Len(root), root |-> root,
   tip |-> root[Len(root)], epoch |-> epoch]

(* One context: a forked history may reach three cycles in one statement.   *)
ForkAnchors ==
  { Built(ctx1, <<c1>>, 1), Built(ctx1, <<c1, c1>>, 2),
    Built(ctx1, <<c1, c2, c1>>, 3) }

(* And a second context the same authorities serve. *)
MixedAnchors == ForkAnchors \cup {Built(ctx2, <<c2>>, 1)}

Symmetric == Permutations(Parties) \cup Permutations(Provenances)
=============================================================================

---------------------------- MODULE LineageView ----------------------------
(***************************************************************************)
(* What the lineage verifiers promise to relying parties, with every       *)
(* mechanism abstracted away: each party follows one lane and holds a      *)
(* history, of cycle commitments or of witness policies; its history only  *)
(* grows, and any two parties on one lane read prefixes of one and the     *)
(* same history.                                                           *)
(*                                                                         *)
(* DirectLineage implements this when authorities are honest;              *)
(* WitnessQuorum implements it for any authority when too few witnesses    *)
(* are faulty to fill a quorum intersection; PolicyRotation implements it  *)
(* for the policies a chain of rotations passes through.                   *)
(***************************************************************************)
EXTENDS SequencesExt

CONSTANTS
  Parties,    (* the relying parties                                         *)
  Lanes,      (* the contexts inside which histories are comparable          *)
  Histories,  (* the histories a party may hold                              *)
  NoView      (* the view of a party that has accepted nothing yet           *)

VARIABLE view   (* view[p]: the lane and the history party p has accepted *)

Linear(h1, h2) == IsPrefix(h1, h2) \/ IsPrefix(h2, h1)

Init == view = [p \in Parties |-> NoView]

(* p accepts a history that continues its own and that no other party's     *)
(* view contradicts.                                                       *)
Adopt(p, lane, history) ==
  /\ view[p] # NoView => /\ view[p].lane = lane
                         /\ IsStrictPrefix(view[p].history, history)
  /\ \A q \in Parties :
       view[q] # NoView /\ view[q].lane = lane => Linear(view[q].history, history)
  /\ view' = [view EXCEPT ![p] = [lane |-> lane, history |-> history]]

Next == \E p \in Parties, lane \in Lanes, history \in Histories :
          Adopt(p, lane, history)

Spec == Init /\ [][Next]_view
=============================================================================

------------------------- MODULE PortableCausality -------------------------
(***************************************************************************)
(* Forks of one logical state and their two-parent reconciliation          *)
(* (ttrace/portable_causality.py).                                         *)
(*                                                                         *)
(* A digest is the object it is taken of.  One trust domain, one logical   *)
(* state and one set of contracts are fixed.  A provider and the authority *)
(* it speaks for are one name, and the provenance digest of a record,      *)
(* which only has to differ from record to record, is left out.  Parent    *)
(* set, reconciliation reference and receipt restate the agreement they    *)
(* are built with, so an agreement is its tips, its logical id and the     *)
(* state it reaches; sorting the tips by digest makes them a set.          *)
(***************************************************************************)
EXTENDS Integers, FiniteSets

StateRef(epoch, semantic) == [epoch |-> epoch, semantic |-> semantic]

(* BranchEvidence: authority says that branch takes state from to semantic. *)
Evidence(authority, from, branch, semantic) ==
  [authority |-> authority, from |-> from, branch |-> branch, semantic |-> semantic]

(* The portable tip names neither the authority nor the provider. *)
BranchTip(common, e) ==
  [from |-> common, branch |-> e.branch, state |-> StateRef(common.epoch + 1, e.semantic)]

(* Mutant: evidence about an earlier state is taken for the current one. *)
ValidBranchAnyState(common, e) == e.semantic # common.semantic

ValidBranch(common, e) == e.from = common /\ e.semantic # common.semantic

ValidTip(tip, common) ==
  /\ tip.from = common
  /\ tip.state.epoch = common.epoch + 1
  /\ tip.state.semantic # common.semantic

(* ReconciliationVote: authority, for its branch tip, accepts target. *)
Vote(authority, tip, reconciliation, target) ==
  [authority |-> authority, tip |-> tip, reconciliation |-> reconciliation, target |-> target]

-----------------------------------------------------------------------------
(* Two independent authorities took the common state two different ways. *)
Fork(common, b1, b2) ==
  /\ ValidBranch(common, b1) /\ ValidBranch(common, b2)
  /\ b1.authority # b2.authority
  /\ b1.branch # b2.branch
  /\ b1.semantic # b2.semantic

(* Mutant: whoever signed the vote, as long as it is for that branch. *)
BoundAnyAuthority(common, v, b) == v.tip = BranchTip(common, b)

(* v is the vote of the authority of branch b, for exactly that branch. *)
Bound(common, v, b) == v.authority = b.authority /\ v.tip = BranchTip(common, b)

(* A logical id that spells an authority's name would carry raw evidence. *)
RawEvidenceEmbedded(b1, b2, v) ==
  {b1.authority, b2.authority} \cap {b1.branch, b2.branch, v.reconciliation} # {}

(* reconcile_two_branches verifies; v1 is the vote whose reference names    *)
(* b1's branch, v2 the one that names b2's.                                *)
Reconcilable(common, b1, b2, v1, v2) ==
  /\ Fork(common, b1, b2)
  /\ v1.reconciliation = v2.reconciliation
  /\ v1.target = v2.target
  /\ v1.target \notin {common.semantic, b1.semantic, b2.semantic}
  /\ Bound(common, v1, b1) /\ Bound(common, v2, b2)
  /\ ~RawEvidenceEmbedded(b1, b2, v1)

Agreement(common, b1, b2, v) ==
  [tips |-> {BranchTip(common, b1), BranchTip(common, b2)},
   reconciliation |-> v.reconciliation,
   state |-> StateRef(common.epoch + 2, v.target)]

(* validate_reconciliation_agreement: what anybody can check later, without *)
(* the evidence and the votes.                                             *)
ValidAgreement(agreement, common) ==
  /\ Cardinality(agreement.tips) = 2
  /\ \A tip \in agreement.tips : ValidTip(tip, common)
  /\ \A t1, t2 \in agreement.tips :
       t1 # t2 => t1.branch # t2.branch /\ t1.state.semantic # t2.state.semantic
  /\ agreement.state.epoch = common.epoch + 2
  /\ agreement.state.semantic
       \notin {common.semantic} \cup {tip.state.semantic : tip \in agreement.tips}
=============================================================================

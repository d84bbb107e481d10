---------------------------- MODULE PolicyHandoff ----------------------------
(***************************************************************************)
(* Rotation of the witness policy (ttrace/lineage_witness_handoff.py), the *)
(* packages a HandoffChain is made of.                                     *)
(*                                                                         *)
(* A handoff package holds the quorum package active under the old policy, *)
(* one handoff statement, the observations of it with a quorum of either   *)
(* policy selected from them, and the quorum package that activates the    *)
(* new policy at the same producer statement.  Certificates and receipts   *)
(* are recomputed by the verifier, so the selections stand for them.       *)
(***************************************************************************)
EXTENDS WitnessPackages

CONSTANTS
  Terms      (* handoff and authorization contract digests, as one value *)

-----------------------------------------------------------------------------
(* One rotation. *)

(* _validate_policy_transition. *)
ValidTransition(old, new) ==
  /\ ValidPolicy(old)
  /\ ValidPolicy(new)
  /\ old.id = new.id
  /\ new.epoch = old.epoch + 1

(* build_witness_policy_handoff_statement: the statement it assembles. *)
Handoff(statement, old, new, terms, provenance) ==
  [statement |-> statement, old |-> old, new |-> new, terms |-> terms,
   provenance |-> provenance]

(* validate_witness_policy_handoff_statement. *)
ValidHandoff(h, statement, old, new) ==
  /\ ValidStatement(statement)
  /\ ValidTransition(old, new)
  /\ h.statement = statement /\ h.old = old /\ h.new = new

HandoffObservation(witness, sequence, prev, h) ==
  [witness |-> witness, sequence |-> sequence, prev |-> prev, handoff |-> h]

(* Mutant: an observation of a rival rotation is taken for this one. *)
ValidHandoffObservationAnyRotation(o, h) ==
  /\ ValidTransition(h.old, h.new)
  /\ o.witness \in h.old.witnesses \cup h.new.witnesses
  /\ o.sequence >= 1
  /\ (o.sequence = 1) <=> (o.prev = ZERO)
  /\ o.handoff.statement = h.statement /\ o.handoff.old = h.old

(* validate_witness_policy_handoff_observation. *)
ValidHandoffObservation(o, h) ==
  /\ ValidTransition(h.old, h.new)
  /\ o.witness \in h.old.witnesses \cup h.new.witnesses
  /\ o.sequence >= 1
  /\ (o.sequence = 1) <=> (o.prev = ZERO)
  /\ o.handoff = h

(* Mutant: one witness short of the threshold. *)
ValidRoleOneShort(quorum, policy, package) ==
  /\ quorum # {}
  /\ Cardinality(quorum) + 1 >= policy.threshold
  /\ quorum \subseteq policy.witnesses
  /\ quorum \subseteq Signers(package)

(* _validate_role_certificate, of the certificate for the selected quorum. *)
ValidRole(quorum, policy, package) ==
  /\ quorum # {}
  /\ Cardinality(quorum) >= policy.threshold
  /\ quorum \subseteq policy.witnesses
  /\ quorum \subseteq Signers(package)

(* Mutant: a whole threshold of the active quorum must sign the handoff. *)
EdgeSameQuorum(before, after, witnesses, policy) ==
  /\ Cardinality(witnesses) >= policy.threshold
  /\ \A w \in witnesses :
       LET first == ObservationOf(before, w)  second == ObservationOf(after, w)
       IN  second.sequence = first.sequence + 1 /\ second.prev = first

(* A continuity edge: the witnesses common to two stages moved by exactly   *)
(* one observation from the one to the other.                              *)
Edge(before, after, witnesses, policy) ==
  /\ Cardinality(witnesses) >= MinimumIntersection(policy)
  /\ \A w \in witnesses :
       LET first == ObservationOf(before, w)  second == ObservationOf(after, w)
       IN  second.sequence = first.sequence + 1 /\ second.prev = first

OldOverlap(package) == Signers(package.active) \cap package.oldQuorum
NewOverlap(package) == Signers(package.activation) \cap package.newQuorum

(* verify_witness_policy_handoff_package. *)
ValidHandoffPackage(package) ==
  LET old == package.active.policy  new == package.activation.policy
  IN  /\ ValidPackage(package.active)
      /\ ValidPackage(package.activation)
      /\ package.activation.statement = package.active.statement
      /\ ValidHandoff(package.handoff, package.active.statement, old, new)
      /\ Cardinality(Signers(package)) = Cardinality(package.observations)
      /\ \A o \in package.observations : ValidHandoffObservation(o, package.handoff)
      /\ ValidRole(package.oldQuorum, old, package)
      /\ ValidRole(package.newQuorum, new, package)
      /\ Signers(package) = package.oldQuorum \cup package.newQuorum
      /\ Edge(package.active, package, OldOverlap(package), old)
      /\ Edge(package, package.activation, NewOverlap(package), new)

(* What a handoff decides: another provenance is the same rotation. *)
Meaning(h) == <<h.new, h.terms>>

(* detect_witness_policy_handoff_equivocation compares rotations of one old *)
(* policy at one producer statement.                                       *)
Conflicting(g, h) ==
  g.old = h.old /\ g.statement = h.statement /\ Meaning(g) # Meaning(h)

OldQuorumOverlap(a, b) == a.oldQuorum \cap b.oldQuorum

RotationComparisonRefused(a, b) ==
  \/ a.handoff.old # b.handoff.old
  \/ a.handoff.statement # b.handoff.statement
  \/ /\ Conflicting(a.handoff, b.handoff)
     /\ Cardinality(OldQuorumOverlap(a, b)) < MinimumIntersection(a.handoff.old)

(* The rotations conflict and double_signing_old_witness_ids is the overlap. *)
RotationEquivocationDetected(a, b) ==
  ~RotationComparisonRefused(a, b) /\ Conflicting(a.handoff, b.handoff)

-----------------------------------------------------------------------------
(* Chains of rotations. *)

Chain == INSTANCE HandoffChain

(* build_seed_witness_policy_handoff_chain, for the pinned genesis policy. *)
Seeds(package, genesis) ==
  ValidHandoffPackage(package) /\ Chain!SeededBy(package, genesis)

(* advance_witness_policy_handoff_chain. *)
Extends(ref, package) ==
  ValidHandoffPackage(package) /\ Chain!ContinuedBy(ref, package)
=============================================================================

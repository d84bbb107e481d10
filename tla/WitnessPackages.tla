--------------------------- MODULE WitnessPackages ---------------------------
(***************************************************************************)
(* Witness policies, observations and quorum packages                      *)
(* (ttrace/lineage_witness.py).                                            *)
(*                                                                         *)
(* A statement is accepted only with the observations of at least a        *)
(* threshold of the witnesses a policy authorizes, and every valid policy  *)
(* makes any two such quorums intersect.                                   *)
(*                                                                         *)
(* A package is a policy, a statement and the set of observations it       *)
(* carries; its certificate is recomputed from them by the verifier and so *)
(* adds nothing to the model.  The anchor and the accumulator of a package *)
(* are bound by its statement.                                             *)
(***************************************************************************)
EXTENDS AnchorStatements

CONSTANTS
  Witnesses,          (* ids of the witnesses                                *)
  FaultyWitnesses,    (* those that sign anything                            *)
  Policies            (* the authenticated witness policies                  *)

PolicyShape ==
  [id : STRING, epoch : Nat \ {0}, witnesses : SUBSET Witnesses, threshold : Int]

ASSUME PolicyAssumption ==
  /\ FaultyWitnesses \subseteq Witnesses
  /\ Policies \subseteq PolicyShape
  /\ \A policy \in Policies : IsFiniteSet(policy.witnesses)

Honest == Witnesses \ FaultyWitnesses

(* Mutant: half of the witnesses is taken for a majority. *)
ValidPolicyHalf(policy) ==
  /\ policy.witnesses # {}
  /\ policy.threshold > 0
  /\ policy.threshold <= Cardinality(policy.witnesses)
  /\ 2 * policy.threshold >= Cardinality(policy.witnesses)

(* validate_lineage_witness_policy: any two quorums intersect. *)
ValidPolicy(policy) ==
  /\ policy.witnesses # {}
  /\ policy.threshold > 0
  /\ policy.threshold <= Cardinality(policy.witnesses)
  /\ 2 * policy.threshold > Cardinality(policy.witnesses)

(* minimum_quorum_intersection. *)
MinimumIntersection(policy) ==
  2 * policy.threshold - Cardinality(policy.witnesses)

Observation(witness, sequence, prev, policy, statement) ==
  [witness |-> witness, sequence |-> sequence, prev |-> prev,
   policy |-> policy, statement |-> statement]

(* Mutant: an observation counts for any statement. *)
ValidObservationAnyStatement(o, statement, policy) ==
  /\ o.witness \in policy.witnesses
  /\ o.sequence >= 1
  /\ (o.sequence = 1) <=> (o.prev = ZERO)
  /\ o.policy = policy

(* validate_lineage_witness_observation. *)
ValidObservation(o, statement, policy) ==
  /\ o.witness \in policy.witnesses
  /\ o.sequence >= 1
  /\ (o.sequence = 1) <=> (o.prev = ZERO)
  /\ o.policy = policy
  /\ o.statement = statement

Signers(package) == {o.witness : o \in package.observations}

(* Mutant: one witness may fill a quorum alone. *)
ValidPackageRepeatedWitness(package) ==
  /\ ValidPolicy(package.policy)
  /\ ValidStatement(package.statement)
  /\ Cardinality(package.observations) >= package.policy.threshold
  /\ \A o \in package.observations :
       ValidObservation(o, package.statement, package.policy)

(* Mutant: one observation below the threshold is enough. *)
ValidPackageOneShort(package) ==
  /\ ValidPolicy(package.policy)
  /\ ValidStatement(package.statement)
  /\ Cardinality(Signers(package)) = Cardinality(package.observations)
  /\ Cardinality(package.observations) + 1 >= package.policy.threshold
  /\ \A o \in package.observations :
       ValidObservation(o, package.statement, package.policy)

(* verify_lineage_witness_quorum_package. *)
ValidPackage(package) ==
  /\ ValidPolicy(package.policy)
  /\ ValidStatement(package.statement)
  /\ Cardinality(Signers(package)) = Cardinality(package.observations)
  /\ Cardinality(package.observations) >= package.policy.threshold
  /\ \A o \in package.observations :
       ValidObservation(o, package.statement, package.policy)

Overlap(p, q) == Signers(p) \cap Signers(q)

(* _observations_by_witness, on an already validated package. *)
ObservationOf(package, witness) ==
  CHOOSE o \in package.observations : o.witness = witness

OverlapContinues(old, new) ==
  \A w \in Overlap(old, new) :
    LET before == ObservationOf(old, w)  after == ObservationOf(new, w)
    IN  after.sequence = before.sequence + 1 /\ after.prev = before
=============================================================================

---------------------------- MODULE HandoffChain ----------------------------
(***************************************************************************)
(* Chains of policy rotations (ttrace/lineage_witness_handoff_chain.py):   *)
(* the references that handoff packages, once verified, derive from one    *)
(* another.                                                                *)
(*                                                                         *)
(* A package is known here by the quorum packages it leads from (active)   *)
(* and to (activation).  The chain root of a reference is recomputed from  *)
(* its other fields, so the record of those fields stands for the          *)
(* reference; the chain id and the chain contracts are one constant.       *)
(***************************************************************************)
EXTENDS Integers

CONSTANT ZERO   (* ZERO_SHA256, the digest that precedes the first one *)

(* Mutant: the reference before it is not committed to. *)
StepWithoutPrevious(package, index, previous) ==
  [package |-> package, index |-> index, previous |-> ZERO]

(* _step: what one completed rotation commits to. *)
Step(package, index, previous) ==
  [package |-> package, index |-> index, previous |-> previous]

(* _build_ref, from a handoff package and the reference it extends. *)
RefOf(package, genesis, completed, previous) ==
  [genesis |-> genesis, completed |-> completed,
   policy |-> package.activation.policy, activation |-> package.activation,
   package |-> package, previous |-> previous,
   step |-> Step(package, completed, previous)]

(* validate_witness_policy_handoff_chain_ref. *)
ValidRef(ref) ==
  /\ ref.completed \in Nat \ {0} /\ ref.genesis.epoch \in Nat \ {0}
  /\ ref.policy.epoch = ref.genesis.epoch + ref.completed
  /\ (ref.completed = 1) <=> (ref.previous = ZERO)

(* What a verified package must be to start a chain at a genesis policy. *)
SeededBy(package, genesis) ==
  /\ package.active.policy = genesis
  /\ ValidRef(RefOf(package, genesis, 1, ZERO))

(* Mutant: the next rotation may start from another active package. *)
ContinuedByAnyActive(ref, package) ==
  /\ ValidRef(ref)
  /\ package.active.policy.id = ref.policy.id
  /\ package.active.policy.epoch = ref.policy.epoch
  /\ ValidRef(RefOf(package, ref.genesis, ref.completed + 1, ref))

(* What a verified package must be to continue a reference: it starts from  *)
(* the very package that activated the current policy.                     *)
ContinuedBy(ref, package) ==
  /\ ValidRef(ref)
  /\ package.active.policy = ref.policy
  /\ package.active = ref.activation
  /\ ValidRef(RefOf(package, ref.genesis, ref.completed + 1, ref))

(* Mutant: rotations to one policy are one rotation. *)
ForkDetectedByPolicy(previous, a, b) ==
  /\ ContinuedBy(previous, a)
  /\ ContinuedBy(previous, b)
  /\ a.activation.policy # b.activation.policy

(* detect_witness_policy_handoff_chain_fork, of verified packages. *)
ForkDetected(previous, a, b) ==
  /\ ContinuedBy(previous, a)
  /\ ContinuedBy(previous, b)
  /\ <<a.activation.policy, a>> # <<b.activation.policy, b>>
=============================================================================

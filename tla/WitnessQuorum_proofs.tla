------------------------ MODULE WitnessQuorum_proofs ------------------------
(***************************************************************************)
(* Theorems about WitnessQuorum, for every set of authorities, witnesses,  *)
(* parties, policies and anchors that meets the assumptions of the module. *)
(***************************************************************************)
EXTENDS WitnessQuorum, FiniteSetTheorems, TLAPS

-----------------------------------------------------------------------------
(* Facts about the verifiers. *)

(* The conflict detector does not depend on the order of its arguments. *)
LEMMA EquivocatesSymmetric ==
  ASSUME NEW a, NEW b, Equivocates(a, b)
  PROVE  Equivocates(b, a)
  BY DEF Equivocates, Comparable, SameSequenceConflict, SameSizeRootConflict

(* Lying on one append-only history is symmetric too. *)
LEMMA OneHistorySymmetric ==
  ASSUME NEW x, NEW y, OneHistory(x, y)
  PROVE  OneHistory(y, x)
  BY DEF OneHistory

(* No statement conflicts with itself. *)
LEMMA EquivocatesIrreflexive ==
  ASSUME NEW a
  PROVE  ~Equivocates(a, a)
  BY DEF Equivocates, SameSequenceConflict, SameSizeRootConflict

(* The signers of a valid package are authorized, and they fill a quorum. *)
LEMMA SignersFillQuorum ==
  ASSUME NEW package, package.policy \in Policies, ValidPackage(package)
  PROVE  /\ Signers(package) \subseteq package.policy.witnesses
         /\ IsFiniteSet(Signers(package))
         /\ Cardinality(Signers(package)) \in Nat
         /\ Cardinality(Signers(package)) >= package.policy.threshold
<1>1. Signers(package) \subseteq package.policy.witnesses
  BY DEF ValidPackage, ValidObservation, Signers
<1>2. IsFiniteSet(package.policy.witnesses)
  BY PolicyAssumption
<1>3. IsFiniteSet(Signers(package))
  BY <1>1, <1>2, FS_Subset
<1>4. Cardinality(Signers(package)) \in Nat
  BY <1>3, FS_CardinalityType
<1>5. Cardinality(Signers(package)) >= package.policy.threshold
  BY DEF ValidPackage
<1> QED
  BY <1>1, <1>3, <1>4, <1>5

(* Two quorums of one policy share the minimum intersection: the            *)
(* arithmetic behind minimum_quorum_intersection.                           *)
LEMMA QuorumsIntersect ==
  ASSUME NEW a, NEW b, a.policy \in Policies, b.policy = a.policy,
         ValidPackage(a), ValidPackage(b)
  PROVE  /\ IsFiniteSet(Overlap(a, b))
         /\ Cardinality(Overlap(a, b)) \in Nat
         /\ Cardinality(Overlap(a, b)) >= MinimumIntersection(a.policy)
<1> DEFINE A == Signers(a)
           B == Signers(b)
           W == a.policy.witnesses
           t == a.policy.threshold
<1>1. /\ A \subseteq W /\ IsFiniteSet(A) /\ Cardinality(A) \in Nat
      /\ Cardinality(A) >= t
  BY SignersFillQuorum
<1>2. /\ B \subseteq W /\ IsFiniteSet(B) /\ Cardinality(B) \in Nat
      /\ Cardinality(B) >= t
  BY SignersFillQuorum
<1>3. IsFiniteSet(W) /\ t \in Int
  BY PolicyAssumption DEF PolicyShape
<1>4. Cardinality(W) \in Nat
  BY <1>3, FS_CardinalityType
<1>5. Cardinality(A \cup B) = Cardinality(A) + Cardinality(B) - Cardinality(A \cap B)
  BY <1>1, <1>2, FS_Union
<1>6. IsFiniteSet(A \cap B) /\ Cardinality(A \cap B) \in Nat
  BY <1>1, FS_Intersection, FS_CardinalityType
<1>7. A \cup B \subseteq W
  BY <1>1, <1>2
<1>8. Cardinality(A \cup B) <= Cardinality(W) /\ Cardinality(A \cup B) \in Nat
  BY <1>3, <1>7, FS_Subset, FS_CardinalityType
<1>9. Cardinality(A \cap B) >= 2 * t - Cardinality(W)
  BY <1>1, <1>2, <1>3, <1>4, <1>5, <1>6, <1>8
<1> QED
  BY <1>6, <1>9 DEF Overlap, MinimumIntersection

-----------------------------------------------------------------------------
(* Type correctness. *)

(***************************************************************************)
(* Statements, observations and logs are well formed: predecessors name    *)
(* earlier statements or observations, and a party retains only packages   *)
(* of issued statements and of observations really made.                   *)
(***************************************************************************)
THEOREM TypeCorrect == Spec => []TypeOK
<1>1. Init => TypeOK
  BY DEF Init, ProducerInit, TypeOK, IssuedTypeOK
<1>2. TypeOK /\ [Next]_vars => TypeOK'
  <2> SUFFICES ASSUME TypeOK, [Next]_vars PROVE TypeOK'
    OBVIOUS
  <2>1. CASE Produce
    <3>1. issued \subseteq issued'
      BY <2>1 DEF Produce, ProducerNext, IssueHonestly, IssueFreely, Issue
    <3>2. IssuedTypeOK'
      <4>1. ASSUME NEW s, s \in StatementShape, Issue(s) PROVE IssuedTypeOK'
        BY <4>1 DEF TypeOK, IssuedTypeOK, Issue, StatementShape
      <4>2. ASSUME NEW authority \in Authorities, NEW provenance \in Provenances,
                   NEW anchor \in Anchors, IssueHonestly(authority, provenance, anchor)
            PROVE  IssuedTypeOK'
        <5>1. CASE Issue(Statement(authority, 1, ZERO, provenance, anchor))
          <6>1. Statement(authority, 1, ZERO, provenance, anchor) \in StatementShape
            BY DEF Statement, StatementShape
          <6> QED BY <4>1, <5>1, <6>1
        <5>2. ASSUME NEW last \in issued,
                     Issue(Statement(authority, last.sequence + 1, last, provenance, anchor))
              PROVE  IssuedTypeOK'
          <6>1. last.sequence + 1 \in Nat \ {0}
            BY DEF TypeOK, IssuedTypeOK, StatementShape
          <6>2. Statement(authority, last.sequence + 1, last, provenance, anchor)
                  \in StatementShape
            BY <6>1 DEF Statement, StatementShape
          <6> QED BY <4>1, <5>2, <6>2
        <5> QED BY <4>2, <5>1, <5>2 DEF IssueHonestly, InLane
      <4>3. ASSUME NEW authority \in Authorities, NEW provenance \in Provenances,
                   NEW anchor \in Anchors, NEW sequence \in 1..MaxSequence,
                   NEW prev \in issued \cup {ZERO},
                   IssueFreely(authority, sequence, prev, provenance, anchor)
            PROVE  IssuedTypeOK'
        <5>1. sequence \in Nat \ {0}
          BY ConstantsAssumption
        <5>2. Statement(authority, sequence, prev, provenance, anchor) \in StatementShape
          BY <5>1 DEF Statement, StatementShape
        <5> QED BY <4>1, <4>3, <5>2 DEF IssueFreely
      <4> QED BY <2>1, <4>2, <4>3 DEF Produce, ProducerNext
    <3>3. observed' = observed /\ log' = log
      BY <2>1 DEF Produce
    <3>4. (observed \subseteq ObservationShape)'
      BY <3>1, <3>3 DEF TypeOK, ObservationShape
    <3>5. Presentable \subseteq Presentable'
      BY <3>1, <3>3 DEF Presentable
    <3>6. (log \in [Parties -> Seq(Presentable)])'
      BY <3>3, <3>5 DEF TypeOK
    <3> QED BY <3>2, <3>4, <3>6 DEF TypeOK
  <2>2. CASE WitnessStep
    <3>1. ASSUME NEW o \in ObservationShape, Observe(o) PROVE TypeOK'
      <4>1. issued' = issued /\ log' = log /\ observed' = observed \cup {o}
        BY <3>1 DEF Observe
      <4>2. IssuedTypeOK'
        BY <4>1 DEF TypeOK, IssuedTypeOK, StatementShape
      <4>3. (observed \subseteq ObservationShape)'
        BY <4>1, <3>1 DEF TypeOK, ObservationShape
      <4>4. Presentable \subseteq Presentable'
        BY <4>1 DEF Presentable
      <4>5. (log \in [Parties -> Seq(Presentable)])'
        BY <4>1, <4>4 DEF TypeOK
      <4> QED BY <4>2, <4>3, <4>5 DEF TypeOK
    <3>2. ASSUME NEW witness \in Witnesses, NEW policy \in Policies,
                 NEW statement \in issued, ObserveHonestly(witness, policy, statement)
          PROVE  TypeOK'
      <4>1. CASE Observe(Observation(witness, 1, ZERO, policy, statement))
        <5>1. Observation(witness, 1, ZERO, policy, statement) \in ObservationShape
          BY DEF Observation, ObservationShape
        <5> QED BY <3>1, <4>1, <5>1
      <4>2. ASSUME NEW last \in observed,
                   Observe(Observation(witness, last.sequence + 1, last, policy, statement))
            PROVE  TypeOK'
        <5>1. last.sequence + 1 \in Nat \ {0}
          BY DEF TypeOK, ObservationShape
        <5>2. Observation(witness, last.sequence + 1, last, policy, statement)
                \in ObservationShape
          BY <5>1 DEF Observation, ObservationShape
        <5> QED BY <3>1, <4>2, <5>2
      <4> QED BY <3>2, <4>1, <4>2 DEF ObserveHonestly, ObservedBy
    <3>3. ASSUME NEW witness \in Witnesses, NEW policy \in Policies,
                 NEW statement \in issued, NEW sequence \in 1..MaxWitnessSequence,
                 NEW prev \in ObservedBy(witness) \cup {ZERO},
                 ObserveFreely(witness, sequence, prev, policy, statement)
          PROVE  TypeOK'
      <4>1. sequence \in Nat \ {0} /\ prev \in observed \cup {ZERO}
        BY WitnessAssumption DEF ObservedBy
      <4>2. Observation(witness, sequence, prev, policy, statement) \in ObservationShape
        BY <4>1 DEF Observation, ObservationShape
      <4> QED BY <3>1, <3>3, <4>2 DEF ObserveFreely
    <3> QED BY <2>2, <3>2, <3>3 DEF WitnessStep
  <2>3. CASE PartyStep
    <3>1. issued' = issued /\ observed' = observed
      BY <2>3 DEF PartyStep, Bootstrap, Advance
    <3>2. IssuedTypeOK' /\ (observed \subseteq ObservationShape)'
      BY <3>1 DEF TypeOK, IssuedTypeOK, StatementShape, ObservationShape
    <3>3. Presentable' = Presentable
      BY <3>1 DEF Presentable
    <3>4. log' \in [Parties -> Seq(Presentable)]
      <4>1. ASSUME NEW p \in Parties, NEW package \in Presentable, Bootstrap(p, package)
            PROVE  log' \in [Parties -> Seq(Presentable)]
        <5>1. <<package>> \in Seq(Presentable)
          OBVIOUS
        <5> QED BY <4>1, <5>1 DEF Bootstrap, TypeOK
      <4>2. ASSUME NEW p \in Parties, NEW package \in Presentable, Advance(p, package)
            PROVE  log' \in [Parties -> Seq(Presentable)]
        <5>1. Append(log[p], package) \in Seq(Presentable)
          BY DEF TypeOK
        <5> QED BY <4>2, <5>1 DEF Advance, TypeOK
      <4> QED BY <2>3, <4>1, <4>2 DEF PartyStep
    <3> QED BY <3>2, <3>3, <3>4 DEF TypeOK
  <2>4. CASE UNCHANGED vars
    BY <2>4 DEF vars, TypeOK, IssuedTypeOK, StatementShape, ObservationShape, Presentable
  <2> QED BY <2>1, <2>2, <2>3, <2>4 DEF Next
<1> QED BY <1>1, <1>2, PTL DEF Spec

-----------------------------------------------------------------------------
(* Safety. *)

(* An honest witness never signed two statements that conflict, nor, in one *)
(* lane, two anchors no single history contains.                            *)
HonestOrdered ==
  \A o1, o2 \in observed :
    /\ o1.witness = o2.witness
    /\ o1.witness \in Honest
    => /\ ~Equivocates(o1.statement, o2.statement)
       /\ Lane(o1.statement) = Lane(o2.statement)
            => OneHistory(o1.statement.anchor, o2.statement.anchor)

(* Parties retain only packages the verifier admitted. *)
AcceptedValid ==
  \A p \in Parties : \A i \in DOMAIN log[p] : ValidPackage(log[p][i])

IInv == TypeOK /\ HonestOrdered /\ AcceptedValid

(* The signed history of honest witnesses stays ordered as observations are *)
(* added: the only step that concerns it is MayWitness.                     *)
LEMMA HonestOrderedStep ==
  ASSUME TypeOK, HonestOrdered, [Next]_vars
  PROVE  HonestOrdered'
<1>1. CASE observed' = observed
  BY <1>1 DEF HonestOrdered
<1>2. CASE WitnessStep
  <2>1. ASSUME NEW witness \in Honest, NEW policy \in Policies, NEW statement \in issued,
               NEW o, o.witness = witness, o.statement = statement,
               MayWitness(witness, statement), Observe(o)
        PROVE  HonestOrdered'
    <3>1. observed' = observed \cup {o}
      BY <2>1 DEF Observe
    <3>2. ASSUME NEW o1 \in observed, o1.witness = witness
          PROVE  /\ ~Equivocates(o1.statement, o.statement)
                 /\ ~Equivocates(o.statement, o1.statement)
                 /\ Lane(o1.statement) = Lane(o.statement)
                      => /\ OneHistory(o1.statement.anchor, o.statement.anchor)
                         /\ OneHistory(o.statement.anchor, o1.statement.anchor)
      <4>1. /\ ~Equivocates(o1.statement, statement)
            /\ Lane(o1.statement) = Lane(statement)
                 => \/ o1.statement = statement
                    \/ AppendOnly(o1.statement.anchor, statement.anchor)
        BY <2>1, <3>2 DEF MayWitness, ObservedBy
      <4>2. ~Equivocates(o.statement, o1.statement)
        BY <2>1, <4>1, EquivocatesSymmetric
      <4>3. Lane(o1.statement) = Lane(o.statement)
              => OneHistory(o1.statement.anchor, o.statement.anchor)
        BY <2>1, <4>1 DEF OneHistory
      <4> QED BY <2>1, <4>1, <4>2, <4>3, OneHistorySymmetric
    <3>3. ~Equivocates(o.statement, o.statement)
      BY EquivocatesIrreflexive
    <3>4. OneHistory(o.statement.anchor, o.statement.anchor)
      BY DEF OneHistory
    <3> SUFFICES ASSUME NEW o1 \in observed', NEW o2 \in observed',
                        o1.witness = o2.witness, o1.witness \in Honest
                 PROVE  /\ ~Equivocates(o1.statement, o2.statement)
                        /\ Lane(o1.statement) = Lane(o2.statement)
                             => OneHistory(o1.statement.anchor, o2.statement.anchor)
      BY DEF HonestOrdered
    <3>5. CASE o1 \in observed /\ o2 \in observed
      BY <3>5 DEF HonestOrdered
    <3>6. CASE o1 = o /\ o2 = o
      BY <3>3, <3>4, <3>6
    <3>7. CASE o1 = o /\ o2 \in observed
      BY <2>1, <3>2, <3>7
    <3>8. CASE o2 = o /\ o1 \in observed
      BY <2>1, <3>2, <3>8
    <3> QED BY <3>1, <3>5, <3>6, <3>7, <3>8
  <2>2. ASSUME NEW o, o.witness \in FaultyWitnesses, Observe(o)
        PROVE  HonestOrdered'
    BY <2>2 DEF Observe, HonestOrdered, Honest
  <2>3. ASSUME NEW witness \in Witnesses, NEW policy \in Policies,
               NEW statement \in issued, ObserveHonestly(witness, policy, statement)
        PROVE  HonestOrdered'
    <3>1. \E sequence, prev :
            Observe(Observation(witness, sequence, prev, policy, statement))
      BY <2>3 DEF ObserveHonestly
    <3>2. PICK sequence, prev :
            Observe(Observation(witness, sequence, prev, policy, statement))
      BY <3>1
    <3> DEFINE o == Observation(witness, sequence, prev, policy, statement)
    <3>3. o.witness = witness /\ o.statement = statement
      BY DEF Observation
    <3>4. witness \in Honest /\ MayWitness(witness, statement)
      BY <2>3 DEF ObserveHonestly
    <3> HIDE DEF o
    <3>5. Observe(o)
      BY <3>2 DEF o
    <3> QED BY <2>1, <3>3, <3>4, <3>5
  <2>4. ASSUME NEW witness \in Witnesses, NEW policy \in Policies,
               NEW statement \in issued, NEW sequence, NEW prev,
               ObserveFreely(witness, sequence, prev, policy, statement)
        PROVE  HonestOrdered'
    <3> DEFINE o == Observation(witness, sequence, prev, policy, statement)
    <3>1. o.witness \in FaultyWitnesses
      BY <2>4 DEF ObserveFreely, Observation
    <3>2. Observe(o)
      BY <2>4 DEF ObserveFreely
    <3> QED BY <2>2, <3>1, <3>2
  <2> QED BY <1>2, <2>3, <2>4 DEF WitnessStep
<1>3. CASE Produce
  BY <1>1, <1>3 DEF Produce
<1>4. CASE PartyStep
  BY <1>1, <1>4 DEF PartyStep, Bootstrap, Advance
<1>5. CASE UNCHANGED vars
  BY <1>1, <1>5 DEF vars
<1> QED BY <1>2, <1>3, <1>4, <1>5 DEF Next

(* Both ways into a log go through the verifier. *)
LEMMA AcceptedValidStep ==
  ASSUME TypeOK, AcceptedValid, [Next]_vars
  PROVE  AcceptedValid'
<1>1. CASE log' = log
  BY <1>1 DEF AcceptedValid
<1>2. CASE PartyStep
  <2>1. ASSUME NEW p \in Parties, NEW package \in Presentable, Bootstrap(p, package)
        PROVE  AcceptedValid'
    <3>1. log' = [log EXCEPT ![p] = <<package>>] /\ ValidPackage(package)
      BY <2>1 DEF Bootstrap
    <3> QED BY <3>1 DEF AcceptedValid, TypeOK
  <2>2. ASSUME NEW p \in Parties, NEW package \in Presentable, Advance(p, package)
        PROVE  AcceptedValid'
    <3>1. log' = [log EXCEPT ![p] = Append(@, package)] /\ ValidPackage(package)
      BY <2>2 DEF Advance, VerifyWitnessed
    <3>2. ASSUME NEW q \in Parties, NEW i \in DOMAIN log'[q]
          PROVE  ValidPackage(log'[q][i])
      <4>1. log[q] \in Seq(Presentable)
        BY DEF TypeOK
      <4>2. CASE q = p
        <5>1. log'[q] = Append(log[p], package)
          BY <3>1, <4>2 DEF TypeOK
        <5>2. i \in 1..Len(log[p]) + 1
          BY <4>1, <4>2, <5>1, <3>2
        <5>3. CASE i = Len(log[p]) + 1
          BY <3>1, <4>1, <4>2, <5>1, <5>3
        <5>4. CASE i \in 1..Len(log[p])
          <6>1. log'[q][i] = log[p][i]
            BY <4>1, <4>2, <5>1, <5>4
          <6>2. i \in DOMAIN log[p]
            BY <4>1, <4>2, <5>4
          <6> QED BY <6>1, <6>2 DEF AcceptedValid
        <5> QED BY <4>1, <4>2, <5>2, <5>3, <5>4
      <4>3. CASE q # p
        BY <3>1, <3>2, <4>3 DEF TypeOK, AcceptedValid
      <4> QED BY <4>2, <4>3
    <3> QED BY <3>2 DEF AcceptedValid
  <2> QED BY <1>2, <2>1, <2>2 DEF PartyStep
<1>3. CASE Produce
  BY <1>1, <1>3 DEF Produce
<1>4. CASE WitnessStep
  BY <1>1, <1>4 DEF WitnessStep, ObserveHonestly, ObserveFreely, Observe
<1>5. CASE UNCHANGED vars
  BY <1>1, <1>5 DEF vars
<1> QED BY <1>2, <1>3, <1>4, <1>5 DEF Next

(* IInv holds throughout: each of its parts is kept by every step. *)
LEMMA Invariance == Spec => []IInv
<1>1. Init => HonestOrdered /\ AcceptedValid
  BY DEF Init, HonestOrdered, AcceptedValid
<1>2. TypeOK /\ HonestOrdered /\ AcceptedValid /\ [Next]_vars
        => HonestOrdered' /\ AcceptedValid'
  BY HonestOrderedStep, AcceptedValidStep
<1> QED BY <1>1, <1>2, TypeCorrect, PTL DEF Spec, IInv

(* What the invariant says about two packages some parties hold. *)
LEMMA AcceptedPackages ==
  ASSUME IInv, NEW a \in Accepted
  PROVE  /\ a \in Presentable
         /\ ValidPackage(a)
         /\ a.policy \in Policies
         /\ a.observations \subseteq observed
<1>1. PICK p \in Parties : a \in Range(log[p])
  BY DEF Accepted
<1>2. PICK i \in DOMAIN log[p] : a = log[p][i]
  BY <1>1 DEF Range
<1>3. ValidPackage(a)
  BY <1>2 DEF IInv, AcceptedValid
<1>4. log[p] \in Seq(Presentable)
  BY DEF IInv, TypeOK
<1>5. a \in Presentable
  BY <1>2, <1>4
<1> QED BY <1>3, <1>5 DEF Presentable

(* An honest witness that signed both packages vouches for both: they do    *)
(* not conflict, and in one lane they lie on one history.                   *)
LEMMA HonestOverlap ==
  ASSUME IInv, NEW a \in Accepted, NEW b \in Accepted,
         NEW w \in Overlap(a, b), w \notin FaultyWitnesses
  PROVE  /\ ~Equivocates(a.statement, b.statement)
         /\ Lane(a.statement) = Lane(b.statement)
              => OneHistory(a.statement.anchor, b.statement.anchor)
<1>1. PICK o1 \in a.observations : o1.witness = w
  BY DEF Overlap, Signers
<1>2. PICK o2 \in b.observations : o2.witness = w
  BY DEF Overlap, Signers
<1>3. o1.statement = a.statement /\ o2.statement = b.statement
  BY AcceptedPackages DEF ValidPackage, ValidObservation
<1>4. o1 \in observed /\ o2 \in observed
  BY AcceptedPackages
<1>5. w \in Honest
  <2>1. o1 \in ObservationShape
    BY <1>4 DEF IInv, TypeOK
  <2> QED BY <1>1, <2>1 DEF ObservationShape, Honest
<1> QED BY <1>1, <1>2, <1>3, <1>4, <1>5 DEF IInv, HonestOrdered

(***************************************************************************)
(* Two packages any two parties accepted under one policy always carry     *)
(* enough common signers for detect_witness_quorum_equivocation to answer. *)
(***************************************************************************)
THEOREM AlwaysComparable == Spec => []ComparisonAlwaysPossible
<1>1. IInv => ComparisonAlwaysPossible
  <2> SUFFICES ASSUME IInv, NEW a \in Accepted, NEW b \in Accepted,
                      a.policy = b.policy
               PROVE  ~ComparisonRefused(a, b)
    BY DEF ComparisonAlwaysPossible
  <2>1. /\ ValidPackage(a) /\ ValidPackage(b) /\ a.policy \in Policies
    BY AcceptedPackages
  <2>2. /\ Cardinality(Overlap(a, b)) \in Nat
        /\ Cardinality(Overlap(a, b)) >= MinimumIntersection(a.policy)
    BY <2>1, QuorumsIntersect
  <2>3. MinimumIntersection(a.policy) \in Int
    <3>1. a.policy.threshold \in Int /\ Cardinality(a.policy.witnesses) \in Nat
      BY <2>1, PolicyAssumption, FS_CardinalityType DEF PolicyShape
    <3> QED BY <3>1 DEF MinimumIntersection
  <2> QED BY <2>2, <2>3 DEF ComparisonRefused
<1> QED BY <1>1, Invariance, PTL

(***************************************************************************)
(* No honest witness is ever named in double_signing_witness_ids, for any  *)
(* number of faulty witnesses and whatever producers and packagers do.     *)
(***************************************************************************)
THEOREM HonestWitnessSafe == Spec => []HonestWitnessNeverAccused
<1>1. IInv => HonestWitnessNeverAccused
  BY HonestOverlap
     DEF HonestWitnessNeverAccused, EquivocationDetected, DoubleSigners
<1> QED BY <1>1, Invariance, PTL

(***************************************************************************)
(* A split view costs at least a quorum intersection of faulty witnesses,  *)
(* and so at least one, for every policy and every number of parties.      *)
(***************************************************************************)
THEOREM SplitAccountable == Spec => []SplitIsAccountable
<1>1. IInv => SplitIsAccountable
  <2> SUFFICES ASSUME IInv, NEW a \in Accepted, NEW b \in Accepted,
                      a.policy = b.policy,
                      Lane(a.statement) = Lane(b.statement),
                      ~OneHistory(a.statement.anchor, b.statement.anchor)
               PROVE  /\ Overlap(a, b) \cap FaultyWitnesses # {}
                      /\ Cardinality(Overlap(a, b) \cap FaultyWitnesses)
                           >= MinimumIntersection(a.policy)
    BY DEF SplitIsAccountable
  <2>1. Overlap(a, b) \subseteq FaultyWitnesses
    BY HonestOverlap
  <2>2. Overlap(a, b) \cap FaultyWitnesses = Overlap(a, b)
    BY <2>1
  <2>3. ValidPackage(a) /\ ValidPackage(b) /\ a.policy \in Policies
    BY AcceptedPackages
  <2>4. Cardinality(Overlap(a, b)) >= MinimumIntersection(a.policy)
    BY <2>3, QuorumsIntersect
  <2>5. MinimumIntersection(a.policy) \in Int /\ MinimumIntersection(a.policy) > 0
    <3>1. a.policy.threshold \in Int /\ Cardinality(a.policy.witnesses) \in Nat
      BY <2>3, PolicyAssumption, FS_CardinalityType DEF PolicyShape
    <3>2. 2 * a.policy.threshold > Cardinality(a.policy.witnesses)
      BY <2>3 DEF ValidPackage, ValidPolicy
    <3> QED BY <3>1, <3>2 DEF MinimumIntersection
  <2>6. Overlap(a, b) # {}
    <3>1. Cardinality({}) = 0
      BY FS_EmptySet
    <3> SUFFICES ASSUME Overlap(a, b) = {} PROVE FALSE
      OBVIOUS
    <3>2. PICK m : m = MinimumIntersection(a.policy)
      OBVIOUS
    <3>3. m \in Int /\ m > 0 /\ Cardinality({}) >= m
      BY <2>4, <2>5, <3>2
    <3> QED BY <3>1, <3>3
  <2> QED BY <2>2, <2>4, <2>6
<1> QED BY <1>1, Invariance, PTL

-----------------------------------------------------------------------------
(* Refinement: what the packages promise is LineageView. *)

(* The statements of packages carry anchors of the instance. *)
LEMMA PresentableStatements ==
  ASSUME IInv, NEW a \in Presentable
  PROVE  /\ AnchorFields(a.statement.anchor)
         /\ a.statement.anchor \in Anchors
         /\ Lane(a.statement) \in Authorities \X Contexts
         /\ a.policy \in Policies
<1>1. a.statement \in issued /\ a.policy \in Policies
  BY DEF Presentable
<1>2. a.statement \in StatementShape
  BY <1>1 DEF IInv, TypeOK, IssuedTypeOK
<1>3. a.statement.anchor \in Anchors /\ a.statement.authority \in Authorities
  BY <1>2 DEF StatementShape
<1>4. AnchorFields(a.statement.anchor)
  BY <1>3, ConstantsAssumption
<1>5. a.statement.anchor.context \in Contexts
  BY <1>4 DEF AnchorFields
<1> QED BY <1>1, <1>3, <1>4, <1>5 DEF Lane

(* Anchors one history holds have roots over prefixes of one leaf sequence. *)
LEMMA OneHistoryIsLinear ==
  ASSUME NEW x, NEW y, AnchorFields(x), AnchorFields(y), OneHistory(x, y)
  PROVE  Lineage!Linear(x.root, y.root)
<1>1. x.root \in Seq(Commitments)
  BY DEF AnchorFields
<1>2. IsPrefix(x.root, x.root)
  BY <1>1 DEF IsPrefix
<1>3. CASE x = y
  BY <1>2, <1>3 DEF Lineage!Linear, Lineage!IsPrefix, IsPrefix
<1>4. CASE AppendOnly(x, y) \/ AppendOnly(y, x)
  BY <1>4 DEF AppendOnly, Lineage!Linear, Lineage!IsPrefix, IsPrefix
<1> QED BY <1>3, <1>4 DEF OneHistory

(* An accepted extension is a strict one. *)
LEMMA AppendOnlyIsStrict ==
  ASSUME NEW x, NEW y, AnchorFields(x), AnchorFields(y), AppendOnly(x, y)
  PROVE  Lineage!IsStrictPrefix(x.root, y.root)
<1>1. x.size < y.size /\ x.size = Len(x.root) /\ y.size = Len(y.root)
  BY DEF AppendOnly, BoundEndpoint
<1>2. x.size \in Nat /\ y.size \in Nat
  BY DEF AnchorFields
<1>3. x.root # y.root
  BY <1>1, <1>2
<1> QED BY <1>3 DEF AppendOnly, Lineage!IsStrictPrefix, Lineage!IsPrefix, IsPrefix

(* Any two packages accepted under one protected policy agree. *)
Agreement ==
  \A a, b \in Accepted :
    /\ a.policy = b.policy
    /\ Protected(a.policy)
    /\ Lane(a.statement) = Lane(b.statement)
    => Lineage!Linear(a.statement.anchor.root, b.statement.anchor.root)

(* The invariant gives agreement: a protected policy puts an honest witness *)
(* in every quorum intersection.                                            *)
LEMMA AgreementHolds == IInv => Agreement
<1> SUFFICES ASSUME IInv, NEW a \in Accepted, NEW b \in Accepted,
                    a.policy = b.policy, Protected(a.policy),
                    Lane(a.statement) = Lane(b.statement)
             PROVE  Lineage!Linear(a.statement.anchor.root, b.statement.anchor.root)
  BY DEF Agreement
<1>1. ValidPackage(a) /\ ValidPackage(b) /\ a.policy \in Policies
  BY AcceptedPackages
<1>2. /\ IsFiniteSet(Overlap(a, b)) /\ Cardinality(Overlap(a, b)) \in Nat
      /\ Cardinality(Overlap(a, b)) >= MinimumIntersection(a.policy)
  BY <1>1, QuorumsIntersect
<1>3. PICK w \in Overlap(a, b) : w \notin FaultyWitnesses
  <2>1. SUFFICES ASSUME Overlap(a, b) \subseteq FaultyWitnesses PROVE FALSE
    BY <2>1
  <2> DEFINE F == a.policy.witnesses \cap FaultyWitnesses
  <2>2. Overlap(a, b) \subseteq F
    BY <1>1, <2>1, SignersFillQuorum DEF Overlap
  <2>3. IsFiniteSet(a.policy.witnesses) /\ a.policy.threshold \in Int
    BY <1>1, PolicyAssumption DEF PolicyShape
  <2>4. IsFiniteSet(F)
    BY <2>3, FS_Intersection
  <2>5. Cardinality(Overlap(a, b)) <= Cardinality(F) /\ Cardinality(F) \in Nat
    BY <2>2, <2>4, FS_Subset, FS_CardinalityType
  <2>6. MinimumIntersection(a.policy) \in Int
    BY <2>3, FS_CardinalityType DEF MinimumIntersection
  <2>7. Cardinality(F) < MinimumIntersection(a.policy)
    BY DEF Protected
  <2> QED BY <1>2, <2>5, <2>6, <2>7
<1>4. OneHistory(a.statement.anchor, b.statement.anchor)
  BY <1>3, HonestOverlap
<1>5. a \in Presentable /\ b \in Presentable
  BY AcceptedPackages
<1> QED BY <1>4, <1>5, PresentableStatements, OneHistoryIsLinear

(* Appending to a log changes the head and nothing else. *)
LEMMA HeadOfAppend ==
  ASSUME NEW S, NEW s \in Seq(S), NEW x \in S
  PROVE  /\ Append(s, x) # <<>>
         /\ Last(Append(s, x)) = x
  BY DEF Last

(* The head a party relies on is one of the packages it accepted. *)
HeadsAccepted ==
  \A p \in Parties : log[p] # <<>> => Last(log[p]) \in Accepted

(* Heads are accepted packages, since logs are finite sequences. *)
LEMMA HeadsAcceptedHolds == IInv => HeadsAccepted
<1> SUFFICES ASSUME IInv, NEW p \in Parties, log[p] # <<>>
             PROVE  Last(log[p]) \in Accepted
  BY DEF HeadsAccepted
<1>1. log[p] \in Seq(Presentable)
  BY DEF IInv, TypeOK
<1>2. Len(log[p]) \in DOMAIN log[p]
  BY <1>1
<1>3. Last(log[p]) \in Range(log[p])
  BY <1>2 DEF Range, Last
<1> QED BY <1>3 DEF Accepted

(* A step of one party that keeps to the invariant is a step of the         *)
(* abstract view, or changes no view.                                       *)
LEMMA HeadMoves ==
  ASSUME IInv, IInv', NEW p \in Parties, NEW package,
         log' = [log EXCEPT ![p] = Append(@, package)],
         package \in Presentable,
         log[p] # <<>> => VerifyWitnessed(Last(log[p]), package)
  PROVE  [Lineage!Next]_View
<1> DEFINE lane == <<Lane(package.statement), package.policy>>
           history == package.statement.anchor.root
<1>1. log[p] \in Seq(Presentable) /\ DOMAIN log = Parties
  BY DEF IInv, TypeOK
<1>2. log'[p] = Append(log[p], package)
  BY <1>1
<1>3. log'[p] # <<>> /\ Last(log'[p]) = package
  BY <1>1, <1>2, HeadOfAppend
<1>4. ASSUME NEW q \in Parties, q # p PROVE log'[q] = log[q]
  BY <1>1, <1>4
<1>5. ASSUME NEW q \in Parties, q # p PROVE View'[q] = View[q]
  BY <1>4, <1>5 DEF View, Protected, MinimumIntersection, Lane
<1>6. Agreement' /\ HeadsAccepted'
  BY AgreementHolds, HeadsAcceptedHolds, PTL
<1>7. package \in Accepted'
  BY <1>3, <1>6 DEF HeadsAccepted
<1>8. View' = [View EXCEPT ![p] = View'[p]]
  <2>1. /\ View = [q \in Parties |-> View[q]]
        /\ View' = [q \in Parties |-> View'[q]]
    BY DEF View
  <2> QED BY <1>5, <2>1
<1>9. log[p] # <<>> => Last(log[p]).policy = package.policy
  BY DEF VerifyWitnessed
<1>10. CASE ~Protected(package.policy)
  <2>1. View'[p] = NoView
    BY <1>3, <1>10 DEF View, Protected, MinimumIntersection
  <2>2. View[p] = NoView
    BY <1>9, <1>10 DEF View
  <2>3. View' = View
    BY <1>8, <2>1, <2>2 DEF View
  <2> QED BY <2>3
<1>11. CASE Protected(package.policy)
  <2>1. View'[p] = [lane |-> lane, history |-> history]
    BY <1>3, <1>11 DEF View, Protected, MinimumIntersection, Lane
  <2>2. View' = [View EXCEPT ![p] = [lane |-> lane, history |-> history]]
    BY <1>8, <2>1
  <2>3. /\ lane \in (Authorities \X Contexts) \X Policies
        /\ history \in {a.root : a \in Anchors}
    BY PresentableStatements
  <2>4. ASSUME View[p] # NoView
        PROVE  View[p].lane = lane /\ Lineage!IsStrictPrefix(View[p].history, history)
    <3> DEFINE head == Last(log[p])
    <3>1. log[p] # <<>>
      BY <2>4 DEF View
    <3>2. View[p] = [lane    |-> <<Lane(head.statement), head.policy>>,
                     history |-> head.statement.anchor.root]
      BY <2>4 DEF View
    <3>3. VerifyAuthorized(head.statement, package.statement)
      BY <3>1 DEF VerifyWitnessed
    <3>4. head.policy = package.policy
      BY <1>9, <3>1
    <3>5. Lane(head.statement) = Lane(package.statement)
      BY <3>3 DEF VerifyAuthorized, AppendOnly, Lane
    <3>6. head \in Presentable
      BY <3>1, HeadsAcceptedHolds, AcceptedPackages DEF HeadsAccepted
    <3>7. Lineage!IsStrictPrefix(head.statement.anchor.root, history)
      <4>1. AppendOnly(head.statement.anchor, package.statement.anchor)
        BY <3>3 DEF VerifyAuthorized
      <4> QED BY <3>6, <4>1, PresentableStatements, AppendOnlyIsStrict
    <3> HIDE DEF head
    <3> QED BY <3>2, <3>4, <3>5, <3>7
  <2>5. ASSUME NEW q \in Parties, View[q] # NoView, View[q].lane = lane
        PROVE  Lineage!Linear(View[q].history, history)
    <3>1. CASE q = p
      BY <2>4, <2>5, <3>1 DEF Lineage!IsStrictPrefix, Lineage!Linear
    <3>2. CASE q # p
      <4> DEFINE head == Last(log[q])
      <4>1. log[q] # <<>> /\ View[q] = [lane    |-> <<Lane(head.statement), head.policy>>,
                                        history |-> head.statement.anchor.root]
        BY <2>5 DEF View
      <4>2. Lane(head.statement) = Lane(package.statement) /\ head.policy = package.policy
        BY <2>5, <4>1
      <4>3. head \in Accepted'
        BY <1>4, <1>6, <3>2, <4>1 DEF HeadsAccepted
      <4>4. Protected(head.policy)
        BY <1>11, <4>2
      <4>5. Lineage!Linear(head.statement.anchor.root, history)
        BY <1>6, <1>7, <4>2, <4>3, <4>4 DEF Agreement, Protected, MinimumIntersection, Lane
      <4> HIDE DEF head
      <4> QED BY <4>1, <4>5
    <3> QED BY <3>1, <3>2
  <2>6. Lineage!Adopt(p, lane, history)
    BY <2>2, <2>4, <2>5 DEF Lineage!Adopt
  <2> QED BY <2>3, <2>6 DEF Lineage!Next
<1> QED BY <1>10, <1>11

(***************************************************************************)
(* Under every policy whose quorum intersections outnumber its faulty      *)
(* witnesses, the parties read one append-only history, for any number of  *)
(* parties and any behaviour of producers, faulty witnesses and packagers. *)
(***************************************************************************)
THEOREM ReadsOneHistory == Spec => ImplementsLineageView
<1>1. Init => Lineage!Init
  BY DEF Init, Lineage!Init, View
<1>2. IInv /\ IInv' /\ [Next]_vars => [Lineage!Next]_View
  <2> SUFFICES ASSUME IInv, IInv', [Next]_vars PROVE [Lineage!Next]_View
    OBVIOUS
  <2>1. CASE log' = log
    BY <2>1 DEF View, Protected, MinimumIntersection, Lane
  <2>2. CASE PartyStep
    <3>1. ASSUME NEW p \in Parties, NEW package \in Presentable, Bootstrap(p, package)
          PROVE  [Lineage!Next]_View
      <4>1. log' = [log EXCEPT ![p] = Append(@, package)] /\ log[p] = <<>>
        BY <3>1 DEF Bootstrap
      <4> QED BY <4>1, HeadMoves
    <3>2. ASSUME NEW p \in Parties, NEW package \in Presentable, Advance(p, package)
          PROVE  [Lineage!Next]_View
      BY <3>2, HeadMoves DEF Advance
    <3> QED BY <2>2, <3>1, <3>2 DEF PartyStep
  <2>3. CASE Produce
    BY <2>1, <2>3 DEF Produce
  <2>4. CASE WitnessStep
    BY <2>1, <2>4 DEF WitnessStep, ObserveHonestly, ObserveFreely, Observe
  <2>5. CASE UNCHANGED vars
    BY <2>1, <2>5 DEF vars
  <2> QED BY <2>2, <2>3, <2>4, <2>5 DEF Next
<1> QED BY <1>1, <1>2, Invariance, PTL DEF Spec, ImplementsLineageView, Lineage!Spec
-----------------------------------------------------------------------------
(* Continuations. *)

(* What builders and witnesses signed is well formed. *)
SignedValid ==
  /\ \A s \in issued : ValidStatement(s)
  /\ \A o \in observed : ValidObservation(o, o.statement, o.policy)

(* What is signed is valid, in every state. *)
LEMMA SignedValidity == Spec => []SignedValid
<1>1. Init => SignedValid
  BY DEF Init, ProducerInit, SignedValid
<1>2. SignedValid /\ [Next]_vars => SignedValid'
  <2> SUFFICES ASSUME SignedValid, [Next]_vars PROVE SignedValid'
    OBVIOUS
  <2>1. CASE Produce
    <3>1. observed' = observed /\ \E s : ValidStatement(s) /\ issued' = issued \cup {s}
      BY <2>1 DEF Produce, ProducerNext, IssueHonestly, IssueFreely, Issue
    <3> QED BY <3>1 DEF SignedValid
  <2>2. CASE WitnessStep
    <3>1. ASSUME NEW o, Observe(o) PROVE SignedValid'
      <4>1. /\ issued' = issued /\ observed' = observed \cup {o}
            /\ ValidObservation(o, o.statement, o.policy)
        BY <3>1 DEF Observe
      <4> QED BY <4>1 DEF SignedValid
    <3>2. \E o : Observe(o)
      BY <2>2 DEF WitnessStep, ObserveHonestly, ObserveFreely
    <3> QED BY <3>1, <3>2
  <2>3. CASE PartyStep
    BY <2>3 DEF PartyStep, Bootstrap, Advance, SignedValid
  <2>4. CASE UNCHANGED vars
    BY <2>4 DEF vars, SignedValid
  <2> QED BY <2>1, <2>2, <2>3, <2>4 DEF Next
<1> QED BY <1>1, <1>2, PTL DEF Spec

(* One observation of each of several witnesses: as many signers as         *)
(* observations.                                                            *)
LEMMA OneEach ==
  ASSUME NEW W, IsFiniteSet(W), NEW obs, \A w \in W : obs[w].witness = w,
         NEW O, O = {obs[w] : w \in W}
  PROVE  /\ {o.witness : o \in O} = W
         /\ Cardinality(O) = Cardinality(W)
         /\ \A o \in O : o = obs[o.witness] /\ o.witness \in W
<1> DEFINE f == [w \in W |-> obs[w]]
<1>1. f \in [W -> O] /\ \A w \in W : f[w] = obs[w]
  OBVIOUS
<1>2. \A o \in O : \E w \in W : o = obs[w]
  OBVIOUS
<1> HIDE DEF f
<1>3. f \in Bijection(W, O)
  <2>1. \A v, w \in W : f[v] = f[w] => v = w
    BY <1>1
  <2>2. \A o \in O : \E w \in W : f[w] = o
    BY <1>1, <1>2
  <2> QED BY <1>1, <2>1, <2>2 DEF Bijection, Injection, Surjection, IsInjective
<1>4. Cardinality(O) = Cardinality(W)
  BY <1>3, FS_Bijection DEF ExistsBijection
<1>5. \A o \in O : o = obs[o.witness] /\ o.witness \in W
  BY <1>2
<1>6. \A w \in W : obs[w] \in O
  OBVIOUS
<1>7. {o.witness : o \in O} = W
  BY <1>5, <1>6
<1> QED BY <1>4, <1>5, <1>7

(***************************************************************************)
(* The verifier admits honest continuations: the observations of the       *)
(* honest witnesses of a policy, if they fill a quorum and each follows    *)
(* what its witness signed of the head, make a package that replaces it -  *)
(* whatever quorum the party accepted the head with.                       *)
(***************************************************************************)
THEOREM ContinuationsAreAccepted == Spec => []ContinuationAccepted
<1>1. IInv /\ SignedValid => ContinuationAccepted
  <2> SUFFICES ASSUME IInv, SignedValid, NEW p \in Parties, log[p] # << >>,
                      NEW next \in issued,
                      VerifyAuthorized(Last(log[p]).statement, next),
                      Cardinality(Last(log[p]).policy.witnesses \ FaultyWitnesses)
                        >= Last(log[p]).policy.threshold,
                      \A w \in Last(log[p]).policy.witnesses \ FaultyWitnesses :
                        ObservedNext(w, Last(log[p]), next)
               PROVE  \E package \in Presentable :
                        package.statement = next /\ VerifyWitnessed(Last(log[p]), package)
    BY DEF ContinuationAccepted
  <2>1. PICK head : head = Last(log[p])
    OBVIOUS
  <2> DEFINE W == head.policy.witnesses \ FaultyWitnesses
             Follows(w, o) ==
               /\ o \in observed /\ o.witness = w
               /\ o.statement = next /\ o.policy = head.policy
               /\ \A e \in observed :
                    /\ e.witness = w /\ e.statement = head.statement
                    /\ e.policy = head.policy
                    => o.prev = e /\ o.sequence = e.sequence + 1
             obs == [w \in W |-> CHOOSE o : Follows(w, o)]
             O == {obs[w] : w \in W}
             package == [statement |-> next, policy |-> head.policy, observations |-> O]
  <2>2. head \in Accepted
    <3>1. log[p] \in Seq(Presentable)
      BY DEF IInv, TypeOK
    <3>2. Len(log[p]) \in DOMAIN log[p] /\ head = log[p][Len(log[p])]
      BY <2>1, <3>1 DEF Last
    <3> QED BY <3>2 DEF Accepted, Range
  <2>3. /\ ValidPackage(head) /\ head.policy \in Policies
        /\ head.observations \subseteq observed /\ head \in Presentable
    BY <2>2, AcceptedPackages
  <2>4. \A w \in W : Follows(w, obs[w])
    <3> SUFFICES ASSUME NEW w \in W PROVE Follows(w, obs[w])
      OBVIOUS
    <3>1. \E o : Follows(w, o)
      <4>1. ObservedNext(w, head, next)
        BY <2>1
      <4> QED BY <4>1 DEF ObservedNext, ObservedBy
    <3> HIDE DEF Follows
    <3> QED BY <3>1
  <2>5. IsFiniteSet(W) /\ Cardinality(W) >= head.policy.threshold
    <3>1. IsFiniteSet(head.policy.witnesses)
      BY <2>3, PolicyAssumption
    <3> QED BY <2>1, <3>1, FS_Subset
  <2> HIDE DEF obs
  <2>6. /\ {o.witness : o \in O} = W
        /\ Cardinality(O) = Cardinality(W)
        /\ \A o \in O : o = obs[o.witness] /\ o.witness \in W
    <3>1. \A w \in W : obs[w].witness = w
      BY <2>4
    <3>2. O = {obs[w] : w \in W}
      OBVIOUS
    <3> HIDE DEF W, O
    <3> QED BY <2>5, <3>1, <3>2, OneEach
  <2> HIDE DEF O, W
  <2>7. \A o \in O : Follows(o.witness, o)
    BY <2>4, <2>6
  <2>8. /\ package.statement = next /\ package.policy = head.policy
        /\ package.observations = O
    OBVIOUS
  <2>9. package \in Presentable
    BY <2>3, <2>7 DEF Presentable
  <2> HIDE DEF package
  <2>10. Signers(package) = W
    BY <2>6, <2>8 DEF Signers
  <2>11. ValidPackage(package)
    <3>1. \A o \in O : ValidObservation(o, next, head.policy)
      BY <2>7 DEF SignedValid
    <3>2. ValidStatement(next) /\ ValidPolicy(head.policy)
      BY <2>3 DEF SignedValid, ValidPackage
    <3> QED BY <2>5, <2>6, <2>8, <2>10, <3>1, <3>2 DEF ValidPackage
  <2>12. Cardinality(Overlap(head, package)) >= MinimumIntersection(head.policy)
    BY <2>3, <2>8, <2>11, QuorumsIntersect
  <2>13. OverlapContinues(head, package)
    <3> SUFFICES ASSUME NEW w \in Overlap(head, package)
                 PROVE  LET before == ObservationOf(head, w)
                            after == ObservationOf(package, w)
                        IN  after.sequence = before.sequence + 1 /\ after.prev = before
      BY DEF OverlapContinues
    <3>1. PICK before : before = ObservationOf(head, w)
      OBVIOUS
    <3>2. PICK after : after = ObservationOf(package, w)
      OBVIOUS
    <3>3. before \in head.observations /\ before.witness = w
      BY <3>1 DEF Overlap, Signers, ObservationOf
    <3>4. after \in O /\ after.witness = w
      BY <2>8, <3>2 DEF Overlap, Signers, ObservationOf
    <3>5. before \in observed /\ before.statement = head.statement /\ before.policy = head.policy
      BY <2>3, <3>3 DEF ValidPackage, ValidObservation
    <3>6. after.prev = before /\ after.sequence = before.sequence + 1
      BY <2>7, <3>3, <3>4, <3>5
    <3> QED BY <3>1, <3>2, <3>6
  <2>14. VerifyWitnessed(head, package)
    BY <2>1, <2>3, <2>8, <2>11, <2>12, <2>13 DEF VerifyWitnessed
  <2> QED BY <2>1, <2>8, <2>9, <2>14
<1> QED BY <1>1, Invariance, SignedValidity, PTL

-----------------------------------------------------------------------------
(* Refinement: packages are statements a party could follow directly.       *)

(* The operators of DirectLineage are its own copies of the library's.      *)
LEMMA LibraryCopies ==
  /\ \A S : Direct!Cardinality(S) = Cardinality(S)
  /\ \A s, t : Direct!IsPrefix(s, t) <=> IsPrefix(s, t)
  /\ \A s : Direct!Last(s) = Last(s)
<1>1. ASSUME NEW S PROVE Direct!Cardinality(S) = Cardinality(S)
  BY Zenon DEF Direct!Cardinality, Cardinality
<1>2. ASSUME NEW s, NEW t PROVE Direct!IsPrefix(s, t) <=> IsPrefix(s, t)
  BY DEF Direct!IsPrefix, IsPrefix
<1>3. ASSUME NEW s PROVE Direct!Last(s) = Last(s)
  BY DEF Direct!Last, Last
<1> QED BY <1>1, <1>2, <1>3

(* Statements are the same here as in the abstract protocol. *)
LEMMA StatementCopies ==
  /\ \A s : Direct!ValidStatement(s) <=> ValidStatement(s)
  /\ \A x, y : Direct!AppendOnly(x, y) <=> AppendOnly(x, y)
  /\ \A s, t : Direct!VerifyAuthorized(s, t) <=> VerifyAuthorized(s, t)
<1>1. ASSUME NEW s PROVE Direct!ValidStatement(s) <=> ValidStatement(s)
  BY DEF Direct!ValidStatement, ValidStatement
<1>2. ASSUME NEW x, NEW y PROVE Direct!AppendOnly(x, y) <=> AppendOnly(x, y)
  BY LibraryCopies DEF Direct!AppendOnly, AppendOnly, Direct!BoundEndpoint, BoundEndpoint
<1>3. ASSUME NEW s, NEW t PROVE Direct!VerifyAuthorized(s, t) <=> VerifyAuthorized(s, t)
  BY <1>2 DEF Direct!VerifyAuthorized, VerifyAuthorized
<1> QED BY <1>1, <1>2, <1>3

(* A step of the producers is one of the abstract protocol's. *)
LEMMA ProducerIsDirect ==
  ASSUME ProducerNext
  PROVE  Direct!ProducerNext
<1>1. ASSUME NEW s, Issue(s) PROVE Direct!Issue(s)
  BY <1>1, LibraryCopies, StatementCopies DEF Issue, Direct!Issue
<1>2. ASSUME NEW authority, NEW provenance, NEW anchor,
             IssueHonestly(authority, provenance, anchor)
      PROVE  Direct!IssueHonestly(authority, provenance, anchor)
  BY <1>1, <1>2, StatementCopies
     DEF IssueHonestly, Direct!IssueHonestly, InLane, Direct!InLane, Lane, Direct!Lane,
         BoundEndpoint, Direct!BoundEndpoint, Statement, Direct!Statement
<1>3. ASSUME NEW authority, NEW sequence, NEW prev, NEW provenance, NEW anchor,
             IssueFreely(authority, sequence, prev, provenance, anchor)
      PROVE  Direct!IssueFreely(authority, sequence, prev, provenance, anchor)
  BY <1>1, <1>3 DEF IssueFreely, Direct!IssueFreely, Statement, Direct!Statement
<1> QED BY <1>2, <1>3 DEF ProducerNext, Direct!ProducerNext

(* The statements of a log of packages. *)
StatementsOf(packages) == [i \in DOMAIN packages |-> packages[i].statement]

(* The statements of a log grow with it, and its last is the last one's. *)
LEMMA StatementsOfLog ==
  ASSUME NEW S, NEW s \in Seq(S), NEW x \in S
  PROVE  /\ StatementsOf(Append(s, x)) = Append(StatementsOf(s), x.statement)
         /\ StatementsOf(s) = <<>> <=> s = <<>>
         /\ s # <<>> => Last(StatementsOf(s)) = Last(s).statement
<1> DEFINE t == StatementsOf(s)
           T == {y.statement : y \in S}
<1>1. t \in Seq(T) /\ Len(t) = Len(s)
  <2>1. Len(s) \in Nat /\ DOMAIN s = 1..Len(s) /\ \A i \in 1..Len(s) : s[i] \in S
    OBVIOUS
  <2>2. t \in [1..Len(s) -> T]
    BY <2>1 DEF StatementsOf
  <2> HIDE DEF t, T
  <2> QED BY <2>1, <2>2
<1>2. \A i \in DOMAIN s : t[i] = s[i].statement
  BY DEF StatementsOf
<1>3. x.statement \in T
  OBVIOUS
<1>4. Append(s, x) \in Seq(S) /\ Len(Append(s, x)) = Len(s) + 1
      /\ \A i \in 1..Len(s) + 1 : Append(s, x)[i] = IF i = Len(s) + 1 THEN x ELSE s[i]
  OBVIOUS
<1> HIDE DEF t, T
<1>5. Append(t, x.statement) \in Seq(T) /\ Len(Append(t, x.statement)) = Len(s) + 1
      /\ \A i \in 1..Len(s) + 1 :
           Append(t, x.statement)[i] = IF i = Len(s) + 1 THEN x.statement ELSE t[i]
  BY <1>1, <1>3
<1>6. StatementsOf(Append(s, x)) = Append(t, x.statement)
  <2> DEFINE u == StatementsOf(Append(s, x))
             n == Len(s) + 1
  <2>1. DOMAIN Append(s, x) = 1..n /\ DOMAIN Append(t, x.statement) = 1..n
        /\ n \in Nat /\ DOMAIN s = 1..Len(s) /\ Len(s) \in Nat
    BY <1>4, <1>5
  <2>2. u = [i \in 1..n |-> Append(s, x)[i].statement]
    BY <2>1 DEF StatementsOf
  <2>3. \A i \in 1..n : Append(s, x)[i].statement = Append(t, x.statement)[i]
    BY <1>2, <1>4, <1>5, <2>1
  <2>4. Append(t, x.statement) = [i \in 1..n |-> Append(t, x.statement)[i]]
    BY <1>5, <2>1
  <2> HIDE DEF u, n
  <2> QED BY <2>2, <2>3, <2>4 DEF u
<1>7. t = <<>> <=> s = <<>>
  BY <1>1
<1>8. s # <<>> => Last(t) = Last(s).statement
  <2> SUFFICES ASSUME s # <<>> PROVE Last(t) = Last(s).statement
    OBVIOUS
  <2>1. Len(s) \in DOMAIN s
    OBVIOUS
  <2> QED BY <1>1, <1>2, <2>1 DEF Last
<1> QED BY <1>6, <1>7, <1>8 DEF t

(* A package a party accepts is a statement it could have accepted alone.   *)
LEMMA AcceptanceIsDirect ==
  ASSUME TypeOK, NEW p \in Parties, NEW package \in Presentable, ValidPackage(package),
         issued' = issued, log' = [log EXCEPT ![p] = Append(@, package)],
         log[p] # <<>> => VerifyAuthorized(Last(log[p]).statement, package.statement)
  PROVE  Direct!Next
<1> DEFINE s == package.statement
           R == [q \in Parties |-> StatementsOf(log[q])]
<1>1. s \in issued /\ ValidStatement(s)
  BY DEF Presentable, ValidPackage
<1>2. log[p] \in Seq(Presentable) /\ DOMAIN log = Parties
  BY DEF TypeOK
<1>3. /\ StatementsOf(Append(log[p], package)) = Append(R[p], s)
      /\ R[p] = <<>> <=> log[p] = <<>>
      /\ log[p] # <<>> => Last(R[p]) = Last(log[p]).statement
  BY <1>2, StatementsOfLog
<1>4. [q \in Parties |-> StatementsOf(log'[q])] = [R EXCEPT ![p] = Append(R[p], s)]
  <2>1. ASSUME NEW q \in Parties
        PROVE  StatementsOf(log'[q]) = IF q = p THEN Append(R[p], s) ELSE R[q]
    <3>1. CASE q = p
      <4>1. log'[q] = Append(log[p], package)
        BY <1>2, <3>1
      <4> QED BY <1>3, <3>1, <4>1
    <3>2. CASE q # p
      <4>1. log'[q] = log[q]
        BY <1>2, <3>2
      <4> QED BY <3>2, <4>1
    <3> QED BY <3>1, <3>2
  <2> HIDE DEF s
  <2> QED BY <2>1
<1>5. Direct!ValidStatement(s)
  BY <1>1, StatementCopies
<1>6. CASE log[p] = <<>>
  <2>a. Append(R[p], s) = <<s>>
    <3>1. \A x : Append(<<>>, x) = <<x>>
      OBVIOUS
    <3>2. R[p] = <<>>
      BY <1>3, <1>6
    <3> QED BY <3>1, <3>2
  <2>1. [R EXCEPT ![p] = Append(R[p], s)] = [R EXCEPT ![p] = <<s>>] /\ R[p] = <<>>
    BY <1>3, <1>6, <2>a, Zenon
  <2>2. Direct!Trust(p, s)
    BY <1>4, <1>5, <2>1 DEF Direct!Trust, StatementsOf
  <2> QED BY <1>1, <2>2 DEF Direct!Next
<1>7. CASE log[p] # <<>>
  <2>1. R[p] # <<>> /\ Direct!VerifyAuthorized(Direct!Last(R[p]), s)
    BY <1>3, <1>7, StatementCopies, LibraryCopies
  <2>2. Direct!Follow(p, s)
    BY <1>4, <1>5, <2>1 DEF Direct!Follow, StatementsOf
  <2> QED BY <1>1, <2>2 DEF Direct!Next
<1> QED BY <1>6, <1>7

(***************************************************************************)
(* A witnessed party does nothing one that follows the statements alone    *)
(* could not do: every step, statements taken out of their packages, is a  *)
(* step of DirectLineage.                                                  *)
(***************************************************************************)
THEOREM RefinesDirectLineage == Spec => ImplementsDirectLineage
<1>1. Init => Direct!Init
  BY DEF Init, ProducerInit, Direct!Init, Direct!ProducerInit
<1>2. IInv /\ [Next]_vars => [Direct!Next]_Direct!vars
  <2> SUFFICES ASSUME IInv, [Next]_vars PROVE [Direct!Next]_Direct!vars
    OBVIOUS
  <2>1. CASE Produce
    <3>1. log' = log /\ Direct!ProducerNext
      BY <2>1, ProducerIsDirect DEF Produce
    <3>2. Direct!Produce
      BY <3>1 DEF Direct!Produce
    <3> QED BY <3>2 DEF Direct!Next
  <2>2. CASE issued' = issued /\ log' = log
    BY <2>2 DEF Direct!vars
  <2>3. CASE WitnessStep
    BY <2>2, <2>3 DEF WitnessStep, ObserveHonestly, ObserveFreely, Observe
  <2>4. ASSUME NEW p \in Parties, NEW package \in Presentable, Bootstrap(p, package)
        PROVE  Direct!Next
    <3>1. /\ log[p] = <<>> /\ ValidPackage(package) /\ issued' = issued
          /\ log' = [log EXCEPT ![p] = Append(@, package)]
      BY <2>4 DEF Bootstrap
    <3> QED BY <3>1, AcceptanceIsDirect DEF IInv
  <2>5. ASSUME NEW p \in Parties, NEW package \in Presentable, Advance(p, package)
        PROVE  Direct!Next
    <3>1. /\ VerifyWitnessed(Last(log[p]), package) /\ issued' = issued
          /\ log' = [log EXCEPT ![p] = Append(@, package)]
      BY <2>5 DEF Advance
    <3>2. ValidPackage(package)
          /\ VerifyAuthorized(Last(log[p]).statement, package.statement)
      BY <3>1 DEF VerifyWitnessed
    <3> QED BY <3>1, <3>2, AcceptanceIsDirect DEF IInv
  <2> QED BY <2>1, <2>2, <2>3, <2>4, <2>5 DEF Next, PartyStep, vars
<1> QED BY <1>1, <1>2, Invariance, PTL DEF Spec, ImplementsDirectLineage, Direct!Spec
=============================================================================

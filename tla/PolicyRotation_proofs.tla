------------------------ MODULE PolicyRotation_proofs ------------------------
(***************************************************************************)
(* Theorems about PolicyRotation, for every set of witnesses, policies and *)
(* parties, every number of rotations and every bound on what is signed.   *)
(***************************************************************************)
EXTENDS PolicyRotation, NaturalOrder_proofs, FiniteSetTheorems, TLAPS

-----------------------------------------------------------------------------
(* The inductive invariant. *)

(* A package the verifier admitted, of a handoff between policies that      *)
(* exist, made of observations that witnesses signed.                      *)
Verified(package) ==
  /\ ValidHandoffPackage(package)
  /\ package.handoff \in Handoffs
  /\ package.observations \subseteq handedOff

(* The references of a chain are made by _build_ref from verified packages, *)
(* and the epoch of the policy they reach counts them.                     *)
ChainsVerified ==
  /\ chain = [p \in Parties |-> chain[p]]
  /\ \A p \in Parties : chain[p] \in Seq(Range(chain[p]))
  /\ \A p \in Parties : \A i \in DOMAIN chain[p] :
       /\ Verified(chain[p][i].package)
       /\ chain[p][i].policy = chain[p][i].package.activation.policy
       /\ chain[p][i].activation = chain[p][i].package.activation
       /\ chain[p][i].policy.epoch = Genesis.epoch + i

(* An honest witness takes its own policy one way at a producer statement.  *)
HonestHandsOnce ==
  \A g, h \in handedOff :
    g.witness = h.witness /\ g.witness \in Honest /\ g.witness \in g.handoff.old.witnesses
      => ~Conflicting(g.handoff, h.handoff)

IInv == TypeOK /\ ChainsVerified /\ HonestHandsOnce

-----------------------------------------------------------------------------
(* Steps. *)

(* What signing leaves alone. *)
LEMMA WitnessFrame ==
  ASSUME WitnessStep
  PROVE  /\ issued' = issued /\ chain' = chain
         /\ observed \subseteq observed' /\ handedOff \subseteq handedOff'
  BY DEF WitnessStep, ActivateHonestly, ActivateFreely, HandOffHonestly, HandOffFreely,
         Activate, HandOff, Observe, ObserveHandoff

(* What a party may add to a chain. *)
LEMMA PartyFrame ==
  ASSUME PartyStep
  PROVE  /\ issued' = issued /\ observed' = observed /\ handedOff' = handedOff
         /\ \E p \in Parties : \E package :
              /\ Verified(package)
              /\ Seed(p, package) \/ Advance(p, package)
<1>a. PICK h \in Handoffs : \E selection \in Selections(h) :
        \E active \in QuorumPackages(h.old, h.statement),
           activation \in QuorumPackages(h.new, h.statement), p \in Parties :
          \/ Seed(p, HandoffPackage(active, activation, h, selection))
          \/ Advance(p, HandoffPackage(active, activation, h, selection))
  BY DEF PartyStep
<1>b. PICK selection \in Selections(h) :
        \E active \in QuorumPackages(h.old, h.statement),
           activation \in QuorumPackages(h.new, h.statement), p \in Parties :
          \/ Seed(p, HandoffPackage(active, activation, h, selection))
          \/ Advance(p, HandoffPackage(active, activation, h, selection))
  BY <1>a
<1>1. PICK active \in QuorumPackages(h.old, h.statement),
           activation \in QuorumPackages(h.new, h.statement), p \in Parties :
        \/ Seed(p, HandoffPackage(active, activation, h, selection))
        \/ Advance(p, HandoffPackage(active, activation, h, selection))
  BY <1>b
<1> DEFINE package == HandoffPackage(active, activation, h, selection)
<1>2. package.handoff \in Handoffs /\ package.observations = selection.observations
  BY DEF HandoffPackage
<1>3. selection.observations \subseteq handedOff
  BY DEF Selections
<1> HIDE DEF package
<1>4. Seed(p, package) \/ Advance(p, package)
  BY <1>1 DEF package
<1>5. ValidHandoffPackage(package)
  BY <1>4 DEF Seed, Advance, Seeds, Extends
<1>6. issued' = issued /\ observed' = observed /\ handedOff' = handedOff
  BY <1>4 DEF Seed, Advance
<1> QED BY <1>2, <1>3, <1>4, <1>5, <1>6 DEF Verified

(* A chain that grows by one reference. *)
LEMMA ChainGrows ==
  ASSUME NEW s, s \in Seq(Range(s)), NEW x
  PROVE  /\ Append(s, x) \in Seq(Range(Append(s, x)))
         /\ Len(s) \in Nat /\ DOMAIN s = 1..Len(s)
         /\ DOMAIN Append(s, x) = 1..Len(s) + 1
         /\ Append(s, x)[Len(s) + 1] = x
         /\ \A i \in DOMAIN s : Append(s, x)[i] = s[i]
         /\ Len(Append(s, x)) = Len(s) + 1
<1> DEFINE S == Range(s) \cup {x}
<1>1. s \in Seq(S) /\ x \in S
  OBVIOUS
<1> HIDE DEF S
<1>2. /\ Append(s, x) \in Seq(S)
      /\ Len(s) \in Nat /\ DOMAIN s = 1..Len(s)
      /\ Len(Append(s, x)) = Len(s) + 1
      /\ DOMAIN Append(s, x) = 1..Len(s) + 1
      /\ Append(s, x)[Len(s) + 1] = x
      /\ \A i \in 1..Len(s) : Append(s, x)[i] = s[i]
  BY <1>1
<1>3. Append(s, x) \in Seq(Range(Append(s, x)))
  BY <1>2 DEF Range
<1> QED BY <1>2, <1>3

(* Either way of adding a package appends one reference to it, after the    *)
(* reference it has to follow.                                             *)
AddedRef(p, package, ref) ==
  /\ chain' = [chain EXCEPT ![p] = Append(chain[p], ref)]
  /\ ref.genesis = Genesis
  /\ ref.completed = Len(chain[p]) + 1
  /\ ref.previous = (IF chain[p] = <<>> THEN ZERO ELSE chain[p][Len(chain[p])])
  /\ ref.package = package
  /\ ref.policy = package.activation.policy
  /\ ref.activation = package.activation
  /\ ref.policy.epoch = Genesis.epoch + Len(chain[p]) + 1
  /\ IF chain[p] = <<>> THEN package.active.policy = Genesis
     ELSE package.active = chain[p][Len(chain[p])].activation

(* The fields of the reference a package leaves, and the epoch they imply. *)
LEMMA RefFields ==
  ASSUME NEW package, NEW genesis, NEW completed, NEW previous, NEW ref,
         ref = Chain!RefOf(package, genesis, completed, previous)
  PROVE  /\ ref.genesis = genesis /\ ref.completed = completed
         /\ ref.previous = previous /\ ref.package = package
         /\ ref.policy = package.activation.policy
         /\ ref.activation = package.activation
         /\ Chain!ValidRef(ref) => ref.policy.epoch = genesis.epoch + completed
  BY DEF Chain!RefOf, Chain!ValidRef

(* A party's step adds one reference at the end of its chain. *)
LEMMA PartyAdds ==
  ASSUME IInv, NEW p \in Parties, NEW package, Seed(p, package) \/ Advance(p, package)
  PROVE  \E ref : AddedRef(p, package, ref)
<1>0. chain[p] \in Seq(Range(chain[p])) /\ Genesis.epoch \in Nat
  BY RotationAssumption, PolicyAssumption DEF IInv, ChainsVerified, PolicyShape
<1>1. CASE Seed(p, package)
  <2> DEFINE ref == Chain!RefOf(package, Genesis, 1, ZERO)
  <2>1. chain[p] = <<>> /\ chain' = [chain EXCEPT ![p] = <<ref>>]
        /\ Chain!SeededBy(package, Genesis)
    BY <1>1 DEF Seed, Seeds
  <2>2. Append(chain[p], ref) = <<ref>> /\ Len(chain[p]) = 0
    BY <2>1
  <2>3. Chain!ValidRef(ref) /\ package.active.policy = Genesis
    BY <2>1 DEF Chain!SeededBy
  <2> HIDE DEF ref
  <2>4. /\ ref.genesis = Genesis /\ ref.completed = 1
        /\ ref.previous = ZERO /\ ref.package = package
        /\ ref.policy = package.activation.policy
        /\ ref.activation = package.activation
        /\ ref.policy.epoch = Genesis.epoch + 1
    BY <2>3, RefFields DEF ref
  <2>5. chain' = [chain EXCEPT ![p] = Append(chain[p], ref)]
    BY <2>1, <2>2
  <2>6. /\ ref.completed = Len(chain[p]) + 1
        /\ ref.policy.epoch = Genesis.epoch + Len(chain[p]) + 1
    BY <1>0, <2>2, <2>4
  <2>7. AddedRef(p, package, ref)
    BY <2>1, <2>3, <2>4, <2>5, <2>6 DEF AddedRef
  <2> QED BY <2>7
<1>2. CASE Advance(p, package)
  <2> DEFINE last == Last(chain[p])
             ref == Chain!RefOf(package, last.genesis, last.completed + 1, last)
  <2>1. /\ chain[p] # <<>> /\ Chain!ContinuedBy(last, package)
        /\ chain' = [chain EXCEPT ![p] = Append(chain[p], ref)]
    BY <1>2 DEF Advance, Extends
  <2>2. Len(chain[p]) \in DOMAIN chain[p] /\ last = chain[p][Len(chain[p])]
        /\ Len(chain[p]) \in Nat
    BY <1>0, <2>1 DEF Last
  <2>3. last.genesis = Genesis /\ last.completed = Len(chain[p])
    BY <2>2 DEF IInv, TypeOK
  <2>4. package.active = last.activation
    BY <2>1 DEF Chain!ContinuedBy
  <2>5. Chain!ValidRef(ref)
    BY <2>1 DEF Chain!ContinuedBy
  <2> HIDE DEF ref, last
  <2>6. /\ ref.genesis = Genesis /\ ref.completed = Len(chain[p]) + 1
        /\ ref.previous = last /\ ref.package = package
        /\ ref.policy = package.activation.policy
        /\ ref.activation = package.activation
        /\ ref.policy.epoch = Genesis.epoch + (Len(chain[p]) + 1)
    BY <2>3, <2>5, RefFields DEF ref
  <2>7. ref.policy.epoch = Genesis.epoch + Len(chain[p]) + 1
    BY <1>0, <2>2, <2>6
  <2> QED BY <2>1, <2>2, <2>4, <2>6, <2>7 DEF AddedRef
<1> QED BY <1>1, <1>2

(* Types are kept: what is signed only grows, and a reference that is added *)
(* follows the last one.                                                   *)
LEMMA TypeStep ==
  ASSUME IInv, [Next]_vars
  PROVE  TypeOK'
<1>1. ASSUME issued' = issued, observed \subseteq observed', handedOff \subseteq handedOff',
             chain' = chain,
             \A o \in observed' \cup handedOff' :
               \/ o \in observed \cup handedOff
               \/ o.witness \in Witnesses /\ o.prev \in Signable(o.witness)
      PROVE  TypeOK'
  <2>1. \A w : Signable(w) \subseteq Signable(w)'
    BY <1>1 DEF Signable, SignedBy, ObservedBy, HandedOffBy
  <2>2. \A o \in observed \cup handedOff : o.witness \in Witnesses /\ o.prev \in Signable(o.witness)
    BY DEF IInv, TypeOK
  <2>3. \A o \in observed' \cup handedOff' :
          o.witness \in Witnesses /\ o.prev \in Signable(o.witness)'
    BY <1>1, <2>1, <2>2
  <2> QED BY <1>1, <2>3 DEF IInv, TypeOK
<1>2. CASE WitnessStep
  <2>1. ASSUME NEW witness \in Witnesses, NEW prev \in Signable(witness), NEW o,
               o.witness = witness, o.prev = prev, Observe(o) \/ ObserveHandoff(o)
        PROVE  TypeOK'
    BY <1>1, <2>1 DEF Observe, ObserveHandoff
  <2>2. ASSUME NEW witness \in Witnesses, NEW prev \in Signable(witness),
               NEW policy, NEW statement, Activate(witness, prev, policy, statement)
        PROVE  TypeOK'
    BY <2>1, <2>2 DEF Activate, Observation
  <2>3. ASSUME NEW witness \in Witnesses, NEW prev \in Signable(witness),
               NEW h, HandOff(witness, prev, h)
        PROVE  TypeOK'
    BY <2>1, <2>3 DEF HandOff, HandoffObservation
  <2> QED BY <1>2, <2>2, <2>3
          DEF WitnessStep, ActivateHonestly, ActivateFreely, HandOffHonestly, HandOffFreely
<1>3. CASE PartyStep
  <2>1. /\ issued' = issued /\ observed' = observed /\ handedOff' = handedOff
        /\ \E p \in Parties : \E package :
             /\ Verified(package)
             /\ Seed(p, package) \/ Advance(p, package)
    BY <1>3, PartyFrame
  <2>a. PICK p \in Parties : \E package :
          Verified(package) /\ (Seed(p, package) \/ Advance(p, package))
    BY <2>1
  <2>2. PICK package, ref : Verified(package) /\ AddedRef(p, package, ref)
    BY <2>a, PartyAdds
  <2>3. /\ \A o \in observed' : o.witness \in Witnesses /\ o.prev \in Signable(o.witness)'
        /\ \A o \in handedOff' : o.witness \in Witnesses /\ o.prev \in Signable(o.witness)'
        /\ issued' = {Start}
    BY <2>1 DEF IInv, TypeOK, Signable, SignedBy, ObservedBy, HandedOffBy
  <2>4. chain' = [chain EXCEPT ![p] = Append(chain[p], ref)] /\ DOMAIN chain' = Parties
    BY <2>2 DEF AddedRef, IInv, TypeOK
  <2>5. ASSUME NEW q \in Parties, NEW i \in DOMAIN chain'[q]
        PROVE  LET r == chain'[q][i]
               IN  /\ r.genesis = Genesis
                   /\ r.completed = i
                   /\ r.previous = (IF i = 1 THEN ZERO ELSE chain'[q][i - 1])
                   /\ IF i = 1 THEN r.package.active.policy = Genesis
                      ELSE r.package.active = chain'[q][i - 1].activation
                   /\ r.package.observations \subseteq handedOff'
    <3>1. CASE q # p
      <4>1. chain'[q] = chain[q]
        BY <2>4, <3>1 DEF IInv, ChainsVerified
      <4> QED BY <2>1, <2>5, <4>1 DEF IInv, TypeOK
    <3>2. CASE q = p
      <4> DEFINE s == chain[p]
                 n == Len(s)
      <4>1. chain'[q] = Append(s, ref)
        BY <2>4, <3>2 DEF IInv, ChainsVerified
      <4>2. /\ n \in Nat /\ DOMAIN s = 1..n
            /\ DOMAIN Append(s, ref) = 1..n + 1
            /\ Append(s, ref)[n + 1] = ref
            /\ \A k \in DOMAIN s : Append(s, ref)[k] = s[k]
        BY ChainGrows DEF IInv, ChainsVerified
      <4>3. s = <<>> <=> n = 0
        BY DEF IInv, ChainsVerified
      <4>4. CASE i \in DOMAIN s
        <5>1. chain'[q][i] = s[i] /\ (i # 1 => chain'[q][i - 1] = s[i - 1])
          BY <4>1, <4>2, <4>4
        <5> QED BY <2>1, <4>4, <5>1 DEF IInv, TypeOK
      <4>5. CASE i = n + 1
        <5>1. chain'[q][i] = ref /\ (n # 0 => chain'[q][i - 1] = s[n])
          BY <4>1, <4>2, <4>5
        <5>2. (i = 1) <=> (s = <<>>)
          BY <4>2, <4>3, <4>5
        <5>3. ref.package.observations \subseteq handedOff'
          BY <2>1, <2>2 DEF Verified, AddedRef
        <5> QED BY <2>2, <4>2, <4>3, <4>5, <5>1, <5>2, <5>3 DEF AddedRef
      <4> QED BY <2>5, <4>1, <4>2, <4>4, <4>5
    <3> QED BY <3>1, <3>2
  <2> QED BY <2>3, <2>4, <2>5 DEF TypeOK
<1>4. CASE UNCHANGED vars
  BY <1>4 DEF vars, IInv, TypeOK, Signable, SignedBy, ObservedBy, HandedOffBy
<1> QED BY <1>2, <1>3, <1>4 DEF Next

(* Every reference that is added stands for a verified package. *)
LEMMA ChainsStep ==
  ASSUME IInv, [Next]_vars
  PROVE  ChainsVerified'
<1>1. ASSUME issued' = issued, handedOff \subseteq handedOff', NEW package, Verified(package)
      PROVE  Verified(package)'
  BY <1>1 DEF Verified, Handoffs
<1>2. CASE issued' = issued /\ handedOff \subseteq handedOff' /\ chain' = chain
  BY <1>1, <1>2 DEF IInv, ChainsVerified
<1>3. CASE PartyStep
  <2>1. /\ issued' = issued /\ observed' = observed /\ handedOff' = handedOff
        /\ \E p \in Parties : \E package :
             /\ Verified(package)
             /\ Seed(p, package) \/ Advance(p, package)
    BY <1>3, PartyFrame
  <2>a. PICK p \in Parties : \E package :
          Verified(package) /\ (Seed(p, package) \/ Advance(p, package))
    BY <2>1
  <2>2. PICK package, ref : Verified(package) /\ AddedRef(p, package, ref)
    BY <2>a, PartyAdds
  <2> DEFINE s == chain[p]
             n == Len(s)
  <2>3. /\ chain = [q \in Parties |-> chain[q]]
        /\ chain' = [chain EXCEPT ![p] = Append(s, ref)]
        /\ s \in Seq(Range(s))
    BY <2>2 DEF AddedRef, IInv, ChainsVerified
  <2>4. /\ Append(s, ref) \in Seq(Range(Append(s, ref)))
        /\ n \in Nat /\ DOMAIN s = 1..n
        /\ DOMAIN Append(s, ref) = 1..n + 1
        /\ Append(s, ref)[n + 1] = ref
        /\ \A k \in DOMAIN s : Append(s, ref)[k] = s[k]
    BY <2>3, ChainGrows
  <2>5. chain'[p] = Append(s, ref) /\ chain' = [q \in Parties |-> chain'[q]]
    BY <2>3
  <2>6. ASSUME NEW q \in Parties, q # p PROVE chain'[q] = chain[q]
    BY <2>3, <2>6
  <2>7. ASSUME NEW q \in Parties PROVE chain'[q] \in Seq(Range(chain'[q]))
    BY <2>4, <2>5, <2>6 DEF IInv, ChainsVerified
  <2>8. ASSUME NEW q \in Parties, NEW i \in DOMAIN chain'[q], NEW r, r = chain'[q][i]
        PROVE  /\ Verified(r.package)'
               /\ r.policy = r.package.activation.policy
               /\ r.activation = r.package.activation
               /\ r.policy.epoch = Genesis.epoch + i
    <3>1. ASSUME i \in DOMAIN chain[q], r = chain[q][i]
          PROVE  /\ Verified(r.package)'
                 /\ r.policy = r.package.activation.policy
                 /\ r.activation = r.package.activation
                 /\ r.policy.epoch = Genesis.epoch + i
      <4>1. /\ Verified(r.package)
            /\ r.policy = r.package.activation.policy
            /\ r.activation = r.package.activation
            /\ r.policy.epoch = Genesis.epoch + i
        BY <3>1 DEF IInv, ChainsVerified
      <4>2. issued' = issued /\ handedOff \subseteq handedOff'
        BY <2>1
      <4> QED BY <1>1, <4>1, <4>2
    <3>2. CASE q # p
      BY <2>6, <2>8, <3>1, <3>2
    <3>3. CASE q = p /\ i \in DOMAIN s
      BY <2>4, <2>5, <2>8, <3>1, <3>3
    <3>4. CASE q = p /\ i = n + 1
      <4>1. r = ref
        BY <2>4, <2>5, <2>8, <3>4
      <4>2. Verified(r.package)'
        BY <1>1, <2>1, <2>2, <4>1 DEF AddedRef
      <4>3. Genesis.epoch \in Nat
        BY RotationAssumption, PolicyAssumption DEF PolicyShape
      <4>4. r.policy.epoch = Genesis.epoch + i
        <5>1. r.policy.epoch = Genesis.epoch + n + 1
          BY <2>2, <4>1 DEF AddedRef
        <5>2. n \in Nat /\ i = n + 1
          BY <2>4, <3>4
        <5> HIDE DEF n
        <5> QED BY <4>3, <5>1, <5>2
      <4> QED BY <2>2, <4>1, <4>2, <4>4 DEF AddedRef
    <3> QED BY <2>4, <2>5, <2>8, <3>2, <3>3, <3>4
  <2> QED BY <2>5, <2>7, <2>8 DEF ChainsVerified
<1>4. CASE WitnessStep
  BY <1>2, <1>4, WitnessFrame
<1>5. CASE UNCHANGED vars
  BY <1>2, <1>5 DEF vars
<1> QED BY <1>3, <1>4, <1>5 DEF Next


(* Conflicting rotations conflict whichever is named first, and none        *)
(* conflicts with itself.                                                  *)
LEMMA ConflictingSymmetric ==
  ASSUME NEW g, NEW h
  PROVE  /\ Conflicting(g, h) => Conflicting(h, g)
         /\ ~Conflicting(g, g)
  BY DEF Conflicting, Meaning

(* The handoffs an honest witness signed stay compatible: the only step     *)
(* that concerns them is HandOffHonestly.                                  *)
LEMMA HonestStep ==
  ASSUME IInv, [Next]_vars
  PROVE  HonestHandsOnce'
<1>1. CASE handedOff' = handedOff
  BY <1>1 DEF IInv, HonestHandsOnce
<1>2. ASSUME NEW witness \in Honest, NEW prev, NEW h, HandOffHonestly(witness, prev, h)
      PROVE  HonestHandsOnce'
  <2> DEFINE o == HandoffObservation(witness, SequenceAfter(prev), prev, h)
  <2>1. o.witness = witness /\ o.handoff = h
    BY DEF HandoffObservation
  <2>2. handedOff' = handedOff \cup {o}
    BY <1>2 DEF HandOffHonestly, HandOff, ObserveHandoff
  <2>3. \A e \in handedOff : e.witness = witness /\ witness \in h.old.witnesses
          => ~Conflicting(e.handoff, h)
    BY <1>2 DEF HandOffHonestly, HandedOffBy
  <2> HIDE DEF o
  <2> SUFFICES ASSUME NEW e \in handedOff', NEW f \in handedOff',
                      e.witness = f.witness, e.witness \in Honest,
                      e.witness \in e.handoff.old.witnesses,
                      Conflicting(e.handoff, f.handoff)
               PROVE  FALSE
    BY DEF HonestHandsOnce
  <2>4. e.handoff.old = f.handoff.old /\ Conflicting(f.handoff, e.handoff)
    BY ConflictingSymmetric DEF Conflicting
  <2>5. CASE e \in handedOff /\ f \in handedOff
    BY <2>5 DEF IInv, HonestHandsOnce
  <2>6. CASE e = o /\ f = o
    BY <2>6, ConflictingSymmetric
  <2>7. CASE e \in handedOff /\ f = o
    BY <2>1, <2>3, <2>4, <2>7
  <2>8. CASE e = o /\ f \in handedOff
    BY <2>1, <2>3, <2>4, <2>8
  <2> QED BY <2>2, <2>5, <2>6, <2>7, <2>8
<1>3. ASSUME NEW witness \in FaultyWitnesses, NEW prev, NEW h, HandOff(witness, prev, h)
      PROVE  HonestHandsOnce'
  <2> DEFINE o == HandoffObservation(witness, SequenceAfter(prev), prev, h)
  <2>1. handedOff' = handedOff \cup {o} /\ o.witness \notin Honest
    BY <1>3 DEF HandOff, ObserveHandoff, HandoffObservation, Honest
  <2> HIDE DEF o
  <2> QED BY <2>1 DEF IInv, HonestHandsOnce
<1>4. CASE WitnessStep
  <2>1. ASSUME NEW witness, NEW prev, NEW policy, NEW statement,
               Activate(witness, prev, policy, statement)
        PROVE  HonestHandsOnce'
    BY <1>1, <2>1 DEF Activate, Observe
  <2> QED BY <1>2, <1>3, <1>4, <2>1
          DEF WitnessStep, ActivateHonestly, ActivateFreely, HandOffHonestly, HandOffFreely
<1>5. CASE PartyStep
  BY <1>1, <1>5, PartyFrame
<1>6. CASE UNCHANGED vars
  BY <1>1, <1>6 DEF vars
<1> QED BY <1>4, <1>5, <1>6 DEF Next

(***************************************************************************)
(* Chains of rotations are well formed, made of verified packages, and no  *)
(* honest witness ever hands its policy on in two ways.                    *)
(***************************************************************************)
THEOREM RotationInvariant == Spec => []IInv
<1>1. Init => IInv
  <2> SUFFICES ASSUME Init PROVE IInv
    OBVIOUS
  <2>1. \A o \in observed : o.witness \in Witnesses /\ o.prev \in Signable(o.witness)
    <3>1. Genesis.witnesses \subseteq Witnesses
      BY RotationAssumption, PolicyAssumption DEF PolicyShape
    <3> QED BY <3>1 DEF Init, Observation, Signable
  <2>2. TypeOK
    BY <2>1 DEF Init, TypeOK
  <2>3. \A p \in Parties : chain[p] = <<>> /\ chain[p] \in Seq(Range(chain[p]))
    BY DEF Init
  <2>4. ChainsVerified
    BY <2>3 DEF Init, ChainsVerified
  <2>5. HonestHandsOnce
    BY DEF Init, HonestHandsOnce
  <2> QED BY <2>2, <2>4, <2>5 DEF IInv
<1>2. IInv /\ [Next]_vars => IInv'
  BY TypeStep, ChainsStep, HonestStep DEF IInv
<1> QED BY <1>1, <1>2, PTL DEF Spec

(***************************************************************************)
(* References pin one another back to the genesis policy, and carry only   *)
(* signed observations.                                                    *)
(***************************************************************************)
THEOREM RotationTypes == Spec => []TypeOK
<1>1. IInv => TypeOK
  BY DEF IInv
<1> QED BY <1>1, RotationInvariant, PTL

-----------------------------------------------------------------------------
(* Rival rotations. *)

(* What the invariant says of an accepted package. *)
LEMMA AcceptedFacts ==
  ASSUME IInv, NEW a \in AcceptedRotations
  PROVE  Verified(a)
<1>1. PICK p \in Parties : \E ref \in Range(chain[p]) : a = ref.package
  BY DEF AcceptedRotations
<1>2. PICK i \in DOMAIN chain[p] : a = chain[p][i].package
  BY <1>1 DEF Range
<1> QED BY <1>2 DEF IInv, ChainsVerified

(* The policies and the statement of a verified package. *)
LEMMA VerifiedFacts ==
  ASSUME IInv, NEW a, Verified(a)
  PROVE  /\ a.handoff.old \in Policies /\ a.handoff.new \in Policies
         /\ a.handoff.statement = Start
         /\ a.active.policy = a.handoff.old
         /\ a.activation.policy = a.handoff.new
         /\ a.activation.statement = Start
         /\ ValidRole(a.oldQuorum, a.handoff.old, a)
         /\ \A o \in a.observations : o.handoff = a.handoff
<1>1. /\ a.handoff.old \in Policies /\ a.handoff.new \in Policies
      /\ a.handoff.statement \in issued
  BY DEF Verified, Handoffs, Handoff
<1>2. issued = {Start}
  BY DEF IInv, TypeOK
<1> QED BY <1>1, <1>2 DEF Verified, ValidHandoffPackage, ValidHandoff, ValidHandoffObservation

(* Two quorums selected under one old policy share its intersection. *)
LEMMA OldQuorumsIntersect ==
  ASSUME NEW a, NEW b, NEW policy \in Policies,
         ValidRole(a.oldQuorum, policy, a), ValidRole(b.oldQuorum, policy, b)
  PROVE  /\ OldQuorumOverlap(a, b) \subseteq policy.witnesses
         /\ IsFiniteSet(OldQuorumOverlap(a, b))
         /\ Cardinality(OldQuorumOverlap(a, b)) \in Nat
         /\ MinimumIntersection(policy) \in Int
         /\ Cardinality(OldQuorumOverlap(a, b)) >= MinimumIntersection(policy)
<1> DEFINE A == a.oldQuorum
           B == b.oldQuorum
           W == policy.witnesses
           t == policy.threshold
<1>1. A \subseteq W /\ B \subseteq W /\ Cardinality(A) >= t /\ Cardinality(B) >= t
  BY DEF ValidRole
<1>2. IsFiniteSet(W) /\ t \in Int /\ Cardinality(W) \in Nat
  BY PolicyAssumption, FS_CardinalityType DEF PolicyShape
<1>3. IsFiniteSet(A) /\ IsFiniteSet(B) /\ Cardinality(A) \in Nat /\ Cardinality(B) \in Nat
  BY <1>1, <1>2, FS_Subset, FS_CardinalityType
<1>4. Cardinality(A \cup B) = Cardinality(A) + Cardinality(B) - Cardinality(A \cap B)
  BY <1>3, FS_Union
<1>5. IsFiniteSet(A \cap B) /\ Cardinality(A \cap B) \in Nat
  BY <1>3, FS_Intersection, FS_CardinalityType
<1>6. Cardinality(A \cup B) <= Cardinality(W) /\ Cardinality(A \cup B) \in Nat
  BY <1>1, <1>2, FS_Subset, FS_CardinalityType
<1>7. MinimumIntersection(policy) \in Int
  BY <1>2 DEF MinimumIntersection
<1>8. Cardinality(A \cap B) >= MinimumIntersection(policy)
  BY <1>1, <1>2, <1>3, <1>4, <1>5, <1>6 DEF MinimumIntersection
<1> QED BY <1>1, <1>5, <1>7, <1>8 DEF OldQuorumOverlap

(* Whoever signed both of two conflicting rotations is faulty. *)
LEMMA ConflictImplicates ==
  ASSUME IInv, NEW a, NEW b, Verified(a), Verified(b), Conflicting(a.handoff, b.handoff)
  PROVE  OldQuorumOverlap(a, b) \subseteq FaultyWitnesses
<1> SUFFICES ASSUME NEW w \in OldQuorumOverlap(a, b), w \notin FaultyWitnesses
             PROVE  FALSE
  OBVIOUS
<1>1. /\ ValidRole(a.oldQuorum, a.handoff.old, a) /\ ValidRole(b.oldQuorum, b.handoff.old, b)
      /\ \A o \in a.observations : o.handoff = a.handoff
      /\ \A o \in b.observations : o.handoff = b.handoff
  BY VerifiedFacts
<1>2. w \in Signers(a) /\ w \in Signers(b) /\ w \in a.handoff.old.witnesses
  BY <1>1 DEF OldQuorumOverlap, ValidRole
<1>3. PICK g \in a.observations : g.witness = w
  BY <1>2 DEF Signers
<1>4. PICK h \in b.observations : h.witness = w
  BY <1>2 DEF Signers
<1>5. g \in handedOff /\ h \in handedOff
  BY DEF Verified
<1>6. w \in Honest
  BY <1>3, <1>5 DEF IInv, TypeOK, Honest
<1> QED BY <1>1, <1>2, <1>3, <1>4, <1>5, <1>6 DEF IInv, HonestHandsOnce

(***************************************************************************)
(* The detector answers for every pair of conflicting rotations: their     *)
(* quorums share the minimum intersection of the policy they leave.        *)
(***************************************************************************)
THEOREM RotationsAreComparable == Spec => []RotationsComparable
<1>1. IInv => RotationsComparable
  <2> SUFFICES ASSUME IInv, NEW a \in AcceptedRotations, NEW b \in AcceptedRotations,
                      Conflicting(a.handoff, b.handoff)
               PROVE  ~RotationComparisonRefused(a, b)
    BY DEF RotationsComparable
  <2>1. a.handoff.old = b.handoff.old /\ a.handoff.statement = b.handoff.statement
    BY DEF Conflicting
  <2>2. /\ a.handoff.old \in Policies
        /\ ValidRole(a.oldQuorum, a.handoff.old, a)
        /\ ValidRole(b.oldQuorum, a.handoff.old, b)
    BY <2>1, AcceptedFacts, VerifiedFacts
  <2>3. /\ Cardinality(OldQuorumOverlap(a, b)) \in Nat
        /\ MinimumIntersection(a.handoff.old) \in Int
        /\ Cardinality(OldQuorumOverlap(a, b)) >= MinimumIntersection(a.handoff.old)
    BY <2>2, OldQuorumsIntersect
  <2> QED BY <2>1, <2>3 DEF RotationComparisonRefused
<1> QED BY <1>1, RotationInvariant, PTL

(***************************************************************************)
(* No honest witness is ever named in double_signing_old_witness_ids, for  *)
(* any number of faulty witnesses and any choice of quorums.               *)
(***************************************************************************)
THEOREM HonestWitnessesHandOnSafely == Spec => []HonestHandoffNeverAccused
<1>1. IInv => HonestHandoffNeverAccused
  BY AcceptedFacts, ConflictImplicates
     DEF HonestHandoffNeverAccused, RotationEquivocationDetected
<1> QED BY <1>1, RotationInvariant, PTL


-----------------------------------------------------------------------------
(* Refinement: what chains of rotations promise is LineageView. *)

AllProtected == \A policy \in Policies : Protected(policy)

(* The policies a chain passed through. *)
PoliciesOf(s) == [i \in DOMAIN s |-> s[i].policy]

(* Any two chains name the same policies, as far as both go. *)
Agreement ==
  AllProtected => \A p, q \in Parties : \A i \in (DOMAIN chain[p]) \cap (DOMAIN chain[q]) :
                    chain[p][i].policy = chain[q][i].policy

(* A protected policy has one successor: an honest witness is in both       *)
(* quorums.                                                                *)
LEMMA OneSuccessor ==
  ASSUME IInv, AllProtected, NEW a, NEW b, Verified(a), Verified(b),
         a.active.policy = b.active.policy
  PROVE  a.activation.policy = b.activation.policy
<1> SUFFICES ASSUME a.activation.policy # b.activation.policy PROVE FALSE
  OBVIOUS
<1>1. /\ a.handoff.old = b.handoff.old /\ a.handoff.old \in Policies
      /\ a.handoff.statement = b.handoff.statement
      /\ a.handoff.new # b.handoff.new
      /\ ValidRole(a.oldQuorum, a.handoff.old, a)
      /\ ValidRole(b.oldQuorum, a.handoff.old, b)
  BY VerifiedFacts
<1>2. Conflicting(a.handoff, b.handoff)
  BY <1>1 DEF Conflicting, Meaning
<1>3. OldQuorumOverlap(a, b) \subseteq FaultyWitnesses
  BY <1>2, ConflictImplicates
<1> DEFINE policy == a.handoff.old
           F == policy.witnesses \cap FaultyWitnesses
<1>4. /\ OldQuorumOverlap(a, b) \subseteq policy.witnesses
      /\ Cardinality(OldQuorumOverlap(a, b)) \in Nat
      /\ MinimumIntersection(policy) \in Int
      /\ Cardinality(OldQuorumOverlap(a, b)) >= MinimumIntersection(policy)
  BY <1>1, OldQuorumsIntersect
<1>5. IsFiniteSet(F)
  BY <1>1, PolicyAssumption, FS_Intersection
<1>6. Cardinality(OldQuorumOverlap(a, b)) <= Cardinality(F) /\ Cardinality(F) \in Nat
  BY <1>3, <1>4, <1>5, FS_Subset, FS_CardinalityType
<1>7. Cardinality(F) < MinimumIntersection(policy)
  BY <1>1 DEF AllProtected, Protected
<1> QED BY <1>4, <1>6, <1>7

(* So chains agree, from the genesis policy on: at the first index where    *)
(* two of them differ, both leave one policy.                              *)
LEMMA AgreementHolds == IInv => Agreement
<1> SUFFICES ASSUME IInv, AllProtected, NEW p \in Parties, NEW q \in Parties
             PROVE  \A i \in (DOMAIN chain[p]) \cap (DOMAIN chain[q]) :
                      chain[p][i].policy = chain[q][i].policy
  BY DEF Agreement
<1> DEFINE D == (DOMAIN chain[p]) \cap (DOMAIN chain[q])
           T == {k \in D : chain[p][k].policy # chain[q][k].policy}
<1>1. /\ DOMAIN chain[p] = 1..Len(chain[p]) /\ Len(chain[p]) \in Nat
      /\ DOMAIN chain[q] = 1..Len(chain[q]) /\ Len(chain[q]) \in Nat
  BY DEF IInv, ChainsVerified
<1>2. SUFFICES ASSUME T # {} PROVE FALSE
  OBVIOUS
<1>3. T \subseteq Nat
  BY <1>1
<1>4. PICK k \in T : \A m \in T : k <= m
  <2> HIDE DEF T
  <2> QED BY <1>2, <1>3, LeastElement
<1>5. k \in DOMAIN chain[p] /\ k \in DOMAIN chain[q] /\ chain[p][k].policy # chain[q][k].policy
  OBVIOUS
<1>6. chain[p][k].package.active.policy = chain[q][k].package.active.policy
  <2>1. CASE k = 1
    BY <1>5, <2>1 DEF IInv, TypeOK
  <2>2. CASE k # 1
    <3>1. k - 1 \in D /\ k - 1 \notin T
      BY <1>1, <1>4, <1>5, <2>2
    <3>2. chain[p][k - 1].policy = chain[q][k - 1].policy
      BY <3>1
    <3>3. /\ chain[p][k - 1].policy = chain[p][k - 1].activation.policy
          /\ chain[q][k - 1].policy = chain[q][k - 1].activation.policy
      BY <3>1 DEF IInv, ChainsVerified
    <3>4. /\ chain[p][k].package.active = chain[p][k - 1].activation
          /\ chain[q][k].package.active = chain[q][k - 1].activation
      BY <1>5, <2>2 DEF IInv, TypeOK
    <3> QED BY <3>2, <3>3, <3>4
  <2> QED BY <2>1, <2>2
<1>7. chain[p][k].package.activation.policy = chain[q][k].package.activation.policy
  BY <1>5, <1>6, OneSuccessor DEF IInv, ChainsVerified
<1> QED BY <1>5, <1>7 DEF IInv, ChainsVerified

(* Epochs count the rotations, so no chain passes through more policies     *)
(* than there are epochs.                                                  *)
LEMMA ChainsAreHistories ==
  ASSUME IsFiniteSet(Policies), IInv, NEW p \in Parties, chain[p] # <<>>
  PROVE  /\ PoliciesOf(chain[p]) \in PolicyHistories
         /\ PoliciesOf(chain[p]) \in Seq(Policies)
<1> DEFINE h == PoliciesOf(chain[p])
           n == Len(chain[p])
           E == {policy.epoch : policy \in Policies}
           g == Genesis.epoch
<1>1. DOMAIN chain[p] = 1..n /\ n \in Nat /\ n # 0
  BY DEF IInv, ChainsVerified
<1>2. g \in Nat
  BY RotationAssumption, PolicyAssumption DEF PolicyShape
<1>3. ASSUME NEW i \in 1..n
      PROVE  chain[p][i].policy \in Policies /\ chain[p][i].policy.epoch = g + i
  <2>1. Verified(chain[p][i].package)
    BY <1>1 DEF IInv, ChainsVerified
  <2>2. chain[p][i].package.activation.policy \in Policies
    BY <2>1, VerifiedFacts
  <2> QED BY <1>1, <2>2 DEF IInv, ChainsVerified
<1>4. h \in [1..n -> Policies] /\ \A i \in 1..n : h[i].epoch = g + i
  BY <1>1, <1>3 DEF PoliciesOf
<1>5. IsFiniteSet(E)
  <2> DEFINE f == [policy \in Policies |-> policy.epoch]
  <2>1. f \in Surjection(Policies, E)
    BY DEF Surjection
  <2> HIDE DEF f, E
  <2> QED BY <2>1, FS_Surjection
<1>6. n <= Cardinality(E) /\ Cardinality(E) \in Nat
  <2>1. (g + 1)..(g + n) \subseteq E
    <3> SUFFICES ASSUME NEW e \in (g + 1)..(g + n) PROVE e \in E
      OBVIOUS
    <3>1. e - g \in 1..n /\ e = g + (e - g)
      BY <1>1, <1>2
    <3> QED BY <1>3, <3>1
  <2>2. Cardinality((g + 1)..(g + n)) = n
    BY <1>1, <1>2, FS_Interval
  <2> HIDE DEF E
  <2> QED BY <1>5, <2>1, <2>2, FS_Subset, FS_CardinalityType
<1>7. h \in SeqOf(Policies, Cardinality(E))
  <2> HIDE DEF h, E
  <2> QED BY <1>1, <1>4, <1>6 DEF SeqOf
<1>8. h # <<>> /\ DOMAIN h = 1..n
  BY <1>1, <1>4
<1>9. h \in Seq(Policies)
  <2> HIDE DEF h
  <2> QED BY <1>1, <1>4
<1> QED BY <1>4, <1>7, <1>8, <1>9 DEF PolicyHistories

(* Sequences of policies that agree index by index are linear. *)
LEMMA AgreeingIsLinear ==
  ASSUME NEW S, NEW s \in Seq(S), NEW t \in Seq(S),
         \A i \in (DOMAIN s) \cap (DOMAIN t) : s[i] = t[i]
  PROVE  PolicyHistory!Linear(s, t)
<1>1. /\ Len(s) \in Nat /\ DOMAIN s = 1..Len(s)
      /\ Len(t) \in Nat /\ DOMAIN t = 1..Len(t)
  OBVIOUS
<1>2. CASE Len(s) <= Len(t)
  <2>1. IsPrefix(s, t)
    BY <1>1, <1>2, PrefixPointwise
  <2> QED BY <2>1 DEF IsPrefix, PolicyHistory!Linear, PolicyHistory!IsPrefix
<1>3. CASE Len(t) <= Len(s)
  <2>1. IsPrefix(t, s)
    BY <1>1, <1>3, PrefixPointwise
  <2> QED BY <2>1 DEF IsPrefix, PolicyHistory!Linear, PolicyHistory!IsPrefix
<1> QED BY <1>1, <1>2, <1>3

(* The view of a party is that of its chain.                               *)
ViewsFollow ==
  \A p \in Parties :
    /\ chain[p] # <<>> /\ AllProtected
         => /\ View[p] = [lane |-> Start, history |-> PoliciesOf(chain[p])]
            /\ PoliciesOf(chain[p]) \in PolicyHistories
            /\ PoliciesOf(chain[p]) \in Seq(Policies)
    /\ chain[p] = <<>> \/ ~AllProtected => View[p] = NoView

(* Each party's view is that of its chain, given the invariant and finitely
   many policies. *)
LEMMA ViewsFollowHolds == IsFiniteSet(Policies) /\ IInv => ViewsFollow
<1> SUFFICES ASSUME IsFiniteSet(Policies), IInv, NEW p \in Parties
             PROVE  /\ chain[p] # <<>> /\ AllProtected
                         => /\ View[p] = [lane |-> Start, history |-> PoliciesOf(chain[p])]
                            /\ PoliciesOf(chain[p]) \in PolicyHistories
                            /\ PoliciesOf(chain[p]) \in Seq(Policies)
                    /\ chain[p] = <<>> \/ ~AllProtected => View[p] = NoView
  BY DEF ViewsFollow
<1>1. ASSUME chain[p] # <<>>
      PROVE  PoliciesOf(chain[p]) \in PolicyHistories /\ PoliciesOf(chain[p]) \in Seq(Policies)
  BY <1>1, ChainsAreHistories
<1>2. ASSUME chain[p] # <<>> PROVE Last(chain[p]).activation.statement = Start
  <2>1. Len(chain[p]) \in DOMAIN chain[p]
    BY <1>2 DEF IInv, ChainsVerified
  <2>2. /\ Verified(chain[p][Len(chain[p])].package)
        /\ chain[p][Len(chain[p])].activation = chain[p][Len(chain[p])].package.activation
    BY <2>1 DEF IInv, ChainsVerified
  <2>3. chain[p][Len(chain[p])].package.activation.statement = Start
    BY <2>2, VerifiedFacts
  <2> QED BY <2>2, <2>3 DEF Last
<1> QED BY <1>1, <1>2 DEF View, PoliciesOf, AllProtected

(* A party that adds a rotation takes a step of the abstract view, or       *)
(* changes no view.                                                        *)
LEMMA ChainMoves ==
  ASSUME IsFiniteSet(Policies), IInv, IInv', NEW p \in Parties, NEW package, NEW ref,
         AddedRef(p, package, ref)
  PROVE  [PolicyHistory!Next]_View
<1>1. /\ chain = [q \in Parties |-> chain[q]]
      /\ chain' = [chain EXCEPT ![p] = Append(chain[p], ref)]
      /\ chain[p] \in Seq(Range(chain[p]))
  BY DEF AddedRef, IInv, ChainsVerified
<1>2. /\ chain'[p] = Append(chain[p], ref)
      /\ \A q \in Parties : q # p => chain'[q] = chain[q]
  BY <1>1
<1>3. /\ Len(chain[p]) \in Nat /\ DOMAIN chain[p] = 1..Len(chain[p])
      /\ DOMAIN chain'[p] = 1..Len(chain[p]) + 1
      /\ Len(chain'[p]) = Len(chain[p]) + 1
      /\ \A i \in DOMAIN chain[p] : chain'[p][i] = chain[p][i]
  BY <1>1, <1>2, ChainGrows
<1>4. Agreement'
  BY AgreementHolds, PTL
<1>5. ASSUME NEW q \in Parties, q # p PROVE View'[q] = View[q]
  BY <1>2, <1>5 DEF View, Protected, MinimumIntersection
<1>6. View' = [View EXCEPT ![p] = View'[p]]
  <2>1. /\ View = [q \in Parties |-> View[q]]
        /\ View' = [q \in Parties |-> View'[q]]
    BY DEF View
  <2> QED BY <1>5, <2>1
<1>7. ViewsFollow /\ ViewsFollow'
  BY ViewsFollowHolds, PTL
<1>8. chain'[p] # <<>>
  BY <1>3
<1>9. CASE ~AllProtected
  <2>1. View'[p] = NoView /\ View[p] = NoView
    BY <1>7, <1>9 DEF ViewsFollow, AllProtected, Protected, MinimumIntersection
  <2>2. View' = View
    BY <1>6, <2>1 DEF View
  <2> QED BY <2>2
<1>10. CASE AllProtected
  <2> DEFINE history == PoliciesOf(chain'[p])
  <2>1. ASSUME NEW q \in Parties, chain'[q] # <<>>
        PROVE  /\ View'[q] = [lane |-> Start, history |-> PoliciesOf(chain'[q])]
               /\ PoliciesOf(chain'[q]) \in PolicyHistories
               /\ PoliciesOf(chain'[q]) \in Seq(Policies)
    BY <1>7, <1>10, <2>1 DEF ViewsFollow, AllProtected, Protected, MinimumIntersection, PoliciesOf
  <2>2. View' = [View EXCEPT ![p] = [lane |-> Start, history |-> history]]
    BY <1>6, <1>8, <2>1
  <2>3. Start \in {Start} /\ history \in PolicyHistories
    BY <1>8, <2>1
  <2>4. ASSUME View[p] # NoView
        PROVE  View[p].lane = Start /\ PolicyHistory!IsStrictPrefix(View[p].history, history)
    <3> DEFINE old == PoliciesOf(chain[p])
    <3>1. /\ chain[p] # <<>>
          /\ View[p] = [lane |-> Start, history |-> old]
          /\ old \in Seq(Policies)
      BY <1>7, <1>10, <2>4 DEF ViewsFollow
    <3>2. history \in Seq(Policies)
      BY <1>8, <2>1
    <3>3. /\ DOMAIN old = 1..Len(chain[p])
          /\ DOMAIN history = 1..Len(chain[p]) + 1
          /\ \A i \in DOMAIN old : history[i] = old[i]
      BY <1>3 DEF PoliciesOf
    <3> HIDE DEF old, history
    <3>4. Len(old) = Len(chain[p]) /\ Len(history) = Len(chain[p]) + 1
      BY <1>3, <3>1, <3>2, <3>3
    <3>5. IsPrefix(old, history)
      <4>1. Len(old) <= Len(history) /\ \A i \in 1..Len(old) : old[i] = history[i]
        BY <1>3, <3>3, <3>4
      <4> QED BY <3>1, <3>2, <4>1, PrefixPointwise
    <3>6. old # history
      BY <1>3, <3>4
    <3> QED BY <3>1, <3>5, <3>6
            DEF IsPrefix, PolicyHistory!IsStrictPrefix, PolicyHistory!IsPrefix
  <2>5. ASSUME NEW q \in Parties, View[q] # NoView, View[q].lane = Start
        PROVE  PolicyHistory!Linear(View[q].history, history)
    <3>1. CASE q = p
      BY <2>4, <2>5, <3>1 DEF PolicyHistory!IsStrictPrefix, PolicyHistory!Linear
    <3>2. CASE q # p
      <4>1. chain'[q] = chain[q] /\ chain[q] # <<>>
            /\ View[q] = [lane |-> Start, history |-> PoliciesOf(chain[q])]
        BY <1>2, <1>7, <1>10, <2>5, <3>2 DEF ViewsFollow
      <4>2. AllProtected'
        BY <1>10 DEF AllProtected, Protected, MinimumIntersection
      <4>3. \A i \in (DOMAIN chain'[q]) \cap (DOMAIN chain'[p]) :
              chain'[q][i].policy = chain'[p][i].policy
        BY <1>4, <4>2 DEF Agreement
      <4>4. /\ DOMAIN PoliciesOf(chain'[q]) = DOMAIN chain'[q]
            /\ DOMAIN history = DOMAIN chain'[p]
            /\ \A i \in (DOMAIN chain'[q]) \cap (DOMAIN chain'[p]) :
                 PoliciesOf(chain'[q])[i] = history[i]
        BY <4>3 DEF PoliciesOf
      <4>5. PoliciesOf(chain'[q]) \in Seq(Policies) /\ history \in Seq(Policies)
        BY <1>8, <2>1, <4>1
      <4> HIDE DEF history
      <4>6. PolicyHistory!Linear(PoliciesOf(chain'[q]), history)
        BY <4>4, <4>5, AgreeingIsLinear
      <4> QED BY <4>1, <4>6
    <3> QED BY <3>1, <3>2
  <2>6. PolicyHistory!Adopt(p, Start, history)
    BY <2>2, <2>4, <2>5 DEF PolicyHistory!Adopt
  <2> QED BY <2>3, <2>6 DEF PolicyHistory!Next
<1> QED BY <1>9, <1>10

(***************************************************************************)
(* As long as every policy has fewer faulty witnesses than its quorum      *)
(* intersections, all parties that pin the genesis policy read one history *)
(* of policies, for any number of them, of policies and of rotations.      *)
(***************************************************************************)
THEOREM ReadsOnePolicyHistory ==
  ASSUME IsFiniteSet(Policies)
  PROVE  Spec => OnePolicyHistory
<1>1. Init => PolicyHistory!Init
  BY DEF Init, PolicyHistory!Init, View
<1>2. IInv /\ IInv' /\ [Next]_vars => [PolicyHistory!Next]_View
  <2> SUFFICES ASSUME IInv, IInv', [Next]_vars PROVE [PolicyHistory!Next]_View
    OBVIOUS
  <2>1. CASE chain' = chain
    BY <2>1 DEF View, Protected, MinimumIntersection
  <2>2. CASE PartyStep
    <3>a. PICK p \in Parties : \E package : Seed(p, package) \/ Advance(p, package)
      BY <2>2, PartyFrame
    <3>1. PICK package : Seed(p, package) \/ Advance(p, package)
      BY <3>a
    <3>2. PICK ref : AddedRef(p, package, ref)
      BY <3>1, PartyAdds
    <3> QED BY <3>2, ChainMoves
  <2>3. CASE WitnessStep
    BY <2>1, <2>3, WitnessFrame
  <2>4. CASE UNCHANGED vars
    BY <2>1, <2>4 DEF vars
  <2> QED BY <2>2, <2>3, <2>4 DEF Next
<1> QED BY <1>1, <1>2, RotationInvariant, PTL DEF Spec, OnePolicyHistory, PolicyHistory!Spec
-----------------------------------------------------------------------------
(* Rotation is possible. *)

(* Everything signed is well formed, and an honest witness signs a statement *)
(* once under a policy and a handoff once.                                  *)
SignedOnce ==
  /\ \A o \in observed : ValidObservation(o, o.statement, o.policy) /\ o.sequence \in Nat
  /\ \A o \in handedOff : ValidHandoffObservation(o, o.handoff) /\ o.sequence \in Nat
  /\ \A o, e \in observed :
       /\ o.witness = e.witness /\ o.witness \in Honest
       /\ o.statement = e.statement /\ o.policy = e.policy
       => o = e
  /\ \A o, e \in handedOff :
       o.witness = e.witness /\ o.witness \in Honest /\ o.handoff = e.handoff => o = e

(* What a party may start the next rotation from was signed by witnesses.   *)
ChainsObserved ==
  \A p \in Parties : \A i \in DOMAIN chain[p] :
    chain[p][i] # ZERO /\ chain[p][i].activation.observations \subseteq observed

(* Every step keeps that an honest witness signs a statement or a handoff only
   once. *)
LEMMA SignedOnceStep ==
  ASSUME IInv, SignedOnce, [Next]_vars
  PROVE  SignedOnce'
<1>1. CASE observed' = observed /\ handedOff' = handedOff
  BY <1>1 DEF SignedOnce
<1>2. ASSUME NEW witness \in Witnesses, NEW prev \in Signable(witness)
      PROVE  SequenceAfter(prev) \in Nat
  <2>1. CASE prev = ZERO
    BY <2>1 DEF SequenceAfter
  <2>2. CASE prev # ZERO
    <3>1. prev \in observed \cup handedOff
      BY <2>2 DEF Signable, SignedBy, ObservedBy, HandedOffBy
    <3>2. prev.sequence \in Nat
      BY <3>1 DEF SignedOnce
    <3> QED BY <2>2, <3>2 DEF SequenceAfter
  <2> QED BY <2>1, <2>2
<1>3. ASSUME NEW witness \in Witnesses, NEW prev \in Signable(witness), NEW policy,
             NEW statement, Activate(witness, prev, policy, statement),
             witness \in Honest => \A o \in ObservedBy(witness) :
                                     o.statement # statement \/ o.policy # policy
      PROVE  SignedOnce'
  <2>1. PICK o : o = Observation(witness, SequenceAfter(prev), prev, policy, statement)
    OBVIOUS
  <2>2. /\ o.witness = witness /\ o.sequence \in Nat
        /\ o.policy = policy /\ o.statement = statement
    BY <1>2, <2>1 DEF Observation
  <2>3. /\ observed' = observed \cup {o} /\ handedOff' = handedOff
        /\ ValidObservation(o, o.statement, o.policy)
    BY <1>3, <2>1 DEF Activate, Observe
  <2>4. \A e \in observed : o.witness = e.witness /\ o.witness \in Honest
          => ~(o.statement = e.statement /\ o.policy = e.policy)
    BY <1>3, <2>2 DEF ObservedBy
  <2> QED BY <2>2, <2>3, <2>4 DEF SignedOnce
<1>4. ASSUME NEW witness \in Witnesses, NEW prev \in Signable(witness), NEW h,
             HandOff(witness, prev, h),
             witness \in Honest => \A o \in HandedOffBy(witness) : o.handoff # h
      PROVE  SignedOnce'
  <2>1. PICK o : o = HandoffObservation(witness, SequenceAfter(prev), prev, h)
    OBVIOUS
  <2>2. o.witness = witness /\ o.sequence \in Nat /\ o.handoff = h
    BY <1>2, <2>1 DEF HandoffObservation
  <2>3. /\ observed' = observed /\ handedOff' = handedOff \cup {o}
        /\ ValidHandoffObservation(o, o.handoff)
    BY <1>4, <2>1 DEF HandOff, ObserveHandoff
  <2>4. \A e \in handedOff : o.witness = e.witness /\ o.witness \in Honest
          => o.handoff # e.handoff
    BY <1>4, <2>2 DEF HandedOffBy
  <2> QED BY <2>2, <2>3, <2>4 DEF SignedOnce
<1>5. CASE WitnessStep
  <2>1. PICK witness \in Witnesses : \E prev \in Signable(witness) :
          \/ \E policy \in Policies, statement \in issued :
               \/ ActivateHonestly(witness, prev, policy, statement)
               \/ ActivateFreely(witness, prev, policy, statement)
          \/ \E h \in Handoffs :
               \/ HandOffHonestly(witness, prev, h)
               \/ HandOffFreely(witness, prev, h)
    BY <1>5 DEF WitnessStep
  <2>2. PICK prev \in Signable(witness) :
          \/ \E policy \in Policies, statement \in issued :
               \/ ActivateHonestly(witness, prev, policy, statement)
               \/ ActivateFreely(witness, prev, policy, statement)
          \/ \E h \in Handoffs :
               \/ HandOffHonestly(witness, prev, h)
               \/ HandOffFreely(witness, prev, h)
    BY <2>1
  <2>3. CASE \E policy \in Policies, statement \in issued :
               \/ ActivateHonestly(witness, prev, policy, statement)
               \/ ActivateFreely(witness, prev, policy, statement)
    BY <1>3, <2>3 DEF ActivateHonestly, ActivateFreely, Honest
  <2>4. CASE \E h \in Handoffs :
               \/ HandOffHonestly(witness, prev, h)
               \/ HandOffFreely(witness, prev, h)
    BY <1>4, <2>4 DEF HandOffHonestly, HandOffFreely, Honest
  <2> QED BY <2>2, <2>3, <2>4
<1>6. CASE PartyStep
  BY <1>1, <1>6, PartyFrame
<1>7. CASE UNCHANGED vars
  BY <1>1, <1>7 DEF vars
<1> QED BY <1>5, <1>6, <1>7 DEF Next

(* No witness has signed anything at first. *)
LEMMA SignedOnceInit == Init => SignedOnce
<1> SUFFICES ASSUME Init PROVE SignedOnce
  OBVIOUS
<1>1. handedOff = {}
  BY DEF Init
<1>2. \A o \in observed : \E w \in Genesis.witnesses : o = Observation(w, 1, ZERO, Genesis, Start)
  BY DEF Init
<1>3. \A w \in Genesis.witnesses :
        LET o == Observation(w, 1, ZERO, Genesis, Start)
        IN  /\ o.witness = w /\ o.sequence \in Nat
            /\ ValidObservation(o, o.statement, o.policy)
  BY DEF Observation, ValidObservation
<1>4. \A o \in observed : o = Observation(o.witness, 1, ZERO, Genesis, Start)
  BY <1>2, <1>3
<1>5. \A o \in observed : o.sequence \in Nat /\ ValidObservation(o, o.statement, o.policy)
  BY <1>2, <1>3
<1> QED BY <1>1, <1>4, <1>5 DEF SignedOnce

(* ZERO_SHA256 is the digest of no chain reference. *)
ZeroIsNoReference ==
  \A package, genesis, completed, previous :
    Chain!RefOf(package, genesis, completed, previous) # ZERO

(* Every step keeps that what a party may rotate from next was signed by
   witnesses. *)
LEMMA ChainsObservedStep ==
  ASSUME ZeroIsNoReference, IInv, ChainsObserved, [Next]_vars
  PROVE  ChainsObserved'
<1>1. CASE chain' = chain /\ observed \subseteq observed'
  BY <1>1 DEF ChainsObserved
<1>2. CASE PartyStep
  <2>1. PICK h \in Handoffs : \E selection \in Selections(h) :
          \E active \in QuorumPackages(h.old, h.statement),
             activation \in QuorumPackages(h.new, h.statement), p \in Parties :
            \/ Seed(p, HandoffPackage(active, activation, h, selection))
            \/ Advance(p, HandoffPackage(active, activation, h, selection))
    BY <1>2 DEF PartyStep
  <2>2. PICK selection \in Selections(h) :
          \E active \in QuorumPackages(h.old, h.statement),
             activation \in QuorumPackages(h.new, h.statement), p \in Parties :
            \/ Seed(p, HandoffPackage(active, activation, h, selection))
            \/ Advance(p, HandoffPackage(active, activation, h, selection))
    BY <2>1
  <2>3. PICK active \in QuorumPackages(h.old, h.statement),
             activation \in QuorumPackages(h.new, h.statement), p \in Parties :
          \/ Seed(p, HandoffPackage(active, activation, h, selection))
          \/ Advance(p, HandoffPackage(active, activation, h, selection))
    BY <2>2
  <2>4. PICK package : package = HandoffPackage(active, activation, h, selection)
    OBVIOUS
  <2>5. package.activation = activation /\ activation.observations \subseteq observed
    BY <2>4 DEF HandoffPackage, QuorumPackages
  <2>6. Seed(p, package) \/ Advance(p, package)
    BY <2>3, <2>4
  <2>7. observed' = observed
    BY <2>6 DEF Seed, Advance
  <2>8. /\ chain = [q \in Parties |-> chain[q]]
        /\ chain[p] \in Seq(Range(chain[p]))
    BY DEF IInv, ChainsVerified
  <2>9. \E ref : /\ chain' = [chain EXCEPT ![p] = Append(chain[p], ref)]
                 /\ ref # ZERO /\ ref.activation = activation
    <3>1. CASE Seed(p, package)
      <4>1. PICK ref : ref = Chain!RefOf(package, Genesis, 1, ZERO)
        OBVIOUS
      <4>2. chain[p] = << >> /\ chain' = [chain EXCEPT ![p] = <<ref>>]
        BY <3>1, <4>1 DEF Seed
      <4>3. Append(chain[p], ref) = <<ref>>
        BY <4>2
      <4>4. ref # ZERO /\ ref.activation = activation
        BY <2>5, <4>1, RefFields DEF ZeroIsNoReference
      <4> QED BY <4>2, <4>3, <4>4
    <3>2. CASE Advance(p, package)
      <4>1. PICK ref : ref = Chain!RefOf(package, Last(chain[p]).genesis,
                                         Last(chain[p]).completed + 1, Last(chain[p]))
        OBVIOUS
      <4>2. chain' = [chain EXCEPT ![p] = Append(chain[p], ref)]
        BY <3>2, <4>1 DEF Advance
      <4>3. ref # ZERO /\ ref.activation = activation
        BY <2>5, <4>1, RefFields DEF ZeroIsNoReference
      <4> QED BY <4>2, <4>3
    <3> QED BY <2>6, <3>1, <3>2
  <2>10. PICK ref : /\ chain' = [chain EXCEPT ![p] = Append(chain[p], ref)]
                    /\ ref # ZERO /\ ref.activation = activation
    BY <2>9
  <2> SUFFICES ASSUME NEW q \in Parties, NEW i \in DOMAIN chain'[q]
               PROVE  /\ chain'[q][i] # ZERO
                      /\ chain'[q][i].activation.observations \subseteq observed
    BY <2>7 DEF ChainsObserved
  <2>11. CASE q # p
    <3>1. chain'[q] = chain[q]
      BY <2>8, <2>10, <2>11
    <3> QED BY <3>1 DEF ChainsObserved
  <2>12. CASE q = p
    <3>1. chain'[q] = Append(chain[p], ref)
      BY <2>8, <2>10, <2>12
    <3>2. /\ Len(chain[p]) \in Nat /\ DOMAIN chain[p] = 1..Len(chain[p])
          /\ DOMAIN Append(chain[p], ref) = 1..Len(chain[p]) + 1
          /\ Append(chain[p], ref)[Len(chain[p]) + 1] = ref
          /\ \A j \in DOMAIN chain[p] : Append(chain[p], ref)[j] = chain[p][j]
      BY <2>8, ChainGrows
    <3>3. CASE i \in DOMAIN chain[p]
      BY <3>1, <3>2, <3>3 DEF ChainsObserved
    <3>4. CASE i \notin DOMAIN chain[p]
      <4>1. i = Len(chain[p]) + 1
        BY <3>1, <3>2, <3>4
      <4> QED BY <2>5, <2>10, <3>1, <3>2, <4>1
    <3> QED BY <3>3, <3>4
  <2> QED BY <2>11, <2>12
<1>3. CASE WitnessStep
  BY <1>1, <1>3, WitnessFrame
<1>4. CASE UNCHANGED vars
  BY <1>1, <1>4 DEF vars
<1> QED BY <1>2, <1>3, <1>4 DEF Next

(* As many observations as witnesses, if each has made one of them. *)
LEMMA OneEach ==
  ASSUME NEW W, IsFiniteSet(W), NEW O, W = {o.witness : o \in O},
         \A o, e \in O : o.witness = e.witness => o = e
  PROVE  Cardinality(O) = Cardinality(W)
<1> DEFINE f == [w \in W |-> CHOOSE o \in O : o.witness = w]
<1>1. \A w \in W : f[w] \in O /\ f[w].witness = w
  OBVIOUS
<1>2. f \in [W -> O]
  BY <1>1
<1> HIDE DEF f
<1>3. \A v, w \in W : f[v] = f[w] => v = w
  BY <1>1
<1>4. \A o \in O : \E w \in W : f[w] = o
  BY <1>1
<1>5. f \in Bijection(W, O)
  BY <1>2, <1>3, <1>4 DEF Bijection, Injection, Surjection, IsInjective
<1> QED BY <1>5, FS_Bijection DEF ExistsBijection

(* The observation of one kind an honest witness made straight after one of *)
(* another kind is straight after the one it made of that kind.             *)
LEMMA SignedStraightAfter ==
  ASSUME IInv, SignedOnce, NEW o \in observed \cup handedOff,
         NEW earlier, earlier \subseteq observed \/ earlier \subseteq handedOff,
         StraightAfter(o, earlier)
  PROVE  \E e \in earlier : /\ e.witness = o.witness
                            /\ o.prev = e /\ o.sequence = e.sequence + 1
<1>1. PICK e \in earlier : o.prev = e /\ o.sequence = e.sequence + 1
  BY DEF StraightAfter
<1>2. e.sequence \in Nat /\ e.sequence >= 1
  BY <1>1 DEF SignedOnce, ValidObservation, ValidHandoffObservation
<1>3. o.prev # ZERO
  <2>1. o.sequence # 1
    BY <1>1, <1>2
  <2> QED BY <2>1 DEF SignedOnce, ValidObservation, ValidHandoffObservation
<1>4. o.prev \in Signable(o.witness)
  BY DEF IInv, TypeOK
<1>5. e \in SignedBy(o.witness)
  BY <1>1, <1>3, <1>4 DEF Signable
<1>6. e.witness = o.witness
  BY <1>5 DEF SignedBy, ObservedBy, HandedOffBy
<1> QED BY <1>1, <1>6

(* The quorums of a rotation that honest witnesses carried out.             *)
SignedHandoff(h) == {o \in handedOff : o.handoff = h}
SignedUnder(policy, statement) ==
  {o \in observed : o.policy = policy /\ o.statement = statement}

OldHonest(h) ==
  {o.witness : o \in {s \in SignedHandoff(h) :
                        StraightAfter(s, SignedUnder(h.old, h.statement))}}
    \cap h.old.witnesses \cap Honest

NewHonest(h) ==
  {o.witness : o \in {a \in SignedUnder(h.new, h.statement) :
                        StraightAfter(a, SignedHandoff(h))}}
    \cap Honest

(* The honest old signers of a handoff signed it straight after the old
   policy's statement, the honest new ones the new policy's straight after it. *)
LEMMA HonestQuorums ==
  ASSUME IInv, SignedOnce, NEW h
  PROVE  /\ OldHonest(h) \subseteq h.old.witnesses \cap Honest
         /\ NewHonest(h) \subseteq h.new.witnesses \cap Honest
         /\ \A w \in OldHonest(h) : \E s \in SignedHandoff(h),
                                       e \in SignedUnder(h.old, h.statement) :
              s.witness = w /\ e.witness = w /\ s.prev = e /\ s.sequence = e.sequence + 1
         /\ \A w \in NewHonest(h) : \E a \in SignedUnder(h.new, h.statement),
                                       s \in SignedHandoff(h) :
              a.witness = w /\ s.witness = w /\ a.prev = s /\ a.sequence = s.sequence + 1
<1>1. ASSUME NEW w \in OldHonest(h)
      PROVE  /\ w \in h.old.witnesses /\ w \in Honest
             /\ \E s \in SignedHandoff(h), e \in SignedUnder(h.old, h.statement) :
                  s.witness = w /\ e.witness = w /\ s.prev = e /\ s.sequence = e.sequence + 1
  <2>1. PICK s \in SignedHandoff(h) :
          s.witness = w /\ StraightAfter(s, SignedUnder(h.old, h.statement))
    BY <1>1 DEF OldHonest
  <2>2. s \in handedOff /\ SignedUnder(h.old, h.statement) \subseteq observed
    BY DEF SignedHandoff, SignedUnder
  <2>3. \E e \in SignedUnder(h.old, h.statement) :
          e.witness = s.witness /\ s.prev = e /\ s.sequence = e.sequence + 1
    BY <2>1, <2>2, SignedStraightAfter
  <2> QED BY <1>1, <2>1, <2>3 DEF OldHonest
<1>2. ASSUME NEW w \in NewHonest(h)
      PROVE  /\ w \in h.new.witnesses /\ w \in Honest
             /\ \E a \in SignedUnder(h.new, h.statement), s \in SignedHandoff(h) :
                  a.witness = w /\ s.witness = w /\ a.prev = s /\ a.sequence = s.sequence + 1
  <2>1. PICK a \in SignedUnder(h.new, h.statement) :
          a.witness = w /\ StraightAfter(a, SignedHandoff(h))
    BY <1>2 DEF NewHonest
  <2>2. a \in observed /\ SignedHandoff(h) \subseteq handedOff /\ a.policy = h.new
    BY DEF SignedHandoff, SignedUnder
  <2>3. \E s \in SignedHandoff(h) :
          s.witness = a.witness /\ a.prev = s /\ a.sequence = s.sequence + 1
    BY <2>1, <2>2, SignedStraightAfter
  <2>4. w \in h.new.witnesses
    BY <2>1, <2>2 DEF SignedOnce, ValidObservation
  <2> QED BY <1>2, <2>1, <2>3, <2>4 DEF NewHonest
<1> QED BY <1>1, <1>2

(***************************************************************************)
(* What the honest witnesses of two policies signed makes a package with   *)
(* every active package of the old policy.                                 *)
(***************************************************************************)
LEMMA PackageExists ==
  ASSUME IInv, SignedOnce, NEW h \in Handoffs, HonestlyRotated(h),
         NEW active, ValidPackage(active), active.policy = h.old,
         active.statement = h.statement, active.observations \subseteq observed
  PROVE  \E selection \in Selections(h), activation \in QuorumPackages(h.new, h.statement) :
           ValidHandoffPackage(HandoffPackage(active, activation, h, selection))
<1> DEFINE Q == OldHonest(h)
           R == NewHonest(h)
           S == {s \in SignedHandoff(h) : s.witness \in Q \cup R}
           A == {a \in SignedUnder(h.new, h.statement) : a.witness \in R}
<1>1. /\ Q \subseteq h.old.witnesses \cap Honest /\ R \subseteq h.new.witnesses \cap Honest
      /\ \A w \in Q : \E s \in SignedHandoff(h), e \in SignedUnder(h.old, h.statement) :
           s.witness = w /\ e.witness = w /\ s.prev = e /\ s.sequence = e.sequence + 1
      /\ \A w \in R : \E a \in SignedUnder(h.new, h.statement), s \in SignedHandoff(h) :
           a.witness = w /\ s.witness = w /\ a.prev = s /\ a.sequence = s.sequence + 1
  BY HonestQuorums
<1>2. /\ h.old \in Policies /\ h.new \in Policies
      /\ ValidHandoff(h, h.statement, h.old, h.new)
  BY DEF Handoffs, Handoff
<1>3. /\ IsFiniteSet(h.old.witnesses) /\ IsFiniteSet(h.new.witnesses)
      /\ h.old.threshold \in Int /\ h.new.threshold \in Int
      /\ Cardinality(h.old.witnesses) \in Nat /\ Cardinality(h.new.witnesses) \in Nat
  BY <1>2, PolicyAssumption, FS_CardinalityType DEF PolicyShape
<1>4. ValidPolicy(h.old) /\ ValidPolicy(h.new) /\ ValidTransition(h.old, h.new)
      /\ ValidStatement(h.statement)
  BY <1>2 DEF ValidHandoff, ValidTransition
<1>5. /\ IsFiniteSet(Q) /\ IsFiniteSet(R) /\ IsFiniteSet(Q \cup R)
      /\ Cardinality(Q) \in Nat /\ Cardinality(R) \in Nat
  <2>1. Q \subseteq h.old.witnesses /\ R \subseteq h.new.witnesses
    BY <1>1
  <2> HIDE DEF Q, R
  <2> QED BY <1>3, <2>1, FS_Subset, FS_Union, FS_CardinalityType
<1>6. /\ Cardinality(Q) >= h.old.threshold /\ Q # {}
      /\ Cardinality(R) >= h.new.threshold /\ R # {}
  <2>1. Cardinality(Q) >= h.old.threshold /\ Cardinality(R) >= h.new.threshold
    BY DEF HonestlyRotated, OldHonest, NewHonest, SignedHandoff, SignedUnder
  <2>2. h.old.threshold > 0 /\ h.new.threshold > 0
    BY <1>4 DEF ValidPolicy
  <2> HIDE DEF Q, R
  <2> QED BY <1>3, <1>5, <2>1, <2>2, FS_EmptySet
<1> HIDE DEF Q, R
<1>7. Q \cup R = {s.witness : s \in S} /\ R = {a.witness : a \in A}
  BY <1>1
<1>8. /\ \A s, t \in S : s.witness = t.witness => s = t
      /\ \A a, b \in A : a.witness = b.witness => a = b
  BY <1>1 DEF SignedOnce, SignedHandoff, SignedUnder
<1>9. /\ \A s \in S : s \in handedOff /\ s.handoff = h /\ ValidHandoffObservation(s, h)
      /\ \A a \in A : /\ a \in observed /\ a.policy = h.new /\ a.statement = h.statement
                      /\ ValidObservation(a, h.statement, h.new)
  BY DEF SignedOnce, SignedHandoff, SignedUnder
<1>10. /\ \A w \in Q : \E s \in S, e \in observed :
            /\ s.witness = w /\ e.witness = w /\ s.prev = e /\ s.sequence = e.sequence + 1
            /\ e.policy = h.old /\ e.statement = h.statement
       /\ \A w \in R : \E a \in A, s \in S :
            a.witness = w /\ s.witness = w /\ a.prev = s /\ a.sequence = s.sequence + 1
  BY <1>1 DEF SignedUnder
<1> HIDE DEF S, A
<1>11. Cardinality(S) = Cardinality(Q \cup R) /\ Cardinality(A) = Cardinality(R)
  BY <1>5, <1>7, <1>8, OneEach
<1> DEFINE selection == [observations |-> S, oldQuorum |-> Q, newQuorum |-> R]
           activation == [policy |-> h.new, statement |-> h.statement, observations |-> A]
           package == HandoffPackage(active, activation, h, selection)
<1>12. ValidPackage(activation) /\ Signers(activation) = R
  <2>1. Signers(activation) = R
    BY <1>7 DEF Signers
  <2> QED BY <1>4, <1>6, <1>9, <1>11, <2>1 DEF ValidPackage
<1>13. activation \in QuorumPackages(h.new, h.statement)
  BY <1>9, <1>12 DEF QuorumPackages
<1>14. selection \in Selections(h)
  <2>1. ValidRole(Q, h.old, [observations |-> S]) /\ ValidRole(R, h.new, [observations |-> S])
    <3>1. Signers([observations |-> S]) = Q \cup R
      BY <1>7 DEF Signers
    <3> QED BY <1>1, <1>6, <3>1 DEF ValidRole
  <2>2. Q \in RoleQuorums(h.old, S) /\ R \in RoleQuorums(h.new, S)
    BY <1>7, <2>1 DEF RoleQuorums
  <2>3. S \in SUBSET {o \in handedOff : ValidHandoffObservation(o, h)}
    BY <1>9
  <2>4. {o.witness : o \in selection.observations}
          = selection.oldQuorum \cup selection.newQuorum
    BY <1>7
  <2> QED BY <2>2, <2>3, <2>4 DEF Selections
<1>15. /\ package.active = active /\ package.activation = activation
       /\ package.handoff = h /\ package.observations = S
       /\ package.oldQuorum = Q /\ package.newQuorum = R
  BY DEF HandoffPackage
<1>16. activation.policy = h.new /\ activation.statement = h.statement
       /\ activation.observations = A
  OBVIOUS
<1> HIDE DEF package, selection, activation
<1>17. Signers(package) = Q \cup R
  BY <1>7, <1>15 DEF Signers
<1>18. ValidRole(Q, h.old, package) /\ ValidRole(R, h.new, package)
  BY <1>1, <1>6, <1>17 DEF ValidRole
<1>19. Edge(active, package, Signers(active) \cap Q, h.old)
  <2>1. Cardinality(Signers(active) \cap Q) >= MinimumIntersection(h.old)
    <3>1. ValidRole(Signers(active), h.old, active)
      <4>1. /\ Signers(active) \subseteq h.old.witnesses
            /\ Cardinality(Signers(active)) >= h.old.threshold /\ h.old.threshold > 0
        BY <1>4 DEF ValidPackage, ValidObservation, Signers, ValidPolicy
      <4>2. Signers(active) # {}
        <5> HIDE DEF Q
        <5> QED BY <1>3, <4>1, FS_EmptySet
      <4> QED BY <4>1, <4>2 DEF ValidRole
    <3> DEFINE a == [observations |-> active.observations, oldQuorum |-> Signers(active)]
    <3>2. ValidRole(a.oldQuorum, h.old, a) /\ a.oldQuorum = Signers(active)
      BY <3>1 DEF ValidRole, Signers
    <3> HIDE DEF a
    <3>3. ValidRole(package.oldQuorum, h.old, package)
      BY <1>15, <1>18
    <3> QED BY <1>2, <1>15, <3>2, <3>3, OldQuorumsIntersect DEF OldQuorumOverlap
  <2>2. ASSUME NEW w \in Signers(active) \cap Q
        PROVE  LET first == ObservationOf(active, w)  second == ObservationOf(package, w)
               IN  second.sequence = first.sequence + 1 /\ second.prev = first
    <3>1. PICK first : first = ObservationOf(active, w)
      OBVIOUS
    <3>2. PICK second : second = ObservationOf(package, w)
      OBVIOUS
    <3>3. /\ first \in active.observations /\ first.witness = w
          /\ first.policy = h.old /\ first.statement = h.statement
      BY <2>2, <3>1 DEF Signers, ObservationOf, ValidPackage, ValidObservation
    <3>4. second \in S /\ second.witness = w
      BY <1>15, <1>17, <3>2 DEF Signers, ObservationOf
    <3>5. PICK s \in S, e \in observed :
            /\ s.witness = w /\ e.witness = w /\ s.prev = e /\ s.sequence = e.sequence + 1
            /\ e.policy = h.old /\ e.statement = h.statement
      BY <1>10
    <3>6. s = second
      BY <1>8, <3>4, <3>5
    <3>7. e = first
      BY <1>1, <3>3, <3>5 DEF SignedOnce
    <3> QED BY <3>1, <3>2, <3>5, <3>6, <3>7
  <2> QED BY <2>1, <2>2 DEF Edge
<1>20. Edge(package, activation, Signers(activation) \cap R, h.new)
  <2>1. Signers(activation) \cap R = R
    BY <1>12
  <2>2. Cardinality(R) >= MinimumIntersection(h.new)
    <3>1. h.new.threshold <= Cardinality(h.new.witnesses)
      BY <1>4 DEF ValidPolicy
    <3> QED BY <1>3, <1>5, <1>6, <3>1 DEF MinimumIntersection
  <2>3. ASSUME NEW w \in R
        PROVE  LET first == ObservationOf(package, w)  second == ObservationOf(activation, w)
               IN  second.sequence = first.sequence + 1 /\ second.prev = first
    <3>1. PICK first : first = ObservationOf(package, w)
      OBVIOUS
    <3>2. PICK second : second = ObservationOf(activation, w)
      OBVIOUS
    <3>3. first \in S /\ first.witness = w
      BY <1>15, <1>17, <3>1 DEF Signers, ObservationOf
    <3>4. second \in A /\ second.witness = w
      BY <1>12, <1>16, <3>2 DEF Signers, ObservationOf
    <3>5. PICK a \in A, s \in S :
            a.witness = w /\ s.witness = w /\ a.prev = s /\ a.sequence = s.sequence + 1
      BY <1>10
    <3>6. s = first /\ a = second
      BY <1>8, <3>3, <3>4, <3>5
    <3> QED BY <3>1, <3>2, <3>5, <3>6
  <2> QED BY <2>1, <2>2, <2>3 DEF Edge
<1>21. ValidHandoffPackage(package)
  BY <1>2, <1>9, <1>11, <1>12, <1>15, <1>16, <1>17, <1>18, <1>19, <1>20
     DEF ValidHandoffPackage, OldOverlap, NewOverlap
<1> QED BY <1>13, <1>14, <1>21 DEF package

(* The reference is valid if the epoch and the previous reference are as they
   should be. *)
LEMMA RefIsValid ==
  ASSUME NEW package, NEW genesis, NEW completed \in Nat \ {0}, NEW previous,
         genesis.epoch \in Nat \ {0},
         package.activation.policy.epoch = genesis.epoch + completed,
         (completed = 1) <=> (previous = ZERO)
  PROVE  Chain!ValidRef(Chain!RefOf(package, genesis, completed, previous))
BY DEF Chain!RefOf, Chain!ValidRef

(***************************************************************************)
(* A rotation that honest quorums of both policies signed can be taken by  *)
(* every party at the old policy, whichever quorum the package it starts   *)
(* from carries.                                                           *)
(***************************************************************************)
THEOREM HandoffsAreAvailable ==
  ASSUME ZeroIsNoReference
  PROVE  Spec => []HandoffAvailable
<1> DEFINE Inv == SignedOnce /\ ChainsObserved
<1>1. Init => Inv
  BY SignedOnceInit DEF Init, ChainsObserved
<1>2. IInv /\ Inv /\ [Next]_vars => Inv'
  BY SignedOnceStep, ChainsObservedStep
<1>3. IInv /\ Inv => HandoffAvailable
  <2> SUFFICES ASSUME IInv, SignedOnce, ChainsObserved,
                      NEW p \in Parties, NEW h \in Handoffs,
                      h.old = Current(p), HonestlyRotated(h),
                      NEW active \in IF chain[p] = <<>> THEN QuorumPackages(h.old, h.statement)
                                     ELSE {Last(chain[p]).activation}
               PROVE  \E selection \in Selections(h),
                         activation \in QuorumPackages(h.new, h.statement) :
                        LET package == HandoffPackage(active, activation, h, selection)
                        IN  IF chain[p] = <<>> THEN Seeds(package, Genesis)
                            ELSE Extends(Last(chain[p]), package)
    BY DEF HandoffAvailable
  <2>1. /\ h.old \in Policies /\ h.new \in Policies /\ h.statement = Start
        /\ ValidTransition(h.old, h.new)
    BY DEF Handoffs, Handoff, ValidHandoff, IInv, TypeOK
  <2>2. /\ h.new.epoch = h.old.epoch + 1
        /\ Genesis.epoch \in Nat \ {0}
    BY <2>1, RotationAssumption, PolicyAssumption DEF ValidTransition, PolicyShape
  <2>3. CASE chain[p] = <<>>
    <3>1. h.old = Genesis /\ active \in QuorumPackages(h.old, h.statement)
      BY <2>3 DEF Current
    <3>2. /\ ValidPackage(active) /\ active.policy = h.old /\ active.statement = h.statement
          /\ active.observations \subseteq observed
      BY <3>1 DEF QuorumPackages
    <3>3. PICK selection \in Selections(h), activation \in QuorumPackages(h.new, h.statement) :
            ValidHandoffPackage(HandoffPackage(active, activation, h, selection))
      BY <3>2, PackageExists
    <3>4. activation.policy = h.new
      BY DEF QuorumPackages
    <3>5. PICK package : package = HandoffPackage(active, activation, h, selection)
      OBVIOUS
    <3>6. package.active = active /\ package.activation = activation
      BY <3>5 DEF HandoffPackage
    <3>7. Chain!ValidRef(Chain!RefOf(package, Genesis, 1, ZERO))
      <4>1. package.activation.policy.epoch = Genesis.epoch + 1
        BY <2>2, <3>1, <3>4, <3>6
      <4>2. 1 \in Nat \ {0} /\ ((1 = 1) <=> (ZERO = ZERO))
        OBVIOUS
      <4> QED BY <2>2, <4>1, <4>2, RefIsValid
    <3>8. Seeds(package, Genesis)
      BY <3>1, <3>2, <3>3, <3>5, <3>6, <3>7 DEF Seeds, Chain!SeededBy
    <3> QED BY <2>3, <3>5, <3>8
  <2>4. CASE chain[p] # <<>>
    <3> DEFINE i == Len(chain[p])
    <3>1. i \in DOMAIN chain[p] /\ i \in Nat \ {0} /\ DOMAIN chain[p] = 1..i
          /\ Last(chain[p]) = chain[p][i]
      BY <2>4 DEF Last, IInv, ChainsVerified
    <3>2. PICK ref : ref = chain[p][i]
      OBVIOUS
    <3> HIDE DEF i
    <3>3. /\ ref = Last(chain[p]) /\ active = ref.activation /\ h.old = ref.policy
      BY <2>4, <3>1, <3>2 DEF Current
    <3>4. /\ ref.genesis = Genesis /\ ref.completed = i
          /\ ref.previous = (IF i = 1 THEN ZERO ELSE chain[p][i - 1])
          /\ Verified(ref.package)
          /\ ref.policy = ref.package.activation.policy
          /\ ref.activation = ref.package.activation
          /\ ref.policy.epoch = Genesis.epoch + i
      BY <3>1, <3>2 DEF IInv, TypeOK, ChainsVerified
    <3>5. ref # ZERO /\ active.observations \subseteq observed
      BY <3>1, <3>2, <3>3 DEF ChainsObserved
    <3>6. ValidPackage(active) /\ active.policy = h.old /\ active.statement = h.statement
      BY <2>1, <3>3, <3>4, VerifiedFacts DEF Verified, ValidHandoffPackage
    <3>7. PICK selection \in Selections(h), activation \in QuorumPackages(h.new, h.statement) :
            ValidHandoffPackage(HandoffPackage(active, activation, h, selection))
      BY <3>5, <3>6, PackageExists
    <3>8. activation.policy = h.new
      BY DEF QuorumPackages
    <3>9. PICK package : package = HandoffPackage(active, activation, h, selection)
      OBVIOUS
    <3>10. package.active = active /\ package.activation = activation
      BY <3>9 DEF HandoffPackage
    <3>11. Chain!ValidRef(ref)
      <4>1. i # 1 => ref.previous # ZERO
        <5>1. i # 1 => i - 1 \in DOMAIN chain[p]
          BY <3>1
        <5> QED BY <3>4, <5>1 DEF ChainsObserved
      <4> QED BY <2>2, <3>1, <3>4, <4>1 DEF Chain!ValidRef
    <3>12. Chain!ValidRef(Chain!RefOf(package, ref.genesis, ref.completed + 1, ref))
      <4>1. ref.completed + 1 \in Nat \ {0} /\ ref.completed + 1 # 1
        BY <3>1, <3>4
      <4>2. package.activation.policy.epoch = Genesis.epoch + (i + 1)
        BY <2>2, <3>1, <3>3, <3>4, <3>8, <3>10
      <4> QED BY <2>2, <3>4, <3>5, <4>1, <4>2, RefIsValid
    <3>13. Extends(ref, package)
      BY <3>3, <3>6, <3>7, <3>9, <3>10, <3>11, <3>12 DEF Extends, Chain!ContinuedBy
    <3> QED BY <2>4, <3>3, <3>9, <3>13
  <2> QED BY <2>3, <2>4
<1> HIDE DEF Inv
<1> QED BY <1>1, <1>2, <1>3, RotationInvariant, PTL DEF Spec
=============================================================================

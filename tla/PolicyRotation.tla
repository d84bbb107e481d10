---------------------------- MODULE PolicyRotation ----------------------------
(***************************************************************************)
(* Witnesses hand their authority on from policy to policy, and relying    *)
(* parties follow with pinned chain references                             *)
(* (ttrace/lineage_witness_handoff.py, ..._handoff_chain.py).              *)
(*                                                                         *)
(* A handoff package and the package it activates carry one producer       *)
(* statement, and the next rotation starts from that very package: a chain *)
(* of rotations stays at the statement it began with.  That statement is   *)
(* fixed here, and so are its observations under the genesis policy, the   *)
(* first each witness made; WitnessQuorum models how they come about.      *)
(***************************************************************************)
EXTENDS PolicyHandoff

CONSTANTS
  Parties,            (* the relying parties                                 *)
  NoView,             (* the view of a party that holds no chain             *)
  Start,              (* the producer statement policies are rotated at      *)
  Genesis,            (* the externally pinned genesis policy                *)
  MaxSigned           (* bound on the observations of one witness            *)

ASSUME RotationAssumption ==
  /\ Genesis \in Policies
  /\ Start.sequence \in Nat \ {0} /\ ValidStatement(Start)
  /\ MaxSigned \in Nat

VARIABLES
  observed,   (* the authenticated observations of producer statements       *)
  handedOff,  (* the authenticated observations of handoff statements        *)
  chain       (* chain[p]: the references p pinned, oldest first             *)

vars == <<issued, observed, handedOff, chain>>

Handoffs ==
  { h \in { Handoff(s, old, new, terms, v) : s \in issued, old \in Policies,
                                             new \in Policies, terms \in Terms,
                                             v \in Provenances } :
      ValidHandoff(h, h.statement, h.old, h.new) }

-----------------------------------------------------------------------------
(* Witnesses. *)

ObservedBy(witness) == {o \in observed : o.witness = witness}
HandedOffBy(witness) == {o \in handedOff : o.witness = witness}
SignedBy(witness) == ObservedBy(witness) \cup HandedOffBy(witness)

Bounded(o) == Cardinality(SignedBy(o.witness)) < MaxSigned

Observe(o) ==
  /\ ValidPolicy(o.policy)
  /\ ValidStatement(o.statement)
  /\ ValidObservation(o, o.statement, o.policy)
  /\ Bounded(o)
  /\ observed' = observed \cup {o}
  /\ UNCHANGED <<issued, handedOff, chain>>

ObserveHandoff(o) ==
  /\ ValidHandoffObservation(o, o.handoff)
  /\ Bounded(o)
  /\ handedOff' = handedOff \cup {o}
  /\ UNCHANGED <<issued, observed, chain>>

(* The link to prev; an honest witness keeps one chain over all it signs,   *)
(* a faulty one forks its chain anywhere.                                  *)
SequenceAfter(prev) == IF prev = ZERO THEN 1 ELSE prev.sequence + 1

Signable(witness) == SignedBy(witness) \cup {ZERO}

Latest(witness, prev) ==
  IF SignedBy(witness) = {} THEN prev = ZERO
  ELSE prev # ZERO /\ \A o \in SignedBy(witness) : o.sequence <= prev.sequence

Activate(witness, prev, policy, statement) ==
  Observe(Observation(witness, SequenceAfter(prev), prev, policy, statement))

HandOff(witness, prev, h) ==
  ObserveHandoff(HandoffObservation(witness, SequenceAfter(prev), prev, h))

(* An honest witness signs a statement once under the genesis policy, or    *)
(* under a policy whose handoff it has signed at that statement.           *)
ActivateHonestly(witness, prev, policy, statement) ==
  /\ witness \in Honest
  /\ Latest(witness, prev)
  /\ \/ policy = Genesis
     \/ \E o \in HandedOffBy(witness) :
          o.handoff.new = policy /\ o.handoff.statement = statement
  /\ \A o \in ObservedBy(witness) : o.statement # statement \/ o.policy # policy
  /\ Activate(witness, prev, policy, statement)

(* An honest witness hands its own policy on at most once at a statement.   *)
HandOffHonestly(witness, prev, h) ==
  /\ witness \in Honest
  /\ Latest(witness, prev)
  /\ \A o \in HandedOffBy(witness) :
       /\ o.handoff # h
       /\ witness \in h.old.witnesses => ~Conflicting(o.handoff, h)
  /\ HandOff(witness, prev, h)

ActivateFreely(witness, prev, policy, statement) ==
  /\ witness \in FaultyWitnesses
  /\ Activate(witness, prev, policy, statement)

HandOffFreely(witness, prev, h) ==
  /\ witness \in FaultyWitnesses
  /\ HandOff(witness, prev, h)

WitnessStep ==
  \E witness \in Witnesses : \E prev \in Signable(witness) :
    \/ \E policy \in Policies, statement \in issued :
         \/ ActivateHonestly(witness, prev, policy, statement)
         \/ ActivateFreely(witness, prev, policy, statement)
    \/ \E h \in Handoffs :
         \/ HandOffHonestly(witness, prev, h)
         \/ HandOffFreely(witness, prev, h)

-----------------------------------------------------------------------------
(* Relying parties: packages are assembled by anyone, from any of the       *)
(* authenticated observations.                                             *)

(* build_lineage_witness_quorum_package. *)
QuorumPackages(policy, statement) ==
  { a \in { [policy |-> policy, statement |-> statement, observations |-> os] :
              os \in SUBSET {o \in observed : ValidObservation(o, statement, policy)} } :
      ValidPackage(a) }

(* _role_certificate, for each choice of its witnesses. *)
RoleQuorums(policy, os) ==
  {q \in SUBSET {o.witness : o \in os} : ValidRole(q, policy, [observations |-> os])}

(* A choice of the observations of h, every one of them selected for the    *)
(* quorum of either policy.                                                *)
Selections(h) ==
  { c \in UNION { { [observations |-> os, oldQuorum |-> q, newQuorum |-> r] :
                     q \in RoleQuorums(h.old, os), r \in RoleQuorums(h.new, os) } :
                  os \in SUBSET {o \in handedOff : ValidHandoffObservation(o, h)} } :
      {o.witness : o \in c.observations} = c.oldQuorum \cup c.newQuorum }

(* build_witness_policy_handoff_package. *)
HandoffPackage(active, activation, h, selection) ==
  [active |-> active, activation |-> activation, handoff |-> h,
   observations |-> selection.observations,
   oldQuorum |-> selection.oldQuorum, newQuorum |-> selection.newQuorum]

Seed(p, package) ==
  /\ chain[p] = <<>>
  /\ Seeds(package, Genesis)
  /\ chain' = [chain EXCEPT ![p] = <<Chain!RefOf(package, Genesis, 1, ZERO)>>]
  /\ UNCHANGED <<issued, observed, handedOff>>

Advance(p, package) ==
  LET ref == Last(chain[p])
  IN  /\ chain[p] # <<>>
      /\ Extends(ref, package)
      /\ chain' = [chain EXCEPT ![p] =
                     Append(@, Chain!RefOf(package, ref.genesis, ref.completed + 1, ref))]
      /\ UNCHANGED <<issued, observed, handedOff>>

PartyStep ==
  \E h \in Handoffs : \E selection \in Selections(h) :
    \E active \in QuorumPackages(h.old, h.statement),
       activation \in QuorumPackages(h.new, h.statement), p \in Parties :
      LET package == HandoffPackage(active, activation, h, selection)
      IN  Seed(p, package) \/ Advance(p, package)

-----------------------------------------------------------------------------
Init ==
  /\ issued = {Start}
  /\ observed = {Observation(w, 1, ZERO, Genesis, Start) : w \in Genesis.witnesses}
  /\ handedOff = {}
  /\ chain = [p \in Parties |-> <<>>]

Next == WitnessStep \/ PartyStep

Spec == Init /\ [][Next]_vars

-----------------------------------------------------------------------------
(* Properties. *)

(* The rotations some party has accepted. *)
AcceptedRotations == {ref.package : ref \in UNION {Range(chain[p]) : p \in Parties}}

(* References start at the genesis policy, epochs count the rotations, and  *)
(* each reference pins the one before it and starts at what that activated. *)
TypeOK ==
  /\ issued = {Start}
  /\ \A o \in observed : o.witness \in Witnesses /\ o.prev \in Signable(o.witness)
  /\ \A o \in handedOff : o.witness \in Witnesses /\ o.prev \in Signable(o.witness)
  /\ DOMAIN chain = Parties
  /\ \A p \in Parties : \A i \in DOMAIN chain[p] :
       LET ref == chain[p][i]
       IN  /\ ref.genesis = Genesis
           /\ ref.completed = i
           /\ ref.previous = (IF i = 1 THEN ZERO ELSE chain[p][i - 1])
           /\ IF i = 1 THEN ref.package.active.policy = Genesis
              ELSE ref.package.active = chain[p][i - 1].activation
           /\ ref.package.observations \subseteq handedOff

(***************************************************************************)
(* Conflicting rotations never escape the detector: it does not answer     *)
(* old_handoff_quorum_intersection_insufficient for two accepted packages  *)
(* that take one old policy at one producer statement different ways.      *)
(***************************************************************************)
RotationsComparable ==
  \A a, b \in AcceptedRotations :
    Conflicting(a.handoff, b.handoff) => ~RotationComparisonRefused(a, b)

(***************************************************************************)
(* Rotation evidence names no honest witness: whenever two accepted        *)
(* packages conflict, every one of double_signing_old_witness_ids is       *)
(* faulty.                                                                 *)
(***************************************************************************)
HonestHandoffNeverAccused ==
  \A a, b \in AcceptedRotations :
    RotationEquivocationDetected(a, b) => OldQuorumOverlap(a, b) \subseteq FaultyWitnesses

(***************************************************************************)
(* Rotation is possible.  A party can take the next rotation once honest   *)
(* witnesses of the two policies, any quorum of either, have signed it:    *)
(* the old ones straight after their observation under the old policy, the *)
(* new ones activating it straight after.  It does not matter which quorum *)
(* the active package carries.                                             *)
(***************************************************************************)
StraightAfter(o, earlier) == \E e \in earlier : o.prev = e /\ o.sequence = e.sequence + 1

Current(p) == IF chain[p] = <<>> THEN Genesis ELSE Last(chain[p]).policy

HonestlyRotated(h) ==
  LET signed == {o \in handedOff : o.handoff = h}
      before == {o \in observed : o.policy = h.old /\ o.statement = h.statement}
      after  == {o \in observed : o.policy = h.new /\ o.statement = h.statement}
      old == {o.witness : o \in {s \in signed : StraightAfter(s, before)}}
      new == {o.witness : o \in {a \in after : StraightAfter(a, signed)}}
  IN  /\ Cardinality(old \cap h.old.witnesses \cap Honest) >= h.old.threshold
      /\ Cardinality(new \cap Honest) >= h.new.threshold

HandoffAvailable ==
  \A p \in Parties, h \in Handoffs :
    h.old = Current(p) /\ HonestlyRotated(h) =>
      \A active \in IF chain[p] = <<>> THEN QuorumPackages(h.old, h.statement)
                   ELSE {Last(chain[p]).activation} :
        \E selection \in Selections(h), activation \in QuorumPackages(h.new, h.statement) :
          LET package == HandoffPackage(active, activation, h, selection)
          IN  IF chain[p] = <<>> THEN Seeds(package, Genesis)
              ELSE Extends(Last(chain[p]), package)

(***************************************************************************)
(* Parties that pin the genesis policy read one history of policies: as    *)
(* long as every policy has fewer faulty witnesses than its quorum         *)
(* intersections, nobody is led to a rival successor, back to an earlier   *)
(* policy or past one.                                                     *)
(***************************************************************************)
Protected(policy) ==
  Cardinality(policy.witnesses \cap FaultyWitnesses) < MinimumIntersection(policy)

View == [p \in Parties |->
           IF chain[p] = <<>> \/ \E policy \in Policies : ~Protected(policy)
           THEN NoView
           ELSE [lane    |-> Last(chain[p]).activation.statement,
                 history |-> [i \in DOMAIN chain[p] |-> chain[p][i].policy]]]

(* Histories one policy per epoch could form. *)
PolicyHistories ==
  { h \in SeqOf(Policies, Cardinality({policy.epoch : policy \in Policies})) :
      h # <<>> /\ \A i \in DOMAIN h : h[i].epoch = Genesis.epoch + i }

PolicyHistory == INSTANCE LineageView WITH
                   Lanes <- {Start},
                   Histories <- PolicyHistories,
                   view <- View

OnePolicyHistory == PolicyHistory!Spec
=============================================================================

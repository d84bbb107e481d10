--------------------------- MODULE WitnessQuorum ---------------------------
(***************************************************************************)
(* Witness-quorum acceptance of producer statements                        *)
(* (ttrace/lineage_witness.py).                                            *)
(*                                                                         *)
(* Each witness numbers its observations and binds the one before, and a   *)
(* party replaces its package only by one whose intersecting witnesses     *)
(* moved by exactly one observation.  Producers, some of the witnesses and *)
(* whoever assembles packages are untrusted.                               *)
(***************************************************************************)
EXTENDS WitnessPackages

CONSTANTS
  Parties,            (* the relying parties                                 *)
  NoView,             (* the view of a party that has accepted nothing       *)
  MaxWitnessSequence, (* bound on witness_sequence                           *)
  MaxObserved         (* bound on the number of observations                 *)

ASSUME WitnessAssumption ==
  /\ MaxWitnessSequence \in Nat \ {0}
  /\ MaxObserved \in Nat \ {0}

VARIABLES
  observed,   (* every authenticated witness observation made so far         *)
  log         (* log[p]: the packages p has accepted, oldest first           *)

vars == <<issued, observed, log>>

-----------------------------------------------------------------------------
(* Verifiers of a step from one package to another. *)

(* Mutant: the roots extend, but the statements need not follow. *)
VerifyWitnessedRootsOnly(old, new) ==
  /\ ValidPackage(old)
  /\ ValidPackage(new)
  /\ AppendOnly(old.statement.anchor, new.statement.anchor)
  /\ old.policy = new.policy
  /\ Cardinality(Overlap(old, new)) >= MinimumIntersection(old.policy)
  /\ OverlapContinues(old, new)

(* Mutant: a whole threshold of the old quorum must sign again. *)
VerifyWitnessedSameQuorum(old, new) ==
  /\ ValidPackage(old)
  /\ ValidPackage(new)
  /\ VerifyAuthorized(old.statement, new.statement)
  /\ old.policy = new.policy
  /\ Cardinality(Overlap(old, new)) >= old.policy.threshold
  /\ OverlapContinues(old, new)

(* verify_witnessed_lineage_root_consistency. *)
VerifyWitnessed(old, new) ==
  /\ ValidPackage(old)
  /\ ValidPackage(new)
  /\ VerifyAuthorized(old.statement, new.statement)
  /\ old.policy = new.policy
  /\ Cardinality(Overlap(old, new)) >= MinimumIntersection(old.policy)
  /\ OverlapContinues(old, new)

(* detect_witness_quorum_equivocation, for two packages it validates.       *)
(* Refused: the verdict is verified = FALSE, no evidence is produced.       *)
ComparisonRefused(a, b) ==
  \/ a.policy # b.policy
  \/ /\ Equivocates(a.statement, b.statement)
     /\ Cardinality(Overlap(a, b)) < MinimumIntersection(a.policy)

EquivocationDetected(a, b) ==
  ~ComparisonRefused(a, b) /\ Equivocates(a.statement, b.statement)

(* double_signing_witness_ids of the evidence. *)
DoubleSigners(a, b) == Overlap(a, b)

-----------------------------------------------------------------------------
(* Witnesses. *)

ObservedBy(witness) == {o \in observed : o.witness = witness}

Observe(o) ==
  /\ ValidPolicy(o.policy)
  /\ ValidStatement(o.statement)
  /\ ValidObservation(o, o.statement, o.policy)
  /\ o.sequence <= MaxWitnessSequence
  /\ o \notin observed
  /\ Cardinality(observed) < MaxObserved
  /\ observed' = observed \cup {o}
  /\ UNCHANGED <<issued, log>>

(* What an honest witness checks before it signs.  It never signs a         *)
(* statement that conflicts with one it signed, nor, in one lane, one that  *)
(* is not an append-only extension of everything it signed there.           *)
MayWitness(witness, statement) ==
  \A o \in ObservedBy(witness) :
    /\ ~Equivocates(o.statement, statement)
    /\ Lane(o.statement) = Lane(statement)
         => \/ o.statement = statement
            \/ AppendOnly(o.statement.anchor, statement.anchor)

(* An honest witness keeps one chain of observations over everything it     *)
(* signs, and signs a statement once under a policy.                        *)
ObserveHonestly(witness, policy, statement) ==
  /\ witness \in Honest
  /\ MayWitness(witness, statement)
  /\ \A o \in ObservedBy(witness) : o.statement # statement \/ o.policy # policy
  /\ \/ /\ ObservedBy(witness) = {}
        /\ Observe(Observation(witness, 1, ZERO, policy, statement))
     \/ \E last \in ObservedBy(witness) :
          /\ \A o \in ObservedBy(witness) : o.sequence <= last.sequence
          /\ Observe(Observation(witness, last.sequence + 1, last, policy, statement))

ObserveFreely(witness, sequence, prev, policy, statement) ==
  /\ witness \in FaultyWitnesses
  /\ Observe(Observation(witness, sequence, prev, policy, statement))

-----------------------------------------------------------------------------
(* Relying parties: packages are assembled by anyone, from any of the       *)
(* authenticated observations.                                             *)

Presentable ==
  [statement : issued, policy : Policies, observations : SUBSET observed]

Bootstrap(p, package) ==
  /\ log[p] = <<>>
  /\ ValidPackage(package)
  /\ log' = [log EXCEPT ![p] = <<package>>]
  /\ UNCHANGED <<issued, observed>>

Advance(p, package) ==
  /\ log[p] # <<>>
  /\ VerifyWitnessed(Last(log[p]), package)
  /\ log' = [log EXCEPT ![p] = Append(@, package)]
  /\ UNCHANGED <<issued, observed>>

-----------------------------------------------------------------------------
Init ==
  /\ ProducerInit
  /\ observed = {}
  /\ log = [p \in Parties |-> <<>>]

Produce == ProducerNext /\ UNCHANGED <<observed, log>>

WitnessStep ==
  \E witness \in Witnesses, policy \in Policies, statement \in issued :
    \/ ObserveHonestly(witness, policy, statement)
    \/ \E sequence \in 1..MaxWitnessSequence, prev \in ObservedBy(witness) \cup {ZERO} :
         ObserveFreely(witness, sequence, prev, policy, statement)

PartyStep ==
  \E p \in Parties, package \in Presentable :
    Bootstrap(p, package) \/ Advance(p, package)

Next == Produce \/ WitnessStep \/ PartyStep

Spec == Init /\ [][Next]_vars

-----------------------------------------------------------------------------
(* Properties. *)

ObservationShape ==
  [witness : Witnesses, sequence : Nat \ {0}, prev : observed \cup {ZERO},
   policy : Policies, statement : issued]

TypeOK ==
  /\ IssuedTypeOK
  /\ observed \subseteq ObservationShape
  /\ log \in [Parties -> Seq(Presentable)]

(* Every package some party has accepted. *)
Accepted == UNION {Range(log[p]) : p \in Parties}

(***************************************************************************)
(* Two packages a verifier accepted under one policy can always be         *)
(* compared: detect_witness_quorum_equivocation never answers              *)
(* witness_quorum_intersection_insufficient for them.                      *)
(***************************************************************************)
ComparisonAlwaysPossible ==
  \A a, b \in Accepted : a.policy = b.policy => ~ComparisonRefused(a, b)

(***************************************************************************)
(* Evidence names no honest witness: whenever comparing two accepted       *)
(* packages yields double_signing_witness_ids, all of them are faulty,     *)
(* however the producer equivocated and whoever assembled the packages.    *)
(***************************************************************************)
HonestWitnessNeverAccused ==
  \A a, b \in Accepted :
    EquivocationDetected(a, b) => DoubleSigners(a, b) \subseteq FaultyWitnesses

(***************************************************************************)
(* A split view has a price.  If two parties accepted anchors of one lane  *)
(* that no single append-only history contains - whether or not the        *)
(* pairwise detector sees the conflict - faulty witnesses signed both, and *)
(* at least as many as the minimum intersection.                           *)
(***************************************************************************)
SplitIsAccountable ==
  \A a, b \in Accepted :
    /\ a.policy = b.policy
    /\ Lane(a.statement) = Lane(b.statement)
    /\ ~OneHistory(a.statement.anchor, b.statement.anchor)
    => LET faulty == Overlap(a, b) \cap FaultyWitnesses
       IN  faulty # {} /\ Cardinality(faulty) >= MinimumIntersection(a.policy)

(***************************************************************************)
(* The verifier is not stricter than honest operation, even under a faulty *)
(* authority.  A party that accepted some statement, with whatever quorum, *)
(* can accept its successor as soon as the honest witnesses - a quorum of  *)
(* them - have observed it, each straight after the one the party accepted *)
(* if it observed that.                                                    *)
(***************************************************************************)
ObservedNext(w, head, next) ==
  \E o \in ObservedBy(w) :
    /\ o.statement = next /\ o.policy = head.policy
    /\ \A e \in ObservedBy(w) :
         e.statement = head.statement /\ e.policy = head.policy
           => o.prev = e /\ o.sequence = e.sequence + 1

ContinuationAccepted ==
  \A p \in Parties : log[p] # <<>> =>
    LET head == Last(log[p])
        honest == head.policy.witnesses \ FaultyWitnesses
    IN  \A next \in issued :
          /\ VerifyAuthorized(head.statement, next)
          /\ Cardinality(honest) >= head.policy.threshold
          /\ \A w \in honest : ObservedNext(w, head, next)
          => \E package \in Presentable :
               package.statement = next /\ VerifyWitnessed(head, package)

(***************************************************************************)
(* A witnessed party does nothing a party following the statements alone   *)
(* could not do: forgetting policies and observations, WitnessQuorum       *)
(* implements DirectLineage.                                               *)
(***************************************************************************)
Direct == INSTANCE DirectLineage WITH
            log <- [p \in Parties |-> [i \in DOMAIN log[p] |-> log[p][i].statement]]

ImplementsDirectLineage == Direct!Spec

(***************************************************************************)
(* With fewer faulty witnesses than a quorum intersection holds, parties   *)
(* under one policy read one append-only history even from an authority    *)
(* that equivocates: the accepted packages implement LineageView.          *)
(***************************************************************************)
Protected(policy) ==
  Cardinality(policy.witnesses \cap FaultyWitnesses) < MinimumIntersection(policy)

View == [p \in Parties |->
           IF log[p] = <<>> \/ ~Protected(Last(log[p]).policy) THEN NoView
           ELSE LET head == Last(log[p])
                IN  [lane |-> <<Lane(head.statement), head.policy>>,
                     history |-> head.statement.anchor.root]]

Lineage == INSTANCE LineageView WITH
             Lanes <- (Authorities \X Contexts) \X Policies,
             Histories <- {a.root : a \in Anchors},
             view <- View

ImplementsLineageView == Lineage!Spec
=============================================================================

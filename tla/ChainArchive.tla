---------------------------- MODULE ChainArchive ----------------------------
(***************************************************************************)
(* Archives of a chain of policy rotations                                 *)
(* (ttrace/lineage_witness_handoff_chain_membership.py,                    *)
(* ..._handoff_chain_consistency.py).                                      *)
(*                                                                         *)
(* An archive retains the handoff packages of a chain and publishes        *)
(* statements about membership anchors: a Merkle root over the step        *)
(* commitments, bound to the current chain reference.  A party that        *)
(* follows the statements never sees the packages; it is shown single      *)
(* rotations by selective disclosure, long after and by anyone.            *)
(*                                                                         *)
(* The root is the sequence of commitments under it; LineageTree checks    *)
(* that paths and frontiers of this tree shape stand for that sequence.    *)
(* What a party may be shown is a function of the anchors it holds, so the *)
(* disclosures themselves are no part of the state.                        *)
(***************************************************************************)
EXTENDS Integers, FiniteSets, SequencesExt

CONSTANTS
  Authorities,       (* ids of the archives                                  *)
  HonestAuthorities, (* those that keep one history and publish only that    *)
  Genesis,           (* the pinned genesis policy                            *)
  Packages,          (* the handoff packages that verify                     *)
  Contracts,         (* membership and authorization contract digests        *)
  ForgedRefs,        (* well-formed references no replay of packages gives   *)
  ForgedAnchors,     (* anchors no retained history has                      *)
  Provenances,       (* statement_provenance_sha256 values                   *)
  Parties,           (* the relying parties                                  *)
  NoView, ZERO,
  MaxHandoffs,       (* bound on the length of a history                     *)
  MaxSequence,       (* bound on statement_sequence                          *)
  MaxIssued          (* bound on the number of statements                    *)

VARIABLES
  issued,   (* every authenticated archive statement                         *)
  log       (* log[p]: the statements p has accepted, oldest first           *)

vars == <<issued, log>>

Chain == INSTANCE HandoffChain

-----------------------------------------------------------------------------
(* Histories and anchors. *)

(* The references a replay of the packages derives. *)
Replay(packages) ==
  LET ref[i \in DOMAIN packages] ==
        Chain!RefOf(packages[i], Genesis, i, IF i = 1 THEN ZERO ELSE ref[i - 1])
  IN  [i \in DOMAIN packages |-> ref[i]]

(* _validate_handoff_history. *)
ValidHistory(packages) ==
  /\ packages \in Seq(Packages) \ {<<>>}
  /\ Chain!SeededBy(packages[1], Genesis)
  /\ \A i \in DOMAIN packages : i > 1 =>
       Chain!ContinuedBy(Replay(packages)[i - 1], packages[i])

(* What two anchors must share to be compared. *)
ContextOf(ref, contract) ==
  [genesis |-> ref.genesis, id |-> ref.policy.id, contract |-> contract]

(* The anchor over a root, bound to a current reference. *)
Anchor(root, ref, contract) ==
  [context |-> ContextOf(ref, contract), size |-> ref.completed, root |-> root,
   tip |-> ref.step, epoch |-> ref.policy.epoch, ref |-> ref]

(* validate_witness_policy_handoff_chain_membership_anchor: the leaves      *)
(* under the root are not looked at.                                       *)
ValidAnchor(a) ==
  /\ Chain!ValidRef(a.ref)
  /\ a = Anchor(a.root, a.ref, a.context.contract)

(* build_witness_policy_handoff_chain_membership_anchor. *)
RebuiltAnchor(packages, contract) ==
  LET refs == Replay(packages)
  IN  Anchor([i \in DOMAIN refs |-> refs[i].step], Last(refs), contract)

Histories == {h \in SeqOf(Packages, MaxHandoffs) : ValidHistory(h)}

RebuiltAnchors == {RebuiltAnchor(h, contract) : h \in Histories, contract \in Contracts}

ChainAnchors == RebuiltAnchors \cup ForgedAnchors
ChainRefs == UNION {Range(Replay(h)) : h \in Histories} \cup ForgedRefs

(* A package that verifies rotates the epochs of one policy id; a forged   *)
(* root is a sequence of any commitments.                                  *)
ASSUME ArchiveAssumption ==
  /\ HonestAuthorities \subseteq Authorities
  /\ \A package \in Packages : package.activation.policy.id = package.active.policy.id
  /\ \A ref \in ForgedRefs : Chain!ValidRef(ref)
  /\ \A a \in ForgedAnchors : ValidAnchor(a) /\ a.root \in Seq(Range(a.root))
  /\ MaxHandoffs \in Nat /\ MaxSequence \in Nat \ {0} /\ MaxIssued \in Nat \ {0}

(* What the path of the current step binds about one endpoint. *)
BoundEndpoint(a) == a.size = Len(a.root) /\ a.tip = a.root[a.size]

-----------------------------------------------------------------------------
(* Selective disclosure of one rotation. *)

Disclosure(index, previous, package) ==
  [index |-> index, previous |-> previous, package |-> package]

(* The reference the verifier derives from a disclosure. *)
DisclosedRef(a, d) == Chain!RefOf(d.package, a.context.genesis, d.index, d.previous)

SameChain(ref, a) ==
  ref.genesis = a.context.genesis /\ ref.policy.id = a.context.id

(* verify_selective_witness_policy_handoff_chain_disclosure. *)
VerifyDisclosure(a, d) ==
  /\ ValidAnchor(a)
  /\ d.index \in 1..a.size
  /\ d.package \in Packages
  /\ \/ /\ d.index = 1 /\ d.previous = ZERO
        /\ Chain!SeededBy(d.package, a.context.genesis)
     \/ /\ d.index > 1 /\ d.previous # ZERO
        /\ Chain!ValidRef(d.previous)
        /\ d.previous.completed = d.index - 1
        /\ SameChain(d.previous, a)
        /\ Chain!ContinuedBy(d.previous, d.package)
  /\ SameChain(DisclosedRef(a, d), a)
  /\ d.index = a.size => DisclosedRef(a, d) = a.ref
  /\ BoundEndpoint(a)
  /\ a.root[d.index] = DisclosedRef(a, d).step

(* Everything anyone can show a party that trusts an anchor. *)
Disclosures ==
  [a \in ChainAnchors |->
     { d \in { Disclosure(i, previous, package) : i \in 1..MaxHandoffs,
                 previous \in ChainRefs \cup {ZERO}, package \in Packages } :
         VerifyDisclosure(a, d) }]

-----------------------------------------------------------------------------
(* Statements about anchors. *)

(* Mutant: compares sizes, never the leaves. *)
ChainConsistentNoPrefix(old, new) ==
  /\ ValidAnchor(old) /\ ValidAnchor(new)
  /\ old.size < new.size
  /\ old.context = new.context
  /\ old.epoch < new.epoch
  /\ BoundEndpoint(old) /\ BoundEndpoint(new)

(* verify_witness_policy_handoff_chain_membership_root_consistency. *)
ChainConsistent(old, new) ==
  /\ ValidAnchor(old) /\ ValidAnchor(new)
  /\ old.size < new.size
  /\ old.context = new.context
  /\ old.epoch < new.epoch
  /\ BoundEndpoint(old) /\ BoundEndpoint(new)
  /\ IsPrefix(old.root, new.root)

(* build_..._membership_anchor_statement: the statement it assembles. *)
Statement(authority, sequence, prev, provenance, anchor) ==
  [authority |-> authority, sequence |-> sequence, prev |-> prev,
   provenance |-> provenance, anchor |-> anchor]

(* validate_..._membership_anchor_statement. *)
ValidStatement(s) ==
  /\ ValidAnchor(s.anchor)
  /\ s.sequence >= 1
  /\ (s.sequence = 1) <=> (s.prev = ZERO)

(* Mutant: any earlier statement may be the predecessor. *)
VerifyAuthorizedAnyPredecessor(old, new) ==
  /\ ChainConsistent(old.anchor, new.anchor)
  /\ ValidStatement(old) /\ ValidStatement(new)
  /\ old.authority = new.authority
  /\ new.sequence = old.sequence + 1

(* verify_authorized_..._membership_root_consistency. *)
VerifyAuthorized(old, new) ==
  /\ ChainConsistent(old.anchor, new.anchor)
  /\ ValidStatement(old) /\ ValidStatement(new)
  /\ old.authority = new.authority
  /\ new.sequence = old.sequence + 1
  /\ new.prev = old

(* _statements_comparable. *)
Comparable(s, t) ==
  s.authority = t.authority /\ s.anchor.context = t.anchor.context

(* detect_..._membership_anchor_equivocation finds a conflict. *)
Equivocates(s, t) ==
  /\ Comparable(s, t)
  /\ \/ s.sequence = t.sequence /\ s.prev = t.prev /\ s.anchor # t.anchor
     \/ s.anchor.size = t.anchor.size /\ s.anchor.root # t.anchor.root

-----------------------------------------------------------------------------
(* Archives. *)

Issue(s) ==
  /\ ValidStatement(s)
  /\ s.sequence <= MaxSequence
  /\ s \notin issued
  /\ Cardinality(issued) < MaxIssued
  /\ issued' = issued \cup {s}
  /\ UNCHANGED log

(* build_..._root_consistency_package: the later history holds the earlier  *)
(* commitments and the very reference the earlier anchor ends at.          *)
ExtendsHistory(old, packages, contract) ==
  /\ IsStrictPrefix(old.root, RebuiltAnchor(packages, contract).root)
  /\ Replay(packages)[old.size] = old.ref

(* An honest archive keeps one history per contract and publishes what it   *)
(* rebuilt from it, each statement bound to the one before.                *)
PublishHonestly(authority, provenance, contract, packages) ==
  LET anchor == RebuiltAnchor(packages, contract)
      mine == {s \in issued : s.authority = authority /\ s.anchor.context = anchor.context}
  IN  /\ authority \in HonestAuthorities
      /\ ValidHistory(packages)
      /\ \/ /\ mine = {}
            /\ Issue(Statement(authority, 1, ZERO, provenance, anchor))
         \/ \E last \in mine :
              /\ \A s \in mine : s.sequence <= last.sequence
              /\ ExtendsHistory(last.anchor, packages, contract)
              /\ Issue(Statement(authority, last.sequence + 1, last, provenance, anchor))

(* Any other archive publishes whatever the builder of statements accepts. *)
PublishFreely(authority, sequence, prev, provenance, anchor) ==
  /\ authority \in Authorities \ HonestAuthorities
  /\ Issue(Statement(authority, sequence, prev, provenance, anchor))

Publish ==
  \E authority \in Authorities, provenance \in Provenances :
    \/ \E contract \in Contracts, packages \in Histories :
         PublishHonestly(authority, provenance, contract, packages)
    \/ \E sequence \in 1..MaxSequence, prev \in issued \cup {ZERO},
          anchor \in ChainAnchors :
         PublishFreely(authority, sequence, prev, provenance, anchor)

-----------------------------------------------------------------------------
(* Relying parties. *)

Trust(p, s) ==
  /\ log[p] = <<>>
  /\ ValidStatement(s)
  /\ log' = [log EXCEPT ![p] = <<s>>]
  /\ UNCHANGED issued

Follow(p, s) ==
  /\ log[p] # <<>>
  /\ VerifyAuthorized(Last(log[p]), s)
  /\ log' = [log EXCEPT ![p] = Append(@, s)]
  /\ UNCHANGED issued

Init == issued = {} /\ log = [p \in Parties |-> <<>>]

Next ==
  \/ Publish
  \/ \E p \in Parties, s \in issued : Trust(p, s) \/ Follow(p, s)

Spec == Init /\ [][Next]_vars

-----------------------------------------------------------------------------
(* Properties. *)

StatementShape ==
  [authority : Authorities, sequence : Nat \ {0}, prev : issued \cup {ZERO},
   provenance : Provenances, anchor : ChainAnchors]

TypeOK ==
  /\ issued \subseteq StatementShape
  /\ log \in [Parties -> Seq(issued)]

Direct == INSTANCE DirectLineage WITH
            Anchors <- ChainAnchors,
            Contexts <- {a.context : a \in ChainAnchors},
            Commitments <- {a.tip : a \in ChainAnchors}
                             \cup UNION {Range(a.root) : a \in ChainAnchors}

(* Two disclosures that tell of one rotation differently. *)
Contradict(a, d, b, e) ==
  d.index = e.index /\ DisclosedRef(a, d) # DisclosedRef(b, e)

(***************************************************************************)
(* An archive cannot tell two parties different pasts unnoticed.  When     *)
(* parties that started at one place of its chain of statements can, on    *)
(* any statements they retained, be shown contradicting rotations of one   *)
(* index, two of the retained statements are reported as equivocation -    *)
(* although the disclosures verify, their predecessors may be forged and   *)
(* the anchors may differ in size.                                         *)
(***************************************************************************)
ContradictionIsAttributable ==
  \A p, q \in Parties :
    Direct!SameOrigin(p, q) /\ Direct!NoReattestation(p, q) =>
      \/ \A i \in DOMAIN log[p], j \in DOMAIN log[q] :
           LET a == log[p][i].anchor  b == log[q][j].anchor
           IN  \A d \in Disclosures[a], e \in Disclosures[b] : ~Contradict(a, d, b, e)
      \/ \E i \in DOMAIN log[p], j \in DOMAIN log[q] : Equivocates(log[p][i], log[q][j])

(***************************************************************************)
(* Selective disclosure tells what a full replay would.  For every         *)
(* statement of an honest archive each rotation can be shown, and whoever  *)
(* shows it, with whatever predecessor, the party derives exactly the      *)
(* reference a replay of the whole history derives; and every statement    *)
(* after the first can be followed from the one before.                    *)
(***************************************************************************)
HonestArchiveShowsReplay ==
  \A s \in issued : s.authority \in HonestAuthorities =>
    /\ \A i \in 1..s.anchor.size :
         LET shown == { DisclosedRef(s.anchor, d) :
                          d \in {d \in Disclosures[s.anchor] : d.index = i} }
             replayed == { Replay(h)[i] :
                             h \in {h \in Histories :
                                      RebuiltAnchor(h, s.anchor.context.contract) = s.anchor} }
         IN  shown = replayed /\ Cardinality(shown) = 1
    /\ s.prev # ZERO => VerifyAuthorized(s.prev, s)

(***************************************************************************)
(* What a party has been shown stays shown: after following the archive to *)
(* a larger anchor, each disclosure that verified against the old anchor   *)
(* verifies against the new one, even if the archive is faulty.            *)
(***************************************************************************)
ShownStaysShown ==
  \A p \in Parties : log[p] # <<>> /\ log'[p] # log[p] =>
    Disclosures[Last(log[p]).anchor] \subseteq Disclosures[Last(log'[p]).anchor]

DisclosuresStable == [][ShownStaysShown]_vars

(***************************************************************************)
(* Histories that were retained in full fork in the open.  When two        *)
(* parties, of one archive or of two, rely on anchors rebuilt from         *)
(* histories neither of which continues the other, disclosures both can    *)
(* obtain show where: at different seeds, or at one predecessor whose two  *)
(* successors detect_witness_policy_handoff_chain_fork reports.            *)
(***************************************************************************)
ForkCanBeShown ==
  \A p, q \in Parties : log[p] # <<>> /\ log[q] # <<>> =>
    LET a == Last(log[p]).anchor  b == Last(log[q]).anchor
    IN  /\ {a, b} \subseteq RebuiltAnchors
        /\ a.context = b.context
        /\ ~IsPrefix(a.root, b.root) /\ ~IsPrefix(b.root, a.root)
        => \E d \in Disclosures[a], e \in Disclosures[b] :
             /\ d.index = e.index
             /\ \/ d.index = 1 /\ d.package # e.package
                \/ /\ d.index > 1 /\ d.previous = e.previous
                   /\ Chain!ForkDetected(d.previous, d.package, e.package)

(***************************************************************************)
(* Archive statements obey the rules of lineage statements: the module is  *)
(* a second implementation of DirectLineage, over rotations.               *)
(***************************************************************************)
ImplementsDirectLineage == Direct!Spec
=============================================================================

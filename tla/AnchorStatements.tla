-------------------------- MODULE AnchorStatements --------------------------
(***************************************************************************)
(* Producer statements about lineage membership anchors                    *)
(* (ttrace/lineage_consistency.py and the verifier it hardens,             *)
(* ttrace/lineage_consistency_core.py).                                    *)
(*                                                                         *)
(* A producing authority attests anchors of an append-only lineage.  Every *)
(* statement carries a sequence number and the digest of the statement it  *)
(* follows.  Nothing in the library keeps an authority honest: it accepts  *)
(* any well-formed statement, verifies that one statement directly extends *)
(* another, and attributes a conflict when two statements are compared.    *)
(*                                                                         *)
(* SHA-256 over canonical JSON is taken to be collision free, so an object *)
(* stands for its digest: `prev' holds the preceding statement itself and  *)
(* `root' holds the sequence of cycle commitments under the Merkle root.   *)
(***************************************************************************)
EXTENDS Integers, FiniteSets, SequencesExt

CONSTANTS
  Authorities,       (* ids of the producing authorities                     *)
  HonestAuthorities, (* those that keep one append-only chain per context    *)
  Contexts,          (* trust domain, logical state, tree algorithm and      *)
                     (* contract digests, as one opaque value                *)
  Commitments,       (* cycle commitment digests                             *)
  Anchors,           (* the membership anchors an authority may attest       *)
  Provenances,       (* statement_provenance_sha256 values                   *)
  ZERO,              (* ZERO_SHA256, the digest that precedes the first one  *)
  MaxSequence,       (* bound on statement_sequence                          *)
  MaxIssued          (* bound on the number of statements                    *)

(***************************************************************************)
(* What validate_lineage_membership_anchor admits.  It ties an anchor to   *)
(* its accumulator but never to the leaves under its root: the claimed     *)
(* size and the current cycle commitment (tip) may disagree with the root  *)
(* until a consistency package binds them.                                 *)
(***************************************************************************)
AnchorFields(a) ==
  /\ a.context \in Contexts
  /\ a.size \in Nat \ {0}
  /\ a.root \in Seq(Commitments)
  /\ a.tip \in Commitments
  /\ a.epoch \in Nat

ASSUME ConstantsAssumption ==
  /\ HonestAuthorities \subseteq Authorities
  /\ \A a \in Anchors : AnchorFields(a)
  /\ MaxSequence \in Nat \ {0}
  /\ MaxIssued \in Nat \ {0}

VARIABLE issued      (* every authenticated statement made so far *)

-----------------------------------------------------------------------------
(* Pure part: one operator per verifier of the library. *)

(* validate_lineage_anchor_statement: the sequence rule. *)
ValidStatement(s) ==
  /\ s.sequence >= 1
  /\ (s.sequence = 1) <=> (s.prev = ZERO)

(* What the current-tip membership path and the canonical frontier of a    *)
(* consistency package bind about one endpoint.                            *)
BoundEndpoint(a) == a.size = Len(a.root) /\ a.tip = a.root[a.size]

(* Mutant: compares sizes, never the leaves. *)
AppendOnlyNoPrefix(old, new) ==
  /\ old.context = new.context
  /\ old.size < new.size
  /\ old.epoch < new.epoch
  /\ BoundEndpoint(old)
  /\ BoundEndpoint(new)

(* verify_lineage_root_consistency. *)
AppendOnly(old, new) ==
  /\ old.context = new.context
  /\ old.size < new.size
  /\ old.epoch < new.epoch
  /\ BoundEndpoint(old)
  /\ BoundEndpoint(new)
  /\ IsPrefix(old.root, new.root)

(* Mutant: forgets the predecessor digest. *)
VerifyAuthorizedAnyPredecessor(old, new) ==
  /\ AppendOnly(old.anchor, new.anchor)
  /\ old.authority = new.authority
  /\ new.sequence = old.sequence + 1

(* verify_authorized_lineage_root_consistency. *)
VerifyAuthorized(old, new) ==
  /\ AppendOnly(old.anchor, new.anchor)
  /\ old.authority = new.authority
  /\ new.sequence = old.sequence + 1
  /\ new.prev = old

(* The authority and membership context of a statement. *)
Lane(s) == <<s.authority, s.anchor.context>>

(* Mutant: compares statements of different membership contexts. *)
ComparableInAnyContext(a, b) == a.authority = b.authority

(* Only statements of one lane are ever compared for equivocation. *)
Comparable(a, b) == Lane(a) = Lane(b)

SameSequenceConflict(a, b) ==
  /\ a.sequence = b.sequence
  /\ a.prev = b.prev
  /\ a.anchor # b.anchor

SameSizeRootConflict(a, b) ==
  a.anchor.size = b.anchor.size /\ a.anchor.root # b.anchor.root

(* detect_lineage_anchor_equivocation: TRUE when a conflict mode is found. *)
Equivocates(a, b) ==
  /\ Comparable(a, b)
  /\ SameSequenceConflict(a, b) \/ SameSizeRootConflict(a, b)

(* Two anchors one append-only history can hold. *)
OneHistory(x, y) == x = y \/ AppendOnly(x, y) \/ AppendOnly(y, x)

-----------------------------------------------------------------------------
(* Producers. *)

(* build_lineage_anchor_statement: the statement it assembles. *)
Statement(authority, sequence, prev, provenance, anchor) ==
  [authority |-> authority, sequence |-> sequence, prev |-> prev,
   provenance |-> provenance, anchor |-> anchor]

(* build_lineage_anchor_statement revalidates what it built. *)
Issue(s) ==
  /\ ValidStatement(s)
  /\ s.sequence <= MaxSequence
  /\ s \notin issued
  /\ Cardinality(issued) < MaxIssued
  /\ issued' = issued \cup {s}

InLane(authority, context) == {s \in issued : Lane(s) = <<authority, context>>}

(* An honest authority attests the anchors its own cycle chain builds, in   *)
(* order, each statement bound to the one before.                          *)
IssueHonestly(authority, provenance, anchor) ==
  LET mine == InLane(authority, anchor.context)
  IN  /\ authority \in HonestAuthorities
      /\ BoundEndpoint(anchor)
      /\ \/ /\ mine = {}
            /\ Issue(Statement(authority, 1, ZERO, provenance, anchor))
         \/ \E last \in mine :
              /\ \A s \in mine : s.sequence <= last.sequence
              /\ AppendOnly(last.anchor, anchor)
              /\ Issue(Statement(authority, last.sequence + 1, last,
                                 provenance, anchor))

(* Any other authority attests whatever the builder accepts. *)
IssueFreely(authority, sequence, prev, provenance, anchor) ==
  /\ authority \in Authorities \ HonestAuthorities
  /\ Issue(Statement(authority, sequence, prev, provenance, anchor))

ProducerInit == issued = {}

ProducerNext ==
  \E authority \in Authorities, provenance \in Provenances, anchor \in Anchors :
    \/ IssueHonestly(authority, provenance, anchor)
    \/ \E sequence \in 1..MaxSequence, prev \in issued \cup {ZERO} :
         IssueFreely(authority, sequence, prev, provenance, anchor)

-----------------------------------------------------------------------------
(* The predecessor digest always names an earlier statement or ZERO. *)
StatementShape ==
  [authority : Authorities, sequence : Nat \ {0}, prev : issued \cup {ZERO},
   provenance : Provenances, anchor : Anchors]

IssuedTypeOK == issued \subseteq StatementShape

(***************************************************************************)
(* An authority that keeps one append-only chain per membership context is *)
(* never accused: no pair of its statements is reported as equivocation by *)
(* detect_lineage_anchor_equivocation, whatever other authorities attest   *)
(* and even when it serves several contexts at the same sequence numbers.  *)
(***************************************************************************)
HonestAuthorityNeverAccused ==
  \A a, b \in issued :
    a.authority \in HonestAuthorities => ~Equivocates(a, b)
=============================================================================

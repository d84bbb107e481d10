--------------------------- MODULE DirectLineage ---------------------------
(***************************************************************************)
(* Relying parties that follow a producer's statements directly, with      *)
(* verify_authorized_lineage_root_consistency and nothing else             *)
(* (ttrace/lineage_consistency.py).                                        *)
(*                                                                         *)
(* A party starts from any valid statement and then replaces its head only *)
(* by a statement verified against it.  The library is stateless: log[p]   *)
(* is the evidence p retains, which is what it can later compare with      *)
(* another party's through detect_lineage_anchor_equivocation.             *)
(***************************************************************************)
EXTENDS AnchorStatements

CONSTANTS
  Parties,   (* the relying parties                                          *)
  NoView     (* stands for the view of a party that has accepted nothing     *)

VARIABLE log   (* log[p]: the statements p has accepted, oldest first *)

vars == <<issued, log>>

-----------------------------------------------------------------------------
Trust(p, s) ==
  /\ log[p] = <<>>
  /\ ValidStatement(s)
  /\ log' = [log EXCEPT ![p] = <<s>>]
  /\ UNCHANGED issued

Follow(p, s) ==
  /\ log[p] # <<>>
  /\ ValidStatement(s)
  /\ VerifyAuthorized(Last(log[p]), s)
  /\ log' = [log EXCEPT ![p] = Append(@, s)]
  /\ UNCHANGED issued

Produce == ProducerNext /\ UNCHANGED log

Init == ProducerInit /\ log = [p \in Parties |-> <<>>]

Next ==
  \/ Produce
  \/ \E p \in Parties, s \in issued : Trust(p, s) \/ Follow(p, s)

Spec == Init /\ [][Next]_vars

-----------------------------------------------------------------------------
(* Every accepted statement was issued: a log is retained evidence. *)
TypeOK ==
  /\ IssuedTypeOK
  /\ log \in [Parties -> Seq(issued)]

(* The statement p currently relies on. *)
TipOf(p) == Last(log[p])

(* p and q started from statements no earlier evidence can separate. *)
SameOrigin(p, q) ==
  /\ log[p] # <<>> /\ log[q] # <<>>
  /\ Lane(log[p][1]) = Lane(log[q][1])
  /\ \/ log[p][1] = log[q][1]
     \/ log[p][1].sequence = 1 /\ log[q][1].sequence = 1

(* The authority attested no anchor twice at one place of its chain. *)
NoReattestation(p, q) ==
  \A i \in DOMAIN log[p], j \in DOMAIN log[q] :
    LET a == log[p][i]  b == log[q][j]
    IN  a.sequence = b.sequence /\ a.prev = b.prev /\ a.anchor = b.anchor => a = b

(***************************************************************************)
(* A fork is never deniable.  When two parties that started at the same    *)
(* place of an authority's chain end up holding anchors no single          *)
(* append-only history contains, some pair of the statements they retained *)
(* is reported by detect_lineage_anchor_equivocation, although the         *)
(* detector compares two statements only and the heads themselves may show *)
(* no conflict (different sizes, different predecessors).  The premise     *)
(* NoReattestation is needed: an authority that attests one anchor twice   *)
(* under two provenances can fork its chain past the detector.             *)
(***************************************************************************)
ForkIsAttributable ==
  \A p, q \in Parties :
    SameOrigin(p, q) /\ NoReattestation(p, q)
      => \/ OneHistory(TipOf(p).anchor, TipOf(q).anchor)
         \/ \E i \in DOMAIN log[p], j \in DOMAIN log[q] :
              Equivocates(log[p][i], log[q][j])

(***************************************************************************)
(* Whoever follows an honest authority reads one append-only history,      *)
(* beside whatever other authorities do: the logs of the parties that      *)
(* started from one of its statements implement the abstract LineageView.  *)
(***************************************************************************)
View == [p \in Parties |->
           IF log[p] = <<>> \/ TipOf(p).authority \notin HonestAuthorities THEN NoView
           ELSE [lane    |-> Lane(TipOf(p)),
                 history |-> TipOf(p).anchor.root]]

Lineage == INSTANCE LineageView WITH
             Lanes <- Authorities \X Contexts,
             Histories <- {a.root : a \in Anchors},
             view <- View

ImplementsLineageView == Lineage!Spec
=============================================================================

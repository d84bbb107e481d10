--------------------------- MODULE CausalLineage ---------------------------
(***************************************************************************)
(* Authorities fork a shared state and vote for its reconciliation; each   *)
(* party reconciles whichever evidence reaches it, again and again, and    *)
(* keeps its cycle records with the evidence behind them.                  *)
(*                                                                         *)
(* Deciding that a record of evidence is an authority's own is external to *)
(* the code.  An honest authority branches once from a state and votes     *)
(* once on it, for its own branch.  A faulty one signs anything at any     *)
(* time, so what it signs need not be recorded.                            *)
(***************************************************************************)
EXTENDS LineageCompaction

CONSTANTS
  Parties,         (* the parties that reconcile                             *)
  Authorities,     (* who may branch and vote                                *)
  Faulty,          (* the authorities that may sign anything                 *)
  Genesis,         (* the semantic state of epoch 0                          *)
  Offers,          (* the branches proposed: authority, branch id, semantic  *)
  Targets,         (* the semantic states proposed as reconciliations        *)
  Reconciliations, (* the logical reconciliation ids                         *)
  MaxCycles        (* bound on the cycles a party completes                  *)

VARIABLES
  evidence,  (* the branch evidence of honest authorities                    *)
  votes,     (* the votes of honest authorities                              *)
  records,   (* records[p]: the cycle records p keeps                        *)
  proofs     (* proofs[p]: per cycle, the evidence and votes p reconciled    *)

vars == <<evidence, votes, records, proofs>>

Honest == Authorities \ Faulty
GenesisRef == StateRef(0, Genesis)

(* The states somebody may build on. *)
Reached ==
  {GenesisRef} \cup UNION {{r.agreement.state : r \in {records[p][i] : i \in DOMAIN records[p]}}
                             : p \in Parties}

Offered(from) == {Evidence(o.authority, from, o.branch, o.semantic) : o \in Offers}
AllEvidence ==
  evidence \cup {e \in UNION {Offered(s) : s \in Reached} : e.authority \in Faulty}

AllVotes(common) ==
  votes \cup [authority : Faulty,
              tip : {BranchTip(common, e) : e \in Offered(common)},
              reconciliation : Reconciliations,
              target : Targets]

-----------------------------------------------------------------------------
(* An honest authority's evidence and vote. *)
Branch(e) ==
  /\ e.authority \in Honest
  /\ ValidBranch(e.from, e)
  /\ ~\E d \in evidence : d.authority = e.authority /\ d.from = e.from
  /\ evidence' = evidence \cup {e}
  /\ UNCHANGED <<votes, records, proofs>>

Cast(e, reconciliation, target) ==
  /\ e \in evidence
  /\ ~\E w \in votes : w.authority = e.authority /\ w.tip.from = e.from
  /\ target \notin {e.from.semantic, e.semantic}
  /\ votes' = votes \cup {Vote(e.authority, BranchTip(e.from, e), reconciliation, target)}
  /\ UNCHANGED <<evidence, records, proofs>>

Keep(p, common, agreement, acc, proof) ==
  /\ records' = [records EXCEPT ![p] =
       Append(@, CycleRecord(acc.cycles, common, agreement, acc))]
  /\ proofs' = [proofs EXCEPT ![p] = Append(@, proof)]
  /\ UNCHANGED <<evidence, votes>>

(* A party's first reconciliation becomes the seed. *)
Seed(p, b1, b2, v1, v2) ==
  LET agreement == Agreement(GenesisRef, b1, b2, v1)
  IN /\ records[p] = <<>>
     /\ Reconcilable(GenesisRef, b1, b2, v1, v2)
     /\ ValidAgreement(agreement, GenesisRef)
     /\ Keep(p, GenesisRef, agreement, SeedAccumulator(GenesisRef, agreement), {b1, b2, v1, v2})

Advance(p, common, b1, b2, v1, v2) ==
  /\ records[p] # <<>>
  /\ Len(records[p]) < MaxCycles
  /\ LET acc == records[p][Len(records[p])].accumulator
         agreement == Agreement(common, b1, b2, v1)
     IN /\ Advances(acc, common, b1, b2, v1, v2)
        /\ Keep(p, common, agreement, NextAccumulator(acc, common, agreement), {b1, b2, v1, v2})

AuthorityStep ==
  \/ \E s \in Reached : \E e \in Offered(s) : Branch(e)
  \/ \E e \in evidence, r \in Reconciliations, t \in Targets : Cast(e, r, t)

PartyStep(p) ==
  \E common \in Reached : \E b1, b2 \in AllEvidence :
    /\ Fork(common, b1, b2)
    /\ \E v1, v2 \in AllVotes(common) :
         \/ common = GenesisRef /\ Seed(p, b1, b2, v1, v2)
         \/ Advance(p, common, b1, b2, v1, v2)

Init ==
  /\ evidence = {} /\ votes = {}
  /\ records = [p \in Parties |-> <<>>]
  /\ proofs = [p \in Parties |-> <<>>]

Next == AuthorityStep \/ \E p \in Parties : PartyStep(p)

Spec == Init /\ [][Next]_vars

-----------------------------------------------------------------------------
(* The evidence is honest, and what a party keeps replays: its records pass *)
(* the verifier of _validate_cycle_chain against the accumulator it holds.  *)
TypeOK ==
  /\ \A e \in evidence : e.authority \in Honest /\ ValidBranch(e.from, e)
  /\ \A v \in votes : v.authority \in Honest
  /\ \A p \in Parties :
       /\ Len(proofs[p]) = Len(records[p])
       /\ records[p] # <<>> =>
            ValidCycleChain(records[p], records[p][Len(records[p])].accumulator)

AuthoritiesOf(p, i) == {x.authority : x \in proofs[p][i]}

(* p and q agree on the states of their first i cycles. *)
SameStates(p, q, i) ==
  \A k \in 1 .. i : records[p][k].agreement.state = records[q][k].agreement.state

(* Two parties reconcile cycle after cycle from different pairs of          *)
(* authorities.  As long as each of their cycles shares one honest          *)
(* authority, they pass through the same states: neither a faulty           *)
(* authority's second vote nor a vote for another branch can separate them. *)
SharedHonestySharesStates ==
  \A p, q \in Parties : \A i \in DOMAIN records[p] \cap DOMAIN records[q] :
    (\A k \in 1 .. i : AuthoritiesOf(p, k) \cap AuthoritiesOf(q, k) \cap Honest # {})
      => SameStates(p, q, i)

(* No evidence and no vote serves twice in one lineage: what was signed     *)
(* about one state never carries over to a later one.                       *)
EvidenceServesOnce ==
  \A p \in Parties : \A i, k \in DOMAIN proofs[p] :
    i # k => proofs[p][i] \cap proofs[p][k] = {}

(* A party that pins p's accumulator is shown q's first i records and p's   *)
(* later ones.  The replay accepts only p's own history, even where q       *)
(* reached the same states through other branches.                          *)
PinnedHistoryIsOwn ==
  \A p, q \in Parties : \A i \in DOMAIN records[p] \cap DOMAIN records[q] :
    LET n == Len(records[p])
        claim == SubSeq(records[q], 1, i) \o SubSeq(records[p], i + 1, n)
    IN ValidCycleChain(claim, records[p][n].accumulator) => claim = records[p]
=============================================================================

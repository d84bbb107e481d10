------------------------- MODULE CycleHistory_proofs -------------------------
(***************************************************************************)
(* Theorems about the history of cycles.                                   *)
(*                                                                         *)
(* The first part is about CausalLineage, for every set of authorities,    *)
(* however many of them are faulty, every set of parties and any number of *)
(* cycles.                                                                 *)
(*                                                                         *)
(* The second is about RootFollower: what a party concludes that follows   *)
(* roots over the commitments of those cycles.  It rests on the lemmas     *)
(* about the tree and adds those about the proofs that are built.          *)
(***************************************************************************)
EXTENDS CausalLineage, RootFollower, LineageTree_proofs

-----------------------------------------------------------------------------
(* The inductive invariant. *)

IsEvidence(b) == b = Evidence(b.authority, b.from, b.branch, b.semantic)

IsVote(v) == v = Vote(v.authority, v.tip, v.reconciliation, v.target)

(* An honest authority votes once on a state. *)
HonestVotesOnce ==
  /\ \A v \in votes : IsVote(v) /\ v.authority \in Honest
  /\ \A v, w \in votes : v.authority = w.authority /\ v.tip.from = w.tip.from => v = w

(* Honest evidence is what ValidBranch admits. *)
HonestBranches ==
  \A e \in evidence : IsEvidence(e) /\ e.authority \in Honest /\ ValidBranch(e.from, e)

(* The evidence and votes a state was reconciled from. *)
Reconciled(common, agreement, proof) ==
  \E b1, b2, v1, v2 :
    /\ proof = {b1, b2, v1, v2}
    /\ IsEvidence(b1) /\ IsEvidence(b2) /\ IsVote(v1) /\ IsVote(v2)
    /\ v1 \in votes \/ v1.authority \in Faulty
    /\ v2 \in votes \/ v2.authority \in Faulty
    /\ Reconcilable(common, b1, b2, v1, v2)
    /\ agreement = Agreement(common, b1, b2, v1)

CommonBefore(p, i) == IF i = 1 THEN GenesisRef ELSE records[p][i - 1].agreement.state

AccumulatorBefore(p, i) == IF i = 1 THEN NoAccumulator ELSE records[p][i - 1].accumulator

(* Every record a party keeps is a cycle of its own, reconciled from what   *)
(* it keeps beside the record, and follows the record before it.           *)
CyclesReconciled ==
  /\ records = [p \in Parties |-> records[p]]
  /\ proofs = [p \in Parties |-> proofs[p]]
  /\ \A p \in Parties :
       /\ records[p] \in Seq(Range(records[p]))
       /\ proofs[p] \in Seq(Range(proofs[p]))
       /\ Len(proofs[p]) = Len(records[p])
       /\ \A i \in DOMAIN records[p] :
            LET r == records[p][i]
            IN  /\ r = CycleRecord(i, r.common, r.agreement, r.accumulator)
                /\ r.common = CommonBefore(p, i)
                /\ r.common.epoch = 2 * (i - 1)
                /\ r.accumulator =
                     Accumulator(r.common, r.agreement, i, AccumulatorBefore(p, i))
                /\ Reconciled(r.common, r.agreement, proofs[p][i])

IInv == HonestBranches /\ HonestVotesOnce /\ CyclesReconciled

-----------------------------------------------------------------------------
(* Steps. *)

(* A sequence that grows by one element. *)
LEMMA SequenceGrows ==
  ASSUME NEW s, s \in Seq(Range(s)), NEW x
  PROVE  /\ Append(s, x) \in Seq(Range(Append(s, x)))
         /\ Len(s) \in Nat /\ DOMAIN s = 1..Len(s)
         /\ DOMAIN Append(s, x) = 1..Len(s) + 1
         /\ Append(s, x)[Len(s) + 1] = x
         /\ \A i \in DOMAIN s : Append(s, x)[i] = s[i]
         /\ Len(Append(s, x)) = Len(s) + 1
<1> DEFINE S == Range(s) \cup {x}
<1>1. s \in Seq(S) /\ x \in S
  OBVIOUS
<1> HIDE DEF S
<1>2. /\ Append(s, x) \in Seq(S)
      /\ Len(s) \in Nat /\ DOMAIN s = 1..Len(s)
      /\ Len(Append(s, x)) = Len(s) + 1
      /\ DOMAIN Append(s, x) = 1..Len(s) + 1
      /\ Append(s, x)[Len(s) + 1] = x
      /\ \A i \in 1..Len(s) : Append(s, x)[i] = s[i]
  BY <1>1
<1>3. Append(s, x) \in Seq(Range(Append(s, x)))
  BY <1>2 DEF Range
<1> QED BY <1>2, <1>3

(* What is offered has the form of evidence. *)
LEMMA OfferedEvidence ==
  ASSUME NEW s, NEW e \in Offered(s)
  PROVE  IsEvidence(e)
<1>1. PICK o \in Offers : e = Evidence(o.authority, s, o.branch, o.semantic)
  BY DEF Offered
<1>2. /\ e.authority = o.authority /\ e.from = s
      /\ e.branch = o.branch /\ e.semantic = o.semantic
  BY <1>1 DEF Evidence
<1> QED BY <1>1, <1>2 DEF IsEvidence

(* What authorities do keeps their part of the invariant. *)
LEMMA AuthorityKeeps ==
  ASSUME IInv, AuthorityStep
  PROVE  /\ HonestBranches' /\ HonestVotesOnce'
         /\ votes \subseteq votes' /\ records' = records /\ proofs' = proofs
<1>1. ASSUME NEW s, NEW e \in Offered(s), Branch(e)
      PROVE  /\ HonestBranches' /\ HonestVotesOnce'
             /\ votes \subseteq votes' /\ records' = records /\ proofs' = proofs
  <2>1. IsEvidence(e)
    BY OfferedEvidence
  <2> QED BY <1>1, <2>1 DEF Branch, IInv, HonestBranches, HonestVotesOnce
<1>2. ASSUME NEW e, NEW reconciliation, NEW target, Cast(e, reconciliation, target)
      PROVE  /\ HonestBranches' /\ HonestVotesOnce'
             /\ votes \subseteq votes' /\ records' = records /\ proofs' = proofs
  <2> DEFINE v == Vote(e.authority, BranchTip(e.from, e), reconciliation, target)
  <2>1. /\ v.authority = e.authority /\ v.tip.from = e.from /\ IsVote(v)
    BY DEF Vote, BranchTip, IsVote
  <2>2. /\ votes' = votes \cup {v} /\ evidence' = evidence /\ e \in evidence
        /\ records' = records /\ proofs' = proofs
        /\ ~\E w \in votes : w.authority = e.authority /\ w.tip.from = e.from
    BY <1>2 DEF Cast
  <2> HIDE DEF v
  <2>3. v.authority \in Honest
    BY <2>1, <2>2 DEF IInv, HonestBranches
  <2>4. HonestVotesOnce'
    BY <2>1, <2>2, <2>3 DEF IInv, HonestVotesOnce
  <2> QED BY <2>2, <2>4 DEF IInv, HonestBranches
<1> QED BY <1>1, <1>2 DEF AuthorityStep

(* What a party adds: the next cycle. *)
Added(p, r, proof) ==
  LET i == Len(records[p]) + 1
  IN  /\ records' = [records EXCEPT ![p] = Append(@, r)]
      /\ proofs' = [proofs EXCEPT ![p] = Append(@, proof)]
      /\ UNCHANGED <<evidence, votes>>
      /\ r = CycleRecord(i, r.common, r.agreement, r.accumulator)
      /\ r.common = CommonBefore(p, i)
      /\ r.common.epoch = 2 * (i - 1)
      /\ r.accumulator = Accumulator(r.common, r.agreement, i, AccumulatorBefore(p, i))
      /\ Reconciled(r.common, r.agreement, proof)

(* The fields of a record that Keep makes. *)
LEMMA RecordFields ==
  ASSUME NEW index, NEW common, NEW agreement, NEW acc, NEW r,
         r = CycleRecord(index, common, agreement, acc)
  PROVE  /\ r.index = index /\ r.common = common /\ r.agreement = agreement
         /\ r.accumulator = acc
         /\ r = CycleRecord(index, r.common, r.agreement, r.accumulator)
  BY DEF CycleRecord

(* The fields of the accumulator a folded cycle leaves. *)
LEMMA AccumulatorFields ==
  ASSUME NEW common, NEW agreement, NEW index, NEW previous, NEW acc,
         acc = Accumulator(common, agreement, index, previous)
  PROVE  /\ acc.cycles = index /\ acc.state = agreement.state
         /\ acc.agreement = agreement /\ acc.previous = previous
         /\ acc.commitment = CycleSummary(index, common, agreement)
  BY DEF Accumulator

(* A party's step appends one record and its proof, whichever step it is. *)
LEMMA PartyAdds ==
  ASSUME IInv, NEW p \in Parties, PartyStep(p)
  PROVE  \E r, proof : Added(p, r, proof)
<1>0. records[p] \in Seq(Range(records[p]))
  BY DEF IInv, CyclesReconciled
<1>1. PICK common \in Reached : \E b1, b2 \in AllEvidence :
        \E v1, v2 \in AllVotes(common) :
          \/ common = GenesisRef /\ Seed(p, b1, b2, v1, v2)
          \/ Advance(p, common, b1, b2, v1, v2)
  BY DEF PartyStep
<1>2. PICK b1 \in AllEvidence, b2 \in AllEvidence :
        \E v1, v2 \in AllVotes(common) :
          \/ common = GenesisRef /\ Seed(p, b1, b2, v1, v2)
          \/ Advance(p, common, b1, b2, v1, v2)
  BY <1>1
<1>3. PICK v1 \in AllVotes(common), v2 \in AllVotes(common) :
          \/ common = GenesisRef /\ Seed(p, b1, b2, v1, v2)
          \/ Advance(p, common, b1, b2, v1, v2)
  BY <1>2
<1> DEFINE agreement == Agreement(common, b1, b2, v1)
           proof == {b1, b2, v1, v2}
<1>4. ASSUME NEW v \in AllVotes(common) PROVE IsVote(v) /\ (v \in votes \/ v.authority \in Faulty)
  BY <1>4 DEF AllVotes, IInv, HonestVotesOnce, IsVote, Vote
<1>5. Reconcilable(common, b1, b2, v1, v2)
  BY <1>3 DEF Seed, Advance, Advances
<1>6. ASSUME NEW b \in AllEvidence PROVE IsEvidence(b)
  <2>1. b \in evidence \/ \E s \in Reached : b \in Offered(s)
    BY <1>6 DEF AllEvidence
  <2> QED BY <2>1, OfferedEvidence DEF IInv, HonestBranches
<1>7. Reconciled(common, agreement, proof)
  BY <1>4, <1>5, <1>6 DEF Reconciled
<1>8. CASE common = GenesisRef /\ Seed(p, b1, b2, v1, v2)
  <2> DEFINE acc == SeedAccumulator(common, agreement)
             r == CycleRecord(acc.cycles, common, agreement, acc)
  <2>1. /\ records[p] = <<>>
        /\ records' = [records EXCEPT ![p] = Append(@, r)]
        /\ proofs' = [proofs EXCEPT ![p] = Append(@, proof)]
        /\ UNCHANGED <<evidence, votes>>
    BY <1>8 DEF Seed, Keep
  <2>2. acc = Accumulator(common, agreement, 1, NoAccumulator) /\ acc.cycles = 1
    BY AccumulatorFields DEF SeedAccumulator
  <2>3. /\ Len(records[p]) + 1 = 1 /\ common = CommonBefore(p, 1)
        /\ AccumulatorBefore(p, 1) = NoAccumulator /\ common.epoch = 0
    BY <1>8, <2>1 DEF CommonBefore, AccumulatorBefore, GenesisRef, StateRef
  <2> HIDE DEF acc, agreement, proof
  <2>4. r.common = common /\ r.agreement = agreement /\ r.accumulator = acc
        /\ r = CycleRecord(1, r.common, r.agreement, r.accumulator)
    BY <2>2, RecordFields
  <2> HIDE DEF r
  <2>5. Added(p, r, proof)
    BY <1>7, <2>1, <2>2, <2>3, <2>4 DEF Added
  <2> QED BY <2>5
<1>9. CASE Advance(p, common, b1, b2, v1, v2)
  <2> DEFINE n == Len(records[p])
             last == records[p][n]
             acc == NextAccumulator(last.accumulator, common, agreement)
             r == CycleRecord(acc.cycles, common, agreement, acc)
  <2>1. /\ records[p] # <<>>
        /\ last.accumulator.state = common
        /\ records' = [records EXCEPT ![p] = Append(@, r)]
        /\ proofs' = [proofs EXCEPT ![p] = Append(@, proof)]
        /\ UNCHANGED <<evidence, votes>>
    BY <1>9 DEF Advance, Keep, Advances
  <2>2. n \in DOMAIN records[p] /\ n \in Nat /\ n >= 1
    BY <1>0, <2>1
  <2>3. /\ last.common.epoch = 2 * (n - 1)
        /\ last.accumulator = Accumulator(last.common, last.agreement, n, AccumulatorBefore(p, n))
        /\ Reconciled(last.common, last.agreement, proofs[p][n])
    BY <2>2 DEF IInv, CyclesReconciled
  <2>4. last.accumulator.cycles = n /\ last.accumulator.state = last.agreement.state
    BY <2>3, AccumulatorFields
  <2>5. common.epoch = 2 * n
    <3>1. last.agreement.state.epoch = last.common.epoch + 2
      BY <2>3 DEF Reconciled, Agreement, StateRef
    <3>2. common = last.agreement.state /\ last.common.epoch = 2 * (n - 1)
      BY <2>1, <2>3, <2>4
    <3> HIDE DEF last, n
    <3> QED BY <2>2, <3>1, <3>2
  <2>6. acc = Accumulator(common, agreement, n + 1, last.accumulator) /\ acc.cycles = n + 1
    BY <2>4, AccumulatorFields DEF NextAccumulator
  <2>7. CommonBefore(p, n + 1) = common /\ AccumulatorBefore(p, n + 1) = last.accumulator
        /\ 2 * ((n + 1) - 1) = 2 * n
    BY <2>1, <2>2, <2>4 DEF CommonBefore, AccumulatorBefore
  <2> HIDE DEF acc, agreement, proof
  <2>8. r.common = common /\ r.agreement = agreement /\ r.accumulator = acc
        /\ r = CycleRecord(n + 1, r.common, r.agreement, r.accumulator)
    BY <2>6, RecordFields
  <2> HIDE DEF r
  <2>9. Added(p, r, proof)
    BY <1>7, <2>1, <2>5, <2>6, <2>7, <2>8 DEF Added
  <2> QED BY <2>9
<1> QED BY <1>3, <1>8, <1>9

(* More votes leave every reconciliation standing. *)
LEMMA ReconciledStays ==
  ASSUME votes \subseteq votes', NEW common, NEW agreement, NEW proof,
         Reconciled(common, agreement, proof)
  PROVE  Reconciled(common, agreement, proof)'
  BY DEF Reconciled

(* Records are appended, each after the one it follows. *)
LEMMA CyclesStep ==
  ASSUME IInv, [Next]_vars
  PROVE  CyclesReconciled'
<1>1. CASE votes \subseteq votes' /\ records' = records /\ proofs' = proofs
  <2>1. ASSUME NEW p \in Parties, NEW i \in DOMAIN records[p]
        PROVE  Reconciled(records[p][i].common, records[p][i].agreement, proofs[p][i])'
    <3>1. PICK r, proof : r = records[p][i] /\ proof = proofs[p][i]
      OBVIOUS
    <3>2. Reconciled(r.common, r.agreement, proof)
      BY <2>1, <3>1 DEF IInv, CyclesReconciled
    <3>3. Reconciled(r.common, r.agreement, proof)'
      BY <1>1, <3>2, ReconciledStays
    <3> QED BY <1>1, <3>1, <3>3
  <2> QED BY <1>1, <2>1 DEF IInv, CyclesReconciled, CommonBefore, AccumulatorBefore
<1>2. ASSUME NEW p \in Parties, PartyStep(p)
      PROVE  CyclesReconciled'
  <2>1. PICK r, proof : Added(p, r, proof)
    BY <1>2, PartyAdds
  <2> DEFINE s == records[p]
             t == proofs[p]
             n == Len(s)
  <2>2. /\ records' = [records EXCEPT ![p] = Append(s, r)]
        /\ proofs' = [proofs EXCEPT ![p] = Append(t, proof)]
        /\ votes' = votes
    BY <2>1 DEF Added
  <2>3. /\ records = [q \in Parties |-> records[q]] /\ proofs = [q \in Parties |-> proofs[q]]
        /\ s \in Seq(Range(s)) /\ t \in Seq(Range(t)) /\ Len(t) = n
    BY DEF IInv, CyclesReconciled
  <2>4. /\ records'[p] = Append(s, r) /\ proofs'[p] = Append(t, proof)
        /\ records' = [q \in Parties |-> records'[q]] /\ proofs' = [q \in Parties |-> proofs'[q]]
        /\ \A q \in Parties : q # p => records'[q] = records[q] /\ proofs'[q] = proofs[q]
    BY <2>2, <2>3
  <2>5. /\ Append(s, r) \in Seq(Range(Append(s, r)))
        /\ n \in Nat /\ DOMAIN s = 1..n
        /\ DOMAIN Append(s, r) = 1..n + 1
        /\ Append(s, r)[n + 1] = r
        /\ \A i \in DOMAIN s : Append(s, r)[i] = s[i]
        /\ Len(Append(s, r)) = n + 1
    BY <2>3, SequenceGrows
  <2>6. /\ Append(t, proof) \in Seq(Range(Append(t, proof)))
        /\ Append(t, proof)[n + 1] = proof
        /\ \A i \in DOMAIN s : Append(t, proof)[i] = t[i]
        /\ Len(Append(t, proof)) = n + 1
    BY <2>3, <2>5, SequenceGrows
  <2>7. ASSUME NEW q \in Parties
        PROVE  /\ records'[q] \in Seq(Range(records'[q]))
               /\ proofs'[q] \in Seq(Range(proofs'[q]))
               /\ Len(proofs'[q]) = Len(records'[q])
    <3>1. CASE q = p
      BY <2>4, <2>5, <2>6, <3>1
    <3>2. CASE q # p
      BY <2>4, <3>2 DEF IInv, CyclesReconciled
    <3> QED BY <3>1, <3>2
  <2>8. ASSUME NEW q \in Parties, NEW i \in DOMAIN records'[q], NEW x, NEW y,
               x = records'[q][i], y = proofs'[q][i]
        PROVE  /\ x = CycleRecord(i, x.common, x.agreement, x.accumulator)
               /\ x.common = CommonBefore(q, i)'
               /\ x.common.epoch = 2 * (i - 1)
               /\ x.accumulator =
                    Accumulator(x.common, x.agreement, i, AccumulatorBefore(q, i)')
               /\ Reconciled(x.common, x.agreement, y)'
    <3>1. ASSUME i \in DOMAIN records[q], x = records[q][i], y = proofs[q][i],
                 i # 1 => records'[q][i - 1] = records[q][i - 1]
          PROVE  /\ x = CycleRecord(i, x.common, x.agreement, x.accumulator)
                 /\ x.common = CommonBefore(q, i)'
                 /\ x.common.epoch = 2 * (i - 1)
                 /\ x.accumulator =
                      Accumulator(x.common, x.agreement, i, AccumulatorBefore(q, i)')
                 /\ Reconciled(x.common, x.agreement, y)'
      <4>1. /\ x = CycleRecord(i, x.common, x.agreement, x.accumulator)
            /\ x.common = CommonBefore(q, i)
            /\ x.common.epoch = 2 * (i - 1)
            /\ x.accumulator = Accumulator(x.common, x.agreement, i, AccumulatorBefore(q, i))
            /\ Reconciled(x.common, x.agreement, y)
        BY <3>1 DEF IInv, CyclesReconciled
      <4>2. CommonBefore(q, i)' = CommonBefore(q, i)
            /\ AccumulatorBefore(q, i)' = AccumulatorBefore(q, i)
        BY <3>1 DEF CommonBefore, AccumulatorBefore
      <4>3. Reconciled(x.common, x.agreement, y)'
        BY <2>2, <4>1, ReconciledStays
      <4> QED BY <4>1, <4>2, <4>3
    <3>2. CASE q # p
      BY <2>4, <2>8, <3>1, <3>2
    <3>3. CASE q = p /\ i \in DOMAIN s
      <4>1. x = records[q][i] /\ y = proofs[q][i]
        BY <2>4, <2>5, <2>6, <2>8, <3>3
      <4>2. i # 1 => i - 1 \in DOMAIN s
        BY <2>5, <3>3
      <4>3. i # 1 => records'[q][i - 1] = records[q][i - 1]
        BY <2>4, <2>5, <3>3, <4>2
      <4> QED BY <3>1, <3>3, <4>1, <4>3
    <3>4. CASE q = p /\ i = n + 1
      <4>1. x = r /\ y = proof
        BY <2>4, <2>5, <2>6, <2>8, <3>4
      <4>2. /\ CommonBefore(q, i)' = CommonBefore(q, i)
            /\ AccumulatorBefore(q, i)' = AccumulatorBefore(q, i)
        <5>1. i # 1 => i - 1 \in DOMAIN s
          BY <2>5, <3>4
        <5>2. i # 1 => records'[q][i - 1] = records[q][i - 1]
          BY <2>4, <2>5, <3>4, <5>1
        <5> QED BY <5>2 DEF CommonBefore, AccumulatorBefore
      <4>3. /\ r = CycleRecord(n + 1, r.common, r.agreement, r.accumulator)
            /\ r.common = CommonBefore(p, n + 1)
            /\ r.common.epoch = 2 * ((n + 1) - 1)
            /\ r.accumulator =
                 Accumulator(r.common, r.agreement, n + 1, AccumulatorBefore(p, n + 1))
            /\ Reconciled(r.common, r.agreement, proof)
        BY <2>1 DEF Added
      <4>4. Reconciled(r.common, r.agreement, proof)'
        BY <2>2, <4>3, ReconciledStays
      <4>5. /\ x = CycleRecord(i, x.common, x.agreement, x.accumulator)
            /\ x.common = CommonBefore(q, i)
            /\ x.common.epoch = 2 * (i - 1)
            /\ x.accumulator =
                 Accumulator(x.common, x.agreement, i, AccumulatorBefore(q, i))
            /\ Reconciled(x.common, x.agreement, y)'
        BY <3>4, <4>1, <4>3, <4>4
      <4> QED BY <4>2, <4>5
    <3> QED BY <2>4, <2>5, <2>8, <3>2, <3>3, <3>4
  <2> QED BY <2>4, <2>7, <2>8 DEF CyclesReconciled
<1>3. CASE AuthorityStep
  BY <1>1, <1>3, AuthorityKeeps
<1>4. CASE UNCHANGED vars
  BY <1>1, <1>4 DEF vars
<1> QED BY <1>2, <1>3, <1>4 DEF Next

(***************************************************************************)
(* Honest authorities vote once on a state, and every cycle a party keeps  *)
(* was reconciled from the evidence and votes kept beside it.              *)
(***************************************************************************)
THEOREM CausalInvariant == Spec => []IInv
<1>1. Init => IInv
  <2> SUFFICES ASSUME Init PROVE IInv
    OBVIOUS
  <2>1. HonestBranches /\ HonestVotesOnce
    BY DEF Init, HonestBranches, HonestVotesOnce
  <2>2. \A p \in Parties : records[p] = <<>> /\ proofs[p] = <<>>
    BY DEF Init
  <2>3. CyclesReconciled
    BY <2>2 DEF Init, CyclesReconciled
  <2> QED BY <2>1, <2>3 DEF IInv
<1>2. IInv /\ [Next]_vars => IInv'
  <2> SUFFICES ASSUME IInv, [Next]_vars PROVE IInv'
    OBVIOUS
  <2>1. CyclesReconciled'
    BY CyclesStep
  <2>2. CASE AuthorityStep
    BY <2>1, <2>2, AuthorityKeeps DEF IInv
  <2>3. ASSUME NEW p \in Parties, PartyStep(p) PROVE IInv'
    <3>1. evidence' = evidence /\ votes' = votes
      BY <2>3, PartyAdds DEF Added
    <3> QED BY <2>1, <3>1 DEF IInv, HonestBranches, HonestVotesOnce
  <2>4. CASE UNCHANGED vars
    BY <2>1, <2>4 DEF vars, IInv, HonestBranches, HonestVotesOnce
  <2> QED BY <2>2, <2>3, <2>4 DEF Next
<1> QED BY <1>1, <1>2, PTL DEF Spec

-----------------------------------------------------------------------------
(* What a party keeps. *)

(* The parts of the invariant about one record. *)
LEMMA RecordKept ==
  ASSUME IInv, NEW p \in Parties, NEW i \in DOMAIN records[p]
  PROVE  /\ i \in 1..Len(records[p]) /\ Len(records[p]) \in Nat /\ i \in Nat
         /\ DOMAIN proofs[p] = DOMAIN records[p]
         /\ \A k \in 1..i : k \in DOMAIN records[p]
         /\ records[p][i].common = CommonBefore(p, i)
         /\ records[p][i].common.epoch = 2 * (i - 1)
         /\ Reconciled(records[p][i].common, records[p][i].agreement, proofs[p][i])
<1>1. /\ records[p] \in Seq(Range(records[p])) /\ proofs[p] \in Seq(Range(proofs[p]))
      /\ Len(proofs[p]) = Len(records[p])
  BY DEF IInv, CyclesReconciled
<1>2. /\ records[p][i].common = CommonBefore(p, i)
      /\ records[p][i].common.epoch = 2 * (i - 1)
      /\ Reconciled(records[p][i].common, records[p][i].agreement, proofs[p][i])
  BY DEF IInv, CyclesReconciled
<1> QED BY <1>1, <1>2

(* An honest authority behind a state voted for it, on the state before. *)
LEMMA HonestAuthorityVoted ==
  ASSUME IInv, NEW common, NEW agreement, NEW proof, Reconciled(common, agreement, proof),
         NEW a \in Honest, NEW x \in proof, x.authority = a
  PROVE  \E v \in votes : /\ v.authority = a /\ v.tip.from = common
                           /\ agreement.state = StateRef(common.epoch + 2, v.target)
<1>1. PICK b1, b2, v1, v2 :
        /\ proof = {b1, b2, v1, v2}
        /\ v1 \in votes \/ v1.authority \in Faulty
        /\ v2 \in votes \/ v2.authority \in Faulty
        /\ Reconcilable(common, b1, b2, v1, v2)
        /\ agreement = Agreement(common, b1, b2, v1)
  BY DEF Reconciled
<1>2. agreement.state = StateRef(common.epoch + 2, v1.target) /\ v1.target = v2.target
  BY <1>1 DEF Agreement, Reconcilable
<1>3. /\ v1.authority = b1.authority /\ v1.tip.from = common
      /\ v2.authority = b2.authority /\ v2.tip.from = common
  BY <1>1 DEF Reconcilable, Bound, BranchTip
<1>4. CASE v1.authority = a
  BY <1>1, <1>2, <1>3, <1>4 DEF Honest
<1>5. CASE v2.authority = a
  BY <1>1, <1>2, <1>3, <1>5 DEF Honest
<1> QED BY <1>1, <1>3, <1>4, <1>5

(***************************************************************************)
(* Parties whose cycles each share one honest authority pass through the   *)
(* same states, whatever the faulty authorities signed.                    *)
(***************************************************************************)
THEOREM SharedStatesAgree == Spec => []SharedHonestySharesStates
<1>1. IInv => SharedHonestySharesStates
  <2> SUFFICES ASSUME IInv, NEW p \in Parties, NEW q \in Parties,
                      NEW i \in DOMAIN records[p] \cap DOMAIN records[q],
                      \A k \in 1..i : AuthoritiesOf(p, k) \cap AuthoritiesOf(q, k) \cap Honest # {}
               PROVE  SameStates(p, q, i)
    BY DEF SharedHonestySharesStates
  <2> DEFINE apart == {k \in 1..i : records[p][k].agreement.state # records[q][k].agreement.state}
  <2>1. SUFFICES ASSUME apart # {} PROVE FALSE
    BY DEF SameStates
  <2>2. i \in Nat /\ \A k \in 1..i : k \in DOMAIN records[p] /\ k \in DOMAIN records[q]
    BY RecordKept
  <2>3. PICK k \in apart : \A j \in apart : k <= j
    <3>1. apart \subseteq Nat
      BY <2>2
    <3> HIDE DEF apart
    <3> QED BY <2>1, <3>1, LeastElement
  <2>4. k \in 1..i /\ k \in DOMAIN records[p] /\ k \in DOMAIN records[q]
    BY <2>2
  <2>5. PICK common : common = CommonBefore(p, k)
    OBVIOUS
  <2>6. CommonBefore(q, k) = common
    <3>1. CASE k = 1
      BY <2>5, <3>1 DEF CommonBefore
    <3>2. CASE k # 1
      <4>1. k - 1 \in 1..i /\ ~(k <= k - 1)
        BY <2>2, <2>4, <3>2
      <4>2. records[p][k - 1].agreement.state = records[q][k - 1].agreement.state
        BY <2>3, <4>1
      <4> QED BY <2>5, <3>2, <4>2 DEF CommonBefore
    <3> QED BY <3>1, <3>2
  <2>7. /\ Reconciled(common, records[p][k].agreement, proofs[p][k])
        /\ Reconciled(common, records[q][k].agreement, proofs[q][k])
    BY <2>4, <2>5, <2>6, RecordKept
  <2>8. PICK a \in Honest : a \in AuthoritiesOf(p, k) /\ a \in AuthoritiesOf(q, k)
    BY <2>4
  <2>9. PICK v \in votes : /\ v.authority = a /\ v.tip.from = common
                          /\ records[p][k].agreement.state = StateRef(common.epoch + 2, v.target)
    BY <2>7, <2>8, HonestAuthorityVoted DEF AuthoritiesOf
  <2>10. PICK w \in votes : /\ w.authority = a /\ w.tip.from = common
                           /\ records[q][k].agreement.state = StateRef(common.epoch + 2, w.target)
    BY <2>7, <2>8, HonestAuthorityVoted DEF AuthoritiesOf
  <2>11. v = w
    BY <2>9, <2>10 DEF IInv, HonestVotesOnce
  <2> QED BY <2>9, <2>10, <2>11
<1> QED BY <1>1, CausalInvariant, PTL

(* Evidence and votes are about the state they were reconciled from. *)
LEMMA ProofIsAboutCommon ==
  ASSUME NEW common, NEW agreement, NEW proof, Reconciled(common, agreement, proof),
         NEW x \in proof
  PROVE  \/ IsEvidence(x) /\ x.from = common
         \/ IsVote(x) /\ x.tip.from = common
<1>1. PICK b1, b2, v1, v2 :
        /\ proof = {b1, b2, v1, v2}
        /\ IsEvidence(b1) /\ IsEvidence(b2) /\ IsVote(v1) /\ IsVote(v2)
        /\ Reconcilable(common, b1, b2, v1, v2)
  BY DEF Reconciled
<1>2. b1.from = common /\ b2.from = common
  BY <1>1 DEF Reconcilable, Fork, ValidBranch
<1>3. v1.tip.from = common /\ v2.tip.from = common
  BY <1>1 DEF Reconcilable, Bound, BranchTip
<1> QED BY <1>1, <1>2, <1>3

(* No record is both. *)
LEMMA EvidenceIsNoVote ==
  ASSUME NEW x
  PROVE  ~(IsEvidence(x) /\ IsVote(x))
<1>1. IsEvidence(x) => "from" \in DOMAIN x
  BY DEF IsEvidence, Evidence
<1>2. IsVote(x) => DOMAIN x = {"authority", "tip", "reconciliation", "target"}
  BY DEF IsVote, Vote
<1> QED BY <1>1, <1>2

(* What a cycle was reconciled from is about a state of that cycle's epoch. *)
LEMMA ProofIsOfItsCycle ==
  ASSUME IInv, NEW p \in Parties, NEW i \in DOMAIN proofs[p], NEW x \in proofs[p][i]
  PROVE  \E c : /\ c.epoch = 2 * (i - 1) /\ i \in Nat
               /\ \/ IsEvidence(x) /\ x.from = c
                  \/ IsVote(x) /\ x.tip.from = c
<1>1. i \in DOMAIN records[p]
  BY DEF IInv, CyclesReconciled
<1>2. /\ i \in Nat /\ records[p][i].common.epoch = 2 * (i - 1)
      /\ Reconciled(records[p][i].common, records[p][i].agreement, proofs[p][i])
  BY <1>1, RecordKept
<1>3. \/ IsEvidence(x) /\ x.from = records[p][i].common
      \/ IsVote(x) /\ x.tip.from = records[p][i].common
  BY <1>2, ProofIsAboutCommon
<1> QED BY <1>2, <1>3

(***************************************************************************)
(* No evidence and no vote serves in two cycles of one lineage: the epoch  *)
(* of the state it is about tells the cycles apart.                        *)
(***************************************************************************)
THEOREM ProofsServeOnce == Spec => []EvidenceServesOnce
<1>1. IInv => EvidenceServesOnce
  <2> SUFFICES ASSUME IInv, NEW p \in Parties, NEW i \in DOMAIN proofs[p],
                      NEW k \in DOMAIN proofs[p], i # k,
                      NEW x \in proofs[p][i] \cap proofs[p][k]
               PROVE  FALSE
    BY DEF EvidenceServesOnce
  <2>1. PICK c1 : /\ c1.epoch = 2 * (i - 1) /\ i \in Nat
                  /\ \/ IsEvidence(x) /\ x.from = c1
                     \/ IsVote(x) /\ x.tip.from = c1
    BY ProofIsOfItsCycle
  <2>2. PICK c2 : /\ c2.epoch = 2 * (k - 1) /\ k \in Nat
                  /\ \/ IsEvidence(x) /\ x.from = c2
                     \/ IsVote(x) /\ x.tip.from = c2
    BY ProofIsOfItsCycle
  <2>3. c1 = c2
    BY <2>1, <2>2, EvidenceIsNoVote
  <2>4. 2 * (i - 1) # 2 * (k - 1)
    BY <2>1, <2>2
  <2> QED BY <2>1, <2>2, <2>3, <2>4
<1> QED BY <1>1, CausalInvariant, PTL

-----------------------------------------------------------------------------
(* Replaying what a party keeps. *)

(* A record is determined by its accumulator. *)
LEMMA AccumulatorDeterminesRecord ==
  ASSUME IInv, NEW p \in Parties, NEW q \in Parties,
         NEW k \in DOMAIN records[p] \cap DOMAIN records[q],
         records[p][k].accumulator = records[q][k].accumulator
  PROVE  records[p][k] = records[q][k]
<1>1. PICK r : r = records[p][k]
  OBVIOUS
<1>2. PICK s : s = records[q][k]
  OBVIOUS
<1>3. /\ r = CycleRecord(k, r.common, r.agreement, r.accumulator)
      /\ r.accumulator = Accumulator(r.common, r.agreement, k, AccumulatorBefore(p, k))
  BY <1>1 DEF IInv, CyclesReconciled
<1>4. /\ s = CycleRecord(k, s.common, s.agreement, s.accumulator)
      /\ s.accumulator = Accumulator(s.common, s.agreement, k, AccumulatorBefore(q, k))
  BY <1>2 DEF IInv, CyclesReconciled
<1>5. CycleSummary(k, r.common, r.agreement) = CycleSummary(k, s.common, s.agreement)
  <2>1. r.accumulator.commitment = CycleSummary(k, r.common, r.agreement)
    BY <1>3, AccumulatorFields
  <2>2. s.accumulator.commitment = CycleSummary(k, s.common, s.agreement)
    BY <1>4, AccumulatorFields
  <2> QED BY <1>1, <1>2, <2>1, <2>2
<1>6. r.common = s.common /\ r.agreement = s.agreement
  BY <1>5 DEF CycleSummary
<1>7. r = s
  BY <1>1, <1>2, <1>3, <1>4, <1>6
<1> QED BY <1>1, <1>2, <1>7

(* The beginning of one sequence followed by the end of another. *)
LEMMA SplicedSequence ==
  ASSUME NEW S, NEW s \in Seq(S), NEW t \in Seq(S),
         NEW i \in Nat, 1 <= i, i <= Len(s), i <= Len(t),
         NEW c, c = SubSeq(s, 1, i) \o SubSeq(t, i + 1, Len(t))
  PROVE  /\ c \in Seq(S) /\ Len(c) = Len(t)
         /\ \A k \in 1..Len(t) : c[k] = IF k <= i THEN s[k] ELSE t[k]
<1>1. /\ Len(s) \in Nat /\ Len(t) \in Nat
      /\ \A k \in 1..i : s[k] \in S
      /\ \A k \in i + 1..Len(t) : t[k] \in S
  OBVIOUS
<1>2. PICK x : x = SubSeq(s, 1, i)
  OBVIOUS
<1>3. PICK y : y = SubSeq(t, i + 1, Len(t))
  OBVIOUS
<1>4. x \in Seq(S) /\ Len(x) = i /\ \A k \in 1..i : x[k] = s[k]
  BY <1>1, <1>2, SubSeqProperties
<1>5. y \in Seq(S) /\ Len(y) = Len(t) - i /\ \A k \in 1..Len(t) - i : y[k] = t[i + k]
  <2>1. PICK m : m = i + 1 /\ m \in Int
    OBVIOUS
  <2>2. PICK n : n = Len(t) /\ n \in Int
    BY <1>1
  <2>3. \A k \in m..n : t[k] \in S
    BY <1>1, <2>1, <2>2
  <2>4. /\ y \in Seq(S)
        /\ Len(y) = IF m <= n THEN n - m + 1 ELSE 0
        /\ \A k \in 1..n - m + 1 : y[k] = t[m + k - 1]
    BY <1>3, <2>1, <2>2, <2>3, SubSeqProperties
  <2>5. n - m + 1 = Len(t) - i /\ (m <= n \/ n - m + 1 = 0)
    BY <1>1, <2>1, <2>2
  <2>6. \A k \in 1..Len(t) - i : m + k - 1 = i + k
    BY <1>1, <2>1
  <2> QED BY <2>4, <2>5, <2>6
<1>6. /\ c \in Seq(S) /\ Len(c) = i + (Len(t) - i)
      /\ \A k \in 1..i + (Len(t) - i) : c[k] = IF k <= i THEN x[k] ELSE y[k - i]
  BY <1>2, <1>3, <1>4, <1>5, ConcatProperties
<1>7. ASSUME NEW k \in 1..Len(t) PROVE c[k] = IF k <= i THEN s[k] ELSE t[k]
  <2>1. CASE k <= i
    BY <1>1, <1>4, <1>6, <2>1
  <2>2. CASE ~(k <= i)
    <3>1. k - i \in 1..Len(t) - i /\ i + (k - i) = k
      BY <1>1, <2>2
    <3> QED BY <1>1, <1>5, <1>6, <2>2, <3>1
  <2> QED BY <2>1, <2>2
<1> QED BY <1>1, <1>6, <1>7

(***************************************************************************)
(* A replay against the accumulator a party pinned accepts only the        *)
(* party's own records: each accumulator holds the one before it, and its  *)
(* commitment the states and the agreement of its cycle.                   *)
(***************************************************************************)
THEOREM PinnedHistoryReplays == Spec => []PinnedHistoryIsOwn
<1>1. IInv => PinnedHistoryIsOwn
  <2> SUFFICES ASSUME IInv, NEW p \in Parties, NEW q \in Parties,
                      NEW i \in DOMAIN records[p] \cap DOMAIN records[q],
                      NEW n, n = Len(records[p]),
                      NEW claim,
                      claim = SubSeq(records[q], 1, i) \o SubSeq(records[p], i + 1, n),
                      ValidCycleChain(claim, records[p][n].accumulator)
               PROVE  claim = records[p]
    BY DEF PinnedHistoryIsOwn
  <2> DEFINE S == Range(records[p]) \cup Range(records[q])
  <2>1. records[p] \in Seq(S) /\ records[q] \in Seq(S)
    <3>1. records[p] \in Seq(Range(records[p])) /\ records[q] \in Seq(Range(records[q]))
      BY DEF IInv, CyclesReconciled
    <3>2. PICK A, B : A = Range(records[p]) /\ B = Range(records[q])
      OBVIOUS
    <3>3. records[p] \in Seq(A) /\ records[q] \in Seq(B) /\ A \subseteq S /\ B \subseteq S
      BY <3>1, <3>2
    <3> HIDE DEF S
    <3> QED BY <3>3
  <2>2. n \in Nat /\ DOMAIN records[p] = 1..n /\ i \in 1..n /\ i <= Len(records[q])
        /\ DOMAIN records[q] = 1..Len(records[q]) /\ i \in Nat
    <3>1. /\ Len(records[p]) \in Nat /\ DOMAIN records[p] = 1..Len(records[p])
          /\ Len(records[q]) \in Nat /\ DOMAIN records[q] = 1..Len(records[q])
      <4> HIDE DEF S
      <4> QED BY <2>1
    <3>2. i \in DOMAIN records[p] /\ i \in DOMAIN records[q]
      OBVIOUS
    <3> QED BY <3>1, <3>2
  <2> HIDE DEF S
  <2>3. /\ claim \in Seq(S) /\ Len(claim) = n
        /\ \A k \in 1..n : claim[k] = IF k <= i THEN records[q][k] ELSE records[p][k]
    BY <2>1, <2>2, SplicedSequence
  <2> DEFINE other == {k \in 1..n : claim[k] # records[p][k]}
  <2>4. SUFFICES ASSUME other # {} PROVE FALSE
    BY <2>1, <2>3, SeqEqual
  <2>5. PICK k \in other : \A j \in other : j <= k
    <3>1. other \subseteq Nat /\ \A j \in other : j <= n
      BY <2>2
    <3> HIDE DEF other
    <3> QED BY <2>2, <2>4, <3>1, GreatestElement
  <2>6. k \in 1..n /\ k <= i /\ claim[k] = records[q][k] /\ k \in DOMAIN records[p] \cap DOMAIN records[q]
    BY <2>2, <2>3
  <2>7. claim[k].accumulator = records[p][k].accumulator
    <3>1. CASE k = n
      BY <2>3, <3>1 DEF ValidCycleChain
    <3>2. CASE k # n
      <4>1. k + 1 \in 2..n /\ k + 1 \in 1..n /\ (k + 1) - 1 = k /\ ~(k + 1 <= k) /\ k + 1 # 1
        BY <2>2, <2>6, <3>2
      <4>2. claim[k + 1] = records[p][k + 1]
        BY <2>5, <4>1
      <4>3. claim[k + 1].accumulator.previous = claim[k].accumulator
        <5>1. Continues(claim[(k + 1) - 1], claim[k + 1])
          BY <2>3, <4>1 DEF ValidCycleChain
        <5> QED BY <4>1, <5>1 DEF Continues
      <4>4. PICK r : r = records[p][k + 1]
        OBVIOUS
      <4>5. r.accumulator = Accumulator(r.common, r.agreement, k + 1, AccumulatorBefore(p, k + 1))
        BY <2>2, <4>1, <4>4 DEF IInv, CyclesReconciled
      <4>6. r.accumulator.previous = AccumulatorBefore(p, k + 1)
        BY <4>5, AccumulatorFields
      <4>7. AccumulatorBefore(p, k + 1) = records[p][k].accumulator
        BY <4>1 DEF AccumulatorBefore
      <4> QED BY <4>2, <4>3, <4>4, <4>6, <4>7
    <3> QED BY <3>1, <3>2
  <2>8. records[p][k] = records[q][k]
    BY <2>6, <2>7, AccumulatorDeterminesRecord
  <2> QED BY <2>5, <2>6, <2>8
<1> QED BY <1>1, CausalInvariant, PTL

(* An agreement that was reconciled passes the checks anybody can repeat. *)
LEMMA ReconciledIsValid ==
  ASSUME NEW common, NEW agreement, NEW proof, Reconciled(common, agreement, proof)
  PROVE  ValidAgreement(agreement, common)
<1>1. PICK b1, b2, v1, v2 :
        Reconcilable(common, b1, b2, v1, v2) /\ agreement = Agreement(common, b1, b2, v1)
  BY DEF Reconciled
<1>2. PICK t1, t2 : t1 = BranchTip(common, b1) /\ t2 = BranchTip(common, b2)
  OBVIOUS
<1>3. agreement.tips = {t1, t2} /\ agreement.state = StateRef(common.epoch + 2, v1.target)
  BY <1>1, <1>2 DEF Agreement
<1>4. /\ t1.from = common /\ t2.from = common
      /\ t1.branch = b1.branch /\ t2.branch = b2.branch
      /\ t1.state.epoch = common.epoch + 1 /\ t2.state.epoch = common.epoch + 1
      /\ t1.state.semantic = b1.semantic /\ t2.state.semantic = b2.semantic
  BY <1>2 DEF BranchTip, StateRef
<1>5. /\ b1.branch # b2.branch /\ b1.semantic # b2.semantic
      /\ b1.semantic # common.semantic /\ b2.semantic # common.semantic
      /\ v1.target \notin {common.semantic, b1.semantic, b2.semantic}
  BY <1>1 DEF Reconcilable, Fork, ValidBranch
<1>6. Cardinality({t1, t2}) = 2
  <2>1. t1 # t2
    BY <1>4, <1>5
  <2>2. IsFiniteSet({t1}) /\ Cardinality({t1}) = 1
    BY FS_Singleton
  <2>3. Cardinality({t1} \cup {t2}) = 2
    BY <2>1, <2>2, FS_AddElement
  <2>4. {t1} \cup {t2} = {t1, t2}
    OBVIOUS
  <2> QED BY <2>3, <2>4
<1>7. \A tip \in agreement.tips : ValidTip(tip, common)
  BY <1>3, <1>4, <1>5 DEF ValidTip
<1>8. \A tip1, tip2 \in agreement.tips :
        tip1 # tip2 => tip1.branch # tip2.branch /\ tip1.state.semantic # tip2.state.semantic
  BY <1>3, <1>4, <1>5
<1>9. /\ agreement.state.epoch = common.epoch + 2
      /\ agreement.state.semantic = v1.target
      /\ {tip.state.semantic : tip \in agreement.tips} = {b1.semantic, b2.semantic}
  BY <1>3, <1>4 DEF StateRef
<1> QED BY <1>3, <1>5, <1>6, <1>7, <1>8, <1>9 DEF ValidAgreement

(***************************************************************************)
(* What a party keeps replays against the accumulator it holds, as long as *)
(* the all-zero digest is not an accumulator's own.                        *)
(***************************************************************************)
THEOREM KeptHistoriesReplay ==
  ASSUME \A common, agreement, index, previous :
           Accumulator(common, agreement, index, previous) # NoAccumulator
  PROVE  Spec => []TypeOK
<1>1. IInv => TypeOK
  <2> SUFFICES ASSUME IInv PROVE TypeOK
    OBVIOUS
  <2>1. ASSUME NEW p \in Parties, NEW i \in DOMAIN records[p]
        PROVE  /\ SelfConsistent(records[p][i], i)
               /\ ValidAccumulator(records[p][i].accumulator)
               /\ records[p][i].accumulator.previous = AccumulatorBefore(p, i)
    <3>1. PICK r : r = records[p][i]
      OBVIOUS
    <3>2. PICK before : before = AccumulatorBefore(p, i)
      OBVIOUS
    <3>3. /\ r = CycleRecord(i, r.common, r.agreement, r.accumulator)
          /\ r.accumulator = Accumulator(r.common, r.agreement, i, before)
          /\ Reconciled(r.common, r.agreement, proofs[p][i])
      BY <3>1, <3>2 DEF IInv, CyclesReconciled
    <3>4. /\ r.accumulator.cycles = i /\ r.accumulator.state = r.agreement.state
          /\ r.accumulator.agreement = r.agreement /\ r.accumulator.previous = before
          /\ r.accumulator.commitment = CycleSummary(i, r.common, r.agreement)
      BY <3>3, AccumulatorFields
    <3>5. r.index = i
      BY <3>3, RecordFields
    <3>6. i \in 1..Len(records[p]) /\ Len(records[p]) \in Nat
      BY RecordKept
    <3>7. i = 1 <=> before = NoAccumulator
      <4>1. CASE i = 1
        BY <3>2, <4>1 DEF AccumulatorBefore
      <4>2. CASE i # 1
        <5>1. i - 1 \in DOMAIN records[p]
          BY <3>6, <4>2, RecordKept
        <5>2. PICK s : s = records[p][i - 1]
          OBVIOUS
        <5>3. s.accumulator =
                Accumulator(s.common, s.agreement, i - 1, AccumulatorBefore(p, i - 1))
          BY <5>1, <5>2 DEF IInv, CyclesReconciled
        <5> QED BY <3>2, <4>2, <5>2, <5>3 DEF AccumulatorBefore
      <4> QED BY <4>1, <4>2
    <3>8. ValidAccumulator(r.accumulator)
      BY <3>4, <3>6, <3>7 DEF ValidAccumulator
    <3>9. ValidAgreement(r.agreement, r.common)
      BY <3>3, ReconciledIsValid
    <3>10. SelfConsistent(r, i)
      BY <3>4, <3>5, <3>8, <3>9 DEF SelfConsistent, ActiveTip
    <3> QED BY <3>1, <3>2, <3>4, <3>8, <3>10
  <2>2. ASSUME NEW p \in Parties, records[p] # <<>>
        PROVE  ValidCycleChain(records[p], records[p][Len(records[p])].accumulator)
    <3>1. PICK n : n = Len(records[p])
      OBVIOUS
    <3>2. n \in Nat /\ DOMAIN records[p] = 1..n /\ n >= 1
      BY <2>2, <3>1 DEF IInv, CyclesReconciled
    <3>3. \A i \in 1..n : SelfConsistent(records[p][i], i)
      BY <2>1, <3>2
    <3>4. ASSUME NEW i \in 2..n PROVE Continues(records[p][i - 1], records[p][i])
      <4>1. i \in DOMAIN records[p] /\ i # 1
        BY <3>2
      <4>2. records[p][i].common = CommonBefore(p, i)
        BY <4>1, RecordKept
      <4>3. records[p][i].accumulator.previous = AccumulatorBefore(p, i)
        BY <2>1, <4>1
      <4> QED BY <4>1, <4>2, <4>3 DEF Continues, CommonBefore, AccumulatorBefore
    <3>5. records[p][1].accumulator.previous = NoAccumulator
      BY <2>1, <3>2 DEF AccumulatorBefore
    <3>6. ValidAccumulator(records[p][n].accumulator) /\ n = records[p][n].accumulator.cycles
      BY <2>1, <3>2 DEF SelfConsistent
    <3> QED BY <2>2, <3>1, <3>3, <3>4, <3>5, <3>6 DEF ValidCycleChain
  <2>3. \A p \in Parties : Len(proofs[p]) = Len(records[p])
    BY DEF IInv, CyclesReconciled
  <2> QED BY <2>2, <2>3 DEF TypeOK, IInv, HonestBranches, HonestVotesOnce
<1> QED BY <1>1, CausalInvariant, PTL

-----------------------------------------------------------------------------
(* The verdict on hashes is the verdict on lineages. *)
LEMMA ConsistentIsAppendOnly ==
  ASSUME NEW S, NEW cs \in Seq(S), NEW ds \in Seq(S), NEW old, NEW new, cs # <<>>, ds # <<>>,
         Extends(Leaves(cs), Leaves(ds), old, new),
         Reading(old, cs) = [context |-> old.context, size |-> old.size, root |-> cs,
                             tip |-> old.tip, epoch |-> old.epoch],
         Reading(new, ds) = [context |-> new.context, size |-> new.size, root |-> ds,
                             tip |-> new.tip, epoch |-> new.epoch]
  PROVE  Statements!AppendOnly(Reading(old, cs), Reading(new, ds))
<1> DEFINE r == Reading(old, cs)
           q == Reading(new, ds)
<1>1. /\ r.context = old.context /\ r.size = old.size /\ r.root = cs /\ r.tip = old.tip
      /\ r.epoch = old.epoch
      /\ q.context = new.context /\ q.size = new.size /\ q.root = ds /\ q.tip = new.tip
      /\ q.epoch = new.epoch
  OBVIOUS
<1> HIDE DEF r, q
<1>2. /\ Len(Leaves(cs)) = Len(cs) /\ Len(Leaves(ds)) = Len(ds)
      /\ \A i \in 1..Len(cs) : Leaves(cs)[i] = LeafHash(i, cs[i])
      /\ \A i \in 1..Len(ds) : Leaves(ds)[i] = LeafHash(i, ds[i])
      /\ Len(cs) \in Nat \ {0} /\ Len(ds) \in Nat \ {0}
  <2>1. Len(cs) \in Nat \ {0} /\ Len(ds) \in Nat \ {0}
    OBVIOUS
  <2> QED BY <2>1, LeavesOfLineage
<1>3. /\ old.size = Len(cs) /\ new.size = Len(ds)
      /\ Leaves(cs)[old.size] = LeafHash(old.size, old.tip)
      /\ Leaves(ds)[new.size] = LeafHash(new.size, new.tip)
      /\ old.context = new.context /\ old.size < new.size /\ old.epoch < new.epoch
      /\ \A i \in 1..Len(cs) : Leaves(cs)[i] = Leaves(ds)[i]
  BY <1>2 DEF Extends
<1>4. old.tip = cs[old.size] /\ new.tip = ds[new.size]
  <2>1. /\ LeafHash(old.size, cs[old.size]) = LeafHash(old.size, old.tip)
        /\ LeafHash(new.size, ds[new.size]) = LeafHash(new.size, new.tip)
    <3>1. old.size \in 1..Len(cs) /\ new.size \in 1..Len(ds)
      BY <1>2, <1>3
    <3> QED BY <1>2, <1>3, <3>1
  <2> QED BY <2>1, HashFacts
<1>5. IsPrefix(cs, ds)
  <2>1. ASSUME NEW i \in 1..Len(cs) PROVE cs[i] = ds[i]
    <3>1. i \in 1..Len(ds)
      BY <1>2, <1>3
    <3>2. LeafHash(i, cs[i]) = LeafHash(i, ds[i])
      BY <1>2, <1>3, <3>1
    <3> QED BY <3>2, HashFacts
  <2>2. Len(cs) <= Len(ds)
    BY <1>2, <1>3
  <2> QED BY <2>1, <2>2, PrefixPointwise
<1>6. Statements!AppendOnly(r, q)
  <2>1. Statements!IsPrefix(cs, ds)
    BY <1>5 DEF IsPrefix, Statements!IsPrefix
  <2> QED BY <1>1, <1>3, <1>4, <2>1 DEF Statements!AppendOnly, Statements!BoundEndpoint
<1> QED BY <1>6 DEF r, q

-----------------------------------------------------------------------------
(* The follower. *)

(* A lineage is a non-empty sequence of commitments. *)
LEMMA LineageIsSeq ==
  ASSUME NEW cs \in Lineages
  PROVE  cs \in Seq(Commitments \cup {Steady}) /\ cs # <<>> /\ Len(cs) \in Nat \ {0}
<1> DEFINE S == Commitments \cup {Steady}
<1>1. CASE cs \in {h \in SeqOf(Commitments, MaxLength) : h # <<>>}
  <2>1. PICK m \in 0..MaxLength : cs \in [1..m -> Commitments]
    BY <1>1 DEF SeqOf
  <2>2. m \in Nat
    BY BoundsAssumption
  <2>3. cs \in Seq(S)
    <3>1. cs \in [1..m -> S]
      BY <2>1
    <3> HIDE DEF S
    <3> QED BY <2>2, <3>1
  <2> QED BY <1>1, <2>3
<1>2. CASE cs \in {[i \in 1..size |-> Steady] : size \in 1..MaxSteady}
  <2>1. PICK size \in 1..MaxSteady : cs = [i \in 1..size |-> Steady]
    BY <1>2
  <2>2. size \in Nat \ {0}
    BY BoundsAssumption
  <2>3. cs \in [1..size -> S]
    BY <2>1
  <2>4. cs \in Seq(S) /\ Len(cs) = size
    <3> HIDE DEF S
    <3> QED BY <2>2, <2>3
  <2> QED BY <2>2, <2>4
<1> QED BY <1>1, <1>2 DEF Lineages

(* An anchor claims some size of at least one. *)
Claimed(anchor) ==
  /\ anchor.size \in Nat \ {0}
  /\ anchor = [context |-> anchor.context, size |-> anchor.size, root |-> anchor.root,
               tip |-> anchor.tip, epoch |-> anchor.epoch]

(* Every anchor a producer may publish claims a size of at least one. *)
LEMMA AnchorsClaim ==
  ASSUME NEW anchor \in Anchors
  PROVE  Claimed(anchor)
<1>1. PICK size \in Nat \ {0} : \E root, tip : anchor = Anchor(size, root, tip)
  <2>1. CASE anchor \in HonestAnchors
    BY <2>1, LineageIsSeq DEF HonestAnchors, AnchorOf
  <2>2. CASE anchor \notin HonestAnchors
    <3>1. \E size \in 1..MaxClaimed : \E root, tip : anchor = Anchor(size, root, tip)
      BY <2>2 DEF Anchors
    <3> QED BY <3>1, BoundsAssumption
  <2> QED BY <2>1, <2>2
<1>2. PICK root, tip : anchor = Anchor(size, root, tip)
  BY <1>1
<1> QED BY <1>2 DEF Anchor, Claimed

(* The blocks read out of a root are a list, one for each shape. *)
LEMMA BlocksListed ==
  ASSUME NEW root, NEW size, NEW shapes, Listed(shapes)
  PROVE  Listed(BlocksIn(root, size, shapes))
<1> DEFINE b == BlocksIn(root, size, shapes)
<1>1. PICK n \in Nat : n = Len(shapes) /\ DOMAIN shapes = 1..n
  BY DEF Listed
<1>2. b = [i \in 1..n |-> b[i]]
  BY <1>1 DEF BlocksIn
<1> HIDE DEF b
<1>3. Listed(b)
  BY <1>2, ListOfLength
<1> QED BY <1>3 DEF b

(* The step from an anchor to the next was proved. *)
Proved(old, new) ==
  \E proof : /\ Listed(proof.frontier) /\ Listed(proof.appended)
             /\ VerifyRootConsistency(old, new, proof)

(* A proof that the verifier accepts between two anchors makes them Proved. *)
LEMMA ProofsListed ==
  ASSUME NEW source, NEW old, NEW new, Claimed(old), Claimed(new), old.size < new.size,
         VerifyRootConsistency(old, new, Proof(source, old, new))
  PROVE  Proved(old, new)
<1>1. old.size \in Nat \ {0} /\ new.size \in Nat \ {0}
  BY DEF Claimed
<1>2. Listed(PrefixShapes(old.size)) /\ Listed(SuffixShapes(old.size, new.size))
  <2>1. Listed(PrefixShapes(old.size))
    BY <1>1, PrefixShapesFall DEF Falling
  <2>2. old.size \in Nat /\ new.size \in Nat /\ old.size <= new.size
    BY <1>1
  <2> QED BY <2>1, <2>2, SuffixShapesSized DEF Sized
<1>3. PICK proof : proof = Proof(source, old, new)
  OBVIOUS
<1>4. Listed(proof.frontier) /\ Listed(proof.appended)
  BY <1>2, <1>3, BlocksListed DEF Proof
<1> QED BY <1>3, <1>4 DEF Proved

(***************************************************************************)
(* Inductive: every anchor after the first was reached by a proof from the *)
(* one before it, and claims some size.                                    *)
(***************************************************************************)
TrailIsProved ==
  /\ trail \in Seq({anchor \in Anchors : Claimed(anchor)})
  /\ \A k \in 2..Len(trail) : Proved(trail[k - 1], trail[k])

(* A step of the follower keeps every pair of neighbours in its trail Proved. *)
LEMMA FollowingIsProved ==
  ASSUME TrailIsProved, [FollowNext]_trail
  PROVE  TrailIsProved'
<1> DEFINE A == {anchor \in Anchors : Claimed(anchor)}
<1>1. CASE UNCHANGED trail
  BY <1>1 DEF TrailIsProved
<1>2. ASSUME NEW anchor \in Anchors, Pin(anchor) PROVE TrailIsProved'
  <2>1. anchor \in A
    BY AnchorsClaim
  <2>2. trail' = <<anchor>>
    BY <1>2 DEF Pin
  <2> HIDE DEF A
  <2>3. trail' \in Seq(A) /\ Len(trail') = 1
    BY <2>1, <2>2
  <2> QED BY <2>3 DEF TrailIsProved, A
<1>3. ASSUME NEW new \in Anchors, Follow(new) PROVE TrailIsProved'
  <2>1. new \in A
    BY AnchorsClaim
  <2>2. /\ trail # <<>> /\ Last(trail).size < new.size /\ trail' = Append(trail, new)
        /\ \E source : VerifyRootConsistency(Last(trail), new, Proof(source, Last(trail), new))
    BY <1>3 DEF Follow
  <2>3. PICK n \in Nat \ {0} : n = Len(trail)
    BY <2>2 DEF TrailIsProved
  <2>4. trail \in Seq(A) /\ \A a \in A : Claimed(a)
    BY DEF TrailIsProved
  <2>5. Last(trail) = trail[n] /\ trail[n] \in A /\ Claimed(new)
    <3> HIDE DEF A
    <3> QED BY <2>1, <2>3, <2>4 DEF Last
  <2>6. Proved(trail[n], new)
    <3>1. Claimed(trail[n])
      BY <2>4, <2>5
    <3> QED BY <2>2, <2>5, <3>1, ProofsListed
  <2>7. /\ trail' \in Seq(A) /\ Len(trail') = n + 1 /\ trail'[n + 1] = new
        /\ \A i \in 1..n : trail'[i] = trail[i]
    <3> HIDE DEF A
    <3> QED BY <2>1, <2>2, <2>3, <2>4
  <2>8. ASSUME NEW k \in 2..(n + 1) PROVE Proved(trail'[k - 1], trail'[k])
    <3>1. CASE k = n + 1
      BY <2>3, <2>6, <2>7, <3>1
    <3>2. CASE k # n + 1
      <4>1. k \in 2..n /\ k - 1 \in 1..n /\ k \in 1..n
        BY <2>3, <3>2
      <4> QED BY <2>3, <2>7, <4>1 DEF TrailIsProved
    <3> QED BY <3>1, <3>2
  <2> QED BY <2>7, <2>8 DEF TrailIsProved
<1> QED BY <1>1, <1>2, <1>3 DEF FollowNext

(* A trail whose neighbours are Proved is accepted as append-only. *)
LEMMA ProvedIsAppendOnly ==
  ASSUME TrailIsProved
  PROVE  AcceptedIsAppendOnly
<1> SUFFICES ASSUME NEW k \in 2..Len(trail),
                    NEW cs \in Lineage(trail[k - 1]), NEW ds \in Lineage(trail[k])
             PROVE  Statements!AppendOnly(Reading(trail[k - 1], cs), Reading(trail[k], ds))
  BY DEF AcceptedIsAppendOnly
<1> DEFINE S == Commitments \cup {Steady}
           A == {anchor \in Anchors : Claimed(anchor)}
<1>1. PICK old, new : old = trail[k - 1] /\ new = trail[k]
  OBVIOUS
<1>2. Claimed(old) /\ Claimed(new) /\ Proved(old, new)
  <2>1. trail \in Seq(A)
    BY DEF TrailIsProved
  <2>2. k \in 1..Len(trail) /\ k - 1 \in 1..Len(trail)
    <3> HIDE DEF A
    <3> QED BY <2>1
  <2>3. old \in A /\ new \in A
    <3> HIDE DEF A
    <3> QED BY <1>1, <2>1, <2>2
  <2> QED BY <1>1, <2>3 DEF TrailIsProved
<1>3. /\ cs \in Lineages /\ ds \in Lineages
      /\ old.root = MerkleRoot(Leaves(cs)) /\ new.root = MerkleRoot(Leaves(ds))
  BY <1>1 DEF Lineage
<1>4. cs \in Seq(S) /\ ds \in Seq(S) /\ cs # <<>> /\ ds # <<>>
  BY <1>3, LineageIsSeq
<1> HIDE DEF S, A
<1>5. IsLeaves(Leaves(cs)) /\ IsLeaves(Leaves(ds))
  BY <1>4, LeavesOfLineage
<1>6. PICK proof : /\ Listed(proof.frontier) /\ Listed(proof.appended)
                   /\ VerifyRootConsistency(old, new, proof)
  BY <1>2 DEF Proved
<1>7. Extends(Leaves(cs), Leaves(ds), old, new)
  <2>1. old.size \in Nat \ {0} /\ new.size \in Nat \ {0}
    BY <1>2 DEF Claimed
  <2> QED BY <1>3, <1>5, <1>6, <2>1, ConsistencyIsSound
<1>8. /\ Reading(old, cs) = [context |-> old.context, size |-> old.size, root |-> cs,
                             tip |-> old.tip, epoch |-> old.epoch]
      /\ Reading(new, ds) = [context |-> new.context, size |-> new.size, root |-> ds,
                             tip |-> new.tip, epoch |-> new.epoch]
  BY <1>2 DEF Claimed, Reading
<1>9. Statements!AppendOnly(Reading(old, cs), Reading(new, ds))
  BY <1>4, <1>7, <1>8, ConsistentIsAppendOnly
<1> QED BY <1>1, <1>9

(***************************************************************************)
(* A party that follows roots with nothing but consistency proofs moves    *)
(* along append-only histories, for lineages, claimed sizes and crafted    *)
(* roots of any bound.                                                     *)
(***************************************************************************)
THEOREM FollowerAcceptsOnlyExtensions == FollowSpec => []AcceptedIsAppendOnly
<1>1. FollowInit => TrailIsProved
  BY DEF FollowInit, TrailIsProved
<1>2. TrailIsProved /\ [FollowNext]_trail => TrailIsProved'
  BY FollowingIsProved
<1>3. TrailIsProved => AcceptedIsAppendOnly
  BY ProvedIsAppendOnly
<1> QED BY <1>1, <1>2, <1>3, PTL DEF FollowSpec

-----------------------------------------------------------------------------
(* The shapes that are built, and those of what is appended. *)

(* Nothing but starts and sizes. *)
Bare(s) == Listed(s) /\ \A j \in 1..Len(s) : \E x, y : s[j] = [start |-> x, size |-> y]

(* A shape put in front of bare shapes leaves them bare. *)
LEMMA ConsBare ==
  ASSUME NEW t, NEW x, NEW y, Bare(t)
  PROVE  Bare(<<[start |-> x, size |-> y]>> \o t)
<1> DEFINE b == [start |-> x, size |-> y]
           s == <<b>> \o t
<1>1. /\ Listed(s) /\ Len(s) = Len(t) + 1 /\ s[1] = b /\ Len(t) \in Nat
      /\ \A i \in 1..Len(t) : s[i + 1] = t[i]
  <2>1. Listed(t)
    BY DEF Bare
  <2>2. Len(t) \in Nat
    BY <2>1 DEF Listed
  <2> HIDE DEF b
  <2> QED BY <2>1, <2>2, ConsFacts
<1> HIDE DEF s
<1>2. ASSUME NEW j \in 1..Len(s) PROVE \E u, v : s[j] = [start |-> u, size |-> v]
  <2>1. CASE j = 1
    BY <1>1, <2>1
  <2>2. CASE j # 1
    <3>1. PICK i \in 1..Len(t) : j = i + 1
      <4>1. j - 1 \in 1..Len(t) /\ j = (j - 1) + 1
        BY <1>1, <2>2
      <4> QED BY <4>1
    <3>2. s[j] = t[i]
      BY <1>1, <3>1
    <3> QED BY <3>2, Zenon DEF Bare
  <2> QED BY <2>1, <2>2
<1>3. Bare(s)
  BY <1>1, <1>2 DEF Bare
<1> QED BY <1>3 DEF s

(* No shapes at all are bare, too. *)
LEMMA EmptyBare == Bare(<<>>) /\ Len(<<>>) = 0
BY DEF Bare, Listed

(* The shapes of a prefix have a start and a size and no more. *)
LEMMA PrefixShapesBare ==
  ASSUME NEW size \in Nat
  PROVE  Bare(PrefixShapes(size))
<1>1. PICK g : /\ PrefixShapes(size) = g[size] /\ g[0] = <<>>
               /\ \A r \in 1..size :
                    g[r] = <<[start |-> size - r, size |-> LargestPower(r)]>>
                             \o g[r - LargestPower(r)]
  BY PrefixShapesUnfold
<1> DEFINE U == {r \in 0..size : ~Bare(g[r])}
<1>2. U = {}
  <2>1. SUFFICES ASSUME U # {} PROVE FALSE
    OBVIOUS
  <2>2. PICK r \in U : \A q \in U : r <= q
    <3>1. U \subseteq Nat
      OBVIOUS
    <3> HIDE DEF U
    <3> QED BY <2>1, <3>1, LeastElement
  <2>3. CASE r = 0
    <3>1. Bare(g[0])
      BY <1>1, EmptyBare
    <3> QED BY <2>2, <2>3, <3>1
  <2>4. CASE r # 0
    <3>1. r \in 1..size
      BY <2>4
    <3>2. PICK q : q = r - LargestPower(r) /\ q \in 0..size /\ q < r
      BY <3>1, LargestPowerFacts
    <3>3. Bare(g[q])
      <4>1. ~(r <= q)
        BY <3>1, <3>2
      <4>2. q \notin U
        <5> HIDE DEF U
        <5> QED BY <2>2, <4>1
      <4> QED BY <3>2, <4>2
    <3>4. g[r] = <<[start |-> size - r, size |-> LargestPower(r)]>> \o g[q]
      BY <1>1, <3>1, <3>2
    <3>5. Bare(g[r])
      BY <3>3, <3>4, ConsBare
    <3> QED BY <2>2, <3>5
  <2> QED BY <2>3, <2>4
<1>3. Bare(g[size])
  <2>1. size \in 0..size /\ size \notin U
    BY <1>2
  <2> QED BY <2>1
<1> QED BY <1>1, <1>3

(* Blocks from one position to another, each as large as the cursor allows. *)
Walks(s, from, to) ==
  /\ Bare(s)
  /\ from = to => Len(s) = 0
  /\ from # to => /\ Len(s) > 0 /\ s[1].start = from
                  /\ s[Len(s)].start + s[Len(s)].size = to
  /\ \A j \in 1..Len(s) : s[j].start \in from..(to - 1) /\ s[j].size = StepSize(s[j].start, to)
  /\ \A j \in 1..(Len(s) - 1) : s[j + 1].start = s[j].start + s[j].size

(* A walk from the end of the next block is, with that block, a walk from its
   start. *)
LEMMA WalkOn ==
  ASSUME NEW t, NEW from \in Nat, NEW to \in Nat, from < to,
         Walks(t, from + StepSize(from, to), to)
  PROVE  Walks(<<[start |-> from, size |-> StepSize(from, to)]>> \o t, from, to)
<1> DEFINE b == [start |-> from, size |-> StepSize(from, to)]
           s == <<b>> \o t
<1>1. PICK k \in 1..(to - from) : k = StepSize(from, to)
  BY StepSizeFits
<1>2. Walks(t, from + k, to) /\ from + k \in Nat /\ from + k <= to
  BY <1>1
<1>3. Bare(s) /\ Listed(t) /\ Len(t) \in Nat
  <2>1. Bare(t) /\ Listed(t)
    BY <1>2 DEF Walks, Bare
  <2> QED BY <2>1, ConsBare DEF Listed
<1>4. b.start = from /\ b.size = StepSize(from, to)
  OBVIOUS
<1> HIDE DEF b
<1>5. /\ Len(s) = Len(t) + 1 /\ s[1] = b
      /\ \A i \in 1..Len(t) : s[i + 1] = t[i]
  BY <1>3, ConsFacts
<1> HIDE DEF s
<1>6. ASSUME NEW j \in 1..Len(s)
      PROVE  s[j].start \in from..(to - 1) /\ s[j].size = StepSize(s[j].start, to)
  <2>1. CASE j = 1
    BY <1>4, <1>5, <2>1
  <2>2. CASE j # 1
    <3>1. PICK i \in 1..Len(t) : j = i + 1
      <4>1. j - 1 \in 1..Len(t) /\ j = (j - 1) + 1
        BY <1>3, <1>5, <2>2
      <4> QED BY <4>1
    <3>2. t[i].start \in (from + k)..(to - 1) /\ t[i].size = StepSize(t[i].start, to)
      BY <1>2 DEF Walks
    <3>3. t[i].start \in from..(to - 1)
      BY <1>2, <3>2
    <3> QED BY <1>5, <3>1, <3>2, <3>3
  <2> QED BY <2>1, <2>2
<1>7. ASSUME NEW j \in 1..(Len(s) - 1) PROVE s[j + 1].start = s[j].start + s[j].size
  <2>1. j \in 1..Len(t) /\ s[j + 1] = t[j]
    BY <1>3, <1>5
  <2>2. CASE j = 1
    <3>1. from + k # to
      BY <1>2, <1>3, <2>1 DEF Walks
    <3>2. t[1].start = from + k
      BY <1>2, <3>1 DEF Walks
    <3> QED BY <1>1, <1>4, <1>5, <2>1, <2>2, <3>2
  <2>3. CASE j # 1
    <3>1. PICK i \in 1..(Len(t) - 1) : j = i + 1
      <4>1. j - 1 \in 1..(Len(t) - 1) /\ j = (j - 1) + 1
        BY <1>3, <2>1, <2>3
      <4> QED BY <4>1
    <3>2. t[i + 1].start = t[i].start + t[i].size
      BY <1>2 DEF Walks
    <3>3. i \in 1..Len(t) /\ s[j] = t[i]
      BY <1>3, <1>5, <3>1
    <3> QED BY <2>1, <3>1, <3>2, <3>3
  <2> QED BY <2>2, <2>3
<1>8. s[Len(s)].start + s[Len(s)].size = to
  <2>1. CASE from + k = to
    <3>1. Len(s) = 1
      BY <1>2, <1>5, <2>1 DEF Walks
    <3> QED BY <1>1, <1>4, <1>5, <2>1, <3>1
  <2>2. CASE from + k # to
    <3>1. Len(t) > 0 /\ t[Len(t)].start + t[Len(t)].size = to
      BY <1>2, <2>2 DEF Walks
    <3>2. s[Len(t) + 1] = t[Len(t)]
      BY <1>3, <1>5, <3>1
    <3> QED BY <1>5, <3>1, <3>2
  <2> QED BY <2>1, <2>2
<1>9. Len(s) > 0 /\ s[1].start = from /\ from # to
  BY <1>3, <1>4, <1>5
<1>10. Walks(s, from, to)
  BY <1>3, <1>6, <1>7, <1>8, <1>9 DEF Walks
<1> QED BY <1>10 DEF s, b

(* The shapes of a suffix walk from its start to its end. *)
LEMMA SuffixShapesWalk ==
  ASSUME NEW start \in Nat, NEW end \in Nat, start <= end
  PROVE  Walks(SuffixShapes(start, end), start, end)
<1>1. PICK g : /\ SuffixShapes(start, end) = g[start] /\ g[end] = <<>>
               /\ \A cursor \in start..(end - 1) :
                    g[cursor] = <<[start |-> cursor, size |-> StepSize(cursor, end)]>>
                                  \o g[cursor + StepSize(cursor, end)]
  BY SuffixShapesUnfold
<1> DEFINE U == {r \in 0..(end - start) : ~Walks(g[end - r], end - r, end)}
<1>2. U = {}
  <2>1. SUFFICES ASSUME U # {} PROVE FALSE
    OBVIOUS
  <2>2. PICK r \in U : \A q \in U : r <= q
    <3>1. U \subseteq Nat
      OBVIOUS
    <3> HIDE DEF U
    <3> QED BY <2>1, <3>1, LeastElement
  <2>3. CASE r = 0
    <3>1. end - r = end
      BY <2>3
    <3>2. Walks(<<>>, end, end)
      BY EmptyBare DEF Walks
    <3>3. Walks(g[end - r], end - r, end)
      BY <1>1, <3>1, <3>2
    <3> QED BY <2>2, <3>3
  <2>4. CASE r # 0
    <3>1. PICK cursor \in start..(end - 1) : cursor = end - r
      BY <2>4
    <3>2. PICK s \in 1..(end - cursor) : s = StepSize(cursor, end)
      BY <3>1, StepSizeFits
    <3>3. PICK q \in 0..(end - start) : q = r - s /\ ~(r <= q) /\ end - q = cursor + s
      <4>1. r - s \in 0..(end - start) /\ ~(r <= r - s) /\ end - (r - s) = cursor + s
        BY <3>1
      <4> QED BY <4>1
    <3>4. Walks(g[cursor + s], cursor + s, end)
      <4>1. q \notin U
        <5> HIDE DEF U
        <5> QED BY <2>2, <3>3
      <4> QED BY <3>3, <4>1
    <3>5. g[cursor] = <<[start |-> cursor, size |-> StepSize(cursor, end)]>> \o g[cursor + s]
      BY <1>1, <3>2
    <3>6. cursor \in Nat /\ cursor < end
      BY <3>1
    <3>7. Walks(g[cursor], cursor, end)
      BY <3>2, <3>4, <3>5, <3>6, WalkOn
    <3> QED BY <2>2, <3>1, <3>7
  <2> QED BY <2>3, <2>4
<1>3. Walks(g[start], start, end)
  <2>1. end - start \in 0..(end - start) /\ end - (end - start) = start /\ end - start \notin U
    BY <1>2
  <2> QED BY <2>1
<1> QED BY <1>1, <1>3

(* A number without remainder is its quotient times the divisor. *)
LEMMA NoRemainder ==
  ASSUME NEW n \in Nat, NEW d \in Nat \ {0}, n % d = 0
  PROVE  n \div d \in Nat /\ n = (n \div d) * d
<1> DEFINE q == n \div d
           r == n % d
<1>1. q \in Nat /\ r \in 0..(d - 1) /\ n = d * q + r
  OBVIOUS
<1>2. r = 0
  OBVIOUS
<1> HIDE DEF q, r
<1>3. n = q * d
  BY <1>1, <1>2
<1> QED BY <1>1, <1>3 DEF q

(* The lowest bit of a number is a power of two that divides it. *)
LEMMA LowestBitDivides ==
  ASSUME NEW n \in Nat \ {0}
  PROVE  IsPower(LowestBit(n)) /\ Multiple(n, LowestBit(n))
<1> DEFINE P(k) == n % PowerOfTwo[k] = 0 /\ n % PowerOfTwo[k + 1] # 0
           T == {k \in 0..n : n % PowerOfTwo[k] = 0}
           c == CHOOSE k \in 0..n : P(k)
<1>1. \A k \in Nat : PowerOfTwo[k] \in Nat \ {0} /\ PowerOfTwo[k] > k /\ PowerOfTwo[0] = 1
  BY PowerFacts
<1>2. 0 \in T
  <2>1. n % 1 = 0 /\ 0 \in 0..n
    OBVIOUS
  <2> QED BY <1>1, <2>1
<1>3. PICK k \in T : \A l \in T : l <= k
  <2>1. T \subseteq Nat /\ \A l \in T : l <= n
    OBVIOUS
  <2> HIDE DEF T
  <2> QED BY <1>2, <2>1, GreatestElement
<1>4. k # n
  <2>1. n % PowerOfTwo[n] = n
    BY <1>1, SmallRemainder
  <2> QED BY <1>3, <2>1
<1>5. k \in 0..n /\ P(k)
  <2>1. k + 1 \in 0..n /\ k + 1 \notin T
    BY <1>3, <1>4
  <2> QED BY <1>3, <2>1
<1>6. c \in 0..n /\ P(c)
  <2> HIDE DEF P
  <2> QED BY <1>5
<1>7. LowestBit(n) = PowerOfTwo[c]
  BY DEF LowestBit
<1> HIDE DEF c
<1>8. PICK b \in Nat \ {0} : b = PowerOfTwo[c] /\ n % b = 0
  <2>1. c \in Nat /\ n % PowerOfTwo[c] = 0
    BY <1>6
  <2> QED BY <1>1, <2>1
<1>9. n \div b \in Nat /\ n = (n \div b) * b
  BY <1>8, NoRemainder
<1> QED BY <1>6, <1>7, <1>8, <1>9 DEF IsPower, Multiple

(* An odd multiple of x is no even one. *)
LEMMA OddMultiple ==
  \A m, q \in Nat, x \in Nat \ {0} : m * (2 * x) + x # q * (2 * x)
<1> SUFFICES ASSUME NEW m \in Nat, NEW q \in Nat, NEW x \in Nat \ {0}
             PROVE  m * (2 * x) + x # q * (2 * x)
  OBVIOUS
<1>1. PICK z \in Nat : z = 2 * x
  OBVIOUS
<1>2. CASE q <= m
  <2>1. PICK d \in Nat : m = q + d
    <3>1. m - q \in Nat /\ m = q + (m - q)
      BY <1>2
    <3> QED BY <3>1
  <2>2. m * z = q * z + d * z /\ q * z \in Nat /\ d * z \in Nat
    BY <2>1, Distribute
  <2>3. m * z + x # q * z
    BY <2>2
  <2> QED BY <1>1, <2>3
<1>3. CASE ~(q <= m)
  <2>1. PICK d \in Nat : q = (m + 1) + d
    <3>1. q - (m + 1) \in Nat /\ q = (m + 1) + (q - (m + 1))
      BY <1>3
    <3> QED BY <3>1
  <2>2. q * z = (m + 1) * z + d * z /\ d * z \in Nat
    BY <2>1, Distribute
  <2>3. (m + 1) * z = m * z + z /\ m * z \in Nat
    BY Successor
  <2>4. m * z + x # q * z
    BY <1>1, <2>2, <2>3
  <2> QED BY <1>1, <2>4
<1> QED BY <1>2, <1>3

(* The next block is not larger than the last of the frontier, and aligned. *)
LEMMA StepFitsFrontier ==
  ASSUME NEW f, NEW from, NEW to \in Nat, Frontier(f, from), from < to
  PROVE  /\ StepSize(from, to) \in 1..(to - from) /\ IsPower(StepSize(from, to))
         /\ StepSize(from, to) <= f[Len(f)].size /\ Multiple(from, StepSize(from, to))
<1>1. Len(f) \in 1..Len(f) /\ from \in Nat
  BY DEF Frontier
<1>2. PICK x \in Nat \ {0}, st \in Nat :
        /\ x = f[Len(f)].size /\ st = f[Len(f)].start /\ from = st + x
        /\ IsPower(x) /\ Multiple(st, 2 * x)
  <2>1. f[Len(f)].size \in Nat \ {0} /\ f[Len(f)].start \in Nat
    BY <1>1, FrontierEnds
  <2>2. Multiple(f[Len(f)].start, 2 * f[Len(f)].size)
    BY <1>1, FrontierAligned
  <2>3. from = f[Len(f)].start + f[Len(f)].size /\ IsPower(f[Len(f)].size)
    BY <1>1 DEF Frontier
  <2> QED BY <2>1, <2>2, <2>3
<1>3. from # 0 /\ from \in Nat \ {0}
  BY <1>2
<1>4. PICK b \in Nat \ {0} : b = LowestBit(from) /\ IsPower(b) /\ Multiple(from, b)
  BY <1>3, LowestBitDivides, PowerPositive
<1>5. b <= x
  <2>1. SUFFICES ASSUME x < b PROVE FALSE
    OBVIOUS
  <2>2. Multiple(b, 2 * x)
    <3>1. x <= b
      BY <2>1
    <3> QED BY <1>2, <1>4, <2>1, <3>1, PowersDivide
  <2>3. Multiple(from, 2 * x)
    <3>1. 2 * x \in Nat /\ b \in Nat
      OBVIOUS
    <3> QED BY <1>1, <1>4, <2>2, <3>1, MultipleFacts
  <2>4. PICK q \in Nat, m \in Nat : from = q * (2 * x) /\ st = m * (2 * x)
    BY <1>2, <2>3 DEF Multiple
  <2>5. m * (2 * x) + x = q * (2 * x)
    BY <1>2, <2>4
  <2> QED BY <2>5, OddMultiple
<1>6. PICK k : k = StepSize(from, to) /\ k \in 1..(to - from)
  BY <1>1, StepSizeFits
<1>7. IsPower(k) /\ k <= b
  <2>1. to - from \in Nat \ {0}
    BY <1>1
  <2>2. IsPower(LargestPower(to - from)) /\ LargestPower(to - from) \in Nat
    BY <2>1, LargestPowerFacts
  <2> QED BY <1>3, <1>4, <1>6, <2>2 DEF StepSize
<1>8. k <= x /\ k \in Nat
  BY <1>1, <1>5, <1>6, <1>7
<1>9. Multiple(from, k)
  <2>1. Multiple(b, k)
    BY <1>4, <1>7, PowersDivide
  <2> QED BY <1>1, <1>4, <1>8, <2>1, MultipleFacts
<1> QED BY <1>2, <1>6, <1>7, <1>8, <1>9
-----------------------------------------------------------------------------
(* What the builder makes of a history and of one that continues it. *)

(* The blocks built of shapes keep their places, each with its subtree's root. *)
LEMMA BlocksOfShapes ==
  ASSUME NEW leaves, NEW shapes, Listed(shapes)
  PROVE  /\ Listed(Blocks(leaves, shapes)) /\ Len(Blocks(leaves, shapes)) = Len(shapes)
         /\ \A j \in 1..Len(shapes) :
              /\ Blocks(leaves, shapes)[j].start = shapes[j].start
              /\ Blocks(leaves, shapes)[j].size = shapes[j].size
              /\ Blocks(leaves, shapes)[j].hash
                   = SubtreeRoot(leaves, shapes[j].start, shapes[j].size)
<1> DEFINE b == Blocks(leaves, shapes)
<1>1. PICK n \in Nat : n = Len(shapes) /\ DOMAIN shapes = 1..n
  <2>1. Len(shapes) \in Nat /\ DOMAIN shapes = 1..Len(shapes)
    BY Zenon DEF Listed
  <2> QED BY <2>1
<1>2. b = [j \in 1..n |-> [start |-> shapes[j].start, size |-> shapes[j].size,
                           hash  |-> SubtreeRoot(leaves, shapes[j].start, shapes[j].size)]]
  BY <1>1, Zenon DEF Blocks
<1> HIDE DEF b
<1>3. \A j \in 1..n : /\ b[j].start = shapes[j].start /\ b[j].size = shapes[j].size
                      /\ b[j].hash = SubtreeRoot(leaves, shapes[j].start, shapes[j].size)
  BY <1>2
<1>4. b = [j \in 1..n |-> b[j]]
  BY <1>2
<1>5. Listed(b) /\ Len(b) = n
  BY <1>4, ListOfLength
<1> QED BY <1>1, <1>3, <1>5 DEF b

(* Lists with the same shapes, of which one is bare. *)
LEMMA ShapesAlike ==
  ASSUME NEW f, NEW s, Listed(f), Bare(s), Len(f) = Len(s),
         \A j \in 1..Len(s) : f[j].start = s[j].start /\ f[j].size = s[j].size
  PROVE  Shapes(f) = s
<1>1. PICK n \in Nat : n = Len(s) /\ DOMAIN f = 1..n /\ s = [j \in 1..n |-> s[j]]
  <2>1. Listed(s)
    BY DEF Bare
  <2>2. Len(f) \in Nat /\ DOMAIN f = 1..Len(f)
    BY Zenon DEF Listed
  <2>3. s = [j \in 1..Len(s) |-> s[j]]
    BY <2>1, Zenon DEF Listed
  <2> QED BY <2>2, <2>3
<1>2. Shapes(f) = [j \in 1..n |-> [start |-> f[j].start, size |-> f[j].size]]
  BY <1>1, Zenon DEF Shapes
<1>3. ASSUME NEW j \in 1..n PROVE [start |-> f[j].start, size |-> f[j].size] = s[j]
  <2>1. PICK x, y : s[j] = [start |-> x, size |-> y]
    BY <1>1 DEF Bare
  <2>2. s[j].start = x /\ s[j].size = y
    BY <2>1
  <2>3. f[j].start = x /\ f[j].size = y
    BY <1>1, <2>2
  <2> QED BY <2>1, <2>3
<1>4. Shapes(f) = [j \in 1..n |-> s[j]]
  BY <1>2, <1>3, Zenon
<1> QED BY <1>1, <1>4, Zenon

(* The shapes of built blocks are those they were built of. *)
LEMMA ShapesOfBlocks ==
  ASSUME NEW leaves, NEW shapes, Bare(shapes)
  PROVE  Shapes(Blocks(leaves, shapes)) = shapes
<1>1. Listed(shapes)
  BY DEF Bare
<1> QED BY <1>1, BlocksOfShapes, ShapesAlike

(* The frontier of a tree. *)
LEMMA BuiltFrontier ==
  ASSUME NEW leaves, LeafSequence(leaves)
  PROVE  /\ Frontier(Blocks(leaves, PrefixShapes(Len(leaves))), Len(leaves))
         /\ AllPlaced(leaves, Blocks(leaves, PrefixShapes(Len(leaves))))
<1> DEFINE size == Len(leaves)
           s == PrefixShapes(size)
           f == Blocks(leaves, s)
<1>1. size \in Nat /\ Frontier(s, size)
  <2>1. size \in Nat \ {0} /\ size \in Nat
    BY DEF LeafSequence
  <2> QED BY <2>1, PrefixShapesFall, FallingIsFrontier
<1> HIDE DEF s, size
<1>2. PICK n \in Nat \ {0} : n = Len(s) /\ Listed(s)
  BY <1>1 DEF Frontier
<1>3. /\ Listed(f) /\ Len(f) = n
      /\ \A j \in 1..n : /\ f[j].start = s[j].start /\ f[j].size = s[j].size
                         /\ f[j].hash = SubtreeRoot(leaves, s[j].start, s[j].size)
  BY <1>2, BlocksOfShapes
<1> HIDE DEF f
<1>4. Frontier(f, size)
  <2>1. 1 \in 1..n /\ n \in 1..n /\ \A j \in 1..(n - 1) : j \in 1..n /\ j + 1 \in 1..n
    OBVIOUS
  <2>2. \A j \in 1..n : IsPower(f[j].size) /\ f[j].start \in Nat
    BY <1>1, <1>2, <1>3 DEF Frontier
  <2>3. \A j \in 1..(n - 1) : /\ f[j + 1].start = f[j].start + f[j].size
                              /\ 2 * f[j + 1].size <= f[j].size
    BY <1>1, <1>2, <1>3, <2>1 DEF Frontier
  <2>4. f[1].start = 0 /\ f[n].start + f[n].size = size
    BY <1>1, <1>2, <1>3, <2>1 DEF Frontier
  <2> QED BY <1>1, <1>3, <2>2, <2>3, <2>4 DEF Frontier
<1>5. AllPlaced(leaves, f)
  <2>1. ASSUME NEW j \in 1..n
        PROVE  /\ Placed(leaves, f[j].hash, f[j].size, f[j].start)
               /\ f[j].start + f[j].size <= Len(leaves)
    <3>1. PICK x \in Nat, st \in Nat :
            x = f[j].size /\ st = f[j].start /\ st + x <= Len(leaves) /\ Multiple(st, 2 * x)
      <4>1. f[j].size \in Nat /\ f[j].start \in Nat /\ f[j].start + f[j].size <= size
        BY <1>3, <1>4, FrontierEnds
      <4>2. Multiple(f[j].start, 2 * f[j].size)
        BY <1>3, <1>4, FrontierAligned
      <4> QED BY <4>1, <4>2 DEF size
    <3>2. Multiple(st, x)
      BY <3>1, TwiceMultiple
    <3>3. IsPower(x)
      BY <1>3, <1>4, <3>1 DEF Frontier
    <3>4. Placed(leaves, SubtreeRoot(leaves, st, x), x, st)
      BY <3>1, <3>2, <3>3, BlockPlaced
    <3> QED BY <1>3, <3>1, <3>4
  <2> QED BY <1>3, <2>1 DEF AllPlaced
<1> QED BY <1>4, <1>5 DEF f, s, size

(* Appending what is built between two sizes gives the frontier of the later. *)
LEMMA BuiltAppended ==
  ASSUME NEW leaves, NEW f, NEW from, NEW s, LeafSequence(leaves), Frontier(f, from),
         AllPlaced(leaves, f), from <= Len(leaves), Walks(s, from, Len(leaves))
  PROVE  /\ Frontier(AppendBlocks(f, Blocks(leaves, s)), Len(leaves))
         /\ AllPlaced(leaves, AppendBlocks(f, Blocks(leaves, s)))
<1> DEFINE b == Blocks(leaves, s)
<1>1. PICK n \in Nat, to \in Nat : n = Len(s) /\ to = Len(leaves) /\ Listed(s)
  BY DEF Walks, Bare, Listed, LeafSequence
<1>2. /\ Len(b) = n
      /\ \A j \in 1..n : /\ b[j].start = s[j].start /\ b[j].size = s[j].size
                         /\ b[j].hash = SubtreeRoot(leaves, s[j].start, s[j].size)
  BY <1>1, BlocksOfShapes
<1> HIDE DEF b
<1>3. PICK g : /\ AppendBlocks(f, b) = g[n] /\ g[0] = f
               /\ \A k \in 1..n : g[k] = AppendBlock(g[k - 1], b[k])
  BY <1>2, AppendBlocksUnfold
<1> DEFINE End(k) == IF k = 0 THEN from ELSE s[k].start + s[k].size
           T == {k \in 0..n : Frontier(g[k], End(k)) /\ AllPlaced(leaves, g[k])}
<1>4. 0 \in T
  BY <1>3
<1>5. ASSUME NEW k \in 1..n, k - 1 \in T PROVE k \in T
  <2>1. PICK c : c = End(k - 1) /\ Frontier(g[k - 1], c) /\ AllPlaced(leaves, g[k - 1])
    BY <1>5
  <2>2. s[k].start = c
    <3>1. CASE k = 1
      <4>1. from # to
        BY <1>1, <3>1 DEF Walks
      <4> QED BY <1>1, <2>1, <3>1, <4>1 DEF Walks
    <3>2. CASE k # 1
      <4>1. PICK l \in 1..(n - 1) : k = l + 1 /\ l = k - 1 /\ l # 0
        <5>1. k - 1 \in 1..(n - 1) /\ k = (k - 1) + 1 /\ k - 1 # 0
          BY <3>2
        <5> QED BY <5>1
      <4>2. s[l + 1].start = s[l].start + s[l].size
        BY <1>1 DEF Walks
      <4> QED BY <2>1, <4>1, <4>2
    <3> QED BY <3>1, <3>2
  <2>3. c \in Nat /\ c < to /\ s[k].size = StepSize(c, to)
    <3>1. s[k].start \in from..(to - 1) /\ s[k].size = StepSize(s[k].start, to)
      BY <1>1 DEF Walks
    <3>2. from \in Nat
      BY DEF Frontier
    <3> QED BY <1>1, <2>2, <3>1, <3>2
  <2>4. PICK x \in 1..(to - c) : x = StepSize(c, to) /\ IsPower(x) /\ Multiple(c, x)
                                 /\ x <= g[k - 1][Len(g[k - 1])].size
    BY <1>1, <2>1, <2>3, StepFitsFrontier
  <2>5. PICK e \in Nat : e = c + x /\ e <= Len(leaves) /\ End(k) = e
    <3>1. c + x \in Nat /\ c + x <= to
      BY <2>3, <2>4
    <3>2. End(k) = c + x
      BY <2>2, <2>3, <2>4
    <3> QED BY <1>1, <3>1, <3>2
  <2>6. b[k].start = c /\ b[k].size = x /\ b[k].hash = SubtreeRoot(leaves, c, x)
    BY <1>2, <2>2, <2>3, <2>4
  <2>7. Placed(leaves, SubtreeRoot(leaves, c, x), x, c)
    BY <2>4, <2>5, BlockPlaced
  <2>8. /\ Frontier(AppendBlock(g[k - 1], b[k]), e)
        /\ AllPlaced(leaves, AppendBlock(g[k - 1], b[k]))
    BY <2>1, <2>4, <2>5, <2>6, <2>7, AppendBlockFrontier
  <2> QED BY <1>3, <2>5, <2>8
<1>6. n \in T
  <2>1. \A k \in 0..n : k \in T
    <3> HIDE DEF T
    <3> QED BY <1>4, <1>5, InductionUpTo
  <2>2. n \in 0..n
    OBVIOUS
  <2> HIDE DEF T
  <2> QED BY <2>1, <2>2
<1>7. End(n) = to
  <2>1. CASE n = 0
    BY <1>1, <2>1 DEF Walks
  <2>2. CASE n # 0
    <3>1. from # to
      BY <1>1, <2>2 DEF Walks
    <3> QED BY <1>1, <2>2, <3>1 DEF Walks
  <2> QED BY <2>1, <2>2
<1> QED BY <1>1, <1>3, <1>6, <1>7 DEF b
-----------------------------------------------------------------------------
(***************************************************************************)
(* Completeness of root consistency: the package that is built for two     *)
(* lineages, one a proper extension of the other, verifies from the anchor *)
(* of the one to the anchor of the other, at every size                    *)
(* (build_lineage_root_consistency_package against                         *)
(* verify_lineage_root_consistency).                                       *)
(***************************************************************************)
THEOREM ConsistencyIsComplete ==
  ASSUME NEW S, NEW cs \in Seq(S), NEW ds \in Seq(S), cs # <<>>, IsStrictPrefix(cs, ds),
         NEW old, NEW new, old.context = new.context, old.epoch < new.epoch,
         old.size = Len(cs), old.tip = cs[Len(cs)], old.root = MerkleRoot(Leaves(cs)),
         new.size = Len(ds), new.tip = ds[Len(ds)], new.root = MerkleRoot(Leaves(ds))
  PROVE  VerifyRootConsistency(old, new, BuildProof(cs, ds))
<1> DEFINE a == Leaves(cs)
           b == Leaves(ds)
           proof == BuildProof(cs, ds)
<1>1. PICK m \in Nat \ {0}, n \in Nat \ {0} :
        /\ m = Len(cs) /\ n = Len(ds) /\ m < n /\ \A i \in 1..m : cs[i] = ds[i]
  <2>1. Len(cs) \in Nat \ {0} /\ Len(ds) \in Nat
    OBVIOUS
  <2>2. Len(cs) <= Len(ds) /\ \A i \in 1..Len(cs) : cs[i] = ds[i]
    BY PrefixPointwise DEF IsStrictPrefix
  <2>3. Len(cs) # Len(ds)
    <3>1. SUFFICES ASSUME Len(cs) = Len(ds) PROVE cs = ds
      BY DEF IsStrictPrefix
    <3> QED BY <2>2, <3>1
  <2> QED BY <2>1, <2>2, <2>3
<1>2. /\ LeafSequence(a) /\ LeafSequence(b) /\ Len(a) = m /\ Len(b) = n
      /\ \A p \in 1..Len(a) : a[p] = b[p]
  <2>1. ds # <<>>
    BY <1>1
  <2>2. /\ IsLeaves(a) /\ Len(a) = m /\ \A i \in 1..m : a[i] = LeafHash(i, cs[i])
    BY <1>1, LeavesOfLineage
  <2>3. /\ IsLeaves(b) /\ Len(b) = n /\ \A i \in 1..n : b[i] = LeafHash(i, ds[i])
    BY <1>1, <2>1, LeavesOfLineage
  <2>4. \A i \in 1..m : i \in 1..n
    BY <1>1
  <2> HIDE DEF a, b
  <2> QED BY <1>1, <2>2, <2>3, <2>4 DEF IsLeaves, LeafSequence
<1>3. /\ proof.frontier = Blocks(a, PrefixShapes(m))
      /\ proof.appended = Blocks(b, SuffixShapes(m, n))
      /\ proof.oldTipPath = MerklePath(a, m - 1)
      /\ proof.newTipPath = MerklePath(b, n - 1)
  BY <1>2 DEF BuildProof
<1>4. TipBound(old, proof.oldTipPath) /\ TipBound(new, proof.newTipPath)
  <2>1. m \in 1..Len(cs) /\ n \in 1..Len(ds)
    BY <1>1
  <2>2. VerifyDisclosure(old, m, cs[m], MerklePath(a, m - 1), proof.oldTipPath)
    <3>1. VerifyDisclosure(old, m, cs[m], MerklePath(a, m - 1), MerklePath(a, Len(cs) - 1))
      BY <2>1, DisclosureIsComplete
    <3> QED BY <1>1, <1>3, <3>1
  <2>3. VerifyDisclosure(new, n, ds[n], MerklePath(b, n - 1), proof.newTipPath)
    <3>1. VerifyDisclosure(new, n, ds[n], MerklePath(b, n - 1), MerklePath(b, Len(ds) - 1))
      BY <2>1, DisclosureIsComplete
    <3> QED BY <1>1, <1>3, <3>1
  <2> QED BY <2>2, <2>3 DEF VerifyDisclosure
<1>5. old.root = MerkleRoot(a) /\ new.root = MerkleRoot(b) /\ old.size = m /\ new.size = n
  BY <1>1
<1> HIDE DEF a, b, proof
<1> DEFINE f == Blocks(a, PrefixShapes(m))
           s == SuffixShapes(m, n)
           g == AppendBlocks(f, Blocks(b, s))
<1>6. Frontier(f, m) /\ AllPlaced(a, f)
  BY <1>2, BuiltFrontier
<1>7. Shapes(f) = PrefixShapes(m)
  BY PrefixShapesBare, ShapesOfBlocks
<1>8. RootOfFrontier(f) = MerkleRoot(a)
  BY <1>2, <1>6, PlacedRoots
<1>9. Walks(s, m, n) /\ Shapes(Blocks(b, s)) = s
  <2>1. Walks(s, m, n)
    BY <1>1, SuffixShapesWalk
  <2> HIDE DEF s
  <2> QED BY <2>1, ShapesOfBlocks DEF Walks
<1>10. AllPlaced(b, f)
  <2> HIDE DEF f
  <2>1. ASSUME NEW j \in 1..Len(f)
        PROVE  /\ Placed(b, f[j].hash, f[j].size, f[j].start)
               /\ f[j].start + f[j].size <= Len(b)
    <3>1. /\ Placed(a, f[j].hash, f[j].size, f[j].start) /\ f[j].start + f[j].size <= Len(a)
          /\ f[j].start \in Nat /\ f[j].size \in Nat
      BY <1>6, FrontierEnds DEF AllPlaced
    <3>2. Len(a) <= Len(b)
      BY <1>1, <1>2
    <3>3. Placed(b, f[j].hash, f[j].size, f[j].start)
      BY <1>2, <3>1, <3>2, GrownPlaced
    <3> QED BY <1>1, <1>2, <3>1, <3>3
  <2> QED BY <2>1 DEF AllPlaced
<1> HIDE DEF f, s
<1>11. Frontier(g, n) /\ AllPlaced(b, g)
  <2>1. m <= Len(b) /\ Walks(s, m, Len(b))
    BY <1>1, <1>2, <1>9
  <2>2. Frontier(g, Len(b)) /\ AllPlaced(b, g)
    BY <1>2, <1>6, <1>10, <2>1, BuiltAppended
  <2> QED BY <1>2, <2>2
<1> HIDE DEF g
<1>12. Shapes(g) = PrefixShapes(n)
  <2>1. Frontier(PrefixShapes(n), n) /\ Bare(PrefixShapes(n))
    BY PrefixShapesFall, FallingIsFrontier, PrefixShapesBare
  <2>2. /\ Len(g) = Len(PrefixShapes(n))
        /\ \A j \in 1..Len(g) : /\ g[j].start = PrefixShapes(n)[j].start
                                /\ g[j].size = PrefixShapes(n)[j].size
    BY <1>11, <2>1, FrontiersAlike
  <2> QED BY <1>11, <2>1, <2>2, ShapesAlike DEF Frontier
<1>13. RootOfFrontier(g) = MerkleRoot(b)
  BY <1>2, <1>11, PlacedRoots
<1>14. AppendBlocks(proof.frontier, proof.appended) = g
  BY <1>3 DEF f, s, g
<1> QED BY <1>1, <1>3, <1>4, <1>5, <1>7, <1>8, <1>9, <1>12, <1>13, <1>14
        DEF VerifyRootConsistency, f, s, proof

(***************************************************************************)
(* And the follower accepts everything AppendOnly admits, for lineages of  *)
(* any bound: from the anchor of a lineage, the package built for any of   *)
(* its extensions verifies.                                                *)
(***************************************************************************)
THEOREM ExtensionsAreAccepted == FollowSpec => []AppendOnlyIsAccepted
<1>1. AppendOnlyIsAccepted
  <2>1. SUFFICES ASSUME NEW anchor \in HonestAnchors, anchor = Last(trail),
                        NEW cs \in Lineage(anchor), NEW ds \in Lineages, IsStrictPrefix(cs, ds)
                 PROVE  VerifyRootConsistency(anchor, AnchorOf(ds), BuildProof(cs, ds))
    BY DEF AppendOnlyIsAccepted
  <2> DEFINE S == Commitments \cup {Steady}
             new == AnchorOf(ds)
  <2>2. PICK es \in Lineages : anchor = AnchorOf(es)
    BY DEF HonestAnchors
  <2>3. cs \in Lineages /\ MerkleRoot(Leaves(cs)) = anchor.root
    BY DEF Lineage
  <2>4. /\ cs \in Seq(S) /\ ds \in Seq(S) /\ es \in Seq(S)
        /\ cs # <<>> /\ ds # <<>> /\ es # <<>>
        /\ Len(cs) \in Nat \ {0} /\ Len(ds) \in Nat \ {0} /\ Len(es) \in Nat \ {0}
    BY <2>2, <2>3, LineageIsSeq
  <2>5. /\ anchor.context = Context /\ anchor.size = Len(es) /\ anchor.epoch = Len(es)
        /\ anchor.tip = es[Len(es)] /\ anchor.root = MerkleRoot(Leaves(es))
    BY <2>2 DEF AnchorOf, Anchor, Last
  <2>6. /\ new.context = Context /\ new.size = Len(ds) /\ new.epoch = Len(ds)
        /\ new.tip = ds[Len(ds)] /\ new.root = MerkleRoot(Leaves(ds))
    BY DEF AnchorOf, Anchor, Last
  <2> HIDE DEF S, new
  <2>7. anchor.size = Len(cs) /\ anchor.tip = cs[Len(cs)]
    <3>1. PICK index, path, tipPath : VerifyDisclosure(anchor, index, es[index], path, tipPath)
      <4>1. Len(es) \in 1..Len(es)
        BY <2>4
      <4> QED BY <2>4, <2>5, <4>1, DisclosureIsComplete
    <3>2. anchor.size \in Nat \ {0} /\ anchor.root = MerkleRoot(Leaves(cs))
      BY <2>3, <2>4, <2>5
    <3> QED BY <2>4, <3>1, <3>2, DisclosureIsSound
  <2>8. Len(cs) < Len(ds)
    <3>1. Len(cs) <= Len(ds) /\ \A i \in 1..Len(cs) : cs[i] = ds[i]
      BY <2>1, <2>4, PrefixPointwise DEF IsStrictPrefix
    <3>2. Len(cs) # Len(ds)
      BY <2>1, <2>4, <3>1 DEF IsStrictPrefix
    <3> QED BY <2>4, <3>1, <3>2
  <2>9. anchor.epoch < new.epoch
    BY <2>5, <2>6, <2>7, <2>8
  <2>10. VerifyRootConsistency(anchor, new, BuildProof(cs, ds))
    BY <2>1, <2>3, <2>4, <2>5, <2>6, <2>7, <2>9, ConsistencyIsComplete
  <2> QED BY <2>10 DEF new
<1> QED BY <1>1, PTL

-----------------------------------------------------------------------------
(* What the prover finds in a root. *)

DescendStep(p, g, k) ==
  IF k = 0 THEN p[1] ELSE Child(g[k - 1], (p[3] \div PowerOfTwo[p[2] - k]) % 2)
Descending == INSTANCE NaturalOrder_proofs WITH Recur <- DescendStep

Descends(g, hash, height, position) ==
  /\ Descend(hash, height, position) = g[height] /\ g[0] = hash
  /\ \A k \in 1..height : g[k] = Child(g[k - 1], Above(position, height - k) % 2)

(* Descending into a hash is a chain of children, one for each height. *)
LEMMA DescendUnfolds ==
  ASSUME NEW hash, NEW height, NEW position, height \in Nat
  PROVE  \E g : Descends(g, hash, height, position)
<1> DEFINE p == <<hash, height, position>>
           e(g, k) == IF k = 0 THEN hash
                      ELSE Child(g[k - 1], (position \div PowerOfTwo[height - k]) % 2)
           G == CHOOSE g : g = [k \in 0..height |-> e(g, k)]
<1>1. \A g, k : DescendStep(p, g, k) = e(g, k)
  <2>1. p[1] = hash /\ p[2] = height /\ p[3] = position
    OBVIOUS
  <2> HIDE DEF p
  <2> QED BY <2>1 DEF DescendStep
<1>2. Descending!LooksBelow(p, height)
  <2>1. \A k \in 0..height : \A g, h :
          (\A m \in 0..(k - 1) : g[m] = h[m]) => e(g, k) = e(h, k)
    OBVIOUS
  <2> HIDE DEF p, e
  <2> QED BY <1>1, <2>1 DEF Descending!LooksBelow
<1>3. \E g : g = [k \in 0..height |-> DescendStep(p, g, k)]
  BY <1>2, Descending!RecursionExists DEF Descending!Recursive
<1>4. \E g : g = [k \in 0..height |-> e(g, k)]
  <2> HIDE DEF p, e
  <2> QED BY <1>1, <1>3
<1>5. G = [k \in 0..height |-> e(G, k)]
  BY <1>4, Zenon
<1>6. Descend(hash, height, position) = G[height]
  BY Zenon DEF Descend
<1> HIDE DEF G
<1>7. \A k \in 0..height : G[k] = e(G, k)
  <2> HIDE DEF e
  <2> QED BY <1>5
<1>8. \A k \in 1..height : G[k] = Child(G[k - 1], Above(position, height - k) % 2)
  BY <1>7 DEF Above
<1>9. G[0] = hash
  BY <1>7
<1> QED BY <1>6, <1>8, <1>9 DEF Descends

(* The k-th ancestor of a parent is the ancestor one further up of the child. *)
LEMMA AboveHalf ==
  ASSUME NEW i \in Nat
  PROVE  \A k \in Nat : Above(i \div 2, k) = Above(i, k + 1)
<1> SUFFICES ASSUME NEW n \in Nat PROVE Above(i \div 2, n) = Above(i, n + 1)
  OBVIOUS
<1> DEFINE T == {k \in 0..n : Above(i \div 2, k) = Above(i, k + 1)}
<1>1. PICK j \in Nat : j = i \div 2
  OBVIOUS
<1>2. 0 \in T
  <2>1. Above(i, 0 + 1) = Above(i, 0) \div 2 /\ Above(i, 0) = i /\ Above(j, 0) = j
    BY AboveFacts
  <2> QED BY <1>1, <2>1
<1>3. ASSUME NEW k \in 1..n, k - 1 \in T PROVE k \in T
  <2>1. PICK h \in Nat : h = k - 1 /\ h + 1 = k
    OBVIOUS
  <2>2. Above(j, h) = Above(i, h + 1)
    BY <1>1, <1>3, <2>1
  <2>3. Above(j, h + 1) = Above(j, h) \div 2
    BY AboveFacts
  <2>4. Above(i, k + 1) = Above(i, k) \div 2
    BY AboveFacts
  <2> QED BY <1>1, <2>1, <2>2, <2>3, <2>4
<1>4. \A k \in 0..n : k \in T
  <2> HIDE DEF T
  <2> QED BY <1>2, <1>3, InductionUpTo
<1> QED BY <1>4

(* One level further down is the child on the side the position's parity names. *)
LEMMA DescendOn ==
  ASSUME NEW hash, NEW height \in Nat, NEW position \in Nat
  PROVE  /\ Descend(hash, 0, position) = hash
         /\ Descend(hash, height + 1, position)
              = Child(Descend(hash, height, position \div 2), position % 2)
<1>1. Descend(hash, 0, position) = hash
  <2>1. PICK g : Descends(g, hash, 0, position)
    BY DescendUnfolds
  <2> QED BY <2>1 DEF Descends
<1>2. PICK half \in Nat : half = position \div 2
  OBVIOUS
<1>3. PICK n \in Nat : n = height + 1
  OBVIOUS
<1>a. PICK g : Descends(g, hash, n, position)
  BY DescendUnfolds
<1>b. PICK f : Descends(f, hash, height, half)
  BY DescendUnfolds
<1>4. /\ Descend(hash, n, position) = g[n] /\ g[0] = hash
      /\ \A k \in 1..n : g[k] = Child(g[k - 1], Above(position, n - k) % 2)
  BY <1>a DEF Descends
<1>5. /\ Descend(hash, height, half) = f[height] /\ f[0] = hash
      /\ \A k \in 1..height : f[k] = Child(f[k - 1], Above(half, height - k) % 2)
  BY <1>b DEF Descends
<1> DEFINE T == {k \in 0..height : g[k] = f[k]}
<1>6. 0 \in T
  BY <1>4, <1>5
<1>7. ASSUME NEW k \in 1..height, k - 1 \in T PROVE k \in T
  <2>1. PICK d \in Nat : d = height - k /\ n - k = d + 1 /\ k \in 1..n
    <3>1. height - k \in Nat /\ n - k = (height - k) + 1 /\ k \in 1..n
      BY <1>3
    <3> QED BY <3>1
  <2>2. Above(half, d) = Above(position, d + 1)
    BY <1>2, AboveHalf
  <2>3. g[k] = Child(g[k - 1], Above(position, d + 1) % 2)
    BY <1>4, <2>1
  <2>4. f[k] = Child(f[k - 1], Above(half, d) % 2)
    BY <1>5, <2>1
  <2>5. g[k - 1] = f[k - 1]
    BY <1>7
  <2> QED BY <2>2, <2>3, <2>4, <2>5
<1>8. g[height] = f[height]
  <2>1. \A k \in 0..height : k \in T
    <3> HIDE DEF T
    <3> QED BY <1>6, <1>7, InductionUpTo
  <2> QED BY <2>1
<1>9. g[n] = Child(g[height], position % 2)
  <2>1. n \in 1..n /\ n - n = 0 /\ n - 1 = height
    BY <1>3
  <2>2. Above(position, 0) = position
    BY AboveFacts
  <2> QED BY <1>4, <2>1, <2>2
<1> QED BY <1>1, <1>2, <1>3, <1>4, <1>5, <1>8, <1>9

(* The children of a hash of two are these two. *)
LEMMA ChildFacts ==
  ASSUME NEW x, NEW y
  PROVE  Child(NodeHash(x, y), 0) = x /\ Child(NodeHash(x, y), 1) = y
BY DEF Child, IsNode, NodeHash

SiblingOf(position) == IF position % 2 = 1 THEN position - 1 ELSE position + 1

FoundEntry(root, height, index, k) ==
  [side |-> IF Above(index, k) % 2 = 1 THEN "left" ELSE "right",
   hash |-> Descend(root, height - k, SiblingOf(Above(index, k)))]

(* The path found in a root has an entry for each level below it. *)
LEMMA FoundEntries ==
  ASSUME NEW root, NEW index, NEW size \in Nat \ {0}, NEW n \in Nat, n = PathLength[size]
  PROVE  /\ Len(PathIn(root, index, size)) = n
         /\ \A k \in 1..n : PathIn(root, index, size)[k] = FoundEntry(root, n, index, k - 1)
<1> DEFINE path == PathIn(root, index, size)
<1>1. path = [k \in 1..n |-> FoundEntry(root, n, index, k - 1)]
  BY DEF PathIn, FoundEntry, SiblingOf, Above
<1>2. path = [k \in 1..n |-> path[k]]
  BY <1>1
<1>3. Len(path) = n
  <2> HIDE DEF path
  <2> QED BY <1>2, ListOfLength
<1> QED BY <1>1, <1>3

(* A sibling has the same parent and the other parity. *)
LEMMA SiblingFacts ==
  ASSUME NEW i \in Nat
  PROVE  /\ SiblingOf(i) \in Nat /\ SiblingOf(i) \div 2 = i \div 2
         /\ i % 2 = 1 => SiblingOf(i) % 2 = 0
         /\ i % 2 # 1 => SiblingOf(i) % 2 = 1 /\ i % 2 = 0
BY DEF SiblingOf

(* A node that is joined is found below its parent, and so is its sibling. *)
LEMMA FoundBelow ==
  ASSUME NEW size, NEW h, NEW i \in Nat, NEW x, NEW y, Joined(size, h, i, x, y)
  PROVE  /\ x = Child(y, i % 2)
         /\ \E other : /\ other = Child(y, SiblingOf(i) % 2)
                       /\ y = IF i % 2 = 1 THEN NodeHash(other, x) ELSE NodeHash(x, other)
                       /\ i % 2 = 1 \/ (i + 1) * PowerOfTwo[h] < size \/ other = x
<1>1. PICK other :
        /\ y = IF i % 2 = 1 THEN NodeHash(other, x) ELSE NodeHash(x, other)
        /\ i % 2 = 1 \/ (i + 1) * PowerOfTwo[h] < size \/ other = x
  BY Zenon DEF Joined
<1>2. x = Child(y, i % 2) /\ other = Child(y, SiblingOf(i) % 2)
  <2>1. CASE i % 2 = 1
    <3>1. SiblingOf(i) % 2 = 0
      BY <2>1, SiblingFacts
    <3> QED BY <1>1, <2>1, <3>1, ChildFacts
  <2>2. CASE i % 2 # 1
    <3>1. SiblingOf(i) % 2 = 1 /\ i % 2 = 0
      BY <2>2, SiblingFacts
    <3> QED BY <1>1, <2>2, <3>1, ChildFacts
  <2> QED BY <2>1, <2>2
<1> QED BY <1>1, <1>2, Zenon

(* A step is accepted when the side and the padding are as they should be. *)
LEMMA ClimbAccepts ==
  ASSUME NEW node, NEW entry, node.ok,
         entry.side = (IF node.index % 2 = 1 THEN "left" ELSE "right"),
         node.index % 2 = 1 \/ node.index + 1 < node.width \/ entry.hash = node.hash
  PROVE  Climb(node, entry).ok
BY DEF Climb

(* The prover finds every path that verifies.                              *)
LEMMA HangingVerifies ==
  ASSUME NEW anchor, anchor.size \in Nat \ {0}, NEW leaf, NEW index, index < anchor.size,
         Hangs(anchor, 0, index, leaf)
  PROVE  VerifyPath(leaf, index, anchor.size, PathIn(anchor.root, index, anchor.size),
                    anchor.root)
<1>1. PICK n \in Nat : n = PathLength[anchor.size] /\ anchor.size <= PowerOfTwo[n]
  BY SummitFacts
<1>2. PICK size \in Nat \ {0} : size = anchor.size
  OBVIOUS
<1>3. PICK root : root = anchor.root
  OBVIOUS
<1>4. PICK c, p : p[0] = index /\ c[0] = leaf /\ Lineal(anchor, 0, c, p)
  BY DEF Hangs
<1>5. index \in Nat
  BY DEF Hangs
<1>6. /\ p[n] = 0 /\ c[n] = root
      /\ \A q \in 0..(n - 1) : p[q + 1] = p[q] \div 2 /\ Joined(size, q, p[q], c[q], c[q + 1])
  BY <1>1, <1>2, <1>3, <1>4 DEF Lineal
<1>7. \A q \in 0..n : p[q] = Above(index, q) /\ p[q] \in Nat
  <2> DEFINE T == {q \in 0..n : p[q] = Above(index, q)}
  <2>1. 0 \in T
    <3>1. Above(index, 0) = index
      BY <1>5, AboveFacts
    <3> QED BY <1>4, <3>1
  <2>2. ASSUME NEW q \in 1..n, q - 1 \in T PROVE q \in T
    <3>1. PICK r \in Nat : r = q - 1 /\ r + 1 = q /\ r \in 0..(n - 1)
      OBVIOUS
    <3>2. Above(index, r + 1) = Above(index, r) \div 2
      BY <1>5, AboveFacts
    <3> QED BY <1>6, <2>2, <3>1, <3>2
  <2>3. \A q \in 0..n : q \in T
    <3> HIDE DEF T
    <3> QED BY <2>1, <2>2, InductionUpTo
  <2>4. \A q \in Nat : Above(index, q) \in Nat
    BY <1>5, AboveFacts
  <2>5. \A q \in 0..n : q \in Nat /\ p[q] = Above(index, q)
    BY <2>3
  <2> QED BY <2>4, <2>5
<1>8. \A q \in 0..n : Descend(root, n - q, p[q]) = c[q]
  <2> DEFINE T == {k \in 0..n : Descend(root, k, p[n - k]) = c[n - k]}
  <2>1. 0 \in T
    <3>1. n - 0 = n /\ p[n] \in Nat
      BY <1>6
    <3>2. Descend(root, 0, p[n]) = root
      BY <3>1, DescendOn
    <3> QED BY <1>6, <3>1, <3>2
  <2>2. ASSUME NEW k \in 1..n, k - 1 \in T PROVE k \in T
    <3>1. PICK q \in 0..(n - 1) : q = n - k /\ q + 1 = n - (k - 1) /\ q \in 0..n
      <4>1. n - k \in 0..(n - 1) /\ (n - k) + 1 = n - (k - 1) /\ n - k \in 0..n
        OBVIOUS
      <4> QED BY <4>1
    <3>2. PICK d \in Nat : d = k - 1 /\ d + 1 = k
      OBVIOUS
    <3>3. Descend(root, d, p[q + 1]) = c[q + 1]
      BY <2>2, <3>1, <3>2
    <3>4. Descend(root, d + 1, p[q]) = Child(Descend(root, d, p[q] \div 2), p[q] % 2)
      BY <1>7, <3>1, DescendOn
    <3>5. c[q] = Child(c[q + 1], p[q] % 2)
      BY <1>6, <1>7, <3>1, FoundBelow
    <3> QED BY <1>6, <3>1, <3>2, <3>3, <3>4, <3>5
  <2>3. \A k \in 0..n : k \in T
    <3> HIDE DEF T
    <3> QED BY <2>1, <2>2, InductionUpTo
  <2>4. ASSUME NEW q \in 0..n PROVE Descend(root, n - q, p[q]) = c[q]
    <3>1. n - q \in 0..n /\ n - (n - q) = q
      OBVIOUS
    <3> QED BY <2>3, <3>1
  <2> QED BY <2>4
<1>9. PICK path : path = PathIn(root, index, size)
  OBVIOUS
<1>10. /\ Len(path) = n
       /\ \A k \in 1..n : path[k] = FoundEntry(root, n, index, k - 1)
  BY <1>1, <1>2, <1>9, FoundEntries
<1>11. PICK node : /\ Climbs(node, leaf, index, size, path)
                   /\ Climbed(leaf, index, size, path) = node[n]
  BY <1>10, ClimbedUnfolds
<1>12. \A k \in 0..n : /\ node[k].width \in Nat
                       /\ \A i \in Nat : i < node[k].width <=> i * PowerOfTwo[k] < size
  BY <1>5, <1>10, <1>11, ClimbedWidths
<1> DEFINE Good(k) == node[k].ok /\ node[k].hash = c[k] /\ node[k].index = p[k]
           T == {k \in 0..n : Good(k)}
<1>13. 0 \in T
  BY <1>4, <1>11 DEF Climbs, StartNode
<1>14. ASSUME NEW k \in 1..n, k - 1 \in T PROVE k \in T
  <2>1. PICK q \in 0..(n - 1) : q = k - 1 /\ q + 1 = k /\ q \in 0..n
    OBVIOUS
  <2>2. node[q].ok /\ node[q].hash = c[q] /\ node[q].index = p[q]
    BY <1>14, <2>1
  <2>3. PICK i \in Nat : i = p[q] /\ i = Above(index, q)
    BY <1>7, <2>1
  <2>4. PICK other : /\ other = Child(c[k], SiblingOf(i) % 2)
                     /\ c[k] = IF i % 2 = 1 THEN NodeHash(other, c[q]) ELSE NodeHash(c[q], other)
                     /\ i % 2 = 1 \/ (i + 1) * PowerOfTwo[q] < size \/ other = c[q]
    <3>1. Joined(size, q, i, c[q], c[k])
      BY <1>6, <2>1, <2>3
    <3> QED BY <3>1, FoundBelow
  <2>5. PICK entry : entry = path[k]
    OBVIOUS
  <2>6. /\ entry.side = (IF i % 2 = 1 THEN "left" ELSE "right")
        /\ entry.hash = Descend(root, n - q, SiblingOf(i))
    BY <1>10, <2>1, <2>3, <2>5 DEF FoundEntry
  <2>7. entry.hash = other
    <3>1. PICK d \in Nat : n - q = d + 1 /\ d = n - k
      <4>1. n - k \in Nat /\ n - q = (n - k) + 1
        BY <2>1
      <4> QED BY <4>1
    <3>2. SiblingOf(i) \in Nat /\ SiblingOf(i) \div 2 = i \div 2
      BY SiblingFacts
    <3>3. Descend(root, d + 1, SiblingOf(i))
            = Child(Descend(root, d, SiblingOf(i) \div 2), SiblingOf(i) % 2)
      BY <3>2, DescendOn
    <3>4. p[k] = i \div 2
      BY <1>6, <2>1, <2>3
    <3>5. Descend(root, d, p[k]) = c[k]
      BY <1>8, <3>1
    <3> QED BY <2>4, <2>6, <3>1, <3>2, <3>3, <3>4, <3>5
  <2>8. (i + 1) * PowerOfTwo[q] < size => i + 1 < node[q].width
    <3>1. i + 1 \in Nat
      OBVIOUS
    <3> QED BY <1>12, <2>1, <3>1
  <2>9. node[k] = Climb(node[q], entry)
    BY <1>10, <1>11, <2>1, <2>5 DEF Climbs
  <2>10. node[k].ok
    <3>1. node[q].index % 2 = 1 \/ node[q].index + 1 < node[q].width
            \/ entry.hash = node[q].hash
      BY <2>2, <2>3, <2>4, <2>7, <2>8
    <3>2. entry.side = (IF node[q].index % 2 = 1 THEN "left" ELSE "right")
      BY <2>2, <2>3, <2>6
    <3> QED BY <2>2, <2>9, <3>1, <3>2, ClimbAccepts
  <2>11. node[k].index = node[q].index \div 2
         /\ node[k].hash = IF node[q].index % 2 = 1 THEN NodeHash(entry.hash, node[q].hash)
                           ELSE NodeHash(node[q].hash, entry.hash)
    BY <2>9, ClimbFields
  <2>12. node[k].index = p[k]
    BY <1>6, <2>1, <2>2, <2>11
  <2>13. node[k].hash = c[k]
    BY <2>2, <2>3, <2>4, <2>7, <2>11
  <2> QED BY <2>10, <2>12, <2>13
<1>15. Good(n)
  <2>1. \A k \in 0..n : k \in T
    <3> HIDE DEF T
    <3> QED BY <1>13, <1>14, InductionUpTo
  <2> QED BY <2>1
<1>16. node[n].width = 1
  <2>1. PICK w \in Nat : w = node[n].width
    BY <1>12
  <2>2. 0 < w <=> 0 * PowerOfTwo[n] < size
    BY <1>12, <2>1
  <2>3. 1 < w <=> 1 * PowerOfTwo[n] < size
    BY <1>12, <2>1
  <2>4. 0 * PowerOfTwo[n] = 0 /\ 1 * PowerOfTwo[n] = PowerOfTwo[n] /\ PowerOfTwo[n] \in Nat
    BY PowerFacts
  <2>5. 0 < w /\ ~(1 < w)
    BY <1>1, <1>2, <2>2, <2>3, <2>4
  <2> QED BY <2>1, <2>5
<1>17. index \in 0..(size - 1)
  BY <1>2, <1>5
<1>18. VerifyPath(leaf, index, size, path, root)
  BY <1>1, <1>2, <1>6, <1>10, <1>11, <1>15, <1>16, <1>17 DEF VerifyPath
<1> QED BY <1>2, <1>3, <1>9, <1>18

-----------------------------------------------------------------------------
(* What hangs below a block two roots share hangs on both.                 *)

(* If a parent ends within the size, so does the child, and an even one ends
   before it. *)
LEMMA BothBelow ==
  ASSUME NEW i \in Nat, NEW q \in Nat \ {0}, NEW n \in Nat, (i \div 2 + 1) * (2 * q) <= n
  PROVE  (i + 1) * q <= n /\ (i % 2 = 1 \/ (i + 1) * q < n)
<1>1. PICK j \in Nat, b \in 0..1 : i = 2 * j + b /\ j = i \div 2 /\ b = i % 2
  OBVIOUS
<1>2. (j + 1) * (2 * q) = (2 * j + 2) * q
  OBVIOUS
<1>3. CASE b = 1
  <2>1. (i + 1) * q = (2 * j + 2) * q
    BY <1>1, <1>3
  <2> QED BY <1>1, <1>2, <1>3, <2>1
<1>4. CASE b = 0
  <2>1. (2 * j + 2) * q = (2 * j + 1) * q + q
    OBVIOUS
  <2>2. PICK m \in Nat : m = (2 * j + 1) * q /\ m = (i + 1) * q
    BY <1>1, <1>4
  <2> QED BY <1>1, <1>2, <2>1, <2>2
<1> QED BY <1>1, <1>3, <1>4

(* What joins in one size joins in another where no padding is at stake. *)
LEMMA JoinedElsewhere ==
  ASSUME NEW a, NEW b, NEW h, NEW i, NEW x, NEW y, Joined(a, h, i, x, y),
         i % 2 = 1 \/ (i + 1) * PowerOfTwo[h] < b
  PROVE  Joined(b, h, i, x, y)
BY Zenon DEF Joined

(* From a block both roots have down to the leaves: below it every pair is  *)
(* complete, so the size an anchor claims decides nothing.                 *)
LEMMA SharedBlock ==
  ASSUME NEW old, NEW new, old.size \in Nat \ {0}, new.size \in Nat \ {0},
         NEW l \in Nat, NEW m \in Nat, NEW block,
         Hangs(old, l, m, block), Hangs(new, l, m, block),
         (m + 1) * PowerOfTwo[l] <= new.size
  PROVE  \A i \in Nat : Above(i, l) = m =>
           \A x : Hangs(old, 0, i, x) => Hangs(new, 0, i, x)
<1>1. PICK n \in Nat : n = new.size
  OBVIOUS
<1>2. PICK top \in Nat : top = PathLength[old.size] /\ l <= top
  BY SummitFacts DEF Hangs
<1> DEFINE Shared(h, d) ==
             \A i \in Nat : Above(i, d) = m =>
               /\ (i + 1) * PowerOfTwo[h] <= n
               /\ \A x : Hangs(old, h, i, x) => Hangs(new, h, i, x)
           T == {d \in 0..l : Shared(l - d, d)}
<1>3. 0 \in T
  <2>1. ASSUME NEW i \in Nat, Above(i, 0) = m
        PROVE  /\ (i + 1) * PowerOfTwo[l] <= n
               /\ \A x : Hangs(old, l, i, x) => Hangs(new, l, i, x)
    <3>1. i = m
      BY <2>1, AboveFacts
    <3>2. \A x : Hangs(old, l, m, x) => x = block
      BY HangsAlone
    <3> QED BY <1>1, <3>1, <3>2
  <2>2. l - 0 = l
    OBVIOUS
  <2>3. Shared(l, 0)
    BY <2>1
  <2> HIDE DEF Shared
  <2> QED BY <2>2, <2>3
<1>4. ASSUME NEW d \in 1..l, d - 1 \in T PROVE d \in T
  <2>1. PICK h \in Nat, e \in Nat : /\ h = l - d /\ e = d - 1 /\ h + 1 = l - e /\ d = e + 1
                                    /\ h < top /\ e \in 0..l
    <3>1. l - d \in Nat /\ d - 1 \in Nat /\ (l - d) + 1 = l - (d - 1) /\ d = (d - 1) + 1
          /\ l - d < top /\ d - 1 \in 0..l
      BY <1>2
    <3> QED BY <3>1
  <2>2. Shared(h + 1, e)
    <3> HIDE DEF Shared
    <3> QED BY <1>4, <2>1
  <2>3. PICK q \in Nat \ {0} : q = PowerOfTwo[h] /\ PowerOfTwo[h + 1] = 2 * q
    <3>1. PowerOfTwo[h] \in Nat \ {0} /\ PowerOfTwo[h + 1] = 2 * PowerOfTwo[h]
      BY PowerFacts
    <3> QED BY <3>1
  <2>4. ASSUME NEW i \in Nat, Above(i, d) = m
        PROVE  /\ (i + 1) * PowerOfTwo[h] <= n
               /\ \A x : Hangs(old, h, i, x) => Hangs(new, h, i, x)
    <3>1. PICK j \in Nat : j = i \div 2
      OBVIOUS
    <3>2. Above(j, e) = m
      <4>1. Above(j, e) = Above(i, e + 1)
        BY <3>1, AboveHalf
      <4> QED BY <2>1, <2>4, <4>1
    <3>3. /\ (j + 1) * PowerOfTwo[h + 1] <= n
          /\ \A y : Hangs(old, h + 1, j, y) => Hangs(new, h + 1, j, y)
      BY <2>2, <3>2
    <3>4. (i \div 2 + 1) * (2 * q) <= n
      BY <2>3, <3>1, <3>3
    <3>5. (i + 1) * q <= n /\ (i % 2 = 1 \/ (i + 1) * q < n)
      BY <3>4, BothBelow
    <3>6. ASSUME NEW x, Hangs(old, h, i, x) PROVE Hangs(new, h, i, x)
      <4>1. PICK y : Hangs(old, h + 1, i \div 2, y) /\ Joined(old.size, h, i, x, y)
        BY <1>2, <2>1, <3>6, HangsUp
      <4>2. Hangs(new, h + 1, i \div 2, y)
        BY <3>1, <3>3, <4>1
      <4>3. i % 2 = 1 \/ (i + 1) * PowerOfTwo[h] < new.size
        BY <1>1, <2>3, <3>5
      <4>4. Joined(new.size, h, i, x, y)
        BY <4>1, <4>3, JoinedElsewhere
      <4> QED BY <4>2, <4>4, HangsDown
    <3> QED BY <2>3, <3>5, <3>6
  <2>5. Shared(h, d)
    BY <2>4
  <2> HIDE DEF Shared
  <2> QED BY <2>1, <2>5
<1>5. Shared(0, l)
  <2>1. \A d \in 0..l : d \in T
    <3> HIDE DEF T
    <3> QED BY <1>3, <1>4, InductionUpTo
  <2>2. l \in T /\ l - l = 0
    <3> HIDE DEF T
    <3> QED BY <2>1
  <2> HIDE DEF Shared
  <2> QED BY <2>2
<1> QED BY <1>5

(* The ancestor of a position within a block, at the block's height, is the
   block. *)
LEMMA WithinBlock ==
  ASSUME NEW i \in Nat, NEW m \in Nat, NEW l \in Nat,
         m * PowerOfTwo[l] <= i, i < m * PowerOfTwo[l] + PowerOfTwo[l]
  PROVE  Above(i, l) = m
<1>1. PICK p \in Nat \ {0} : p = PowerOfTwo[l]
  <2>1. PowerOfTwo[l] \in Nat \ {0}
    BY PowerFacts
  <2> QED BY <2>1
<1>2. PICK r \in 0..(p - 1) : i = p * m + r
  <2>1. m * p \in Nat /\ m * p = p * m
    OBVIOUS
  <2>2. i - m * p \in 0..(p - 1) /\ i = m * p + (i - m * p)
    BY <1>1, <2>1
  <2> QED BY <2>1, <2>2
<1>3. i \div p = m
  BY <1>2
<1> QED BY <1>1, <1>3 DEF Above

(* What hangs under a block of both roots in the old one hangs there in the new
   one. *)
LEMMA SharedHung ==
  ASSUME NEW old, NEW new, old.size \in Nat \ {0}, new.size \in Nat \ {0},
         NEW hash, NEW size, NEW start, Hung(old, hash, size, start), Hung(new, hash, size, start),
         start + size <= new.size,
         NEW i \in Nat, start <= i, i < start + size, NEW x, Hangs(old, 0, i, x)
  PROVE  Hangs(new, 0, i, x)
<1>1. PICK l, m : /\ Hangs(old, l, m, hash) /\ size = PowerOfTwo[l]
                  /\ start = m * PowerOfTwo[l]
  BY DEF Hung
<1>2. PICK k, j : /\ Hangs(new, k, j, hash) /\ size = PowerOfTwo[k]
                  /\ start = j * PowerOfTwo[k]
  BY DEF Hung
<1>3. l \in Nat /\ m \in Nat /\ k \in Nat /\ j \in Nat
  BY <1>1, <1>2, SummitFacts DEF Hangs
<1>4. k = l
  BY <1>1, <1>2, <1>3, PowerInjective
<1>5. PICK p \in Nat \ {0} : p = PowerOfTwo[l] /\ start = m * p /\ start = j * p /\ size = p
  <2>1. PowerOfTwo[l] \in Nat \ {0}
    BY <1>3, PowerFacts
  <2> QED BY <1>1, <1>2, <1>4, <2>1
<1>6. j = m
  <2>1. m * p = j * p
    BY <1>5
  <2> QED BY <1>3, <2>1, Cancel
<1>7. (m + 1) * PowerOfTwo[l] <= new.size
  <2>1. (m + 1) * p = m * p + p
    BY <1>3, Successor
  <2> QED BY <1>5, <2>1
<1>8. Above(i, l) = m
  <2>1. m * PowerOfTwo[l] <= i /\ i < m * PowerOfTwo[l] + PowerOfTwo[l]
    BY <1>5
  <2> QED BY <1>3, <2>1, WithinBlock
<1>9. Hangs(new, l, m, hash)
  BY <1>2, <1>4, <1>6
<1> QED BY <1>1, <1>3, <1>7, <1>8, <1>9, SharedBlock

-----------------------------------------------------------------------------
(* Disclosures under roots of any kind.                                    *)

(* Between Proved anchors the old one's positions disclose the same in the new
   one. *)
LEMMA DisclosureCarries ==
  ASSUME NEW old, NEW new, old.size \in Nat \ {0}, new.size \in Nat \ {0}, Proved(old, new),
         NEW index \in 1..old.size, NEW commitment, Disclosable(old, index, commitment)
  PROVE  \A other : Disclosable(new, index, other) <=> other = commitment
<1>a. PICK proof : /\ Listed(proof.frontier) /\ Listed(proof.appended)
                   /\ VerifyRootConsistency(old, new, proof)
  BY DEF Proved
<1>1. PICK f : Falling(f, 0, old.size) /\ AllHung(old, f) /\ AllHung(new, f)
  BY <1>a, FrontierShared
<1>2. old.size < new.size /\ \E path : TipBound(new, path)
  BY <1>a DEF VerifyRootConsistency
<1>3. PICK i \in Nat : i = index - 1 /\ i \in 0..(old.size - 1) /\ i < new.size
  <2>1. index - 1 \in Nat /\ index - 1 \in 0..(old.size - 1) /\ index - 1 < new.size
    BY <1>2
  <2> QED BY <2>1
<1> DEFINE leaf == LeafHash(index, commitment)
<1>4. Hangs(old, 0, i, leaf)
  <2>1. VerifyPath(leaf, i, old.size, PathIn(old.root, i, old.size), old.root)
    BY <1>3 DEF Disclosable, VerifyDisclosure
  <2> QED BY <2>1, VerifiedHangs
<1>5. Hangs(new, 0, i, leaf)
  <2>1. PICK j \in 1..Len(f) : i \in f[j].start..(f[j].start + f[j].size - 1)
    BY <1>1, <1>3, FallingCovers
  <2>2. f[j].start \in Nat /\ f[j].size \in Nat
    BY <1>1, PowerPositive DEF Falling
  <2>3. f[j].start <= i /\ i < f[j].start + f[j].size
    BY <2>1, <2>2
  <2>4. /\ Hung(old, f[j].hash, f[j].size, f[j].start)
        /\ Hung(new, f[j].hash, f[j].size, f[j].start)
        /\ f[j].start + f[j].size <= new.size
    BY <1>1 DEF AllHung
  <2> HIDE DEF leaf
  <2> QED BY <1>4, <2>3, <2>4, SharedHung
<1>6. TipBound(new, PathIn(new.root, new.size - 1, new.size))
  <2>1. PICK path : VerifyPath(LeafHash(new.size, new.tip), new.size - 1, new.size, path, new.root)
    BY <1>2 DEF TipBound
  <2>2. Hangs(new, 0, new.size - 1, LeafHash(new.size, new.tip))
    BY <2>1, VerifiedHangs
  <2>3. new.size - 1 < new.size
    OBVIOUS
  <2> QED BY <2>2, <2>3, HangingVerifies DEF TipBound
<1>7. Disclosable(new, index, commitment)
  <2>1. VerifyPath(leaf, i, new.size, PathIn(new.root, i, new.size), new.root)
    BY <1>3, <1>5, HangingVerifies
  <2> QED BY <1>3, <1>6, <2>1 DEF Disclosable, VerifyDisclosure
<1>8. ASSUME NEW other, Disclosable(new, index, other) PROVE other = commitment
  <2>1. VerifyPath(LeafHash(index, other), i, new.size, PathIn(new.root, i, new.size), new.root)
    BY <1>3, <1>8 DEF Disclosable, VerifyDisclosure
  <2>2. Hangs(new, 0, i, LeafHash(index, other))
    BY <2>1, VerifiedHangs
  <2>3. LeafHash(index, other) = LeafHash(index, commitment)
    BY <1>5, <2>2, HangsAlone
  <2> QED BY <2>3, HashFacts
<1> QED BY <1>7, <1>8

(***************************************************************************)
(* What could be disclosed under a root a party accepted can be disclosed  *)
(* under every root it accepts later, and nothing else at that cycle, even *)
(* where the roots are those of no lineage (verify_selective_lineage_      *)
(* disclosure after verify_lineage_root_consistency).                      *)
(***************************************************************************)
THEOREM DisclosuresStay == FollowSpec => []DisclosureStable
<1>1. TrailIsProved => DisclosureStable
  <2> SUFFICES ASSUME TrailIsProved PROVE DisclosureStable
    OBVIOUS
  <2> SUFFICES ASSUME NEW k \in 2..Len(trail), NEW index \in 1..trail[k - 1].size,
                      NEW commitment \in Commitments, Disclosable(trail[k - 1], index, commitment),
                      NEW other \in Commitments
               PROVE  Disclosable(trail[k], index, other) <=> other = commitment
    BY DEF DisclosureStable
  <2>1. PICK old, new : old = trail[k - 1] /\ new = trail[k]
    OBVIOUS
  <2>2. Claimed(old) /\ Claimed(new)
    <3>1. k - 1 \in 1..Len(trail) /\ k \in 1..Len(trail)
      OBVIOUS
    <3> QED BY <2>1, <3>1 DEF TrailIsProved
  <2>3. old.size \in Nat \ {0} /\ new.size \in Nat \ {0} /\ Proved(old, new)
    BY <2>1, <2>2 DEF TrailIsProved, Claimed
  <2>4. index \in 1..old.size /\ Disclosable(old, index, commitment)
    BY <2>1
  <2> QED BY <2>1, <2>3, <2>4, DisclosureCarries
<1>2. FollowInit => TrailIsProved
  BY DEF FollowInit, TrailIsProved
<1>3. TrailIsProved /\ [FollowNext]_trail => TrailIsProved'
  BY FollowingIsProved
<1> QED BY <1>1, <1>2, <1>3, PTL DEF FollowSpec
=============================================================================

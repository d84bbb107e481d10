----------------------- MODULE ReceivingParties_proofs -----------------------
(***************************************************************************)
(* Theorems about parties that judge what they receive by themselves.      *)
(*                                                                         *)
(* DirectLineage: producer statements and the parties that follow them     *)
(* directly, for any authorities, anchors, parties and lengths of chains.  *)
(*                                                                         *)
(* ReceiverReview: what the verdict on a handed off artifact establishes,  *)
(* for all contexts and packages, and all parties, policies and times.     *)
(***************************************************************************)
EXTENDS DirectLineage, ReceiverReview, NaturalOrder_proofs, FiniteSetTheorems, TLAPS

-----------------------------------------------------------------------------
(* Append-only histories. *)

(* Append-only growth of anchors is transitive. *)
LEMMA AppendOnlyTransitive ==
  ASSUME NEW x, NEW y, NEW z, AnchorFields(x), AnchorFields(y), AnchorFields(z),
         AppendOnly(x, y), AppendOnly(y, z)
  PROVE  AppendOnly(x, z)
<1>1. /\ x.root \in Seq(Commitments) /\ y.root \in Seq(Commitments)
      /\ z.root \in Seq(Commitments)
      /\ x.size \in Nat /\ y.size \in Nat /\ z.size \in Nat
      /\ x.epoch \in Nat /\ y.epoch \in Nat /\ z.epoch \in Nat
  BY DEF AnchorFields
<1>2. IsPrefix(x.root, z.root)
  BY <1>1, PrefixPointwise DEF AppendOnly
<1> QED BY <1>1, <1>2 DEF AppendOnly

-----------------------------------------------------------------------------
(* Honest authorities. *)

(***************************************************************************)
(* An honest authority has one chain for a context: its statements have    *)
(* different sequence numbers and their anchors extend one another.  This  *)
(* is inductive, while the absence of equivocation alone is not: a new     *)
(* statement has to be ordered after all those before its predecessor.     *)
(***************************************************************************)
HonestChains ==
  \A a, b \in issued :
    a.authority \in HonestAuthorities /\ Lane(a) = Lane(b)
      => /\ BoundEndpoint(a.anchor)
         /\ a.sequence = b.sequence => a = b
         /\ a.sequence < b.sequence => AppendOnly(a.anchor, b.anchor)

(* The fields of an issued statement have their types. *)
LEMMA IssuedFields ==
  ASSUME IssuedTypeOK, NEW s \in issued
  PROVE  /\ s.sequence \in Nat \ {0} /\ s.anchor \in Anchors /\ AnchorFields(s.anchor)
         /\ s.authority \in Authorities
  BY ConstantsAssumption DEF IssuedTypeOK, StatementShape

(* Issuing keeps the shape of statements. *)
LEMMA IssueKeepsTypes ==
  ASSUME IssuedTypeOK, NEW s \in StatementShape, Issue(s)
  PROVE  IssuedTypeOK'
  BY DEF IssuedTypeOK, StatementShape, Issue

(* A statement of an authority that is not honest keeps types and the honest
   chains. *)
LEMMA FreeStep ==
  ASSUME IssuedTypeOK, HonestChains,
         NEW authority \in Authorities, NEW provenance \in Provenances,
         NEW anchor \in Anchors, NEW sequence \in 1..MaxSequence,
         NEW prev \in issued \cup {ZERO},
         IssueFreely(authority, sequence, prev, provenance, anchor)
  PROVE  IssuedTypeOK' /\ HonestChains'
<1> DEFINE s == Statement(authority, sequence, prev, provenance, anchor)
<1>1. s \in StatementShape /\ Issue(s) /\ s.authority \notin HonestAuthorities
  BY ConstantsAssumption DEF IssueFreely, Statement, StatementShape
<1>2. IssuedTypeOK'
  BY <1>1, IssueKeepsTypes
<1>3. HonestChains'
  BY <1>1 DEF HonestChains, Issue, Lane
<1> QED BY <1>2, <1>3

(* A statement an honest authority issues extends its chain. *)
LEMMA HonestStep ==
  ASSUME IssuedTypeOK, HonestChains,
         NEW authority \in Authorities, NEW provenance \in Provenances,
         NEW anchor \in Anchors, IssueHonestly(authority, provenance, anchor)
  PROVE  IssuedTypeOK' /\ HonestChains'
<1> DEFINE mine == InLane(authority, anchor.context)
<1>1. authority \in HonestAuthorities /\ BoundEndpoint(anchor) /\ AnchorFields(anchor)
  BY ConstantsAssumption DEF IssueHonestly
<1>2. PICK s \in StatementShape :
        /\ Issue(s) /\ s.authority = authority /\ s.anchor = anchor
        /\ \A m \in mine : m.sequence < s.sequence /\ AppendOnly(m.anchor, anchor)
  <2>1. CASE mine = {} /\ Issue(Statement(authority, 1, ZERO, provenance, anchor))
    <3>1. Statement(authority, 1, ZERO, provenance, anchor) \in StatementShape
      BY DEF Statement, StatementShape
    <3> QED BY <2>1, <3>1 DEF Statement
  <2>2. ASSUME NEW last \in mine,
               \A m \in mine : m.sequence <= last.sequence,
               AppendOnly(last.anchor, anchor),
               Issue(Statement(authority, last.sequence + 1, last, provenance, anchor))
        PROVE  \E s \in StatementShape :
                 /\ Issue(s) /\ s.authority = authority /\ s.anchor = anchor
                 /\ \A m \in mine : m.sequence < s.sequence /\ AppendOnly(m.anchor, anchor)
    <3> DEFINE s == Statement(authority, last.sequence + 1, last, provenance, anchor)
    <3>1. last \in issued /\ last.sequence \in Nat \ {0} /\ AnchorFields(last.anchor)
      BY IssuedFields DEF InLane
    <3>2. s \in StatementShape /\ s.authority = authority /\ s.anchor = anchor
          /\ s.sequence = last.sequence + 1
      BY <3>1 DEF Statement, StatementShape
    <3>3. ASSUME NEW m \in mine
          PROVE  m.sequence < s.sequence /\ AppendOnly(m.anchor, anchor)
      <4>1. m \in issued /\ m.sequence \in Nat /\ AnchorFields(m.anchor)
        BY IssuedFields DEF InLane
      <4>2. Lane(m) = Lane(last) /\ m.authority \in HonestAuthorities
        BY <1>1 DEF InLane, Lane
      <4>3. m.sequence < s.sequence
        BY <2>2, <3>1, <3>2, <4>1
      <4>4. m.sequence < last.sequence \/ m.sequence = last.sequence
        BY <2>2, <3>1, <4>1
      <4>5. m = last \/ AppendOnly(m.anchor, last.anchor)
        BY <3>1, <4>1, <4>2, <4>4 DEF HonestChains
      <4> QED BY <1>1, <2>2, <3>1, <4>1, <4>3, <4>5, AppendOnlyTransitive
    <3> HIDE DEF s
    <3> QED BY <2>2, <3>2, <3>3 DEF s
  <2> QED BY <2>1, <2>2 DEF IssueHonestly
<1>3. IssuedTypeOK'
  BY <1>2, IssueKeepsTypes
<1>4. s.sequence \in Nat /\ issued' = issued \cup {s}
  BY <1>2 DEF Issue, StatementShape
<1>5. \A m \in issued : Lane(m) = Lane(s) => m \in mine
  BY <1>2 DEF InLane, Lane
<1>6. \A m \in issued : Lane(m) = Lane(s) =>
        /\ m.sequence \in Nat /\ m.sequence < s.sequence /\ AppendOnly(m.anchor, s.anchor)
  BY <1>2, <1>5, IssuedFields
<1>7. HonestChains'
  <2> SUFFICES ASSUME NEW a \in issued', NEW b \in issued',
                      a.authority \in HonestAuthorities, Lane(a) = Lane(b)
               PROVE  /\ BoundEndpoint(a.anchor)
                      /\ a.sequence = b.sequence => a = b
                      /\ a.sequence < b.sequence => AppendOnly(a.anchor, b.anchor)
    BY DEF HonestChains
  <2>1. CASE a \in issued /\ b \in issued
    BY <2>1 DEF HonestChains
  <2>2. CASE a \in issued /\ b = s
    <3>1. BoundEndpoint(a.anchor)
      BY <2>2 DEF HonestChains
    <3> QED BY <1>4, <1>6, <2>2, <3>1
  <2>3. CASE a = s /\ b \in issued
    <3>1. b.sequence \in Nat /\ b.sequence < a.sequence
      BY <1>6, <2>3
    <3> QED BY <1>1, <1>2, <1>4, <2>3, <3>1
  <2>4. CASE a = s /\ b = s
    BY <1>1, <1>2, <1>4, <2>4
  <2> QED BY <1>4, <2>1, <2>2, <2>3, <2>4
<1> QED BY <1>3, <1>7

(* Every step of the producers keeps types and the honest chains. *)
LEMMA ProducerStep ==
  ASSUME IssuedTypeOK, HonestChains, ProducerNext
  PROVE  IssuedTypeOK' /\ HonestChains'
  BY FreeStep, HonestStep DEF ProducerNext

(* No two statements of one honest chain are in conflict. *)
LEMMA HonestChainsInnocent ==
  ASSUME IssuedTypeOK, HonestChains
  PROVE  HonestAuthorityNeverAccused
<1> SUFFICES ASSUME NEW a \in issued, NEW b \in issued,
                    a.authority \in HonestAuthorities, Equivocates(a, b)
             PROVE  FALSE
  BY DEF HonestAuthorityNeverAccused
<1>1. Lane(a) = Lane(b) /\ b.authority = a.authority
  BY DEF Equivocates, Comparable, Lane
<1>2. a.sequence \in Nat /\ b.sequence \in Nat
      /\ a.anchor.size \in Nat /\ b.anchor.size \in Nat
  BY IssuedFields DEF AnchorFields
<1>3. CASE a.sequence = b.sequence
  BY <1>1, <1>3 DEF HonestChains, Equivocates, SameSequenceConflict, SameSizeRootConflict
<1>4. CASE a.sequence # b.sequence
  <2>1. AppendOnly(a.anchor, b.anchor) \/ AppendOnly(b.anchor, a.anchor)
    BY <1>1, <1>2, <1>4 DEF HonestChains
  <2>2. a.anchor.size # b.anchor.size
    BY <1>2, <2>1 DEF AppendOnly
  <2> QED BY <1>4, <2>2 DEF Equivocates, SameSequenceConflict, SameSizeRootConflict
<1> QED BY <1>3, <1>4

-----------------------------------------------------------------------------
(* Relying parties. *)

(* The statements of a log continue one another. *)
ChainedLogs ==
  \A p \in Parties :
    /\ \A i \in DOMAIN log[p] : ValidStatement(log[p][i])
    /\ \A i \in DOMAIN log[p] : i > 1 => VerifyAuthorized(log[p][i - 1], log[p][i])
    /\ \A i, j \in DOMAIN log[p] :
         i < j => AppendOnly(log[p][i].anchor, log[p][j].anchor)

IInv == TypeOK /\ HonestChains /\ ChainedLogs

(* A party's log is a sequence of issued statements. *)
LEMMA LogFacts ==
  ASSUME TypeOK, NEW p \in Parties
  PROVE  /\ log[p] \in Seq(issued) /\ Len(log[p]) \in Nat
         /\ DOMAIN log[p] = 1..Len(log[p])
         /\ \A i \in DOMAIN log[p] : log[p][i] \in issued
  BY DEF TypeOK

(* A sequence of statements stays one when more are issued. *)
LEMMA SeqGrows ==
  ASSUME NEW S, NEW T, S \subseteq T, NEW f \in [Parties -> Seq(S)]
  PROVE  f \in [Parties -> Seq(T)]
<1>1. ASSUME NEW q \in Seq(S) PROVE q \in Seq(T)
  BY SMT
<1> QED BY <1>1

(* A party's first trust keeps the invariant. *)
LEMMA TrustStep ==
  ASSUME IInv, NEW p \in Parties, NEW s \in issued, Trust(p, s)
  PROVE  IInv'
<1>1. issued' = issued /\ log' = [log EXCEPT ![p] = <<s>>] /\ ValidStatement(s)
  BY DEF Trust
<1>2. TypeOK'
  BY <1>1 DEF IInv, TypeOK, IssuedTypeOK, StatementShape
<1>3. log'[p] = <<s>> /\ \A q \in Parties : q # p => log'[q] = log[q]
  BY <1>1 DEF IInv, TypeOK
<1>4. ChainedLogs'
  <2> SUFFICES ASSUME NEW q \in Parties
               PROVE  /\ \A i \in DOMAIN log'[q] : ValidStatement(log'[q][i])
                      /\ \A i \in DOMAIN log'[q] :
                           i > 1 => VerifyAuthorized(log'[q][i - 1], log'[q][i])
                      /\ \A i, j \in DOMAIN log'[q] :
                           i < j => AppendOnly(log'[q][i].anchor, log'[q][j].anchor)
    BY DEF ChainedLogs
  <2>1. CASE q = p
    BY <1>1, <1>3, <2>1
  <2>2. CASE q # p
    BY <1>3, <2>2 DEF IInv, ChainedLogs
  <2> QED BY <2>1, <2>2
<1> QED BY <1>1, <1>2, <1>4 DEF IInv, HonestChains

(* Following a statement keeps the invariant. *)
LEMMA FollowStep ==
  ASSUME IInv, NEW p \in Parties, NEW s \in issued, Follow(p, s)
  PROVE  IInv'
<1> DEFINE n == Len(log[p])
<1>1. /\ issued' = issued /\ log' = [log EXCEPT ![p] = Append(@, s)]
      /\ ValidStatement(s) /\ VerifyAuthorized(Last(log[p]), s) /\ log[p] # << >>
  BY DEF Follow
<1>2. /\ log[p] \in Seq(issued) /\ n \in Nat /\ n >= 1 /\ DOMAIN log[p] = 1..n
      /\ Last(log[p]) = log[p][n] /\ log[p][n] \in issued
  BY <1>1, LogFacts DEF IInv, Last
<1>3. TypeOK'
  BY <1>1, <1>2 DEF IInv, TypeOK, IssuedTypeOK, StatementShape
<1>4. /\ log'[p] = Append(log[p], s)
      /\ \A q \in Parties : q # p => log'[q] = log[q]
  BY <1>1 DEF IInv, TypeOK
<1>5. /\ DOMAIN log'[p] = 1..(n + 1) /\ log'[p][n + 1] = s
      /\ \A i \in 1..n : log'[p][i] = log[p][i]
  BY <1>2, <1>4
<1>6. \A i \in 1..n : AppendOnly(log[p][i].anchor, s.anchor)
  <2> SUFFICES ASSUME NEW i \in 1..n PROVE AppendOnly(log[p][i].anchor, s.anchor)
    OBVIOUS
  <2>1. AppendOnly(log[p][n].anchor, s.anchor)
    BY <1>1, <1>2 DEF VerifyAuthorized
  <2>2. CASE i < n
    <3>1. AppendOnly(log[p][i].anchor, log[p][n].anchor)
      BY <1>2, <2>2 DEF IInv, ChainedLogs
    <3>2. AnchorFields(log[p][i].anchor) /\ AnchorFields(log[p][n].anchor)
          /\ AnchorFields(s.anchor)
      BY <1>2, IssuedFields, LogFacts DEF IInv, TypeOK
    <3> QED BY <2>1, <3>1, <3>2, AppendOnlyTransitive
  <2> QED BY <1>2, <2>1, <2>2
<1>7. ChainedLogs'
  <2> SUFFICES ASSUME NEW q \in Parties
               PROVE  /\ \A i \in DOMAIN log'[q] : ValidStatement(log'[q][i])
                      /\ \A i \in DOMAIN log'[q] :
                           i > 1 => VerifyAuthorized(log'[q][i - 1], log'[q][i])
                      /\ \A i, j \in DOMAIN log'[q] :
                           i < j => AppendOnly(log'[q][i].anchor, log'[q][j].anchor)
    BY DEF ChainedLogs
  <2>1. CASE q = p
    <3>1. \A i \in 1..(n + 1) : i \in 1..n \/ i = n + 1
      BY <1>2
    <3>2. \A i \in DOMAIN log'[p] : ValidStatement(log'[p][i])
      BY <1>1, <1>2, <1>5, <3>1 DEF IInv, ChainedLogs
    <3>3. \A i \in DOMAIN log'[p] :
            i > 1 => VerifyAuthorized(log'[p][i - 1], log'[p][i])
      <4> SUFFICES ASSUME NEW i \in 1..(n + 1), i > 1
                   PROVE  VerifyAuthorized(log'[p][i - 1], log'[p][i])
        BY <1>5
      <4>1. CASE i = n + 1
        BY <1>1, <1>2, <1>5, <4>1
      <4>2. CASE i \in 1..n
        <5>1. i - 1 \in 1..n
          BY <1>2, <4>2
        <5> QED BY <1>2, <1>5, <4>2, <5>1 DEF IInv, ChainedLogs
      <4> QED BY <3>1, <4>1, <4>2
    <3>4. \A i, j \in DOMAIN log'[p] :
            i < j => AppendOnly(log'[p][i].anchor, log'[p][j].anchor)
      <4> SUFFICES ASSUME NEW i \in 1..(n + 1), NEW j \in 1..(n + 1), i < j
                   PROVE  AppendOnly(log'[p][i].anchor, log'[p][j].anchor)
        BY <1>5
      <4>1. i \in 1..n
        BY <1>2
      <4>2. CASE j = n + 1
        BY <1>5, <1>6, <4>1, <4>2
      <4>3. CASE j \in 1..n
        BY <1>2, <1>5, <4>1, <4>3 DEF IInv, ChainedLogs
      <4> QED BY <3>1, <4>2, <4>3
    <3> QED BY <2>1, <3>2, <3>3, <3>4
  <2>2. CASE q # p
    BY <1>4, <2>2 DEF IInv, ChainedLogs
  <2> QED BY <2>1, <2>2
<1> QED BY <1>1, <1>3, <1>7 DEF IInv, HonestChains

(***************************************************************************)
(* Every log is a chain of verified statements, all of them issued, and    *)
(* honest authorities keep one chain: the inductive invariant.             *)
(***************************************************************************)
THEOREM DirectInvariant == Spec => []IInv
<1>1. Init => IInv
  BY DEF Init, ProducerInit, IInv, TypeOK, IssuedTypeOK, HonestChains, ChainedLogs
<1>2. IInv /\ [Next]_vars => IInv'
  <2> SUFFICES ASSUME IInv, [Next]_vars PROVE IInv'
    OBVIOUS
  <2>1. CASE Produce
    <3>1. log' = log /\ IssuedTypeOK' /\ HonestChains'
      BY <2>1, ProducerStep DEF Produce, IInv, TypeOK
    <3>2. issued \subseteq issued'
      BY <2>1 DEF Produce, ProducerNext, IssueHonestly, IssueFreely, Issue
    <3>3. log' \in [Parties -> Seq(issued')]
      BY <3>1, <3>2, SeqGrows DEF IInv, TypeOK
    <3> QED BY <3>1, <3>3 DEF IInv, TypeOK, ChainedLogs
  <2>2. CASE UNCHANGED vars
    BY <2>2 DEF vars, IInv, TypeOK, IssuedTypeOK, StatementShape, HonestChains, ChainedLogs
  <2> QED BY <2>1, <2>2, TrustStep, FollowStep DEF Next
<1> QED BY <1>1, <1>2, PTL DEF Spec

(***************************************************************************)
(* An authority that keeps one append-only chain for a context is never    *)
(* accused, whatever the others attest.                                    *)
(***************************************************************************)
THEOREM HonestNeverAccused == Spec => []HonestAuthorityNeverAccused
<1>1. IInv => HonestAuthorityNeverAccused
  BY HonestChainsInnocent DEF IInv, TypeOK
<1> QED BY <1>1, DirectInvariant, PTL

-----------------------------------------------------------------------------
(* Forks. *)

(* The sequence number counts the statements of a log. *)
LEMMA LogSequence ==
  ASSUME IInv, NEW p \in Parties, NEW i \in DOMAIN log[p]
  PROVE  log[p][i].sequence = log[p][1].sequence + i - 1 /\ Lane(log[p][i]) = Lane(log[p][1])
<1> DEFINE Off(k) == ~(/\ log[p][k].sequence = log[p][1].sequence + k - 1
                       /\ Lane(log[p][k]) = Lane(log[p][1]))
           T == {k \in DOMAIN log[p] : Off(k)}
<1>1. /\ DOMAIN log[p] = 1..Len(log[p]) /\ Len(log[p]) \in Nat
      /\ \A k \in DOMAIN log[p] : log[p][k] \in issued
  BY LogFacts DEF IInv
<1>2. \A k \in DOMAIN log[p] : log[p][k].sequence \in Nat
  BY <1>1, IssuedFields DEF IInv, TypeOK
<1>3. SUFFICES ASSUME T # {} PROVE FALSE
  OBVIOUS
<1>4. T \subseteq Nat
  BY <1>1
<1>5. PICK k \in T : \A m \in T : k <= m
  <2> HIDE DEF T
  <2> QED BY <1>3, <1>4, LeastElement
<1>6. k \in DOMAIN log[p] /\ k # 1 /\ 1 \in DOMAIN log[p]
  BY <1>1, <1>2
<1>7. k - 1 \in DOMAIN log[p] /\ k - 1 \notin T
  BY <1>1, <1>5, <1>6
<1>8. /\ log[p][k - 1].sequence = log[p][1].sequence + (k - 1) - 1
      /\ Lane(log[p][k - 1]) = Lane(log[p][1])
  BY <1>7
<1>9. VerifyAuthorized(log[p][k - 1], log[p][k])
  BY <1>1, <1>6 DEF IInv, ChainedLogs
<1>10. /\ log[p][k].sequence = log[p][k - 1].sequence + 1
       /\ Lane(log[p][k]) = Lane(log[p][k - 1])
  BY <1>9 DEF VerifyAuthorized, AppendOnly, Lane
<1>11. log[p][k].sequence = log[p][1].sequence + k - 1
  <2>1. k \in Nat /\ log[p][1].sequence \in Nat
    BY <1>1, <1>2, <1>6
  <2> QED BY <2>1, <1>8, <1>10
<1>12. Lane(log[p][k]) = Lane(log[p][1])
  BY <1>8, <1>10
<1> QED BY <1>5, <1>11, <1>12

(* Two logs from one origin carry one sequence number at every index. *)
LEMMA SameOriginAligned ==
  ASSUME IInv, NEW p \in Parties, NEW q \in Parties, SameOrigin(p, q)
  PROVE  /\ 1 \in DOMAIN log[p] /\ 1 \in DOMAIN log[q]
         /\ log[p][1].sequence = log[q][1].sequence /\ log[p][1].prev = log[q][1].prev
         /\ \A i \in DOMAIN log[p], j \in DOMAIN log[q] : Lane(log[p][i]) = Lane(log[q][j])
         /\ \A i \in (DOMAIN log[p]) \cap (DOMAIN log[q]) :
              log[p][i].sequence = log[q][i].sequence
<1>1. 1 \in DOMAIN log[p] /\ 1 \in DOMAIN log[q]
  BY LogFacts DEF IInv, SameOrigin
<1>2. log[p][1].sequence = log[q][1].sequence /\ log[p][1].prev = log[q][1].prev
  BY <1>1 DEF SameOrigin, IInv, ChainedLogs, ValidStatement
<1>3. \A i \in DOMAIN log[p], j \in DOMAIN log[q] : Lane(log[p][i]) = Lane(log[q][j])
  BY LogSequence DEF SameOrigin
<1>4. \A i \in (DOMAIN log[p]) \cap (DOMAIN log[q]) :
        log[p][i].sequence = log[q][i].sequence
  BY <1>2, LogSequence
<1> QED BY <1>1, <1>2, <1>3, <1>4

(***************************************************************************)
(* Without evidence there is no fork: two logs from one origin that hold   *)
(* no conflicting pair are equal as far as both go.  The argument is about *)
(* the first index where they differ: its predecessors are equal, so the   *)
(* two statements stand at one place of the chain.                         *)
(***************************************************************************)
LEMMA UnforkedLogsAgree ==
  ASSUME IInv, NEW p \in Parties, NEW q \in Parties,
         SameOrigin(p, q), NoReattestation(p, q),
         \A i \in DOMAIN log[p], j \in DOMAIN log[q] : ~Equivocates(log[p][i], log[q][j])
  PROVE  \A i \in (DOMAIN log[p]) \cap (DOMAIN log[q]) : log[p][i] = log[q][i]
<1> DEFINE D == (DOMAIN log[p]) \cap (DOMAIN log[q])
           T == {k \in D : log[p][k] # log[q][k]}
<1>1. /\ DOMAIN log[p] = 1..Len(log[p]) /\ Len(log[p]) \in Nat
      /\ DOMAIN log[q] = 1..Len(log[q]) /\ Len(log[q]) \in Nat
  BY LogFacts DEF IInv
<1>2. SUFFICES ASSUME T # {} PROVE FALSE
  OBVIOUS
<1>3. T \subseteq Nat
  BY <1>1
<1>4. PICK k \in T : \A m \in T : k <= m
  <2> HIDE DEF T
  <2> QED BY <1>2, <1>3, LeastElement
<1>5. k \in D /\ log[p][k] # log[q][k] /\ k \in Nat
  BY <1>1
<1>6. log[p][k].prev = log[q][k].prev
  <2>1. CASE k = 1
    BY <2>1, SameOriginAligned
  <2>2. CASE k # 1
    <3>1. k - 1 \in D /\ k - 1 \notin T
      BY <1>1, <1>4, <1>5, <2>2
    <3>2. log[p][k - 1] = log[q][k - 1]
      BY <3>1
    <3>3. k \in DOMAIN log[p] /\ k \in DOMAIN log[q] /\ k > 1
      BY <1>1, <1>5, <2>2
    <3>4. VerifyAuthorized(log[p][k - 1], log[p][k])
      BY <3>3 DEF IInv, ChainedLogs
    <3>5. VerifyAuthorized(log[q][k - 1], log[q][k])
      BY <3>3 DEF IInv, ChainedLogs
    <3> QED BY <3>2, <3>4, <3>5 DEF VerifyAuthorized
  <2> QED BY <2>1, <2>2
<1>7. log[p][k].sequence = log[q][k].sequence /\ Lane(log[p][k]) = Lane(log[q][k])
  BY <1>5, SameOriginAligned
<1>8. log[p][k].anchor = log[q][k].anchor
  BY <1>5, <1>6, <1>7 DEF Equivocates, Comparable, SameSequenceConflict
<1> QED BY <1>5, <1>6, <1>7, <1>8 DEF NoReattestation

(* Of two anchors of one log, one extends the other. *)
LEMMA OneLogOneHistory ==
  ASSUME IInv, NEW p \in Parties, NEW i \in DOMAIN log[p], NEW j \in DOMAIN log[p]
  PROVE  OneHistory(log[p][i].anchor, log[p][j].anchor)
<1>1. i \in Nat /\ j \in Nat
  BY LogFacts DEF IInv
<1>2. i = j \/ i < j \/ j < i
  BY <1>1
<1> QED BY <1>2 DEF IInv, ChainedLogs, OneHistory

(***************************************************************************)
(* A fork is never deniable: two parties that started at one place of an   *)
(* authority's chain hold anchors of one append-only history or retain two *)
(* statements the detector reports.                                        *)
(***************************************************************************)
THEOREM ForksAreAttributable == Spec => []ForkIsAttributable
<1>1. IInv => ForkIsAttributable
  <2> SUFFICES ASSUME IInv, NEW p \in Parties, NEW q \in Parties,
                      SameOrigin(p, q), NoReattestation(p, q),
                      \A i \in DOMAIN log[p], j \in DOMAIN log[q] :
                        ~Equivocates(log[p][i], log[q][j])
               PROVE  OneHistory(TipOf(p).anchor, TipOf(q).anchor)
    BY DEF ForkIsAttributable
  <2> DEFINE m == Len(log[p])
             n == Len(log[q])
  <2>1. /\ m \in Nat /\ DOMAIN log[p] = 1..m /\ n \in Nat /\ DOMAIN log[q] = 1..n
        /\ m >= 1 /\ n >= 1
    BY LogFacts, SameOriginAligned DEF IInv
  <2>2. TipOf(p) = log[p][m] /\ TipOf(q) = log[q][n]
    BY DEF TipOf, Last
  <2>3. CASE m <= n
    <3>1. log[p][m] = log[q][m] /\ m \in DOMAIN log[q] /\ n \in DOMAIN log[q]
      BY <2>1, <2>3, UnforkedLogsAgree
    <3> QED BY <2>2, <3>1, OneLogOneHistory
  <2>4. CASE n <= m
    <3>1. log[p][n] = log[q][n] /\ n \in DOMAIN log[p] /\ m \in DOMAIN log[p]
      BY <2>1, <2>4, UnforkedLogsAgree
    <3> QED BY <2>2, <3>1, OneLogOneHistory
  <2> QED BY <2>1, <2>3, <2>4
<1> QED BY <1>1, DirectInvariant, PTL

-----------------------------------------------------------------------------
(* Refinement: what following an honest authority promises is LineageView.  *)

(* Append-only growth is that of a strict prefix. *)
LEMMA AppendOnlyIsStrict ==
  ASSUME NEW x, NEW y, AnchorFields(x), AnchorFields(y), AppendOnly(x, y)
  PROVE  Lineage!IsStrictPrefix(x.root, y.root)
<1>1. x.size < y.size /\ x.size = Len(x.root) /\ y.size = Len(y.root)
  BY DEF AppendOnly, BoundEndpoint
<1>2. x.size \in Nat /\ y.size \in Nat
  BY DEF AnchorFields
<1>3. x.root # y.root
  BY <1>1, <1>2
<1> QED BY <1>3 DEF AppendOnly, Lineage!IsStrictPrefix, Lineage!IsPrefix, IsPrefix

(* The statements of an honest authority for one context attest histories   *)
(* of which one is a prefix of the other.                                  *)
LEMMA HonestHistoriesLinear ==
  ASSUME IssuedTypeOK, HonestChains, NEW a \in issued, NEW b \in issued,
         a.authority \in HonestAuthorities, Lane(a) = Lane(b)
  PROVE  Lineage!Linear(a.anchor.root, b.anchor.root)
<1>1. /\ a.sequence \in Nat /\ AnchorFields(a.anchor)
      /\ b.sequence \in Nat /\ AnchorFields(b.anchor)
  BY IssuedFields
<1>2. b.authority \in HonestAuthorities /\ Lane(b) = Lane(a)
  BY DEF Lane
<1>3. CASE a.sequence = b.sequence
  <2>1. a = b
    BY <1>3 DEF HonestChains
  <2>2. SubSeq(a.anchor.root, 1, Len(a.anchor.root)) = a.anchor.root
    BY <1>1 DEF AnchorFields
  <2>3. Len(a.anchor.root) <= Len(a.anchor.root)
    BY <1>1 DEF AnchorFields
  <2> QED BY <2>1, <2>2, <2>3 DEF Lineage!Linear, Lineage!IsPrefix
<1>4. CASE a.sequence < b.sequence
  <2>1. AppendOnly(a.anchor, b.anchor)
    BY <1>4 DEF HonestChains
  <2> QED BY <1>1, <2>1, AppendOnlyIsStrict DEF Lineage!Linear, Lineage!IsStrictPrefix
<1>5. CASE b.sequence < a.sequence
  <2>1. AppendOnly(b.anchor, a.anchor)
    BY <1>2, <1>5 DEF HonestChains
  <2> QED BY <1>1, <2>1, AppendOnlyIsStrict DEF Lineage!Linear, Lineage!IsStrictPrefix
<1> QED BY <1>1, <1>3, <1>4, <1>5

(* What a party relies on was issued. *)
LEMMA TipIssued ==
  ASSUME IInv, NEW p \in Parties, log[p] # <<>>
  PROVE  TipOf(p) \in issued
<1>1. Len(log[p]) \in DOMAIN log[p]
  BY LogFacts DEF IInv
<1> QED BY <1>1, LogFacts DEF IInv, TipOf, Last

(* What was appended last is last. *)
LEMMA TipOfAppend ==
  ASSUME NEW S, NEW s \in Seq(S), NEW x \in S
  PROVE  Append(s, x) # <<>> /\ Last(Append(s, x)) = x
BY DEF Last

(* A party that accepts a statement takes a step of the abstract view, or   *)
(* changes no view if the authority is not honest.                         *)
LEMMA TipMoves ==
  ASSUME IInv, NEW p \in Parties, NEW s \in issued, issued' = issued,
         log' = [log EXCEPT ![p] = Append(@, s)],
         log[p] # <<>> => VerifyAuthorized(TipOf(p), s)
  PROVE  [Lineage!Next]_View
<1> DEFINE lane == Lane(s)
           history == s.anchor.root
<1>1. log[p] \in Seq(issued) /\ DOMAIN log = Parties /\ log'[p] = Append(log[p], s)
  BY DEF IInv, TypeOK
<1>2. log'[p] # <<>> /\ TipOf(p)' = s
  BY <1>1, TipOfAppend DEF TipOf
<1>3. ASSUME NEW q \in Parties, q # p PROVE log'[q] = log[q]
  BY <1>1, <1>3
<1>4. ASSUME NEW q \in Parties, q # p PROVE View'[q] = View[q]
  BY <1>3, <1>4 DEF View, TipOf, Lane
<1>5. View' = [View EXCEPT ![p] = View'[p]]
  <2>1. View = [q \in Parties |-> View[q]] /\ View' = [q \in Parties |-> View'[q]]
    BY DEF View
  <2> QED BY <1>4, <2>1
<1>6. log[p] # <<>> => Lane(TipOf(p)) = Lane(s) /\ TipOf(p).authority = s.authority
  BY DEF VerifyAuthorized, AppendOnly, Lane
<1>7. CASE s.authority \notin HonestAuthorities
  <2>1. View'[p] = NoView
    BY <1>2, <1>7 DEF View, TipOf
  <2>2. View[p] = NoView
    BY <1>6, <1>7 DEF View
  <2> QED BY <1>5, <2>1, <2>2 DEF View
<1>8. CASE s.authority \in HonestAuthorities
  <2>1. View'[p] = [lane |-> lane, history |-> history]
    BY <1>2, <1>8 DEF View, TipOf, Lane
  <2>2. View' = [View EXCEPT ![p] = [lane |-> lane, history |-> history]]
    BY <1>5, <2>1
  <2>3. lane \in Authorities \X Contexts /\ history \in {a.root : a \in Anchors}
    BY IssuedFields DEF IInv, TypeOK, Lane, AnchorFields
  <2>4. ASSUME View[p] # NoView
        PROVE  View[p].lane = lane /\ Lineage!IsStrictPrefix(View[p].history, history)
    <3>1. log[p] # <<>>
      BY <2>4 DEF View
    <3>2. View[p] = [lane |-> Lane(TipOf(p)), history |-> TipOf(p).anchor.root]
      BY <2>4 DEF View
    <3>3. AppendOnly(TipOf(p).anchor, s.anchor)
      BY <3>1 DEF VerifyAuthorized
    <3>4. AnchorFields(TipOf(p).anchor) /\ AnchorFields(s.anchor)
      BY <3>1, TipIssued, IssuedFields DEF IInv, TypeOK
    <3>5. Lineage!IsStrictPrefix(TipOf(p).anchor.root, history)
      BY <3>3, <3>4, AppendOnlyIsStrict
    <3> QED BY <1>6, <3>1, <3>2, <3>5
  <2>5. ASSUME NEW q \in Parties, View[q] # NoView, View[q].lane = lane
        PROVE  Lineage!Linear(View[q].history, history)
    <3>1. log[q] # <<>> /\ TipOf(q).authority \in HonestAuthorities
          /\ View[q] = [lane |-> Lane(TipOf(q)), history |-> TipOf(q).anchor.root]
      BY <2>5 DEF View
    <3>2. TipOf(q) \in issued /\ Lane(TipOf(q)) = Lane(s)
      BY <2>5, <3>1, TipIssued
    <3>3. Lineage!Linear(TipOf(q).anchor.root, history)
      BY <3>1, <3>2, HonestHistoriesLinear DEF IInv, TypeOK
    <3> QED BY <3>1, <3>3
  <2>6. Lineage!Adopt(p, lane, history)
    BY <2>2, <2>4, <2>5 DEF Lineage!Adopt
  <2> QED BY <2>3, <2>6 DEF Lineage!Next
<1> QED BY <1>7, <1>8

(***************************************************************************)
(* Whoever follows honest authorities reads one append-only history of     *)
(* each, for any number of parties and whatever other authorities attest.  *)
(***************************************************************************)
THEOREM ReadsOneHistory == Spec => ImplementsLineageView
<1>1. Init => Lineage!Init
  BY DEF Init, Lineage!Init, View
<1>2. IInv /\ [Next]_vars => [Lineage!Next]_View
  <2> SUFFICES ASSUME IInv, [Next]_vars PROVE [Lineage!Next]_View
    OBVIOUS
  <2>1. CASE log' = log
    BY <2>1 DEF View, TipOf, Lane
  <2>2. ASSUME NEW p \in Parties, NEW s \in issued, Trust(p, s)
        PROVE  [Lineage!Next]_View
    <3>1. log' = [log EXCEPT ![p] = Append(@, s)] /\ log[p] = <<>> /\ issued' = issued
      BY <2>2 DEF Trust
    <3> QED BY <3>1, TipMoves
  <2>3. ASSUME NEW p \in Parties, NEW s \in issued, Follow(p, s)
        PROVE  [Lineage!Next]_View
    BY <2>3, TipMoves DEF Follow, TipOf
  <2> QED BY <2>1, <2>2, <2>3 DEF Next, Produce, vars
<1> QED BY <1>1, <1>2, DirectInvariant, PTL DEF Spec, ImplementsLineageView, Lineage!Spec

-----------------------------------------------------------------------------
(* Verdicts on artifacts. *)

(* Only roles with a receipt are listed. *)
LEMMA PresentReceipts ==
  ASSUME NEW pkg, NEW i \in DOMAIN Present(pkg)
  PROVE  /\ Present(pkg)[i] \in DOMAIN pkg.receipts
         /\ pkg.receipts[Present(pkg)[i]] \in Receipts(pkg)
<1>1. Present(pkg)[i] \in DOMAIN pkg.receipts
  <2>1. CASE DOMAIN pkg.receipts = Roles
    BY <2>1 DEF Present, Roles
  <2>2. CASE DOMAIN pkg.receipts # Roles
    BY <2>2 DEF Present
  <2> QED BY <2>1, <2>2
<1> QED BY <1>1 DEF Receipts, Range

(* The records for the reconciliation are those of the receipts. *)
LEMMA RecordsAreReceipts ==
  ASSUME NEW ctx, NEW pkg, NEW rec \in Range(Records(ctx, pkg))
  PROVE  \E role \in DOMAIN pkg.receipts : rec = RecordOf(ctx, pkg.receipts[role])
<1>1. PICK i \in DOMAIN Present(pkg) :
        rec = RecordOf(ctx, pkg.receipts[Present(pkg)[i]])
  BY DEF Range, Records
<1> QED BY <1>1, PresentReceipts

(* A reconciliation that is consistent compares records of every side, all  *)
(* of them in scope, for every correlation it has.                          *)
LEMMA ConsistentIsPaired ==
  ASSUME NEW records, NEW comparison,
         AssessCrossSource(records, comparison).status = "consistent-in-supplied-snapshots"
  PROVE  \E k : \A side \in DOMAIN comparison.sources :
           \E rec \in Range(records) :
             rec.side = side /\ rec.correlation = k /\ InScope(rec, comparison)
<1> DEFINE scoped == {r \in Range(records) :
                        MeetsProfile(r, comparison) /\ InScope(r, comparison)}
           ids == {r.correlation : r \in scoped}
           unpaired == {k \in ids : MissingSides(scoped, k, comparison) # {}}
<1>1. scoped # {} /\ unpaired = {}
  BY DEF AssessCrossSource
<1>2. PICK r \in scoped : TRUE
  BY <1>1
<1>3. MissingSides(scoped, r.correlation, comparison) = {}
  BY <1>1, <1>2
<1>4. \A side \in DOMAIN comparison.sources : OfSide(scoped, r.correlation, side) # {}
  BY <1>3 DEF MissingSides
<1> QED BY <1>4 DEF OfSide

(***************************************************************************)
(* Support means that both sides signed, in any context and for any        *)
(* package: see BothSidesSigned.                                           *)
(***************************************************************************)
THEOREM SupportIsSigned ==
  ASSUME NEW ctx, NEW pkg, DOMAIN pkg.receipts \subseteq Roles,
         DOMAIN ctx.expected.sources = Roles, Supported(ctx, pkg)
  PROVE  BothSidesSigned(ctx, pkg)
<1>1. /\ ValidPackage(pkg) /\ ArtifactMatches(ctx, pkg) /\ ManifestMatches(ctx, pkg)
      /\ ~AuthenticatedMismatch(ctx, pkg)
      /\ Projection(ctx, pkg).status = "consistent-in-supplied-snapshots"
  BY DEF Supported, Handoff
<1>2. /\ \A r \in Receipts(pkg) : HistoricallyAuthorized(ctx, r)
      /\ \A r \in Receipts(pkg) : AtCutoff(ctx, r) => r.correlation = ctx.expected.correlation
      /\ AssessCrossSource(Records(ctx, pkg), ComparisonOf(ctx)).status
           = "consistent-in-supplied-snapshots"
  BY <1>1 DEF Projection, NoComparison, ComparisonResult
<1>3. SUFFICES ASSUME NEW role \in Roles
               PROVE  /\ role \in DOMAIN pkg.receipts
                      /\ pkg.receipts[role].role = role
                      /\ HistoricallyAuthorized(ctx, pkg.receipts[role])
                      /\ AtCutoff(ctx, pkg.receipts[role])
                      /\ ClaimBound(ctx, pkg, pkg.receipts[role])
  BY <1>1 DEF BothSidesSigned, ClaimBound, ArtifactMatches
<1>4. PICK rec \in Range(Records(ctx, pkg)) :
        rec.side = role /\ InScope(rec, ComparisonOf(ctx))
  <2>1. role \in DOMAIN ComparisonOf(ctx).sources
    BY DEF ComparisonOf
  <2> QED BY <1>2, <2>1, ConsistentIsPaired
<1>5. PICK q \in DOMAIN pkg.receipts : rec = RecordOf(ctx, pkg.receipts[q])
  BY RecordsAreReceipts
<1>6. q = role /\ pkg.receipts[role].role = role
  BY <1>1, <1>4, <1>5 DEF ValidPackage, RecordOf
<1> DEFINE r == pkg.receipts[role]
<1>7. r \in Receipts(pkg)
  BY <1>5, <1>6 DEF Receipts, Range
<1>8. HistoricallyAuthorized(ctx, r)
  BY <1>2, <1>7
<1>9. AtCutoff(ctx, r)
  <2>1. r \in DOMAIN ctx.observed
    BY <1>8 DEF HistoricallyAuthorized
  <2>2. rec.ts = r.ts /\ rec.observed = ctx.observed[r]
    BY <1>5, <1>6 DEF RecordOf
  <2> QED BY <1>4, <2>1, <2>2 DEF AtCutoff, InScope, ComparisonOf
<1>10. ClaimBound(ctx, pkg, r)
  BY <1>1, <1>7, <1>8, <1>9 DEF AuthenticatedMismatch
<1> QED BY <1>5, <1>6, <1>8, <1>9, <1>10

-----------------------------------------------------------------------------

(* A package's receipts are receipts that were made, one for a role. *)
LEMMA PackageShape ==
  ASSUME NEW pkg \in Packages
  PROVE  DOMAIN pkg.receipts \subseteq Roles /\ Receipts(pkg) \subseteq receipts
<1>1. PICK R \in SUBSET Roles : pkg.receipts \in [R -> receipts]
  BY DEF Packages
<1> QED BY <1>1 DEF Receipts, Range

(* The context of a review: its sources, the events known at its snapshot, and
   the evidence observed. *)
LEMMA ContextShape ==
  ASSUME NEW statusAt
  PROVE  LET ctx == Context(now, statusAt, now)
         IN  /\ DOMAIN ctx.expected.sources = Roles
             /\ ctx.status.events = KnownEvents(statusAt)
             /\ \A r \in DOMAIN ctx.observed : r \in DOMAIN observed /\ ctx.observed[r] = observed[r]
BY ReviewAssumption DEF Context, Expected, StatusAsOf

(***************************************************************************)
(* At any time, for any history of thefts, reports and deliveries, support *)
(* for a package means that both sides signed.                             *)
(***************************************************************************)
THEOREM SupportMeansBothSides == ReviewSpec => []SupportedMeansBothSides
<1>1. SupportedMeansBothSides
  BY PackageShape, ContextShape, SupportIsSigned DEF SupportedMeansBothSides
<1> QED BY <1>1, PTL

(* The policy in force is issued, and none issued is newer. *)
LEMMA InForceIsLatest ==
  ASSUME NEW at \in Nat
  PROVE  InForce(at) \in Issued(at) /\ \A i \in Issued(at) : i <= InForce(at)
<1>1. /\ Len(IssuedAt) \in Nat /\ DOMAIN IssuedAt = 1..Len(IssuedAt)
      /\ Len(IssuedAt) >= 1 /\ \A i \in DOMAIN IssuedAt : IssuedAt[i] \in Nat
  BY ReviewAssumption
<1>2. Issued(at) \subseteq Nat /\ \A i \in Issued(at) : i <= Len(IssuedAt)
  BY <1>1 DEF Issued
<1>3. 1 \in Issued(at)
  BY <1>1, ReviewAssumption DEF Issued
<1>4. PICK x \in Issued(at) : \A y \in Issued(at) : y <= x
  BY <1>1, <1>2, <1>3, GreatestElement
<1>5. \A y \in Issued(at) : x >= y
  BY <1>2, <1>4
<1>6. InForce(at) \in Issued(at) /\ \A y \in Issued(at) : InForce(at) >= y
  BY <1>5 DEF InForce, Max
<1> QED BY <1>2, <1>6

(***************************************************************************)
(* Where forged receipts come from: their signature is valid only if the   *)
(* key had been stolen before, and nobody observes a receipt before it is  *)
(* made.  Its policy was issued by then.                                   *)
(***************************************************************************)
ForgedAfterTheft ==
  \A r \in receipts \ genuine :
    r.signed => /\ r.key \in DOMAIN stolen
                /\ r \in DOMAIN observed => stolen[r.key] <= observed[r]

MadeBeforeObserved ==
  /\ \A r \in receipts : r.epoch \in Issued(now)
  /\ \A r \in DOMAIN observed :
       /\ r \in receipts /\ observed[r] \in Nat /\ observed[r] <= now
       /\ r.epoch \in Issued(observed[r])

EventsReported ==
  \A e \in events :
    /\ e.at \in Nat /\ e.reported \in Nat /\ e.at <= e.reported
    /\ \A f \in events : f.key = e.key => f = e

ReviewInv ==
  /\ now \in Nat
  /\ \A k \in DOMAIN stolen : stolen[k] \in Nat /\ stolen[k] <= now
  /\ MadeBeforeObserved /\ EventsReported /\ ForgedAfterTheft

(* What the review's proofs rest on (ReviewInv) holds in every state: thefts
   and observations are in the past, a key's report follows its misuse and is
   made once, and what was signed without its owner was signed with a stolen
   key. *)
THEOREM ReviewInvariant == ReviewSpec => []ReviewInv
<1>1. IssuedAt # << >> /\ IssuedAt \in Seq(Nat) /\ IssuedAt[1] = 0
  BY ReviewAssumption
<1>2. \A n \in Nat : 1 \in Issued(n) /\ Issued(n) \subseteq Issued(n + 1)
  BY <1>1 DEF Issued
<1>3. ReviewInit => ReviewInv
  BY DEF ReviewInit, ReviewInv, MadeBeforeObserved, EventsReported, ForgedAfterTheft
<1>4. ReviewInv /\ [ReviewNext]_reviewVars => ReviewInv'
  <2> SUFFICES ASSUME ReviewInv, [ReviewNext]_reviewVars PROVE ReviewInv'
    OBVIOUS
  <2> USE DEF ReviewInv
  <2>1. CASE Tick
    <3>1. now' \in Nat /\ now' = now + 1 /\ Issued(now) \subseteq Issued(now)'
      BY <1>2, <2>1 DEF Tick, Issued
    <3> QED BY <2>1, <3>1 DEF Tick, MadeBeforeObserved, EventsReported, ForgedAfterTheft, Issued
  <2>2. ASSUME NEW key \in Stealable, Steal(key) PROVE ReviewInv'
    BY <2>2 DEF Steal, MadeBeforeObserved, EventsReported, ForgedAfterTheft, Issued
  <2>3. ASSUME NEW key \in Stealable, NEW at \in 0..now, Report(key, at) PROVE ReviewInv'
    <3>1. MadeBeforeObserved' /\ ForgedAfterTheft'
      BY <2>3 DEF Report, MadeBeforeObserved, ForgedAfterTheft, Issued
    <3>2. EventsReported'
      BY <2>3 DEF Report, EventsReported
    <3> QED BY <2>3, <3>1, <3>2 DEF Report
  <2>4. ASSUME NEW r, Add(r), r.epoch \in Issued(now),
               \/ genuine' = genuine \cup {r}
               \/ genuine' = genuine /\ (r.signed => r.key \in DOMAIN stolen)
        PROVE  ReviewInv'
    <3>1. MadeBeforeObserved' /\ EventsReported'
      BY <2>4 DEF Add, MadeBeforeObserved, EventsReported, Issued
    <3>2. ForgedAfterTheft'
      BY <2>4 DEF Add, ForgedAfterTheft, MadeBeforeObserved
    <3> QED BY <2>4, <3>1, <3>2 DEF Add
  <2>5. ASSUME NEW role \in Roles, Fabricate(role) PROVE ReviewInv'
    BY <1>2, <2>4, <2>5 DEF Fabricate, Receipt
  <2>6. ASSUME NEW role \in Roles, NEW claim \in Claims[role], Sign(role, claim)
        PROVE  ReviewInv'
    BY <2>4, <2>6, InForceIsLatest DEF Sign, Receipt
  <2>7. ASSUME NEW role \in Roles, NEW epoch \in Issued(now),
               NEW ts \in WindowStart..Cutoff, NEW claim \in Claims[role],
               Forge(role, epoch, ts, claim)
        PROVE  ReviewInv'
    BY <2>4, <2>7 DEF Forge, Receipt
  <2>8. ASSUME NEW r \in receipts, Observe(r) PROVE ReviewInv'
    <3>1. MadeBeforeObserved'
      BY <2>8 DEF Observe, MadeBeforeObserved, Issued
    <3>2. EventsReported' /\ ForgedAfterTheft'
      BY <2>8 DEF Observe, EventsReported, ForgedAfterTheft
    <3> QED BY <2>8, <3>1, <3>2 DEF Observe
  <2>9. CASE UNCHANGED reviewVars
    BY <2>9 DEF reviewVars, MadeBeforeObserved, EventsReported, ForgedAfterTheft, Issued
  <2> QED BY <2>1, <2>2, <2>3, <2>5, <2>6, <2>7, <2>8, <2>9 DEF ReviewNext
<1> QED BY <1>3, <1>4, PTL DEF ReviewSpec

(***************************************************************************)
(* A forged receipt is never supported by a party that knows of the theft, *)
(* whatever its date and whatever else is in the package.                  *)
(***************************************************************************)
THEOREM ForgeriesAreBarred == ReviewSpec => []ForgeryNeverSupported
<1>1. ReviewInv => ForgeryNeverSupported
  <2> SUFFICES ASSUME ReviewInv, NEW statusAt \in FreshTimes(now), NEW pkg \in Packages,
                      Supported(Context(now, statusAt, now), pkg),
                      NEW r \in Receipts(pkg) \ genuine
               PROVE  /\ r.key \in DOMAIN stolen
                      /\ ~\E e \in KnownEvents(statusAt) :
                            e.key = r.key /\ e.at <= stolen[r.key]
    BY DEF ForgeryNeverSupported
  <2> DEFINE ctx == Context(now, statusAt, now)
  <2>1. BothSidesSigned(ctx, pkg) /\ r \in receipts
    BY PackageShape, ContextShape, SupportIsSigned
  <2>2. HistoricallyAuthorized(ctx, r)
    BY <2>1 DEF BothSidesSigned, Receipts, Range
  <2>3. /\ r.signed /\ r \in DOMAIN observed
        /\ ~\E e \in KnownEvents(statusAt) : e.key = r.key /\ e.at <= observed[r]
    BY <2>2, ContextShape DEF HistoricallyAuthorized, Event
  <2>4. /\ r.key \in DOMAIN stolen /\ stolen[r.key] <= observed[r]
        /\ stolen[r.key] \in Nat /\ observed[r] \in Nat
    BY <2>1, <2>3 DEF ReviewInv, ForgedAfterTheft, MadeBeforeObserved
  <2>5. \A e \in KnownEvents(statusAt) : e.at \in Nat
    BY DEF ReviewInv, EventsReported, KnownEvents
  <2> QED BY <2>3, <2>4, <2>5
<1> QED BY <1>1, ReviewInvariant, PTL

-----------------------------------------------------------------------------
(***************************************************************************)
(* A policy lapses a refresh period after it was replaced, for every       *)
(* schedule of rotations and however the snapshots were taken.             *)
(***************************************************************************)
THEOREM ReplacementTakesHold == ReviewSpec => []ReplacedPolicyLapses
<1>1. ReviewInv => ReplacedPolicyLapses
  <2> SUFFICES ASSUME ReviewInv, NEW r \in receipts, Granted(r),
                      r.epoch + 1 \in Issued(now)
               PROVE  now < IssuedAt[r.epoch + 1] + Refresh
    BY DEF ReplacedPolicyLapses
  <2>1. PICK statusAt, currentAt \in 0..now :
          CurrentlyAuthorized(Context(now, statusAt, currentAt), r)
    BY DEF Granted
  <2>2. /\ Fresh(CurrentAsOf(currentAt), now)
        /\ CurrentAsOf(currentAt).policy.epoch = r.epoch
    BY <2>1 DEF CurrentlyAuthorized, Context
  <2>3. /\ now < currentAt + Refresh
        /\ Policies[InForce(currentAt)].epoch = r.epoch
    BY <2>2 DEF Fresh, CurrentAsOf
  <2>4. now \in Nat /\ currentAt \in Nat /\ Refresh \in Nat
    BY <2>1, ReviewAssumption DEF ReviewInv
  <2>5. InForce(currentAt) \in Issued(currentAt)
        /\ \A i \in Issued(currentAt) : i <= InForce(currentAt)
    BY <2>4, InForceIsLatest
  <2>6. InForce(currentAt) = r.epoch /\ r.epoch \in Nat
    <3>1. InForce(currentAt) \in DOMAIN IssuedAt
      BY <2>5 DEF Issued
    <3>2. DOMAIN IssuedAt \subseteq Nat /\ DOMAIN IssuedAt = DOMAIN Policies
      BY ReviewAssumption
    <3>3. Policies[InForce(currentAt)].epoch = InForce(currentAt)
      BY <3>1, <3>2, ReviewAssumption
    <3> QED BY <2>3, <3>1, <3>2, <3>3
  <2>7. r.epoch + 1 \in DOMAIN IssuedAt /\ IssuedAt[r.epoch + 1] \in Nat
    <3>1. r.epoch + 1 \in DOMAIN IssuedAt
      BY DEF Issued
    <3>2. \A i \in DOMAIN IssuedAt : IssuedAt[i] \in Nat
      BY ReviewAssumption
    <3> QED BY <3>1, <3>2
  <2>8. ~(IssuedAt[r.epoch + 1] <= currentAt)
    BY <2>5, <2>6, <2>7 DEF Issued
  <2> QED BY <2>3, <2>4, <2>7, <2>8
<1> QED BY <1>1, ReviewInvariant, PTL

-----------------------------------------------------------------------------
(* A careful party's context is valid from the cutoff on. *)
LEMMA ValidContexts ==
  ASSUME ReviewInv, NEW at \in Nat, Cutoff <= at, at <= now, NEW s \in FreshTimes(at)
  PROVE  ValidContext(Context(at, s, at))
<1> DEFINE ctx == Context(at, s, at)
<1>1. s \in Nat /\ Refresh \in Nat /\ Refresh > 0 /\ s <= at /\ at < s + Refresh
  BY ReviewAssumption DEF FreshTimes
<1>2. /\ DistinctRoles(ctx.expected.sources) /\ ctx.expected.start <= ctx.expected.cutoff
      /\ ctx.expected.cutoff <= ctx.evaluation
  BY ReviewAssumption DEF Context, Expected
<1>3. \A p \in ctx.archive : \E i \in DOMAIN IssuedAt : p = Policies[i]
  BY DEF Context, Issued
<1>4. \A i \in DOMAIN IssuedAt : Policies[i].epoch = i /\ ValidPolicy(Policies[i])
  BY ReviewAssumption
<1>5. ValidCurrent(ctx.current, ctx.archive)
  <2>1. InForce(at) \in DOMAIN IssuedAt
    BY InForceIsLatest DEF Issued
  <2>2. ctx.current = [policy |-> Policies[InForce(at)], asOf |-> at, nextUpdate |-> at + Refresh]
    BY DEF Context, CurrentAsOf
  <2> QED BY <1>1, <1>3, <1>4, <2>1, <2>2 DEF ValidCurrent
<1>6. ValidStatus(ctx.status)
  <2>1. ctx.status = [asOf |-> s, nextUpdate |-> s + Refresh, events |-> KnownEvents(s)]
    BY DEF Context, StatusAsOf
  <2>2. \A e \in KnownEvents(s) :
          e.at <= s /\ \A f \in KnownEvents(s) : f.key = e.key => f = e
    BY <1>1 DEF KnownEvents, ReviewInv, EventsReported
  <2> QED BY <1>1, <2>1, <2>2 DEF ValidStatus
<1>7. \A r \in DOMAIN ctx.observed : ctx.observed[r] <= ctx.evaluation
  BY DEF Context
<1> QED BY <1>2, <1>3, <1>4, <1>5, <1>6, <1>7 DEF ValidContext

(* A status snapshot knows the events reported by its date. *)
LEMMA KnownIfReported ==
  ASSUME NEW s, NEW key, NEW at
  PROVE  (\E e \in KnownEvents(s) : e.key = key /\ e.at <= at)
           <=> (\E e \in events : e.reported <= s /\ e.key = key /\ e.at <= at)
<1>1. ASSUME NEW e \in events, e.reported <= s, e.key = key, e.at <= at
      PROVE  \E k \in KnownEvents(s) : k.key = key /\ k.at <= at
  <2>1. [key |-> e.key, at |-> e.at] \in KnownEvents(s)
    BY <1>1 DEF KnownEvents
  <2> QED BY <1>1, <2>1
<1>2. ASSUME NEW k \in KnownEvents(s), k.key = key, k.at <= at
      PROVE  \E e \in events : e.reported <= s /\ e.key = key /\ e.at <= at
  <2>1. PICK e \in {f \in events : f.reported <= s} : k = [key |-> e.key, at |-> e.at]
    BY <1>2 DEF KnownEvents
  <2> QED BY <1>2, <2>1
<1> QED BY <1>1, <1>2

(* The authority of a receipt does not depend on when it is reviewed. *)
LEMMA AuthorityKept ==
  ASSUME ReviewInv, NEW at \in Nat, at <= now,
         NEW s1 \in FreshTimes(at), NEW s2 \in FreshTimes(now),
         NEW r \in DOMAIN observed, observed[r] <= at,
         ~\E e \in events : /\ (e.reported <= s1) # (e.reported <= s2)
                            /\ e.key = r.key /\ e.at <= observed[r]
  PROVE  HistoricallyAuthorized(Context(at, s1, at), r)
           <=> HistoricallyAuthorized(Context(now, s2, now), r)
<1> DEFINE c1 == Context(at, s1, at)
           c2 == Context(now, s2, now)
<1>1. now \in Nat /\ Refresh \in Nat /\ Refresh > 0 /\ s1 \in Nat /\ s2 \in Nat
  BY ReviewAssumption DEF ReviewInv, FreshTimes
<1>2. /\ r \in DOMAIN c1.observed /\ c1.observed[r] = observed[r]
      /\ r \in DOMAIN c2.observed /\ c2.observed[r] = observed[r]
  BY DEF Context, ReviewInv, MadeBeforeObserved
<1>3. Fresh(c1.status, c1.evaluation) /\ Fresh(c2.status, c2.evaluation)
  BY <1>1 DEF Context, StatusAsOf, FreshTimes, Fresh, None
<1>4. Event(c1, r.key, observed[r]) <=> Event(c2, r.key, observed[r])
  <2>1. c1.status.events = KnownEvents(s1) /\ c2.status.events = KnownEvents(s2)
    BY DEF Context, StatusAsOf
  <2>2. (\E e \in KnownEvents(s1) : e.key = r.key /\ e.at <= observed[r])
          <=> (\E e \in events : e.reported <= s1 /\ e.key = r.key /\ e.at <= observed[r])
    BY KnownIfReported
  <2>3. (\E e \in KnownEvents(s2) : e.key = r.key /\ e.at <= observed[r])
          <=> (\E e \in events : e.reported <= s2 /\ e.key = r.key /\ e.at <= observed[r])
    BY KnownIfReported
  <2> QED BY <2>1, <2>2, <2>3 DEF Event
<1>5. \A p : p.epoch = r.epoch => (p \in c1.archive <=> p \in c2.archive)
  <2>1. \A i \in DOMAIN IssuedAt : Policies[i].epoch = i /\ IssuedAt[i] \in Nat
    BY ReviewAssumption
  <2>2. r.epoch \in Issued(at) /\ r.epoch \in Issued(now)
    BY <1>1, <2>1 DEF ReviewInv, MadeBeforeObserved, Issued
  <2>3. \A p : p \in c1.archive /\ p.epoch = r.epoch => p = Policies[r.epoch]
    BY <2>1 DEF Context, Issued
  <2>4. \A p : p \in c2.archive /\ p.epoch = r.epoch => p = Policies[r.epoch]
    BY <2>1 DEF Context, Issued
  <2>5. Policies[r.epoch] \in c1.archive /\ Policies[r.epoch] \in c2.archive
    BY <2>2 DEF Context
  <2> QED BY <2>3, <2>4, <2>5
<1>6. \A p : BindingMatches(c1, p, r) <=> BindingMatches(c2, p, r)
  BY DEF BindingMatches, Context
<1> QED BY <1>2, <1>3, <1>4, <1>5, <1>6 DEF HistoricallyAuthorized

(***************************************************************************)
(* Reviews at different times agree, for all histories, packages and       *)
(* snapshots, unless just one of the reviewers knew an event effective by  *)
(* the time a receipt was observed.                                        *)
(***************************************************************************)
THEOREM ReviewsAgree == ReviewSpec => []ReviewersAgree
<1>1. ReviewInv => ReviewersAgree
  <2> SUFFICES ASSUME ReviewInv, NEW at \in Cutoff..(now - 1),
                      NEW s1 \in FreshTimes(at), NEW s2 \in FreshTimes(now),
                      NEW pkg \in Packages, ObservedBy(at, pkg), ~EventBetween(s1, s2, pkg)
               PROVE  Handoff(Context(at, s1, at), pkg) = Handoff(Context(now, s2, now), pkg)
    BY DEF ReviewersAgree
  <2> DEFINE c1 == Context(at, s1, at)
             c2 == Context(now, s2, now)
  <2>1. at \in Nat /\ now \in Nat /\ Cutoff \in Nat /\ Cutoff <= at /\ at < now
    BY ReviewAssumption DEF ReviewInv
  <2>2. ValidContext(c1) /\ ValidContext(c2)
    BY <2>1, ValidContexts
  <2>3. c1.expected = c2.expected
    BY DEF Context
  <2>4. \A r \in Receipts(pkg) :
          HistoricallyAuthorized(c1, r) <=> HistoricallyAuthorized(c2, r)
    BY <2>1, AuthorityKept DEF ObservedBy, EventBetween
  <2>5. \A r \in Receipts(pkg) :
          /\ r \in DOMAIN c1.observed /\ r \in DOMAIN c2.observed
          /\ c1.observed[r] = c2.observed[r]
    BY <2>1 DEF Context, ObservedBy, ReviewInv, MadeBeforeObserved
  <2>6. \A r \in Receipts(pkg) : AtCutoff(c1, r) <=> AtCutoff(c2, r)
    BY <2>3, <2>5 DEF AtCutoff
  <2>7. Records(c1, pkg) = Records(c2, pkg)
    <3>1. \A i \in DOMAIN Present(pkg) :
            RecordOf(c1, pkg.receipts[Present(pkg)[i]]) = RecordOf(c2, pkg.receipts[Present(pkg)[i]])
      BY <2>5, PresentReceipts DEF RecordOf
    <3> QED BY <3>1 DEF Records
  <2>8. ComparisonOf(c1) = ComparisonOf(c2)
    BY <2>3 DEF ComparisonOf
  <2>9. Projection(c1, pkg) = Projection(c2, pkg)
    BY <2>3, <2>4, <2>6, <2>7, <2>8 DEF Projection
  <2>10. AuthenticatedMismatch(c1, pkg) <=> AuthenticatedMismatch(c2, pkg)
    BY <2>3, <2>4, <2>6 DEF AuthenticatedMismatch, ClaimBound, ArtifactMatches, ManifestMatches
  <2> QED BY <2>2, <2>3, <2>9, <2>10 DEF Handoff, ArtifactMatches, ManifestMatches
<1> QED BY <1>1, ReviewInvariant, PTL

-----------------------------------------------------------------------------
(* The two implementations.  First, the trace of at most two receipts.      *)

(* The fields a reader has, and a reading it has no reason to refuse.       *)
ReaderShape(R) ==
  R = [ids |-> R.ids, last |-> R.last, begun |-> R.begun, moved |-> R.moved, kept |-> R.kept]

NewSense(R, r) ==
  /\ r.kind = "sense" /\ r.id # Malformed /\ r.id \notin R.ids
  /\ r.thread # Malformed /\ r.ts # Malformed /\ ~Precedes(r.ts, R.last[r.thread])

SenseKept(R, r, Q) ==
  /\ Q.ids = R.ids \cup {r.id}
  /\ Q.last = [R.last EXCEPT ![r.thread] = r.ts]
  /\ Q.kept = Append(R.kept, r)

(* The reader keeps a sense record that it has no reason to refuse. *)
LEMMA SenseIsKept ==
  ASSUME NEW R, NEW r, ReaderShape(R), NewSense(R, r)
  PROVE  ReaderShape(Read(R, r)) /\ SenseKept(R, r, Read(R, r))
<1>1. PICK ids, last, begun, moved, kept :
        R = [ids |-> ids, last |-> last, begun |-> begun, moved |-> moved, kept |-> kept]
  BY DEF ReaderShape
<1>2. R.ids = ids /\ R.last = last /\ R.kept = kept
  BY <1>1
<1>3. PICK ids2, last2, begun2, kept2 :
        /\ ids2 = ids \cup {r.id} /\ last2 = [last EXCEPT ![r.thread] = r.ts]
        /\ begun2 = begun \cup {r.thread} /\ kept2 = Append(kept, r)
  OBVIOUS
<1> DEFINE named == [R EXCEPT !.ids = @ \cup {r.id}]
           timed == [named EXCEPT !.last[r.thread] = r.ts]
<1>4. named = [ids |-> ids \cup {r.id}, last |-> last, begun |-> begun, moved |-> moved,
               kept |-> kept]
  BY <1>1
<1>5. timed = [ids |-> ids2, last |-> last2, begun |-> begun, moved |-> moved, kept |-> kept]
  <2>1. PICK T : T = named
    OBVIOUS
  <2>2. T = [ids |-> ids2, last |-> last, begun |-> begun, moved |-> moved, kept |-> kept]
    BY Zenon, <1>3, <1>4, <2>1
  <2>3. [T EXCEPT !.last[r.thread] = r.ts]
          = [ids |-> ids2, last |-> [last EXCEPT ![r.thread] = r.ts], begun |-> begun,
             moved |-> moved, kept |-> kept]
    BY <2>2
  <2>4. timed = [T EXCEPT !.last[r.thread] = r.ts]
    BY Zenon, <2>1
  <2> HIDE DEF named, timed
  <2> QED BY Zenon, <1>3, <2>3, <2>4
<1>6. WellFormed(r) /\ Grounded(R, r)
  BY DEF NewSense, WellFormed, Grounded, Kinds
<1>7. Read(R, r) = Keep(timed, r)
  BY <1>6 DEF Read, NewSense
<1> HIDE DEF timed, named
<1>8. Keep(timed, r) = [timed EXCEPT !.begun = @ \cup {r.thread}, !.moved = @,
                                     !.kept  = Append(@, r)]
  BY DEF Keep, NewSense
<1>9. PICK Q : Q = Read(R, r)
  OBVIOUS
<1>10. Q = [ids |-> ids2, last |-> last2, begun |-> begun2, moved |-> moved, kept |-> kept2]
  BY <1>3, <1>5, <1>7, <1>8, <1>9
<1>11. /\ Q.ids = ids2 /\ Q.last = last2 /\ Q.begun = begun2 /\ Q.moved = moved
       /\ Q.kept = kept2
  BY <1>10
<1>12. ReaderShape(Q)
  BY <1>10, <1>11 DEF ReaderShape
<1> QED BY <1>2, <1>3, <1>9, <1>11, <1>12 DEF SenseKept

(* The readers of Reading, and what they are for at most two records. *)
Walk(rs) ==
  CHOOSE after : after = [n \in 0..Len(rs) |->
                           IF n = 0 THEN Start ELSE Read(after[n - 1], rs[n])]

(* Reading no more than two records, written out. *)
LEMMA ReadingOfTwo ==
  ASSUME NEW rs, Len(rs) \in 0..2
  PROVE  Reading(rs) = IF Len(rs) = 0 THEN Start
                       ELSE IF Len(rs) = 1 THEN Read(Start, rs[1])
                       ELSE Read(Read(Start, rs[1]), rs[2])
<1> DEFINE one == Read(Start, rs[1])
           two == Read(one, rs[2])
           f == [n \in 0..Len(rs) |-> IF n = 0 THEN Start ELSE IF n = 1 THEN one ELSE two]
           e(g, n) == IF n = 0 THEN Start ELSE Read(g[n - 1], rs[n])
<1>1. f = [n \in 0..Len(rs) |-> e(f, n)]
  <2>1. ASSUME NEW n \in 0..Len(rs) PROVE f[n] = e(f, n)
    <3>1. CASE n = 0
      BY <3>1
    <3>2. CASE n = 1
      <4>1. 0 \in 0..Len(rs)
        OBVIOUS
      <4> QED BY <3>2, <4>1
    <3>3. CASE n = 2
      <4>1. 1 \in 0..Len(rs) /\ n - 1 = 1
        BY <3>3
      <4> QED BY <3>3, <4>1
    <3> QED BY <3>1, <3>2, <3>3
  <2>2. f = [n \in 0..Len(rs) |-> f[n]]
    OBVIOUS
  <2> HIDE DEF f, e
  <2> QED BY <2>1, <2>2
<1>2. Walk(rs) = [n \in 0..Len(rs) |-> e(Walk(rs), n)]
  <2> HIDE DEF f
  <2> QED BY <1>1, Zenon DEF Walk
<1> DEFINE w == Walk(rs)
<1>3. \A n \in 0..Len(rs) : w[n] = e(w, n)
  <2> HIDE DEF w, e
  <2> QED BY <1>2 DEF w
<1>4. Reading(rs) = w[Len(rs)]
  BY Zenon DEF Reading, Walk
<1> HIDE DEF w
<1>5. w[0] = Start
  BY <1>3
<1>6. Len(rs) >= 1 => w[1] = one
  BY <1>3, <1>5
<1>7. Len(rs) = 2 => w[2] = two
  <2> SUFFICES ASSUME Len(rs) = 2 PROVE w[2] = two
    OBVIOUS
  <2>1. w[2] = e(w, 2) /\ 2 - 1 = 1 /\ w[1] = one
    BY <1>3, <1>6
  <2> QED BY <2>1
<1>8. CASE Len(rs) = 0
  BY <1>4, <1>5, <1>8
<1>9. CASE Len(rs) = 1
  BY <1>4, <1>6, <1>9
<1>10. CASE Len(rs) = 2
  BY <1>4, <1>7, <1>10
<1> QED BY <1>8, <1>9, <1>10

(* At most two readings with ids and threads of their own are never refused. *)
LEMMA SensesAreValid ==
  ASSUME NEW rs, NEW S, rs \in Seq(S), Len(rs) \in 0..2,
         \A r \in S : /\ r.kind = "sense" /\ r.id # Malformed
                      /\ r.thread \in Threads \ {Malformed}
                      /\ r.ts # Malformed,
         Len(rs) = 2 => rs[1].id # rs[2].id /\ rs[1].thread # rs[2].thread
  PROVE  ValidTrace(rs)
<1>1. /\ ReaderShape(Start) /\ Start.ids = {} /\ Start.kept = <<>>
      /\ Start.last \in [Threads -> {NaN}]
  BY DEF Start, ReaderShape
<1>2. CASE Len(rs) = 0
  <2>1. Reading(rs) = Start /\ rs = <<>>
    BY <1>2, ReadingOfTwo
  <2> QED BY <1>1, <2>1 DEF ValidTrace
<1>3. CASE Len(rs) # 0
  <2>1. PICK r : r = rs[1]
    OBVIOUS
  <2>2. r \in S
    BY <1>3, <2>1
  <2>3. PICK R : R = Read(Start, r)
    OBVIOUS
  <2>4. r.id \notin Start.ids /\ ~Precedes(r.ts, Start.last[r.thread])
    BY <1>1, <2>2 DEF Precedes
  <2>5. /\ ReaderShape(R) /\ R.ids = {r.id} /\ R.kept = Append(<<>>, r)
        /\ R.last = [Start.last EXCEPT ![r.thread] = r.ts]
    <3>1. NewSense(Start, r)
      BY <2>2, <2>4 DEF NewSense
    <3>2. ReaderShape(R) /\ SenseKept(Start, r, R)
      BY Zenon, <1>1, <2>3, <3>1, SenseIsKept
    <3>3. Start.ids \cup {r.id} = {r.id}
      BY <1>1
    <3> QED BY Zenon, <1>1, <3>2, <3>3 DEF SenseKept
  <2>6. CASE Len(rs) = 1
    <3>1. Reading(rs) = R
      BY <2>1, <2>3, <2>6, ReadingOfTwo
    <3>2. rs = Append(<<>>, r)
      BY <2>1, <2>6
    <3> QED BY <2>5, <3>1, <3>2 DEF ValidTrace
  <2>7. CASE Len(rs) = 2
    <3>1. PICK q : q = rs[2]
      OBVIOUS
    <3>2. q \in S /\ q.id # r.id /\ q.thread # r.thread
      <4>1. rs[2] \in S
        BY <2>7
      <4>2. rs[1].id # rs[2].id /\ rs[1].thread # rs[2].thread
        BY Zenon, <2>7
      <4> QED BY Zenon, <2>1, <3>1, <4>1, <4>2
    <3>3. q.id \notin R.ids
      BY <2>5, <3>2
    <3>4. R.last[q.thread] = NaN
      <4>1. q.thread \in Threads /\ Start.last[q.thread] = NaN
        BY <1>1, <3>2
      <4>2. PICK f : f = Start.last
        OBVIOUS
      <4>3. f \in [Threads -> {NaN}] /\ R.last = [f EXCEPT ![r.thread] = r.ts]
        BY <1>1, <2>5, <4>2
      <4> QED BY <3>2, <4>1, <4>2, <4>3
    <3>5. ~Precedes(q.ts, R.last[q.thread])
      BY <3>4 DEF Precedes
    <3>6. PICK Q : Q = Read(R, q)
      OBVIOUS
    <3>7. Q.kept = Append(R.kept, q)
      <4>1. NewSense(R, q)
        BY <3>2, <3>3, <3>5 DEF NewSense
      <4>2. SenseKept(R, q, Q)
        BY Zenon, <2>5, <3>6, <4>1, SenseIsKept
      <4> QED BY <4>2 DEF SenseKept
    <3>8. Reading(rs) = Q
      <4>1. Len(rs) # 0 /\ Len(rs) # 1
        BY <2>7
      <4>2. Reading(rs) = Read(Read(Start, rs[1]), rs[2])
        BY Zenon, <4>1, ReadingOfTwo
      <4> QED BY Zenon, <2>1, <2>3, <3>1, <3>6, <4>2
    <3>9. rs = Append(Append(<<>>, r), q)
      BY <2>1, <2>7, <3>1
    <3> QED BY <2>5, <3>7, <3>8, <3>9 DEF ValidTrace
  <2> QED BY <1>3, <2>6, <2>7
<1> QED BY <1>2, <1>3

(* The report of assess_cross_source, from the parts it is made of. *)

Scope(rs, c) == {r \in Range(rs) : MeetsProfile(r, c) /\ InScope(r, c)}
Late(rs, c) == {r \in Range(rs) : MeetsProfile(r, c) /\ ~InScope(r, c)}

Evaluable(rs, c) ==
  /\ \A r \in Range(rs) : MeetsProfile(r, c)
  /\ ~DuplicateSide(Scope(rs, c))
  /\ Scope(rs, c) # {}

Actions(scoped) == {r.correlation : r \in scoped}
Unpaired(scoped, c) == {k \in Actions(scoped) : MissingSides(scoped, k, c) # {}}
Conflicting(scoped, c) ==
  {k \in Actions(scoped) \ Unpaired(scoped, c) : Cardinality(DigestsOf(scoped, k)) > 1}
MissingPairs(scoped, c) == {<<k, MissingSides(scoped, k, c)>> : k \in Unpaired(scoped, c)}

Conclusion(scoped, c) ==
  IF Conflicting(scoped, c) # {} \/ (Unpaired(scoped, c) # {} /\ c.final) THEN "violated"
  ELSE IF ~c.final THEN "insufficient-snapshot-finality"
  ELSE "consistent-in-supplied-snapshots"

Reported(valid, evaluable, scoped, late, c) ==
  IF ~valid
  THEN [status |-> "invalid-trace", matched |-> {}, missing |-> {}, conflicts |-> {},
        excluded |-> {}]
  ELSE IF ~evaluable
  THEN [status |-> "not-evaluable", matched |-> {}, missing |-> {}, conflicts |-> {},
        excluded |-> late]
  ELSE [status |-> Conclusion(scoped, c),
        matched |-> Actions(scoped) \ (Unpaired(scoped, c) \cup Conflicting(scoped, c)),
        missing |-> MissingPairs(scoped, c),
        conflicts |-> Conflicting(scoped, c), excluded |-> late]

(* The assessment as a function of its named parts. *)
LEMMA AssessmentParts ==
  ASSUME NEW rs, NEW c
  PROVE  AssessCrossSource(rs, c)
           = Reported(ValidSupplied(rs), Evaluable(rs, c), Scope(rs, c), Late(rs, c), c)
  BY Zenon DEF AssessCrossSource, Reported, Evaluable, Scope, Late, Actions, Unpaired,
               Conflicting, MissingPairs, Conclusion

(* What both implementations validate before they compare: who the sides    *)
(* are, and receipts under their own roles with ids and times.              *)
ReadableReview(ctx, pkg) ==
  /\ ValidPackage(pkg) /\ DOMAIN pkg.receipts \subseteq Roles
  /\ DOMAIN ctx.expected.sources = Roles /\ DistinctRoles(ctx.expected.sources)
  /\ \A role \in Roles : ctx.expected.sources[role] \in Threads \ {Malformed}
  /\ \A role \in DOMAIN pkg.receipts :
       LET r == pkg.receipts[role]
       IN  /\ r.id # Malformed /\ r.ts \in Nat /\ r.ts # Malformed
           /\ r \in DOMAIN ctx.observed => ctx.observed[r] \in Nat

(* The record made of the receipt of a role. *)
RecordFor(ctx, pkg, role) == RecordOf(ctx, pkg.receipts[role])

AllAuthorized(ctx, pkg) ==
  \A role \in DOMAIN pkg.receipts : HistoricallyAuthorized(ctx, pkg.receipts[role])

(* The records of a package are one for each role it has a receipt of. *)
LEMMA RecordsAreForRoles ==
  ASSUME NEW ctx, NEW pkg, DOMAIN pkg.receipts \subseteq Roles
  PROVE  Range(Records(ctx, pkg)) = {RecordFor(ctx, pkg, role) : role \in DOMAIN pkg.receipts}
<1>1. \A rec \in Range(Records(ctx, pkg)) :
        \E role \in DOMAIN pkg.receipts : rec = RecordFor(ctx, pkg, role)
  BY RecordsAreReceipts DEF RecordFor
<1>2. ASSUME NEW role \in DOMAIN pkg.receipts
      PROVE  RecordFor(ctx, pkg, role) \in Range(Records(ctx, pkg))
  <2>1. PICK i \in DOMAIN Present(pkg) : Present(pkg)[i] = role
    <3>1. CASE DOMAIN pkg.receipts = Roles
      <4>1. Present(pkg) = <<"sender", "receiver">>
        BY <3>1 DEF Present
      <4>2. role = "sender" \/ role = "receiver"
        BY <3>1 DEF Roles
      <4> QED BY <4>1, <4>2
    <3>2. CASE DOMAIN pkg.receipts # Roles
      <4>1. \A other \in DOMAIN pkg.receipts : other = role
        BY <3>2 DEF Roles
      <4>2. Present(pkg) = <<CHOOSE one \in DOMAIN pkg.receipts : TRUE>>
        BY <3>2 DEF Present
      <4>3. (CHOOSE one \in DOMAIN pkg.receipts : TRUE) \in DOMAIN pkg.receipts
        OBVIOUS
      <4>4. Present(pkg) = <<role>>
        BY <4>1, <4>2, <4>3
      <4> QED BY <4>4
    <3> QED BY <3>1, <3>2
  <2>2. i \in DOMAIN Records(ctx, pkg) /\ Records(ctx, pkg)[i] = RecordFor(ctx, pkg, role)
    BY <2>1 DEF Records, RecordFor
  <2> QED BY <2>2 DEF Range
<1> QED BY <1>1, <1>2

(* What an authorized receipt looks like in the reconciliation. *)
LEMMA RecordOfAuthorized ==
  ASSUME NEW ctx, NEW pkg, ReadableReview(ctx, pkg), AllAuthorized(ctx, pkg),
         NEW role \in DOMAIN pkg.receipts
  PROVE  LET r   == pkg.receipts[role]
             rec == RecordFor(ctx, pkg, role)
         IN  /\ role \in Roles /\ rec.side = role
             /\ rec.correlation = r.correlation /\ rec.digest = r.artifact
             /\ rec.id = r.id /\ rec.kind = "sense" /\ rec.ts = r.ts
             /\ rec.thread = ctx.expected.sources[role]
             /\ MeetsProfile(rec, ComparisonOf(ctx))
             /\ InScope(rec, ComparisonOf(ctx)) <=> role \in Included(ctx, pkg)
<1> DEFINE r == pkg.receipts[role]
           rec == RecordFor(ctx, pkg, role)
           c == ComparisonOf(ctx)
<1>1. /\ rec.side = r.role /\ rec.source = r.source /\ rec.thread = r.source
      /\ rec.correlation = r.correlation /\ rec.digest = r.artifact /\ rec.id = r.id
      /\ rec.kind = "sense" /\ rec.ts = r.ts /\ rec.observed = ctx.observed[r]
  BY DEF RecordFor, RecordOf
<1>2. role \in Roles /\ r.role = role /\ r.ts \in Nat
  BY DEF ReadableReview, ValidPackage
<1>3. HistoricallyAuthorized(ctx, r)
  BY DEF AllAuthorized
<1>4. /\ r \in DOMAIN ctx.observed /\ r.ts <= ctx.observed[r]
      /\ r.source = ctx.expected.sources[r.role]
  BY <1>3 DEF HistoricallyAuthorized, BindingMatches
<1>5. ctx.observed[r] \in Nat
  BY <1>4 DEF ReadableReview
<1>6. /\ c.sources = ctx.expected.sources /\ c.start = ctx.expected.start
      /\ c.cutoff = ctx.expected.cutoff /\ DOMAIN c.sources = Roles
  BY DEF ComparisonOf, ReadableReview
<1> HIDE DEF r, rec, c
<1>7. MeetsProfile(rec, c)
  BY <1>1, <1>2, <1>4, <1>5, <1>6 DEF MeetsProfile
<1>8. InScope(rec, c) <=> AtCutoff(ctx, r)
  BY <1>1, <1>4, <1>6 DEF InScope, AtCutoff
<1>9. AtCutoff(ctx, r) <=> role \in Included(ctx, pkg)
  BY DEF Included, r
<1> QED BY <1>1, <1>2, <1>4, <1>7, <1>8, <1>9 DEF r, rec, c

(* Hence the trace is valid ... *)
LEMMA AuthorizedTraceIsValid ==
  ASSUME NEW ctx, NEW pkg, ReadableReview(ctx, pkg), AllAuthorized(ctx, pkg)
  PROVE  ValidSupplied(Records(ctx, pkg))
<1> DEFINE rs == Records(ctx, pkg)
           P  == Present(pkg)
           S  == {RecordFor(ctx, pkg, role) : role \in DOMAIN pkg.receipts}
<1>1. /\ DOMAIN rs = DOMAIN P
      /\ \A i \in DOMAIN P : P[i] \in DOMAIN pkg.receipts /\ rs[i] = RecordFor(ctx, pkg, P[i])
  BY PresentReceipts DEF Records, RecordFor
<1>2. /\ Len(P) \in 0..2 /\ DOMAIN P = 1..Len(P)
      /\ Len(P) = 2 => /\ DOMAIN pkg.receipts = Roles
                       /\ P[1] = "sender" /\ P[2] = "receiver"
  <2>1. CASE DOMAIN pkg.receipts = Roles
    <3>1. P = <<"sender", "receiver">>
      BY <2>1 DEF Present
    <3> QED BY <2>1, <3>1
  <2>2. CASE DOMAIN pkg.receipts # Roles
    <3>1. P = << >> \/ P = <<CHOOSE one \in DOMAIN pkg.receipts : TRUE>>
      BY <2>2 DEF Present
    <3>2. Len(P) \in 0..1 /\ DOMAIN P = 1..Len(P)
      <4> HIDE DEF P
      <4>1. CASE P = << >>
        BY <4>1
      <4>2. CASE P = <<CHOOSE one \in DOMAIN pkg.receipts : TRUE>>
        BY <4>2
      <4> QED BY <3>1, <4>1, <4>2
    <3> QED BY <3>2
  <2> QED BY <2>1, <2>2
<1>3. rs \in Seq(S) /\ Len(rs) = Len(P)
  <2>1. rs = [i \in 1..Len(P) |-> RecordFor(ctx, pkg, P[i])]
    BY <1>2 DEF Records, RecordFor
  <2>2. \A i \in 1..Len(P) : RecordFor(ctx, pkg, P[i]) \in S
    BY <1>1, <1>2
  <2> HIDE DEF rs, S, P
  <2> QED BY <1>2, <2>1, <2>2
<1>4. \A rec \in S : /\ rec.kind = "sense" /\ rec.id # Malformed
                     /\ rec.thread \in Threads \ {Malformed}
                     /\ rec.ts \in Nat /\ rec.ts # Malformed
  BY RecordOfAuthorized DEF ReadableReview
<1>5. Len(rs) = 2 => rs[1].id # rs[2].id /\ rs[1].thread # rs[2].thread
  <2> SUFFICES ASSUME Len(rs) = 2 PROVE rs[1].id # rs[2].id /\ rs[1].thread # rs[2].thread
    OBVIOUS
  <2>1. /\ DOMAIN pkg.receipts = Roles
        /\ rs[1] = RecordFor(ctx, pkg, "sender") /\ rs[2] = RecordFor(ctx, pkg, "receiver")
    BY <1>1, <1>2, <1>3
  <2>2. "sender" \in DOMAIN pkg.receipts /\ "receiver" \in DOMAIN pkg.receipts
    BY <2>1 DEF Roles
  <2>3. /\ rs[1].id = pkg.receipts["sender"].id /\ rs[2].id = pkg.receipts["receiver"].id
        /\ rs[1].thread = ctx.expected.sources["sender"]
        /\ rs[2].thread = ctx.expected.sources["receiver"]
    BY <2>1, <2>2, RecordOfAuthorized
  <2> QED BY <2>1, <2>3 DEF ReadableReview, ValidPackage, DistinctRoles
<1>6. \A rec \in Range(rs) : rec.ts # NaN
  <2>1. \A i \in DOMAIN rs : rs[i] \in S
    BY <1>3
  <2> HIDE DEF rs, S
  <2> QED BY <1>4, <2>1, ReviewAssumption DEF Range
<1> HIDE DEF rs, S
<1> QED BY <1>2, <1>3, <1>4, <1>5, <1>6, SensesAreValid DEF ValidSupplied, rs

(* ... and every record in it counts, those of the roles included as in     *)
(* scope.                                                                   *)
LEMMA ScopeIsIncluded ==
  ASSUME NEW ctx, NEW pkg, ReadableReview(ctx, pkg), AllAuthorized(ctx, pkg)
  PROVE  LET rs  == Records(ctx, pkg)
             c   == ComparisonOf(ctx)
             inc == Included(ctx, pkg)
         IN  /\ inc \subseteq DOMAIN pkg.receipts
             /\ Scope(rs, c) = {RecordFor(ctx, pkg, role) : role \in inc}
             /\ {r.side : r \in Late(rs, c)} = DOMAIN pkg.receipts \ inc
             /\ Evaluable(rs, c) <=> inc # {}
<1> DEFINE rs == Records(ctx, pkg)
           c == ComparisonOf(ctx)
           inc == Included(ctx, pkg)
           D == DOMAIN pkg.receipts
           F(role) == RecordFor(ctx, pkg, role)
<1>1. Range(rs) = {F(role) : role \in D}
  BY RecordsAreForRoles DEF ReadableReview
<1>2. inc \subseteq D
  BY DEF Included
<1>3. \A role \in D : /\ F(role).side = role /\ MeetsProfile(F(role), c)
                      /\ InScope(F(role), c) <=> role \in inc
  BY RecordOfAuthorized
<1> HIDE DEF rs, c, inc, D, F
<1>4. Scope(rs, c) = {F(role) : role \in inc}
  BY <1>1, <1>2, <1>3 DEF Scope
<1>5. Late(rs, c) = {F(role) : role \in D \ inc}
  BY <1>1, <1>2, <1>3 DEF Late
<1>6. {r.side : r \in Late(rs, c)} = D \ inc
  BY <1>3, <1>5
<1>7. ~DuplicateSide(Scope(rs, c))
  BY <1>2, <1>3, <1>4 DEF DuplicateSide
<1>8. Evaluable(rs, c) <=> inc # {}
  BY <1>1, <1>3, <1>4, <1>7 DEF Evaluable
<1> QED BY <1>2, <1>4, <1>6, <1>8 DEF rs, c, inc, D, F

(* More than one artifact is claimed by two sides if they differ.           *)
LEMMA TwoArtifacts ==
  ASSUME NEW x, NEW y
  PROVE  Cardinality({x, y}) > 1 <=> x # y
<1>1. Cardinality({x}) = 1 /\ IsFiniteSet({x}) /\ {x} \cup {y} = {x, y}
  BY FS_Singleton
<1>2. CASE x = y
  <2>1. {x, y} = {x}
    BY <1>2
  <2> QED BY <1>1, <1>2, <2>1
<1>3. CASE x # y
  <2>1. y \notin {x}
    BY <1>3
  <2>2. Cardinality({x} \cup {y}) = Cardinality({x}) + 1
    BY <1>1, <2>1, FS_AddElement
  <2> QED BY <1>1, <1>3, <2>2
<1> QED BY <1>2, <1>3

(* The pieces of a comparison of the sides in scope. *)
Differ(ctx, pkg) ==
  /\ Included(ctx, pkg) = Roles
  /\ pkg.receipts["sender"].artifact # pkg.receipts["receiver"].artifact

(* For readable, authorized receipts of one correlation the parts of the
   assessment say what the review says of them. *)
LEMMA PiecesAgree ==
  ASSUME NEW ctx, NEW pkg, ReadableReview(ctx, pkg), AllAuthorized(ctx, pkg),
         NEW k, Included(ctx, pkg) # {},
         \A role \in Included(ctx, pkg) : pkg.receipts[role].correlation = k
  PROVE  LET c      == ComparisonOf(ctx)
             scoped == Scope(Records(ctx, pkg), c)
             inc    == Included(ctx, pkg)
         IN  /\ Actions(scoped) = {k}
             /\ MissingSides(scoped, k, c) = Roles \ inc
             /\ Unpaired(scoped, c) = IF inc = Roles THEN {} ELSE {k}
             /\ Conflicting(scoped, c) = IF Differ(ctx, pkg) THEN {k} ELSE {}
<1> DEFINE c == ComparisonOf(ctx)
           scoped == Scope(Records(ctx, pkg), c)
           inc == Included(ctx, pkg)
           F(role) == RecordFor(ctx, pkg, role)
<1>1. inc \subseteq DOMAIN pkg.receipts /\ scoped = {F(role) : role \in inc}
  BY ScopeIsIncluded
<1>2. \A role \in inc : /\ role \in Roles /\ F(role).side = role /\ F(role).correlation = k
                        /\ F(role).digest = pkg.receipts[role].artifact
  BY <1>1, RecordOfAuthorized
<1>3. DOMAIN c.sources = Roles
  BY DEF ComparisonOf, ReadableReview
<1> HIDE DEF c, scoped, F
<1>4. Actions(scoped) = {k}
  BY <1>1, <1>2 DEF Actions
<1>5. MissingSides(scoped, k, c) = Roles \ inc
  <2>1. \A side \in Roles : OfSide(scoped, k, side) = {} <=> side \notin inc
    BY <1>1, <1>2 DEF OfSide
  <2> QED BY <1>3, <2>1 DEF MissingSides
<1>6. Unpaired(scoped, c) = IF inc = Roles THEN {} ELSE {k}
  BY <1>2, <1>4, <1>5 DEF Unpaired
<1>7. inc = Roles =>
        DigestsOf(scoped, k) = {pkg.receipts["sender"].artifact, pkg.receipts["receiver"].artifact}
  <2> HIDE DEF inc
  <2> SUFFICES ASSUME inc = Roles
               PROVE  DigestsOf(scoped, k) = {pkg.receipts["sender"].artifact,
                                              pkg.receipts["receiver"].artifact}
    OBVIOUS
  <2>1. scoped = {F("sender"), F("receiver")}
    BY <1>1 DEF Roles
  <2>2. /\ F("sender").correlation = k /\ F("receiver").correlation = k
        /\ F("sender").digest = pkg.receipts["sender"].artifact
        /\ F("receiver").digest = pkg.receipts["receiver"].artifact
    BY <1>2 DEF Roles
  <2> QED BY <2>1, <2>2 DEF DigestsOf
<1>8. Conflicting(scoped, c) = IF Differ(ctx, pkg) THEN {k} ELSE {}
  <2>1. CASE inc = Roles
    <3>1. Cardinality(DigestsOf(scoped, k)) > 1
            <=> pkg.receipts["sender"].artifact # pkg.receipts["receiver"].artifact
      BY <1>7, <2>1, TwoArtifacts
    <3>2. Actions(scoped) \ Unpaired(scoped, c) = {k}
      BY <1>4, <1>6, <2>1
    <3> QED BY <2>1, <3>1, <3>2 DEF Conflicting, Differ
  <2>2. CASE inc # Roles
    <3>1. Actions(scoped) \ Unpaired(scoped, c) = {}
      BY <1>4, <1>6, <2>2
    <3> QED BY <2>2, <3>1 DEF Conflicting, Differ
  <2> QED BY <2>1, <2>2
<1> QED BY <1>4, <1>5, <1>6, <1>8 DEF c, scoped

(* What is kept of a comparison that was not made, but for what is late. *)
LEMMA OtherExcluded ==
  ASSUME NEW out
  PROVE  LET N == NoComparison("not-evaluable")
         IN  /\ N.status = "not-evaluable" /\ N.matched = {} /\ N.missing = {}
             /\ N.conflicting = FALSE
             /\ [N EXCEPT !.excluded = out]
                  = [status |-> N.status, matched |-> N.matched, missing |-> N.missing,
                     conflicting |-> N.conflicting, excluded |-> out]
<1>1. PICK N : N = NoComparison("not-evaluable")
  OBVIOUS
<1>2. /\ N.status = "not-evaluable" /\ N.matched = {} /\ N.missing = {}
      /\ N.conflicting = FALSE
  BY <1>1 DEF NoComparison
<1>3. N = [status |-> N.status, matched |-> N.matched, missing |-> N.missing,
           conflicting |-> N.conflicting, excluded |-> N.excluded]
  BY <1>1 DEF NoComparison
<1>4. PICK status, matched, missing, conflicting, before :
        /\ N = [status |-> status, matched |-> matched, missing |-> missing,
                conflicting |-> conflicting, excluded |-> before]
        /\ status = N.status /\ matched = N.matched /\ missing = N.missing
        /\ conflicting = N.conflicting
  BY Zenon, <1>3
<1>5. [N EXCEPT !.excluded = out]
        = [status |-> status, matched |-> matched, missing |-> missing,
           conflicting |-> conflicting, excluded |-> out]
  BY <1>4
<1> QED BY Zenon, <1>1, <1>2, <1>4, <1>5

(* What compareSnapshots reports of authorized receipts that are all about  *)
(* the expected action, field by field.                                     *)
LEMMA DerivedComparison ==
  ASSUME NEW ctx, NEW pkg, ReadableReview(ctx, pkg), AllAuthorized(ctx, pkg),
         \A role \in Included(ctx, pkg) :
           pkg.receipts[role].correlation = ctx.expected.correlation
  PROVE  ComparisonResult(AssessCrossSource(Records(ctx, pkg), ComparisonOf(ctx)))
           = CompareSnapshots(ctx, pkg)
<1> DEFINE rs == Records(ctx, pkg)
           c == ComparisonOf(ctx)
           scoped == Scope(rs, c)
           late == Late(rs, c)
           inc == Included(ctx, pkg)
           out == DOMAIN pkg.receipts \ inc
           k == ctx.expected.correlation
           report == AssessCrossSource(rs, c)
<1>1. /\ inc \subseteq DOMAIN pkg.receipts /\ {r.side : r \in late} = out
      /\ Evaluable(rs, c) <=> inc # {}
  BY ScopeIsIncluded
<1>2. report = Reported(TRUE, inc # {}, scoped, late, c)
  <2>1. ValidSupplied(rs) = TRUE /\ Evaluable(rs, c) = (inc # {})
    <3>1. ValidSupplied(rs)
      BY AuthorizedTraceIsValid
    <3>2. ValidSupplied(rs) \in BOOLEAN /\ Evaluable(rs, c) \in BOOLEAN
      BY DEF ValidSupplied, Evaluable
    <3> HIDE DEF rs, c, inc
    <3> QED BY <1>1, <3>1, <3>2
  <2>2. report = Reported(ValidSupplied(rs), Evaluable(rs, c), scoped, late, c)
    BY AssessmentParts
  <2> HIDE DEF rs, c, inc, scoped, late, report
  <2> QED BY Zenon, <2>1, <2>2
<1>3. {role \in DOMAIN pkg.receipts : ~AtCutoff(ctx, pkg.receipts[role])} = out
  BY DEF Included
<1>4. ~\E role \in DOMAIN pkg.receipts : ~HistoricallyAuthorized(ctx, pkg.receipts[role])
  BY DEF AllAuthorized
<1>5. ~\E role \in inc : pkg.receipts[role].correlation # ctx.expected.correlation
  OBVIOUS
<1>6. CASE inc = {}
  <2>1. CompareSnapshots(ctx, pkg) = [NoComparison("not-evaluable") EXCEPT !.excluded = out]
    <3> HIDE DEF out
    <3> QED BY Zenon, <1>3, <1>4, <1>5, <1>6 DEF CompareSnapshots
  <2>2. /\ report.status = "not-evaluable" /\ report.matched = {} /\ report.missing = {}
        /\ report.conflicts = {} /\ report.excluded = late
    <3> HIDE DEF report, scoped, late, c, inc
    <3> QED BY <1>2, <1>6 DEF Reported
  <2> DEFINE N == NoComparison("not-evaluable")
  <2> HIDE DEF report, out, late
  <2>3. UNION {m[2] : m \in report.missing} = {} /\ (report.conflicts # {}) = FALSE
    BY <2>2
  <2>4. ComparisonResult(report)
          = [status |-> N.status, matched |-> N.matched, missing |-> N.missing,
             conflicting |-> N.conflicting, excluded |-> out]
    <3>1. N.status = report.status /\ N.matched = report.matched
          /\ N.missing = UNION {m[2] : m \in report.missing}
          /\ N.conflicting = (report.conflicts # {})
      BY <2>2, <2>3, OtherExcluded
    <3> HIDE DEF N
    <3> QED BY Zenon, <1>1, <2>2, <3>1 DEF ComparisonResult
  <2>5. [N EXCEPT !.excluded = out]
          = [status |-> N.status, matched |-> N.matched, missing |-> N.missing,
             conflicting |-> N.conflicting, excluded |-> out]
    BY Zenon, OtherExcluded
  <2> QED BY Zenon, <2>1, <2>4, <2>5 DEF report
<1>7. CASE inc # {}
  <2> DEFINE both == inc = Roles
             differ == Differ(ctx, pkg)
             status == IF differ \/ (~both /\ ctx.expected.final) THEN "violated"
                       ELSE IF ~ctx.expected.final THEN "insufficient-snapshot-finality"
                       ELSE "consistent-in-supplied-snapshots"
             matched == IF both /\ ~differ THEN {k} ELSE {}
  <2>1. CompareSnapshots(ctx, pkg)
          = [status |-> status, matched |-> matched, missing |-> Roles \ inc,
             conflicting |-> differ, excluded |-> out]
    <3> HIDE DEF out
    <3> QED BY Zenon, <1>3, <1>4, <1>5, <1>7 DEF CompareSnapshots, Differ
  <2>2. /\ Actions(scoped) = {k}
        /\ MissingSides(scoped, k, c) = Roles \ inc
        /\ Unpaired(scoped, c) = IF both THEN {} ELSE {k}
        /\ Conflicting(scoped, c) = IF differ THEN {k} ELSE {}
    BY <1>7, PiecesAgree
  <2>3. differ => both
    BY DEF Differ
  <2>4. c.final = ctx.expected.final
    BY DEF ComparisonOf
  <2>5. /\ report.status = Conclusion(scoped, c)
        /\ report.matched = Actions(scoped) \ (Unpaired(scoped, c) \cup Conflicting(scoped, c))
        /\ report.missing = MissingPairs(scoped, c)
        /\ report.conflicts = Conflicting(scoped, c) /\ report.excluded = late
    <3> HIDE DEF report, scoped, late, c, inc
    <3> QED BY <1>2, <1>7 DEF Reported
  <2> HIDE DEF report, scoped, late, c, inc, k, differ
  <2>6. report.status = status
    BY <2>2, <2>4, <2>5 DEF Conclusion
  <2>7. report.matched = matched
    BY <2>2, <2>3, <2>5
  <2>8. UNION {m[2] : m \in report.missing} = Roles \ inc
    <3>1. CASE both
      BY <2>2, <2>5, <3>1 DEF MissingPairs
    <3>2. CASE ~both
      <4>1. report.missing = {<<k, Roles \ inc>>}
        BY <2>2, <2>5, <3>2 DEF MissingPairs
      <4> QED BY <4>1
    <3> QED BY <3>1, <3>2
  <2>9. (report.conflicts # {}) = differ
    <3>1. differ \in BOOLEAN
      BY DEF differ, Differ
    <3>2. report.conflicts # {} <=> differ
      BY <2>2, <2>5
    <3> QED BY <3>1, <3>2
  <2>10. {r.side : r \in report.excluded} = out
    BY <1>1, <2>5
  <2> HIDE DEF status, matched, out
  <2>11. ComparisonResult(report)
           = [status |-> status, matched |-> matched, missing |-> Roles \ inc,
              conflicting |-> differ, excluded |-> out]
    BY Zenon, <2>6, <2>7, <2>8, <2>9, <2>10 DEF ComparisonResult
  <2> QED BY Zenon, <2>1, <2>11 DEF report, rs, c
<1> QED BY <1>6, <1>7

(***************************************************************************)
(* The comparison derived from two receipts is the reconciliation of the   *)
(* validated trace, for any context and package that is readable: in every *)
(* field, and whatever is missing, late, contradictory or not final.       *)
(***************************************************************************)
THEOREM ComparisonsAgree ==
  ASSUME NEW ctx, NEW pkg, ReadableReview(ctx, pkg)
  PROVE  /\ CompareSnapshots(ctx, pkg) = Projection(ctx, pkg)
         /\ VerifyHandoff(ctx, pkg) = Handoff(ctx, pkg)
<1>1. AllAuthorized(ctx, pkg) <=> ~\E r \in Receipts(pkg) : ~HistoricallyAuthorized(ctx, r)
  BY DEF AllAuthorized, Receipts, Range
<1> DEFINE astray == \E role \in Included(ctx, pkg) :
                       pkg.receipts[role].correlation # ctx.expected.correlation
<1>2. astray <=> \E r \in Receipts(pkg) :
                   r.correlation # ctx.expected.correlation /\ AtCutoff(ctx, r)
  BY DEF Included, Receipts, Range
<1>3. CompareSnapshots(ctx, pkg) = Projection(ctx, pkg)
  <2>1. CASE ~AllAuthorized(ctx, pkg)
    <3>1. CompareSnapshots(ctx, pkg) = NoComparison("insufficient-authenticated-projection")
      BY Zenon, <2>1 DEF CompareSnapshots, AllAuthorized
    <3>2. Projection(ctx, pkg) = NoComparison("insufficient-authenticated-projection")
      BY Zenon, <1>1, <2>1 DEF Projection
    <3> QED BY <3>1, <3>2
  <2>2. CASE AllAuthorized(ctx, pkg) /\ astray
    <3>1. CompareSnapshots(ctx, pkg) = NoComparison("not-evaluable-claim-binding")
      BY Zenon, <2>2 DEF CompareSnapshots, AllAuthorized
    <3>2. Projection(ctx, pkg) = NoComparison("not-evaluable-claim-binding")
      <4> HIDE DEF astray
      <4> QED BY Zenon, <1>1, <1>2, <2>2 DEF Projection
    <3> QED BY <3>1, <3>2
  <2>3. CASE AllAuthorized(ctx, pkg) /\ ~astray
    <3>1. Projection(ctx, pkg)
            = ComparisonResult(AssessCrossSource(Records(ctx, pkg), ComparisonOf(ctx)))
      <4> HIDE DEF astray
      <4> QED BY Zenon, <1>1, <1>2, <2>3 DEF Projection
    <3>2. ComparisonResult(AssessCrossSource(Records(ctx, pkg), ComparisonOf(ctx)))
            = CompareSnapshots(ctx, pkg)
      BY <2>3, DerivedComparison
    <3> QED BY <3>1, <3>2
  <2> QED BY <2>1, <2>2, <2>3
<1>4. VerifyHandoff(ctx, pkg) = Handoff(ctx, pkg)
  BY Zenon, <1>3 DEF VerifyHandoff, Handoff
<1> QED BY <1>3, <1>4

(* Receipts can be read: their ids are roles and their times are numbers.   *)
ReceiptsReadable == \A r \in receipts : r.id \in Roles /\ r.ts \in Nat

(* Every receipt ever made is readable as a record. *)
LEMMA ReceiptsAreReadable == ReviewSpec => []ReceiptsReadable
<1>1. ReviewInit => ReceiptsReadable
  BY DEF ReviewInit, ReceiptsReadable
<1>2. ReviewInv /\ ReceiptsReadable /\ [ReviewNext]_reviewVars => ReceiptsReadable'
  <2> SUFFICES ASSUME ReviewInv, ReceiptsReadable, [ReviewNext]_reviewVars PROVE ReceiptsReadable'
    OBVIOUS
  <2>1. ASSUME NEW r, Add(r), r.id \in Roles, r.ts \in Nat PROVE ReceiptsReadable'
    BY <2>1 DEF Add, ReceiptsReadable
  <2>2. ASSUME NEW role \in Roles, Fabricate(role) PROVE ReceiptsReadable'
    BY <2>1, <2>2, ReviewAssumption DEF Fabricate, Receipt
  <2>3. ASSUME NEW role \in Roles, NEW claim, Sign(role, claim) PROVE ReceiptsReadable'
    BY <2>1, <2>3 DEF Sign, Receipt, ReviewInv
  <2>4. ASSUME NEW role \in Roles, NEW epoch, NEW ts \in WindowStart..Cutoff, NEW claim,
               Forge(role, epoch, ts, claim)
        PROVE  ReceiptsReadable'
    <3>1. ts \in Nat
      BY ReviewAssumption
    <3> QED BY <2>1, <2>4, <3>1 DEF Forge, Receipt
  <2>5. CASE receipts' = receipts
    BY <2>5 DEF ReceiptsReadable
  <2> QED BY <2>2, <2>3, <2>4, <2>5 DEF ReviewNext, Tick, Steal, Report, Observe, reviewVars
<1> QED BY <1>1, <1>2, ReviewInvariant, PTL DEF ReviewSpec

(***************************************************************************)
(* The two implementations agree, for every history of thefts, reports,    *)
(* receipts and deliveries, on every package of receipts there are.        *)
(***************************************************************************)
THEOREM ImplementationsDoAgree == ReviewSpec => []ImplementationsAgree
<1>1. ReviewInv /\ ReceiptsReadable => ImplementationsAgree
  <2> SUFFICES ASSUME ReviewInv, ReceiptsReadable, NEW final \in BOOLEAN,
                      NEW pkg \in Packages, ValidPackage(pkg)
               PROVE  LET ctx == [Context(now, now, now) EXCEPT !.expected.final = final]
                      IN  /\ CompareSnapshots(ctx, pkg) = Projection(ctx, pkg)
                          /\ VerifyHandoff(ctx, pkg) = Handoff(ctx, pkg)
    BY DEF ImplementationsAgree
  <2> DEFINE ctx == [Context(now, now, now) EXCEPT !.expected.final = final]
  <2>1. ctx.expected.sources = Expectation.sources
    BY DEF Context, Expected
  <2>2. ctx.observed = [r \in {q \in DOMAIN observed : observed[q] <= now} |-> observed[r]]
    BY DEF Context
  <2>3. \A r \in DOMAIN ctx.observed : ctx.observed[r] \in Nat
    BY <2>2 DEF ReviewInv, MadeBeforeObserved
  <2>4. \A role \in DOMAIN pkg.receipts :
          pkg.receipts[role].id \in Roles /\ pkg.receipts[role].ts \in Nat
    BY PackageShape DEF ReceiptsReadable, Receipts, Range
  <2> HIDE DEF ctx
  <2>5. ReadableReview(ctx, pkg)
    BY <2>1, <2>3, <2>4, PackageShape, ReviewAssumption DEF ReadableReview
  <2> QED BY <2>5, ComparisonsAgree DEF ctx
<1> QED BY <1>1, ReviewInvariant, ReceiptsAreReadable, PTL
=============================================================================

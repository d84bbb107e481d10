------------------------- MODULE ChainArchive_proofs -------------------------
(***************************************************************************)
(* Proofs about archives of a chain of policy rotations: for any packages, *)
(* histories, forged references and anchors, archives and parties.         *)
(***************************************************************************)
EXTENDS ChainArchive, NaturalOrder_proofs, FiniteSetTheorems, TLAPS

-----------------------------------------------------------------------------
(* Replay. *)

(* One step of a replay, given the references before it. *)
StepRef(h, refs, i) ==
  Chain!RefOf(h[i], Genesis, i, IF i = 1 THEN ZERO ELSE refs[i - 1])

(***************************************************************************)
(* The recursion of a replay has a solution for every history: one for the *)
(* first m packages gives one for the first m + 1, so there is no least    *)
(* length without one.                                                     *)
(***************************************************************************)
LEMMA ReplayExists ==
  ASSUME NEW h, NEW n \in Nat
  PROVE  \E refs : refs = [i \in 1..n |-> StepRef(h, refs, i)]
<1> DEFINE Solved(m) == \E refs : refs = [i \in 1..m |-> StepRef(h, refs, i)]
           T == {m \in Nat : ~Solved(m)}
<1>1. SUFFICES ASSUME T # {} PROVE FALSE
  OBVIOUS
<1>2. PICK m \in T : \A k \in T : m <= k
  <2>1. T \subseteq Nat
    OBVIOUS
  <2> HIDE DEF T
  <2> QED BY <1>1, <2>1, LeastElement
<1>3. m \in Nat /\ ~Solved(m)
  OBVIOUS
<1>4. Solved(0)
  <2> DEFINE none == [i \in 1..0 |-> ZERO]
  <2>1. none = [i \in 1..0 |-> StepRef(h, none, i)]
    OBVIOUS
  <2> HIDE DEF none
  <2> QED BY <2>1, Zenon
<1>5. m - 1 \in Nat /\ m - 1 \notin T
  <2>1. m # 0
    <3> HIDE DEF Solved
    <3> QED BY <1>3, <1>4
  <2>2. m - 1 \in Nat /\ ~(m <= m - 1)
    BY <1>3, <2>1
  <2> HIDE DEF T
  <2> QED BY <1>2, <2>2
<1>6. PICK refs : refs = [i \in 1..(m - 1) |-> StepRef(h, refs, i)]
  BY <1>5
<1> DEFINE more == [i \in 1..m |-> IF i = m THEN StepRef(h, refs, m) ELSE refs[i]]
<1>7. \A i \in 1..m : StepRef(h, more, i) = StepRef(h, refs, i)
  BY <1>5 DEF StepRef
<1>8. \A i \in 1..m : more[i] = StepRef(h, more, i)
  <2> DEFINE e(i) == StepRef(h, refs, i)
  <2>1. refs = [i \in 1..(m - 1) |-> e(i)]
    BY <1>6
  <2> HIDE DEF e
  <2>2. \A i \in 1..(m - 1) : refs[i] = e(i)
    BY <2>1
  <2>3. \A i \in 1..m : i = m \/ i \in 1..(m - 1)
    BY <1>5
  <2>4. \A i \in 1..m : more[i] = e(i)
    BY <2>2, <2>3 DEF e
  <2> QED BY <1>7, <2>4 DEF e
<1>9. more = [i \in 1..m |-> StepRef(h, more, i)]
  <2>1. more = [i \in 1..m |-> more[i]]
    OBVIOUS
  <2> HIDE DEF more
  <2> QED BY <1>8, <2>1
<1> QED BY <1>3, <1>9

(* What a replay derives: each reference from its package and the one       *)
(* before it.                                                              *)
LEMMA ReplayUnfolds ==
  ASSUME NEW S, NEW h \in Seq(S)
  PROVE  /\ Replay(h) = [i \in 1..Len(h) |-> StepRef(h, Replay(h), i)]
         /\ DOMAIN Replay(h) = 1..Len(h) /\ Len(Replay(h)) = Len(h)
         /\ \A i \in 1..Len(h) : Replay(h)[i] = StepRef(h, Replay(h), i)
<1> DEFINE r == CHOOSE r : r = [i \in DOMAIN h |->
                  Chain!RefOf(h[i], Genesis, i, IF i = 1 THEN ZERO ELSE r[i - 1])]
<1>1. DOMAIN h = 1..Len(h) /\ Len(h) \in Nat
  OBVIOUS
<1>2. \E refs : refs = [i \in DOMAIN h |->
                  Chain!RefOf(h[i], Genesis, i, IF i = 1 THEN ZERO ELSE refs[i - 1])]
  <2>1. PICK refs : refs = [i \in 1..Len(h) |-> StepRef(h, refs, i)]
    BY <1>1, ReplayExists
  <2> QED BY <1>1, <2>1, Zenon DEF StepRef
<1>3. r = [i \in DOMAIN h |->
            Chain!RefOf(h[i], Genesis, i, IF i = 1 THEN ZERO ELSE r[i - 1])]
  BY <1>2, Zenon
<1>4. Replay(h) = [i \in DOMAIN h |-> r[i]]
  BY Zenon DEF Replay
<1>5. Replay(h) = r
  <2> HIDE DEF r
  <2> QED BY <1>3, <1>4
<1>6. Replay(h) = [i \in 1..Len(h) |-> StepRef(h, Replay(h), i)]
  <2> HIDE DEF r
  <2> QED BY <1>1, <1>3, <1>5, Zenon DEF StepRef
<1>7. \A i \in 1..Len(h) : Replay(h)[i] = StepRef(h, Replay(h), i)
  <2> DEFINE f == Replay(h)
             e(i) == StepRef(h, Replay(h), i)
  <2>1. f = [i \in 1..Len(h) |-> e(i)]
    BY <1>6
  <2> HIDE DEF f, e
  <2>2. \A i \in 1..Len(h) : f[i] = e(i)
    BY <2>1
  <2> QED BY <2>2 DEF f, e
<1>8. DOMAIN Replay(h) = 1..Len(h) /\ Len(Replay(h)) = Len(h)
  <2> DEFINE f == Replay(h)
             e(i) == StepRef(h, Replay(h), i)
  <2>1. f = [i \in 1..Len(h) |-> e(i)]
    BY <1>6
  <2> HIDE DEF f, e
  <2>2. DOMAIN f = 1..Len(h) /\ Len(f) = Len(h)
    BY <1>1, <2>1
  <2> QED BY <2>2 DEF f
<1> QED BY <1>6, <1>7, <1>8

(* A commitment tells the whole reference: package, place and past. *)
LEMMA StepTellsRef ==
  ASSUME NEW p, NEW i, NEW r, NEW q, NEW j, NEW s, NEW genesis,
         Chain!RefOf(p, genesis, i, r).step = Chain!RefOf(q, genesis, j, s).step
  PROVE  /\ p = q /\ i = j /\ r = s
         /\ Chain!RefOf(p, genesis, i, r) = Chain!RefOf(q, genesis, j, s)
<1>1. Chain!Step(p, i, r) = Chain!Step(q, j, s)
  BY DEF Chain!RefOf
<1>2. p = q /\ i = j /\ r = s
  BY <1>1 DEF Chain!Step
<1> QED BY <1>2

-----------------------------------------------------------------------------
(* Histories and the anchors rebuilt from them. *)

(* A history is a short, non-empty sequence of packages that chain. *)
LEMMA HistoryShape ==
  ASSUME NEW h \in Histories
  PROVE  /\ h \in Seq(Packages) /\ Len(h) \in Nat /\ DOMAIN h = 1..Len(h)
         /\ 1 <= Len(h) /\ Len(h) <= MaxHandoffs
         /\ \A i \in 1..Len(h) : h[i] \in Packages
         /\ ValidHistory(h)
<1>1. ValidHistory(h) /\ h \in SeqOf(Packages, MaxHandoffs)
  BY DEF Histories
<1>2. h \in Seq(Packages) /\ h # << >>
  BY <1>1 DEF ValidHistory
<1>3. PICK m \in 0..MaxHandoffs : h \in [1..m -> Packages]
  BY <1>1 DEF SeqOf
<1>4. Len(h) = m
  BY <1>2, <1>3, ArchiveAssumption
<1> QED BY <1>1, <1>2, <1>3, <1>4, ArchiveAssumption

(* Every reference of a replay is valid and counts its rotations. *)
LEMMA ReplayedRef ==
  ASSUME NEW h \in Histories, NEW i \in 1..Len(h)
  PROVE  /\ Chain!ValidRef(Replay(h)[i])
         /\ Replay(h)[i].completed = i
         /\ Replay(h)[i].genesis = Genesis
         /\ Replay(h)[i].package = h[i]
         /\ Replay(h)[i].policy = h[i].activation.policy
         /\ Replay(h)[i].policy.epoch = Genesis.epoch + i /\ Genesis.epoch \in Nat
         /\ i > 1 => i - 1 \in 1..Len(h) /\ Replay(h)[i - 1] # ZERO
         /\ Replay(h)[i] \in ChainRefs
<1>1. /\ h \in Seq(Packages) /\ Len(h) \in Nat /\ DOMAIN h = 1..Len(h)
      /\ ValidHistory(h)
  BY HistoryShape
<1>2. \A j \in 1..Len(h) : Replay(h)[j] = StepRef(h, Replay(h), j)
  BY <1>1, ReplayUnfolds
<1>3. \A j \in 1..Len(h) : /\ Replay(h)[j].completed = j
                           /\ Replay(h)[j].genesis = Genesis
                           /\ Replay(h)[j].package = h[j]
                           /\ Replay(h)[j].policy = h[j].activation.policy
                           /\ j > 1 => Replay(h)[j].previous = Replay(h)[j - 1]
  <2> SUFFICES ASSUME NEW j \in 1..Len(h)
               PROVE  /\ Replay(h)[j].completed = j
                      /\ Replay(h)[j].genesis = Genesis
                      /\ Replay(h)[j].package = h[j]
                      /\ Replay(h)[j].policy = h[j].activation.policy
                      /\ j > 1 => Replay(h)[j].previous = Replay(h)[j - 1]
    OBVIOUS
  <2> DEFINE before == IF j = 1 THEN ZERO ELSE Replay(h)[j - 1]
             ref == Replay(h)[j]
  <2>1. ref = Chain!RefOf(h[j], Genesis, j, before)
    BY <1>2 DEF StepRef
  <2>2. j > 1 => before = Replay(h)[j - 1]
    OBVIOUS
  <2> HIDE DEF before, ref
  <2>3. /\ ref.completed = j /\ ref.genesis = Genesis /\ ref.package = h[j]
        /\ ref.policy = h[j].activation.policy /\ ref.previous = before
    BY <2>1 DEF Chain!RefOf
  <2> QED BY <2>2, <2>3 DEF ref
<1>4. i > 1 => i - 1 \in 1..Len(h)
  BY <1>1
<1>5. Chain!ValidRef(Replay(h)[i])
  <2>1. CASE i = 1
    BY <1>1, <1>2, <2>1 DEF ValidHistory, Chain!SeededBy, StepRef
  <2>2. CASE i # 1
    <3>1. i > 1 /\ i - 1 \in 1..Len(h)
      BY <1>1, <2>2
    <3>2. Chain!ContinuedBy(Replay(h)[i - 1], h[i])
      BY <1>1, <3>1 DEF ValidHistory
    <3>3. Replay(h)[i - 1].genesis = Genesis /\ Replay(h)[i - 1].completed + 1 = i
      BY <1>3, <3>1
    <3>4. Replay(h)[i] = Chain!RefOf(h[i], Genesis, i, Replay(h)[i - 1])
      BY <1>2, <3>1 DEF StepRef
    <3> QED BY <3>2, <3>3, <3>4 DEF Chain!ContinuedBy
  <2> QED BY <2>1, <2>2
<1>6. Replay(h)[i].policy.epoch = Genesis.epoch + i /\ Genesis.epoch \in Nat
  BY <1>3, <1>5 DEF Chain!ValidRef
<1>7. i > 1 => Replay(h)[i - 1] # ZERO
  BY <1>3, <1>5 DEF Chain!ValidRef
<1>8. Replay(h)[i] \in ChainRefs
  <2>1. Replay(h)[i] \in Range(Replay(h))
    BY <1>1, ReplayUnfolds DEF Range
  <2> QED BY <2>1 DEF ChainRefs
<1> QED BY <1>3, <1>4, <1>5, <1>6, <1>7, <1>8

(***************************************************************************)
(* A chain keeps the policy id of its genesis: the first reference that    *)
(* did not would follow one that does.                                     *)
(***************************************************************************)
LEMMA ReplayKeepsId ==
  ASSUME NEW h \in Histories, NEW i \in 1..Len(h)
  PROVE  Replay(h)[i].policy.id = Genesis.id
<1> DEFINE T == {k \in 1..Len(h) : Replay(h)[k].policy.id # Genesis.id}
<1>1. SUFFICES ASSUME T # {} PROVE FALSE
  OBVIOUS
<1>2. /\ h \in Seq(Packages) /\ Len(h) \in Nat /\ DOMAIN h = 1..Len(h)
      /\ ValidHistory(h)
  BY HistoryShape
<1>3. PICK k \in T : \A m \in T : k <= m
  <2>1. T \subseteq Nat
    BY <1>2
  <2> HIDE DEF T
  <2> QED BY <1>1, <2>1, LeastElement
<1>4. /\ k \in 1..Len(h) /\ h[k] \in Packages
      /\ Replay(h)[k].policy = h[k].activation.policy
  BY <1>2, HistoryShape, ReplayedRef
<1>5. Replay(h)[k].policy.id = h[k].active.policy.id
  BY <1>4, ArchiveAssumption
<1>6. CASE k = 1
  <2>1. h[k].active.policy = Genesis
    BY <1>2, <1>6 DEF ValidHistory, Chain!SeededBy
  <2> QED BY <1>3, <1>5, <2>1
<1>7. CASE k # 1
  <2>1. k > 1 /\ k - 1 \in 1..Len(h)
    BY <1>2, <1>4, <1>7
  <2>2. h[k].active.policy = Replay(h)[k - 1].policy
    BY <1>2, <1>4, <2>1 DEF ValidHistory, Chain!ContinuedBy
  <2>3. k - 1 \notin T
    <3>1. ~(k <= k - 1)
      BY <2>1
    <3> HIDE DEF T
    <3> QED BY <1>3, <3>1
  <2> QED BY <1>3, <1>5, <2>1, <2>2, <2>3
<1> QED BY <1>6, <1>7

(* What an anchor built from a history holds. *)
LEMMA RebuiltFields ==
  ASSUME NEW h \in Histories, NEW contract, NEW a, a = RebuiltAnchor(h, contract)
  PROVE  /\ a.size = Len(h) /\ Len(a.root) = Len(h) /\ a.epoch = Genesis.epoch + Len(h)
         /\ a.ref = Replay(h)[Len(h)] /\ a.tip = a.ref.step
         /\ \A i \in 1..Len(h) : a.root[i] = Replay(h)[i].step
         /\ a.context.genesis = Genesis /\ a.context.id = Genesis.id
         /\ a.context.contract = contract
         /\ a.root \in Seq(Range(a.root))
         /\ ValidAnchor(a) /\ BoundEndpoint(a)
<1> DEFINE n == Len(h)
           last == Replay(h)[n]
<1>1. n \in Nat /\ n \in 1..n /\ h \in Seq(Packages)
  BY HistoryShape
<1>2. DOMAIN Replay(h) = 1..n /\ Len(Replay(h)) = n
  BY <1>1, ReplayUnfolds
<1>3. a = Anchor([i \in 1..n |-> Replay(h)[i].step], last, contract)
  BY <1>2 DEF RebuiltAnchor, Last
<1>4. /\ a.size = last.completed /\ a.epoch = last.policy.epoch /\ a.ref = last
      /\ a.tip = last.step /\ a.root = [i \in 1..n |-> Replay(h)[i].step]
      /\ a.context = [genesis |-> last.genesis, id |-> last.policy.id,
                      contract |-> contract]
  <2> DEFINE root == [i \in 1..n |-> Replay(h)[i].step]
  <2> HIDE DEF root, last
  <2> QED BY <1>3 DEF root, Anchor, ContextOf
<1>5. /\ last.completed = n /\ last.policy.epoch = Genesis.epoch + n
      /\ last.genesis = Genesis /\ last.policy.id = Genesis.id /\ Chain!ValidRef(last)
  BY <1>1, ReplayedRef, ReplayKeepsId
<1>6. DOMAIN a.root = 1..n /\ \A i \in 1..n : a.root[i] = Replay(h)[i].step
  BY <1>4
<1>7. a.root \in Seq(Range(a.root)) /\ Len(a.root) = n
  <2>1. \A i \in 1..n : a.root[i] \in Range(a.root)
    BY <1>6 DEF Range
  <2>2. a.root = [i \in 1..n |-> a.root[i]]
    BY <1>4, <1>6
  <2>3. a.root \in [1..n -> Range(a.root)]
    BY <2>1, <2>2
  <2> QED BY <1>1, <2>3
<1>8. ValidAnchor(a)
  <2>1. a.context.contract = contract
    BY <1>4
  <2> QED BY <1>3, <1>4, <1>5, <2>1 DEF ValidAnchor
<1>9. BoundEndpoint(a)
  BY <1>1, <1>4, <1>5, <1>6, <1>7 DEF BoundEndpoint
<1>10. /\ a.context.genesis = Genesis /\ a.context.id = Genesis.id
       /\ a.context.contract = contract
  BY <1>4, <1>5
<1> HIDE DEF n, last
<1> QED BY <1>4, <1>5, <1>6, <1>7, <1>8, <1>9, <1>10 DEF n, last

(* Every anchor is well-shaped: what Direct assumes of its constants. *)
LEMMA AnchorShape ==
  ASSUME NEW a \in ChainAnchors
  PROVE  /\ ValidAnchor(a) /\ a.root \in Seq(Range(a.root))
         /\ a.size \in Nat \ {0} /\ a.epoch \in Nat
<1>1. ValidAnchor(a) /\ a.root \in Seq(Range(a.root))
  <2>1. CASE a \in ForgedAnchors
    BY <2>1, ArchiveAssumption
  <2>2. CASE a \in RebuiltAnchors
    <3>1. PICK h \in Histories, contract \in Contracts : a = RebuiltAnchor(h, contract)
      BY <2>2 DEF RebuiltAnchors
    <3> QED BY <3>1, RebuiltFields
  <2> QED BY <2>1, <2>2 DEF ChainAnchors
<1>2. a.size = a.ref.completed /\ a.epoch = a.ref.policy.epoch
  <2> DEFINE root == a.root
             ref == a.ref
             contract == a.context.contract
  <2>1. a = Anchor(root, ref, contract)
    BY <1>1 DEF ValidAnchor
  <2> HIDE DEF root, ref, contract
  <2>2. a.size = ref.completed /\ a.epoch = ref.policy.epoch
    BY <2>1 DEF Anchor
  <2> QED BY <2>2 DEF ref
<1>3. Chain!ValidRef(a.ref)
  BY <1>1 DEF ValidAnchor
<1> QED BY <1>1, <1>2, <1>3 DEF Chain!ValidRef

(* The abstract protocol's assumption on its constants holds of these. *)
LEMMA DirectAssumption == Direct!ConstantsAssumption
<1> DEFINE Commitments == {a.tip : a \in ChainAnchors}
                            \cup UNION {Range(a.root) : a \in ChainAnchors}
<1>1. ASSUME NEW a \in ChainAnchors
      PROVE  /\ a.context \in {b.context : b \in ChainAnchors} /\ a.tip \in Commitments
             /\ a.root \in Seq(Commitments)
  <2>1. Range(a.root) \subseteq Commitments
    OBVIOUS
  <2>2. a.root \in Seq(Commitments)
    <3> DEFINE S == Range(a.root)
    <3>1. a.root \in Seq(S)
      BY AnchorShape
    <3> HIDE DEF S, Commitments
    <3> QED BY <2>1, <3>1 DEF S
  <2> QED BY <2>2
<1>2. \A a \in ChainAnchors : Direct!AnchorFields(a)
  <2> HIDE DEF Commitments
  <2> QED BY <1>1, AnchorShape DEF Direct!AnchorFields, Commitments
<1> QED BY <1>2, ArchiveAssumption DEF Direct!ConstantsAssumption

-----------------------------------------------------------------------------
(* Disclosures. *)

(* The fields of the reference a package leaves. *)
LEMMA RefFields ==
  ASSUME NEW package, NEW genesis, NEW i, NEW previous
  PROVE  /\ Chain!RefOf(package, genesis, i, previous).step
              = Chain!Step(package, i, previous)
         /\ Chain!RefOf(package, genesis, i, previous).genesis = genesis
         /\ Chain!RefOf(package, genesis, i, previous).policy = package.activation.policy
  BY DEF Chain!RefOf

(***************************************************************************)
(* Under an anchor rebuilt from a history every verified disclosure tells  *)
(* the replayed reference: the commitment at its index leaves no choice of *)
(* the package or of the predecessor.                                      *)
(***************************************************************************)
LEMMA RebuiltTells ==
  ASSUME NEW h \in Histories, NEW contract, NEW a, a = RebuiltAnchor(h, contract),
         NEW d, VerifyDisclosure(a, d)
  PROVE  d.index \in 1..Len(h) /\ DisclosedRef(a, d) = Replay(h)[d.index]
<1>1. d.index \in 1..Len(h) /\ a.context.genesis = Genesis
      /\ Replay(h)[d.index].step = DisclosedRef(a, d).step
  <2>1. /\ a.size = Len(h) /\ a.context.genesis = Genesis
        /\ \A i \in 1..Len(h) : a.root[i] = Replay(h)[i].step
    BY RebuiltFields
  <2> QED BY <2>1 DEF VerifyDisclosure
<1>2. Replay(h)[d.index] = StepRef(h, Replay(h), d.index)
  BY <1>1, HistoryShape, ReplayUnfolds
<1> DEFINE i == d.index
           before == IF i = 1 THEN ZERO ELSE Replay(h)[i - 1]
<1>3. Chain!RefOf(h[i], Genesis, i, before).step
        = Chain!RefOf(d.package, Genesis, i, d.previous).step
  BY <1>1, <1>2 DEF StepRef, DisclosedRef
<1>4. Chain!RefOf(h[i], Genesis, i, before) = Chain!RefOf(d.package, Genesis, i, d.previous)
  BY <1>3, StepTellsRef
<1> QED BY <1>1, <1>2, <1>4 DEF StepRef, DisclosedRef

(* The disclosure of a rotation its history gives. *)
Shown(h, i) == Disclosure(i, IF i = 1 THEN ZERO ELSE Replay(h)[i - 1], h[i])

(* A history discloses each of its rotations. *)
LEMMA RebuiltShows ==
  ASSUME NEW h \in Histories, NEW contract \in Contracts,
         NEW a, a = RebuiltAnchor(h, contract), NEW i \in 1..Len(h)
  PROVE  /\ Shown(h, i) \in Disclosures[a]
         /\ Shown(h, i).index = i /\ Shown(h, i).package = h[i]
         /\ Shown(h, i).previous = (IF i = 1 THEN ZERO ELSE Replay(h)[i - 1])
         /\ DisclosedRef(a, Shown(h, i)) = Replay(h)[i]
<1> DEFINE previous == IF i = 1 THEN ZERO ELSE Replay(h)[i - 1]
           d == Disclosure(i, previous, h[i])
<1>1. d = Shown(h, i)
  BY DEF Shown
<1>2. d.index = i /\ d.package = h[i] /\ d.previous = previous
  <2> HIDE DEF previous
  <2> QED BY DEF Disclosure
<1>3. /\ Len(h) \in Nat /\ h[i] \in Packages /\ i \in 1..MaxHandoffs /\ ValidHistory(h)
      /\ DOMAIN h = 1..Len(h) /\ h \in Seq(Packages)
  BY HistoryShape, ArchiveAssumption
<1>4. /\ a.size = Len(h) /\ a.context.genesis = Genesis /\ a.context.id = Genesis.id
      /\ a.ref = Replay(h)[Len(h)] /\ a.root[i] = Replay(h)[i].step
      /\ ValidAnchor(a) /\ BoundEndpoint(a)
  <2>1. /\ a.size = Len(h) /\ a.context.genesis = Genesis /\ a.context.id = Genesis.id
        /\ a.ref = Replay(h)[Len(h)] /\ ValidAnchor(a) /\ BoundEndpoint(a)
    BY RebuiltFields
  <2>2. \A j \in 1..Len(h) : a.root[j] = Replay(h)[j].step
    BY RebuiltFields
  <2> QED BY <2>1, <2>2
<1>5. DisclosedRef(a, d) = Replay(h)[i]
  <2>1. Replay(h)[i] = StepRef(h, Replay(h), i)
    BY <1>3, ReplayUnfolds
  <2> HIDE DEF d
  <2> QED BY <1>2, <1>4, <2>1 DEF StepRef, DisclosedRef
<1>6. previous \in ChainRefs \cup {ZERO}
  BY ReplayedRef
<1>7. \/ i = 1 /\ previous = ZERO /\ Chain!SeededBy(h[i], Genesis)
      \/ /\ i > 1 /\ previous # ZERO /\ Chain!ValidRef(previous)
         /\ previous.completed = i - 1 /\ SameChain(previous, a)
         /\ Chain!ContinuedBy(previous, h[i])
  <2>1. CASE i = 1
    BY <1>3, <2>1 DEF ValidHistory
  <2>2. CASE i # 1
    <3>1. i > 1 /\ i - 1 \in 1..Len(h) /\ previous = Replay(h)[i - 1]
      BY <1>3, <2>2
    <3>2. Replay(h)[i - 1] # ZERO
      BY <3>1, ReplayedRef
    <3>3. /\ Chain!ValidRef(Replay(h)[i - 1]) /\ Replay(h)[i - 1].completed = i - 1
          /\ Replay(h)[i - 1].genesis = Genesis /\ Replay(h)[i - 1].policy.id = Genesis.id
      BY <3>1, ReplayedRef, ReplayKeepsId
    <3>4. Chain!ContinuedBy(Replay(h)[i - 1], h[i])
      BY <1>3, <3>1 DEF ValidHistory
    <3> HIDE DEF previous
    <3> QED BY <1>4, <3>1, <3>2, <3>3, <3>4 DEF SameChain
  <2> QED BY <2>1, <2>2
<1>8. SameChain(DisclosedRef(a, d), a)
  BY <1>4, <1>5, ReplayedRef, ReplayKeepsId DEF SameChain
<1>9. VerifyDisclosure(a, d)
  <2> HIDE DEF d, previous
  <2> QED BY <1>2, <1>3, <1>4, <1>5, <1>7, <1>8 DEF VerifyDisclosure
<1>10. a \in ChainAnchors
  BY DEF ChainAnchors, RebuiltAnchors
<1>11. d \in Disclosures[a]
  <2>1. d \in {Disclosure(j, r, package) : j \in 1..MaxHandoffs,
                  r \in ChainRefs \cup {ZERO}, package \in Packages}
    <3> HIDE DEF previous
    <3> QED BY <1>3, <1>6
  <2> HIDE DEF d
  <2> QED BY <1>9, <1>10, <2>1 DEF Disclosures
<1> HIDE DEF d
<1> QED BY <1>1, <1>2, <1>5, <1>11

-----------------------------------------------------------------------------
(* Consistent anchors. *)

(* Of two consistent chain anchors the first root begins the second. *)
LEMMA ConsistentPrefix ==
  ASSUME NEW a \in ChainAnchors, NEW b \in ChainAnchors, ChainConsistent(a, b)
  PROVE  /\ a.size = Len(a.root) /\ b.size = Len(b.root)
         /\ \A i \in 1..a.size : i \in 1..b.size /\ a.root[i] = b.root[i]
<1> DEFINE S == Range(a.root) \cup Range(b.root)
<1>1. a.root \in Seq(S) /\ b.root \in Seq(S)
  <2> DEFINE A == Range(a.root)
             B == Range(b.root)
  <2>1. a.root \in Seq(A) /\ b.root \in Seq(B)
    BY AnchorShape
  <2> HIDE DEF A, B
  <2>2. a.root \in Seq(A \cup B) /\ b.root \in Seq(A \cup B)
    BY <2>1
  <2> QED BY <2>2 DEF A, B
<1>2. a.size = Len(a.root) /\ b.size = Len(b.root) /\ IsPrefix(a.root, b.root)
  BY DEF ChainConsistent, BoundEndpoint
<1> HIDE DEF S
<1> QED BY <1>1, <1>2, PrefixPointwise

(* Consistency of chain anchors is transitive. *)
LEMMA ConsistentTransitive ==
  ASSUME NEW a \in ChainAnchors, NEW b \in ChainAnchors, NEW c \in ChainAnchors,
         ChainConsistent(a, b), ChainConsistent(b, c)
  PROVE  ChainConsistent(a, c)
<1>1. /\ a.size \in Nat /\ b.size \in Nat /\ c.size \in Nat
      /\ a.epoch \in Nat /\ b.epoch \in Nat /\ c.epoch \in Nat
  BY AnchorShape
<1>2. IsPrefix(a.root, c.root)
  <2> DEFINE A == Range(a.root)
             B == Range(b.root)
             C == Range(c.root)
  <2>1. a.root \in Seq(A) /\ b.root \in Seq(B) /\ c.root \in Seq(C)
    BY AnchorShape
  <2> HIDE DEF A, B, C
  <2>2. PICK S : a.root \in Seq(S) /\ b.root \in Seq(S) /\ c.root \in Seq(S)
    <3>1. /\ a.root \in Seq(A \cup B \cup C) /\ b.root \in Seq(A \cup B \cup C)
          /\ c.root \in Seq(A \cup B \cup C)
      BY <2>1
    <3> QED BY <3>1
  <2>3. IsPrefix(a.root, b.root) /\ IsPrefix(b.root, c.root)
    BY DEF ChainConsistent
  <2> QED BY <2>2, <2>3, PrefixPointwise
<1> QED BY <1>1, <1>2 DEF ChainConsistent

(* What an archive that extends its history publishes is consistent.        *)
LEMMA ExtensionConsistent ==
  ASSUME NEW g \in Histories, NEW h \in Histories, NEW c, NEW contract,
         NEW old, old = RebuiltAnchor(g, c), NEW new, new = RebuiltAnchor(h, contract),
         old.context = new.context, IsStrictPrefix(old.root, new.root)
  PROVE  ChainConsistent(old, new)
<1>1. /\ old.size = Len(g) /\ Len(old.root) = Len(g) /\ old.epoch = Genesis.epoch + Len(g)
      /\ ValidAnchor(old) /\ BoundEndpoint(old) /\ old.root \in Seq(Range(old.root))
  BY RebuiltFields
<1>2. /\ new.size = Len(h) /\ Len(new.root) = Len(h) /\ new.epoch = Genesis.epoch + Len(h)
      /\ ValidAnchor(new) /\ BoundEndpoint(new) /\ new.root \in Seq(Range(new.root))
  BY RebuiltFields
<1>3. IsPrefix(old.root, new.root) /\ old.root # new.root
  BY DEF IsStrictPrefix
<1>4. Len(g) \in Nat /\ Len(h) \in Nat /\ 1 \in 1..Len(g)
  BY HistoryShape
<1>5. Genesis.epoch \in Nat
  BY <1>4, ReplayedRef
<1>6. Len(g) < Len(h)
  <2>1. Len(g) <= Len(h)
    BY <1>1, <1>2, <1>3 DEF IsPrefix
  <2>2. SUFFICES ASSUME Len(g) = Len(h) PROVE FALSE
    BY <1>4, <2>1
  <2>3. SubSeq(old.root, 1, Len(old.root)) = old.root
    BY <1>1
  <2>4. SubSeq(new.root, 1, Len(new.root)) = new.root
    BY <1>2
  <2> QED BY <1>1, <1>2, <1>3, <2>2, <2>3, <2>4 DEF IsPrefix
<1> QED BY <1>1, <1>2, <1>3, <1>4, <1>5, <1>6 DEF ChainConsistent

-----------------------------------------------------------------------------
(* Archives: the invariant. *)

(***************************************************************************)
(* Every statement is valid.  What an honest archive publishes is rebuilt  *)
(* from a history, and follows the statement it names as the one before.   *)
(***************************************************************************)
IssuedValid == \A s \in issued : ValidStatement(s)

HonestRebuilt ==
  \A s \in issued : s.authority \in HonestAuthorities =>
    /\ s.anchor \in RebuiltAnchors
    /\ s.prev # ZERO => VerifyAuthorized(s.prev, s)

(* The statements of a log continue one another. *)
ChainedLogs ==
  \A p \in Parties :
    /\ \A i \in DOMAIN log[p] : ValidStatement(log[p][i])
    /\ \A i \in DOMAIN log[p] : i > 1 => VerifyAuthorized(log[p][i - 1], log[p][i])
    /\ \A i, j \in DOMAIN log[p] :
         i < j => ChainConsistent(log[p][i].anchor, log[p][j].anchor)

IInv == TypeOK /\ IssuedValid /\ HonestRebuilt /\ ChainedLogs

(* The fields of an issued statement have their types. *)
LEMMA IssuedFields ==
  ASSUME TypeOK, NEW s \in issued
  PROVE  s.sequence \in Nat \ {0} /\ s.anchor \in ChainAnchors /\ s.authority \in Authorities
  BY DEF TypeOK, StatementShape

(* A party's log is a sequence of issued statements. *)
LEMMA LogFacts ==
  ASSUME TypeOK, NEW p \in Parties
  PROVE  /\ log[p] \in Seq(issued) /\ Len(log[p]) \in Nat
         /\ DOMAIN log[p] = 1..Len(log[p])
         /\ \A i \in DOMAIN log[p] : log[p][i] \in issued
  BY DEF TypeOK

(* Direct brings its own copies of the library's operators. *)
LEMMA LibraryCopies ==
  /\ \A S : Direct!Cardinality(S) = Cardinality(S)
  /\ \A s, t : Direct!IsPrefix(s, t) <=> IsPrefix(s, t)
  /\ \A s : Direct!Last(s) = Last(s)
<1>1. ASSUME NEW S PROVE Direct!Cardinality(S) = Cardinality(S)
  BY Zenon DEF Direct!Cardinality, Cardinality
<1>2. ASSUME NEW s, NEW t PROVE Direct!IsPrefix(s, t) <=> IsPrefix(s, t)
  BY DEF Direct!IsPrefix, IsPrefix
<1>3. ASSUME NEW s PROVE Direct!Last(s) = Last(s)
  BY DEF Direct!Last, Last
<1> QED BY <1>1, <1>2, <1>3

(* Issuing a statement over archives is issuing it in the abstract protocol. *)
LEMMA IssueIsDirect ==
  ASSUME NEW s, Issue(s)
  PROVE  Direct!Issue(s) /\ log' = log
  BY LibraryCopies DEF Issue, ValidStatement, Direct!Issue, Direct!ValidStatement

(* Consistent chain anchors are append-only as the abstract protocol has it. *)
LEMMA ConsistentIsAppendOnly ==
  ASSUME NEW a, NEW b, ChainConsistent(a, b)
  PROVE  Direct!AppendOnly(a, b)
  BY LibraryCopies
     DEF ChainConsistent, BoundEndpoint, Direct!AppendOnly, Direct!BoundEndpoint

(* A statement in the shape of an issued one keeps the shapes. *)
LEMMA IssueKeepsTypes ==
  ASSUME TypeOK, NEW s \in StatementShape, Issue(s)
  PROVE  TypeOK'
<1>1. issued' = issued \cup {s} /\ log' = log
  BY DEF Issue
<1>2. issued' \subseteq StatementShape'
  BY <1>1 DEF TypeOK, StatementShape
<1>3. log' \in [Parties -> Seq(issued')]
  <2>1. \A q \in Seq(issued) : q \in Seq(issued')
    BY <1>1
  <2> QED BY <1>1, <2>1 DEF TypeOK
<1> QED BY <1>2, <1>3 DEF TypeOK

(***************************************************************************)
(* An honest archive issues one statement over an anchor rebuilt from its  *)
(* history, and it can be followed from the statement before it; lineage   *)
(* statements allow the same step.                                         *)
(***************************************************************************)
LEMMA HonestStep ==
  ASSUME TypeOK, IssuedValid, HonestRebuilt, NEW authority \in Authorities,
         NEW provenance \in Provenances, NEW contract \in Contracts,
         NEW packages \in Histories,
         PublishHonestly(authority, provenance, contract, packages)
  PROVE  /\ \E s \in StatementShape :
              /\ Issue(s) /\ s.anchor \in RebuiltAnchors
              /\ s.prev # ZERO => VerifyAuthorized(s.prev, s)
         /\ Direct!ProducerNext /\ log' = log
<1> DEFINE anchor == RebuiltAnchor(packages, contract)
           mine == {s \in issued : s.authority = authority /\ s.anchor.context = anchor.context}
<1>1. anchor \in RebuiltAnchors /\ anchor \in ChainAnchors
  BY DEF RebuiltAnchors, ChainAnchors
<1>2. authority \in HonestAuthorities /\ BoundEndpoint(anchor)
  BY RebuiltFields DEF PublishHonestly
<1> HIDE DEF anchor
<1>3. mine = Direct!InLane(authority, anchor.context)
  BY DEF Direct!InLane, Direct!Lane
<1>4. CASE mine = {} /\ Issue(Statement(authority, 1, ZERO, provenance, anchor))
  <2> DEFINE s == Statement(authority, 1, ZERO, provenance, anchor)
  <2>1. s \in StatementShape /\ s.anchor = anchor /\ s.prev = ZERO
    BY <1>1 DEF Statement, StatementShape
  <2>2. s = Direct!Statement(authority, 1, ZERO, provenance, anchor)
    BY DEF Statement, Direct!Statement
  <2> HIDE DEF s
  <2>3. Issue(s)
    BY <1>4 DEF s
  <2>4. Direct!Issue(s) /\ log' = log
    BY <2>3, IssueIsDirect
  <2>5. Direct!IssueHonestly(authority, provenance, anchor)
    BY <1>2, <1>3, <1>4, <2>2, <2>4
       DEF Direct!IssueHonestly, BoundEndpoint, Direct!BoundEndpoint
  <2> QED BY <1>1, <2>1, <2>3, <2>4, <2>5 DEF Direct!ProducerNext
<1>5. ASSUME NEW last \in mine, \A s \in mine : s.sequence <= last.sequence,
             ExtendsHistory(last.anchor, packages, contract),
             Issue(Statement(authority, last.sequence + 1, last, provenance, anchor))
      PROVE  /\ \E s \in StatementShape :
                  /\ Issue(s) /\ s.anchor \in RebuiltAnchors
                  /\ s.prev # ZERO => VerifyAuthorized(s.prev, s)
             /\ Direct!ProducerNext /\ log' = log
  <2> DEFINE s == Statement(authority, last.sequence + 1, last, provenance, anchor)
  <2>1. /\ last \in issued /\ last.sequence \in Nat \ {0} /\ last.authority = authority
        /\ last.anchor.context = anchor.context /\ last.anchor \in ChainAnchors
    BY IssuedFields
  <2>2. /\ s \in StatementShape /\ s.anchor = anchor /\ s.prev = last
        /\ s.authority = authority /\ s.sequence = last.sequence + 1
    BY <1>1, <2>1 DEF Statement, StatementShape
  <2>3. s = Direct!Statement(authority, last.sequence + 1, last, provenance, anchor)
    BY DEF Statement, Direct!Statement
  <2> HIDE DEF s, mine
  <2>4. Issue(s) /\ ValidStatement(s)
    BY <1>5 DEF s, Issue
  <2>5. Direct!Issue(s) /\ log' = log
    BY <2>4, IssueIsDirect
  <2>6. last.anchor \in RebuiltAnchors
    BY <1>2, <2>1 DEF HonestRebuilt
  <2>7. PICK g \in Histories, c \in Contracts : last.anchor = RebuiltAnchor(g, c)
    BY <2>6 DEF RebuiltAnchors
  <2>8. ChainConsistent(last.anchor, anchor)
    <3>1. IsStrictPrefix(last.anchor.root, anchor.root)
      BY <1>5 DEF ExtendsHistory, anchor
    <3> QED BY <2>1, <2>7, <3>1, ExtensionConsistent DEF anchor
  <2>9. ValidStatement(last)
    BY <2>1 DEF IssuedValid
  <2>10. VerifyAuthorized(last, s)
    BY <2>1, <2>2, <2>4, <2>8, <2>9 DEF VerifyAuthorized
  <2>11. Direct!AppendOnly(last.anchor, anchor)
    BY <2>8, ConsistentIsAppendOnly
  <2>12. Direct!IssueHonestly(authority, provenance, anchor)
    BY <1>2, <1>3, <1>5, <2>3, <2>5, <2>11
       DEF Direct!IssueHonestly, BoundEndpoint, Direct!BoundEndpoint
  <2> QED BY <1>1, <2>2, <2>4, <2>5, <2>10, <2>12 DEF Direct!ProducerNext
<1> HIDE DEF mine
<1>6. \/ mine = {} /\ Issue(Statement(authority, 1, ZERO, provenance, anchor))
      \/ \E last \in mine :
           /\ \A s \in mine : s.sequence <= last.sequence
           /\ ExtendsHistory(last.anchor, packages, contract)
           /\ Issue(Statement(authority, last.sequence + 1, last, provenance, anchor))
  BY Zenon DEF PublishHonestly, mine, anchor
<1> QED BY <1>4, <1>5, <1>6

(* Any other archive issues whatever it likes, as lineage authorities do. *)
LEMMA FreeStep ==
  ASSUME TypeOK, NEW authority \in Authorities, NEW provenance \in Provenances,
         NEW sequence \in 1..MaxSequence, NEW prev \in issued \cup {ZERO},
         NEW anchor \in ChainAnchors,
         PublishFreely(authority, sequence, prev, provenance, anchor)
  PROVE  /\ \E s \in StatementShape : Issue(s) /\ s.authority \notin HonestAuthorities
         /\ Direct!ProducerNext /\ log' = log
<1> DEFINE s == Statement(authority, sequence, prev, provenance, anchor)
<1>1. /\ s \in StatementShape /\ s.authority = authority
  BY ArchiveAssumption DEF Statement, StatementShape
<1>2. s = Direct!Statement(authority, sequence, prev, provenance, anchor)
  BY DEF Statement, Direct!Statement
<1>3. Issue(s) /\ authority \in Authorities \ HonestAuthorities
  BY DEF PublishFreely
<1> HIDE DEF s
<1>4. Direct!Issue(s) /\ log' = log
  BY <1>3, IssueIsDirect
<1>5. Direct!IssueFreely(authority, sequence, prev, provenance, anchor)
  BY <1>2, <1>3, <1>4 DEF Direct!IssueFreely
<1> QED BY <1>1, <1>3, <1>4, <1>5 DEF Direct!ProducerNext

(* A publication keeps the invariant and is a step of the abstract producer. *)
LEMMA PublishStep ==
  ASSUME IInv, Publish
  PROVE  IInv' /\ Direct!Produce
<1>1. /\ \E s \in StatementShape :
           /\ Issue(s)
           /\ s.authority \in HonestAuthorities =>
                /\ s.anchor \in RebuiltAnchors
                /\ s.prev # ZERO => VerifyAuthorized(s.prev, s)
      /\ Direct!ProducerNext /\ log' = log
  BY HonestStep, FreeStep, Zenon DEF Publish, IInv
<1>2. PICK s \in StatementShape :
        /\ Issue(s)
        /\ s.authority \in HonestAuthorities =>
             /\ s.anchor \in RebuiltAnchors
             /\ s.prev # ZERO => VerifyAuthorized(s.prev, s)
  BY <1>1
<1>3. issued' = issued \cup {s} /\ ValidStatement(s) /\ log' = log
  BY <1>2 DEF Issue
<1>4. TypeOK'
  BY <1>2, IssueKeepsTypes DEF IInv
<1>5. IssuedValid'
  BY <1>3 DEF IInv, IssuedValid
<1>6. HonestRebuilt'
  BY <1>2, <1>3 DEF IInv, HonestRebuilt
<1>7. ChainedLogs'
  BY <1>3 DEF IInv, ChainedLogs
<1>8. Direct!Produce
  BY <1>1 DEF Direct!Produce
<1> QED BY <1>4, <1>5, <1>6, <1>7, <1>8 DEF IInv

-----------------------------------------------------------------------------
(* Relying parties. *)

(* A party's first trust keeps the invariant and is the abstract step. *)
LEMMA TrustStep ==
  ASSUME IInv, NEW p \in Parties, NEW s \in issued, Trust(p, s)
  PROVE  IInv' /\ Direct!Trust(p, s)
<1>1. /\ issued' = issued /\ log' = [log EXCEPT ![p] = <<s>>] /\ ValidStatement(s)
      /\ log[p] = << >>
  BY DEF Trust
<1>2. TypeOK'
  BY <1>1 DEF IInv, TypeOK, StatementShape
<1>3. log'[p] = <<s>> /\ \A q \in Parties : q # p => log'[q] = log[q]
  BY <1>1 DEF IInv, TypeOK
<1>4. ChainedLogs'
  <2> SUFFICES ASSUME NEW q \in Parties
               PROVE  /\ \A i \in DOMAIN log'[q] : ValidStatement(log'[q][i])
                      /\ \A i \in DOMAIN log'[q] :
                           i > 1 => VerifyAuthorized(log'[q][i - 1], log'[q][i])
                      /\ \A i, j \in DOMAIN log'[q] :
                           i < j => ChainConsistent(log'[q][i].anchor, log'[q][j].anchor)
    BY DEF ChainedLogs
  <2>1. CASE q = p
    BY <1>1, <1>3, <2>1
  <2>2. CASE q # p
    BY <1>3, <2>2 DEF IInv, ChainedLogs
  <2> QED BY <2>1, <2>2
<1>5. IssuedValid' /\ HonestRebuilt'
  BY <1>1 DEF IInv, IssuedValid, HonestRebuilt
<1>6. Direct!Trust(p, s)
  BY <1>1 DEF Direct!Trust, ValidStatement, Direct!ValidStatement
<1> QED BY <1>2, <1>4, <1>5, <1>6 DEF IInv

(* The last statement of a log that is not empty is an issued one. *)
LEMMA LastOfLog ==
  ASSUME TypeOK, NEW p \in Parties, log[p] # << >>
  PROVE  /\ Len(log[p]) \in DOMAIN log[p] /\ Last(log[p]) = log[p][Len(log[p])]
         /\ Last(log[p]) \in issued /\ Last(log[p]).anchor \in ChainAnchors
<1>1. Len(log[p]) \in DOMAIN log[p] /\ Last(log[p]) = log[p][Len(log[p])]
  BY LogFacts DEF Last
<1> QED BY <1>1, LogFacts, IssuedFields

(* Following a statement keeps the invariant and is the abstract step. *)
LEMMA FollowStep ==
  ASSUME IInv, NEW p \in Parties, NEW s \in issued, Follow(p, s)
  PROVE  IInv' /\ Direct!Follow(p, s)
<1>1. /\ issued' = issued /\ log' = [log EXCEPT ![p] = Append(@, s)]
      /\ VerifyAuthorized(Last(log[p]), s) /\ log[p] # << >> /\ ValidStatement(s)
  BY DEF Follow, VerifyAuthorized
<1>2. PICK n \in Nat : n = Len(log[p])
  BY LogFacts DEF IInv
<1>3. /\ log[p] \in Seq(issued) /\ n >= 1 /\ DOMAIN log[p] = 1..n
      /\ Last(log[p]) = log[p][n] /\ \A i \in 1..n : log[p][i] \in issued
  BY <1>1, <1>2, LogFacts DEF IInv, Last
<1>4. TypeOK'
  BY <1>1, <1>3 DEF IInv, TypeOK, StatementShape
<1>5. /\ log'[p] = Append(log[p], s)
      /\ \A q \in Parties : q # p => log'[q] = log[q]
  BY <1>1 DEF IInv, TypeOK
<1>6. /\ DOMAIN log'[p] = 1..(n + 1) /\ log'[p][n + 1] = s
      /\ \A i \in 1..n : log'[p][i] = log[p][i]
  BY <1>2, <1>3, <1>5
<1>7. \A i \in 1..n : ChainConsistent(log[p][i].anchor, s.anchor)
  <2> SUFFICES ASSUME NEW i \in 1..n PROVE ChainConsistent(log[p][i].anchor, s.anchor)
    OBVIOUS
  <2>1. ChainConsistent(log[p][n].anchor, s.anchor)
    BY <1>1, <1>3 DEF VerifyAuthorized
  <2>2. CASE i < n
    <3>1. ChainConsistent(log[p][i].anchor, log[p][n].anchor)
      BY <1>3, <2>2 DEF IInv, ChainedLogs
    <3>2. /\ log[p][i].anchor \in ChainAnchors /\ log[p][n].anchor \in ChainAnchors
          /\ s.anchor \in ChainAnchors
      BY <1>3, IssuedFields DEF IInv
    <3> QED BY <2>1, <3>1, <3>2, ConsistentTransitive
  <2> QED BY <1>3, <2>1, <2>2
<1>8. ChainedLogs'
  <2> SUFFICES ASSUME NEW q \in Parties
               PROVE  /\ \A i \in DOMAIN log'[q] : ValidStatement(log'[q][i])
                      /\ \A i \in DOMAIN log'[q] :
                           i > 1 => VerifyAuthorized(log'[q][i - 1], log'[q][i])
                      /\ \A i, j \in DOMAIN log'[q] :
                           i < j => ChainConsistent(log'[q][i].anchor, log'[q][j].anchor)
    BY DEF ChainedLogs
  <2>1. CASE q = p
    <3>1. \A i \in 1..(n + 1) : i \in 1..n \/ i = n + 1
      OBVIOUS
    <3>2. \A i \in DOMAIN log'[p] : ValidStatement(log'[p][i])
      BY <1>1, <1>3, <1>6, <3>1 DEF IInv, ChainedLogs
    <3>3. \A i \in DOMAIN log'[p] :
            i > 1 => VerifyAuthorized(log'[p][i - 1], log'[p][i])
      <4> SUFFICES ASSUME NEW i \in 1..(n + 1), i > 1
                   PROVE  VerifyAuthorized(log'[p][i - 1], log'[p][i])
        BY <1>6
      <4>1. CASE i = n + 1
        BY <1>1, <1>3, <1>6, <4>1
      <4>2. CASE i \in 1..n
        <5>1. i - 1 \in 1..n
          BY <4>2
        <5> QED BY <1>3, <1>6, <4>2, <5>1 DEF IInv, ChainedLogs
      <4> QED BY <3>1, <4>1, <4>2
    <3>4. \A i, j \in DOMAIN log'[p] :
            i < j => ChainConsistent(log'[p][i].anchor, log'[p][j].anchor)
      <4> SUFFICES ASSUME NEW i \in 1..(n + 1), NEW j \in 1..(n + 1), i < j
                   PROVE  ChainConsistent(log'[p][i].anchor, log'[p][j].anchor)
        BY <1>6
      <4>1. i \in 1..n
        OBVIOUS
      <4>2. CASE j = n + 1
        BY <1>6, <1>7, <4>1, <4>2
      <4>3. CASE j \in 1..n
        BY <1>3, <1>6, <4>1, <4>3 DEF IInv, ChainedLogs
      <4> QED BY <3>1, <4>2, <4>3
    <3> QED BY <2>1, <3>2, <3>3, <3>4
  <2>2. CASE q # p
    BY <1>5, <2>2 DEF IInv, ChainedLogs
  <2> QED BY <2>1, <2>2
<1>9. IssuedValid' /\ HonestRebuilt'
  BY <1>1 DEF IInv, IssuedValid, HonestRebuilt
<1>10. Direct!Follow(p, s)
  <2>1. Direct!VerifyAuthorized(Last(log[p]), s)
    BY <1>1, ConsistentIsAppendOnly DEF VerifyAuthorized, Direct!VerifyAuthorized
  <2> QED BY <1>1, <2>1, LibraryCopies
          DEF Direct!Follow, ValidStatement, Direct!ValidStatement
<1> QED BY <1>4, <1>8, <1>9, <1>10 DEF IInv

(***************************************************************************)
(* Every statement is valid and every log a chain of verified statements,  *)
(* and honest archives publish what a replay derives: the inductive        *)
(* invariant.  Every step of it is a step lineage statements allow.        *)
(***************************************************************************)
LEMMA ArchiveStep ==
  ASSUME IInv, [Next]_vars
  PROVE  IInv' /\ [Direct!Next]_Direct!vars
<1>1. CASE Publish
  BY <1>1, PublishStep DEF Direct!Next
<1>2. ASSUME NEW p \in Parties, NEW s \in issued, Trust(p, s) \/ Follow(p, s)
      PROVE  IInv' /\ Direct!Next
  BY <1>2, TrustStep, FollowStep DEF Direct!Next
<1>3. CASE UNCHANGED vars
  <2>1. issued' = issued /\ log' = log
    BY <1>3 DEF vars
  <2>2. TypeOK' /\ IssuedValid' /\ HonestRebuilt' /\ ChainedLogs'
    BY <2>1 DEF IInv, TypeOK, StatementShape, IssuedValid, HonestRebuilt, ChainedLogs
  <2> QED BY <2>1, <2>2 DEF IInv, Direct!vars
<1> QED BY <1>1, <1>2, <1>3 DEF Next

(* The invariant holds initially, and the start maps to the abstract start. *)
LEMMA ArchiveInit ==
  ASSUME Init PROVE IInv /\ Direct!Init
  BY DEF Init, Direct!Init, Direct!ProducerInit, IInv, TypeOK, IssuedValid,
         HonestRebuilt, ChainedLogs

(* The inductive invariant of the archive (IInv: types, issued statements that
   verify, honest archives rebuilt from histories, chained logs) holds in every
   state. *)
THEOREM ArchiveInvariant == Spec => []IInv
<1>1. IInv /\ [Next]_vars => IInv'
  BY ArchiveStep
<1> QED BY <1>1, ArchiveInit, PTL DEF Spec

(* Statements keep their shape, and a log holds issued statements only. *)
THEOREM TypeCorrect == Spec => []TypeOK
<1>1. IInv => TypeOK
  BY DEF IInv
<1> QED BY <1>1, ArchiveInvariant, PTL

(***************************************************************************)
(* Archives of rotations are a second implementation of lineage            *)
(* statements: each step of an archive or a party maps to one of theirs.   *)
(***************************************************************************)
THEOREM RefinesDirectLineage == Spec => ImplementsDirectLineage
<1>1. IInv /\ [Next]_vars => [Direct!Next]_Direct!vars
  BY ArchiveStep
<1>2. Init => Direct!Init
  BY ArchiveInit
<1> QED BY <1>1, <1>2, ArchiveInvariant, PTL DEF Spec, ImplementsDirectLineage, Direct!Spec

-----------------------------------------------------------------------------
(* Disclosures along a log. *)

(* A larger anchor of one archive shows what the smaller one showed. *)
LEMMA ConsistentShowsMore ==
  ASSUME NEW a \in ChainAnchors, NEW b \in ChainAnchors, ChainConsistent(a, b)
  PROVE  Disclosures[a] \subseteq Disclosures[b]
<1> SUFFICES ASSUME NEW d \in Disclosures[a] PROVE d \in Disclosures[b]
  OBVIOUS
<1> DEFINE All == {Disclosure(i, previous, package) : i \in 1..MaxHandoffs,
                     previous \in ChainRefs \cup {ZERO}, package \in Packages}
<1>1. Disclosures[a] = {e \in All : VerifyDisclosure(a, e)}
      /\ Disclosures[b] = {e \in All : VerifyDisclosure(b, e)}
  BY DEF Disclosures
<1> HIDE DEF All
<1>2. d \in All /\ VerifyDisclosure(a, d)
  BY <1>1
<1>3. /\ a.context = b.context /\ a.size < b.size /\ ValidAnchor(b) /\ BoundEndpoint(b)
  BY DEF ChainConsistent
<1>4. a.size \in Nat /\ b.size \in Nat
  BY AnchorShape
<1>5. d.index \in 1..a.size /\ d.index \in 1..b.size /\ d.index # b.size
  BY <1>2, <1>3, <1>4 DEF VerifyDisclosure
<1>6. a.root[d.index] = b.root[d.index]
  BY <1>5, ConsistentPrefix
<1>7. DisclosedRef(b, d) = DisclosedRef(a, d)
  BY <1>3 DEF DisclosedRef
<1>8. \A ref : SameChain(ref, a) => SameChain(ref, b)
  BY <1>3 DEF SameChain
<1>9. VerifyDisclosure(b, d)
  BY <1>2, <1>3, <1>5, <1>6, <1>7, <1>8 DEF VerifyDisclosure
<1> QED BY <1>1, <1>2, <1>9

(***************************************************************************)
(* What a party has been shown stays shown, when it follows an archive to  *)
(* a larger anchor.                                                        *)
(***************************************************************************)
THEOREM ShownDisclosuresStay == Spec => DisclosuresStable
<1>1. IInv /\ [Next]_vars => [ShownStaysShown]_vars
  <2> SUFFICES ASSUME IInv, [Next]_vars, NEW p \in Parties, log[p] # << >>, log'[p] # log[p]
               PROVE  Disclosures[Last(log[p]).anchor] \subseteq Disclosures[Last(log'[p]).anchor]
    BY DEF ShownStaysShown
  <2>1. log' # log
    OBVIOUS
  <2>2. PICK q \in Parties, s \in issued : Trust(q, s) \/ Follow(q, s)
    <3>1. ~Publish /\ ~UNCHANGED vars
      <4>1. ASSUME Publish PROVE log' = log
        BY <4>1, PublishStep DEF Direct!Produce
      <4> QED BY <2>1, <4>1 DEF vars
    <3> QED BY <3>1 DEF Next
  <2>3. q = p /\ Follow(p, s)
    BY <2>2 DEF IInv, TypeOK, Trust, Follow
  <2>4. Last(log'[p]) = s
    <3>1. log'[p] = Append(log[p], s) /\ log[p] \in Seq(issued)
      BY <2>3 DEF Follow, IInv, TypeOK
    <3>2. Len(log'[p]) = Len(log[p]) + 1 /\ log'[p][Len(log[p]) + 1] = s
      BY <3>1
    <3> QED BY <3>2 DEF Last
  <2>5. ChainConsistent(Last(log[p]).anchor, s.anchor)
    BY <2>3 DEF Follow, VerifyAuthorized
  <2>6. Last(log[p]).anchor \in ChainAnchors /\ s.anchor \in ChainAnchors
    BY LastOfLog, IssuedFields DEF IInv
  <2> QED BY <2>4, <2>5, <2>6, ConsistentShowsMore
<1> QED BY <1>1, ArchiveInvariant, PTL DEF Spec, DisclosuresStable

-----------------------------------------------------------------------------
(* Honest archives. *)

(* Two histories with one root replay to the same references. *)
LEMMA RootTellsReplay ==
  ASSUME NEW g \in Histories, NEW h \in Histories, NEW c, NEW contract,
         NEW i \in 1..Len(g), i \in 1..Len(h),
         RebuiltAnchor(g, c).root[i] = RebuiltAnchor(h, contract).root[i]
  PROVE  Replay(g)[i] = Replay(h)[i]
<1>1. RebuiltAnchor(g, c).root[i] = Replay(g)[i].step
  BY RebuiltFields
<1>2. RebuiltAnchor(h, contract).root[i] = Replay(h)[i].step
  BY RebuiltFields
<1>3. Replay(g)[i] = StepRef(g, Replay(g), i) /\ Replay(h)[i] = StepRef(h, Replay(h), i)
  BY HistoryShape, ReplayUnfolds
<1>4. Replay(g)[i].step = Replay(h)[i].step
  BY <1>1, <1>2
<1> DEFINE r == IF i = 1 THEN ZERO ELSE Replay(g)[i - 1]
           s == IF i = 1 THEN ZERO ELSE Replay(h)[i - 1]
<1>5. Replay(g)[i] = Chain!RefOf(g[i], Genesis, i, r)
      /\ Replay(h)[i] = Chain!RefOf(h[i], Genesis, i, s)
  BY <1>3 DEF StepRef
<1> HIDE DEF r, s
<1> QED BY <1>4, <1>5, StepTellsRef

(***************************************************************************)
(* Selective disclosure tells what a full replay would: each rotation of   *)
(* an honest archive's statement can be shown, in one way only, and each   *)
(* statement can be followed from the one before.                          *)
(***************************************************************************)
THEOREM HonestDisclosuresReplay == Spec => []HonestArchiveShowsReplay
<1>1. IInv => HonestArchiveShowsReplay
  <2> SUFFICES ASSUME IInv, NEW s \in issued, s.authority \in HonestAuthorities
               PROVE  /\ \A i \in 1..s.anchor.size :
                           LET shown == { DisclosedRef(s.anchor, d) :
                                            d \in {d \in Disclosures[s.anchor] : d.index = i} }
                               replayed == { Replay(h)[i] : h \in {h \in Histories :
                                   RebuiltAnchor(h, s.anchor.context.contract) = s.anchor} }
                           IN  shown = replayed /\ Cardinality(shown) = 1
                      /\ s.prev # ZERO => VerifyAuthorized(s.prev, s)
    BY DEF HonestArchiveShowsReplay
  <2>1. s.prev # ZERO => VerifyAuthorized(s.prev, s)
    BY DEF IInv, HonestRebuilt
  <2>2. s.anchor \in RebuiltAnchors /\ s.anchor \in ChainAnchors
    BY IssuedFields DEF IInv, HonestRebuilt
  <2>3. PICK g \in Histories, c \in Contracts : s.anchor = RebuiltAnchor(g, c)
    BY <2>2 DEF RebuiltAnchors
  <2>4. s.anchor.size = Len(g) /\ s.anchor.context.contract = c
    BY <2>3, RebuiltFields
  <2>5. ASSUME NEW i \in 1..s.anchor.size
        PROVE  LET shown == { DisclosedRef(s.anchor, d) :
                                d \in {d \in Disclosures[s.anchor] : d.index = i} }
                   replayed == { Replay(h)[i] : h \in {h \in Histories :
                                   RebuiltAnchor(h, s.anchor.context.contract) = s.anchor} }
               IN  shown = replayed /\ Cardinality(shown) = 1
    <3> DEFINE a == s.anchor
               D == {d \in Disclosures[a] : d.index = i}
               H == {h \in Histories : RebuiltAnchor(h, a.context.contract) = a}
               shown == {DisclosedRef(a, d) : d \in D}
               replayed == {Replay(h)[i] : h \in H}
    <3>1. i \in 1..Len(g)
      BY <2>4
    <3>2. ASSUME NEW d \in D PROVE DisclosedRef(a, d) = Replay(g)[i]
      <4>1. VerifyDisclosure(a, d) /\ d.index = i
        BY <2>2 DEF Disclosures
      <4> QED BY <2>3, <4>1, RebuiltTells
    <3>3. Shown(g, i) \in D /\ DisclosedRef(a, Shown(g, i)) = Replay(g)[i]
      BY <2>3, <3>1, RebuiltShows
    <3>4. shown = {Replay(g)[i]}
      BY <3>2, <3>3
    <3>5. g \in H
      BY <2>3, <2>4
    <3>6. ASSUME NEW h \in H PROVE Replay(h)[i] = Replay(g)[i]
      <4>1. h \in Histories /\ a = RebuiltAnchor(h, c)
        BY <2>4
      <4>2. a.size = Len(h)
        BY <4>1, RebuiltFields
      <4>3. i \in 1..Len(h) /\ RebuiltAnchor(g, c).root[i] = RebuiltAnchor(h, c).root[i]
        BY <2>3, <4>1, <4>2
      <4> QED BY <3>1, <4>1, <4>3, RootTellsReplay
    <3>7. replayed = {Replay(g)[i]}
      BY <3>5, <3>6
    <3>8. Cardinality(shown) = 1
      BY <3>4, FS_Singleton
    <3> QED BY <3>4, <3>7, <3>8
  <2> QED BY <2>1, <2>5
<1> QED BY <1>1, ArchiveInvariant, PTL

-----------------------------------------------------------------------------
(* Forks. *)

(* Two histories neither of which continues the other part at a first       *)
(* rotation, from one reference or at the start.                           *)
LEMMA HistoriesPart ==
  ASSUME NEW g \in Histories, NEW h \in Histories, NEW c, NEW contract,
         NEW a, a = RebuiltAnchor(g, c), NEW b, b = RebuiltAnchor(h, contract),
         ~IsPrefix(a.root, b.root), ~IsPrefix(b.root, a.root)
  PROVE  \E k \in 1..Len(g) :
           /\ k \in 1..Len(h) /\ g[k] # h[k]
           /\ k > 1 => k - 1 \in 1..Len(g) /\ Replay(g)[k - 1] = Replay(h)[k - 1]
<1> DEFINE m == Len(g)
           n == Len(h)
           T == {k \in (1..m) \cap (1..n) : a.root[k] # b.root[k]}
<1>1. m \in Nat /\ n \in Nat /\ g \in Seq(Packages) /\ h \in Seq(Packages)
  BY HistoryShape
<1>2. /\ Len(a.root) = m /\ a.root \in Seq(Range(a.root))
      /\ \A i \in 1..m : a.root[i] = Replay(g)[i].step
  BY RebuiltFields
<1>3. /\ Len(b.root) = n /\ b.root \in Seq(Range(b.root))
      /\ \A i \in 1..n : b.root[i] = Replay(h)[i].step
  BY RebuiltFields
<1>4. T # {}
  <2> SUFFICES ASSUME T = {} PROVE FALSE
    OBVIOUS
  <2>1. PICK S : a.root \in Seq(S) /\ b.root \in Seq(S)
    <3> DEFINE A == Range(a.root)
               B == Range(b.root)
    <3>1. a.root \in Seq(A) /\ b.root \in Seq(B)
      BY <1>2, <1>3
    <3> HIDE DEF A, B
    <3>2. a.root \in Seq(A \cup B) /\ b.root \in Seq(A \cup B)
      BY <3>1
    <3> QED BY <3>2
  <2>2. \A k \in (1..m) \cap (1..n) : a.root[k] = b.root[k]
    OBVIOUS
  <2>3. CASE m <= n
    <3>1. \A k \in 1..m : a.root[k] = b.root[k]
      BY <1>1, <2>2, <2>3
    <3> QED BY <1>1, <1>2, <1>3, <2>1, <2>3, <3>1, PrefixPointwise
  <2>4. CASE n <= m
    <3>1. \A k \in 1..n : b.root[k] = a.root[k]
      BY <1>1, <2>2, <2>4
    <3> QED BY <1>1, <1>2, <1>3, <2>1, <2>4, <3>1, PrefixPointwise
  <2> QED BY <1>1, <2>3, <2>4
<1>5. PICK k \in T : \A i \in T : k <= i
  <2>1. T \subseteq Nat
    OBVIOUS
  <2> HIDE DEF T
  <2> QED BY <1>4, <2>1, LeastElement
<1>6. k \in 1..m /\ k \in 1..n /\ a.root[k] # b.root[k]
  OBVIOUS
<1>7. ASSUME k > 1
      PROVE  /\ k - 1 \in 1..m /\ k - 1 \in 1..n
             /\ Replay(g)[k - 1] = Replay(h)[k - 1]
  <2>1. k - 1 \in 1..m /\ k - 1 \in 1..n /\ ~(k <= k - 1)
    BY <1>1, <1>6, <1>7
  <2>2. k - 1 \notin T
    <3> HIDE DEF T
    <3> QED BY <1>5, <2>1
  <2>3. RebuiltAnchor(g, c).root[k - 1] = RebuiltAnchor(h, contract).root[k - 1]
    BY <2>1, <2>2
  <2> QED BY <2>1, <2>3, RootTellsReplay
<1>8. g[k] # h[k]
  <2>1. Replay(g)[k] = StepRef(g, Replay(g), k) /\ Replay(h)[k] = StepRef(h, Replay(h), k)
    BY <1>1, <1>6, ReplayUnfolds
  <2>2. Replay(g)[k].step # Replay(h)[k].step
    BY <1>2, <1>3, <1>6
  <2>3. SUFFICES ASSUME g[k] = h[k] PROVE FALSE
    OBVIOUS
  <2>4. (IF k = 1 THEN ZERO ELSE Replay(g)[k - 1])
          = (IF k = 1 THEN ZERO ELSE Replay(h)[k - 1])
    BY <1>1, <1>6, <1>7
  <2>5. Replay(g)[k] = Replay(h)[k]
    BY <2>1, <2>3, <2>4 DEF StepRef
  <2> QED BY <2>2, <2>5
<1> QED BY <1>6, <1>7, <1>8

(***************************************************************************)
(* Histories retained in full fork in the open: the disclosures at the     *)
(* first rotation where they part show different seeds, or a fork the      *)
(* detector reports.                                                       *)
(***************************************************************************)
THEOREM ForksCanBeShown == Spec => []ForkCanBeShown
<1>1. ForkCanBeShown
  <2> SUFFICES ASSUME NEW a \in RebuiltAnchors, NEW b \in RebuiltAnchors,
                      ~IsPrefix(a.root, b.root), ~IsPrefix(b.root, a.root)
               PROVE  \E d \in Disclosures[a], e \in Disclosures[b] :
                        /\ d.index = e.index
                        /\ \/ d.index = 1 /\ d.package # e.package
                           \/ /\ d.index > 1 /\ d.previous = e.previous
                              /\ Chain!ForkDetected(d.previous, d.package, e.package)
    BY DEF ForkCanBeShown
  <2>1. PICK g \in Histories, c \in Contracts : a = RebuiltAnchor(g, c)
    BY DEF RebuiltAnchors
  <2>2. PICK h \in Histories, contract \in Contracts : b = RebuiltAnchor(h, contract)
    BY DEF RebuiltAnchors
  <2>3. PICK k \in 1..Len(g) :
          /\ k \in 1..Len(h) /\ g[k] # h[k]
          /\ k > 1 => k - 1 \in 1..Len(g) /\ Replay(g)[k - 1] = Replay(h)[k - 1]
    BY <2>1, <2>2, HistoriesPart
  <2>4. /\ Shown(g, k) \in Disclosures[a]
        /\ Shown(g, k).index = k /\ Shown(g, k).package = g[k]
        /\ Shown(g, k).previous = (IF k = 1 THEN ZERO ELSE Replay(g)[k - 1])
    BY <2>1, RebuiltShows
  <2>5. /\ Shown(h, k) \in Disclosures[b]
        /\ Shown(h, k).index = k /\ Shown(h, k).package = h[k]
        /\ Shown(h, k).previous = (IF k = 1 THEN ZERO ELSE Replay(h)[k - 1])
    BY <2>2, <2>3, RebuiltShows
  <2>6. CASE k = 1
    BY <2>3, <2>4, <2>5, <2>6
  <2>7. CASE k # 1
    <3>1. k \in Nat /\ k > 1 /\ DOMAIN g = 1..Len(g) /\ DOMAIN h = 1..Len(h)
      BY <2>3, <2>7, HistoryShape
    <3>2. Chain!ContinuedBy(Replay(g)[k - 1], g[k])
      BY <2>3, <3>1, HistoryShape DEF ValidHistory
    <3>3. Chain!ContinuedBy(Replay(h)[k - 1], h[k])
      BY <2>3, <3>1, HistoryShape DEF ValidHistory
    <3>4. Chain!ForkDetected(Replay(g)[k - 1], g[k], h[k])
      BY <2>3, <3>1, <3>2, <3>3 DEF Chain!ForkDetected
    <3> QED BY <2>3, <2>4, <2>5, <3>1, <3>4
  <2> QED BY <2>6, <2>7
<1> QED BY <1>1, PTL

-----------------------------------------------------------------------------
(* Contradictions. *)

(* The sequence number counts the statements of a log. *)
LEMMA LogSequence ==
  ASSUME IInv, NEW p \in Parties, NEW i \in DOMAIN log[p]
  PROVE  /\ log[p][i].sequence = log[p][1].sequence + i - 1
         /\ Direct!Lane(log[p][i]) = Direct!Lane(log[p][1])
<1> DEFINE Off(k) == ~(/\ log[p][k].sequence = log[p][1].sequence + k - 1
                       /\ Direct!Lane(log[p][k]) = Direct!Lane(log[p][1]))
           T == {k \in DOMAIN log[p] : Off(k)}
<1>1. /\ DOMAIN log[p] = 1..Len(log[p]) /\ Len(log[p]) \in Nat
      /\ \A k \in DOMAIN log[p] : log[p][k] \in issued
  BY LogFacts DEF IInv
<1>2. \A k \in DOMAIN log[p] : log[p][k].sequence \in Nat
  BY <1>1, IssuedFields DEF IInv
<1>3. SUFFICES ASSUME T # {} PROVE FALSE
  OBVIOUS
<1>4. PICK k \in T : \A m \in T : k <= m
  <2>1. T \subseteq Nat
    BY <1>1
  <2> HIDE DEF T
  <2> QED BY <1>3, <2>1, LeastElement
<1>5. k \in DOMAIN log[p] /\ k # 1 /\ 1 \in DOMAIN log[p]
  BY <1>1, <1>2
<1>6. k - 1 \in DOMAIN log[p] /\ k - 1 \notin T
  BY <1>1, <1>4, <1>5
<1>7. /\ log[p][k - 1].sequence = log[p][1].sequence + (k - 1) - 1
      /\ Direct!Lane(log[p][k - 1]) = Direct!Lane(log[p][1])
  BY <1>6
<1>8. VerifyAuthorized(log[p][k - 1], log[p][k])
  BY <1>1, <1>5 DEF IInv, ChainedLogs
<1>9. /\ log[p][k].sequence = log[p][k - 1].sequence + 1
      /\ Direct!Lane(log[p][k]) = Direct!Lane(log[p][k - 1])
  BY <1>8 DEF VerifyAuthorized, ChainConsistent, Direct!Lane
<1>10. log[p][k].sequence = log[p][1].sequence + k - 1
  <2>1. k \in Nat /\ log[p][1].sequence \in Nat
    BY <1>1, <1>2, <1>5
  <2> QED BY <2>1, <1>7, <1>9
<1>11. Direct!Lane(log[p][k]) = Direct!Lane(log[p][1])
  BY <1>7, <1>9
<1> QED BY <1>4, <1>10, <1>11

(* Two logs from one origin carry one sequence number at every index. *)
LEMMA SameOriginAligned ==
  ASSUME IInv, NEW p \in Parties, NEW q \in Parties, Direct!SameOrigin(p, q)
  PROVE  /\ log[p] # << >> /\ log[q] # << >>
         /\ log[p][1].prev = log[q][1].prev
         /\ \A i \in DOMAIN log[p], j \in DOMAIN log[q] :
              Direct!Lane(log[p][i]) = Direct!Lane(log[q][j])
         /\ \A i \in (DOMAIN log[p]) \cap (DOMAIN log[q]) :
              log[p][i].sequence = log[q][i].sequence
<1>1. 1 \in DOMAIN log[p] /\ 1 \in DOMAIN log[q]
  BY LogFacts DEF IInv, Direct!SameOrigin
<1>2. log[p][1].sequence = log[q][1].sequence /\ log[p][1].prev = log[q][1].prev
  BY <1>1 DEF Direct!SameOrigin, IInv, ChainedLogs, ValidStatement
<1>3. \A i \in DOMAIN log[p], j \in DOMAIN log[q] :
        Direct!Lane(log[p][i]) = Direct!Lane(log[q][j])
  BY LogSequence DEF Direct!SameOrigin
<1>4. \A i \in (DOMAIN log[p]) \cap (DOMAIN log[q]) :
        log[p][i].sequence = log[q][i].sequence
  BY <1>2, LogSequence
<1> QED BY <1>2, <1>3, <1>4 DEF Direct!SameOrigin

(***************************************************************************)
(* Without evidence two logs from one origin are equal as far as both go:  *)
(* at the first index where they differ the predecessors are equal, so the *)
(* two statements stand at one place of the archive's chain.               *)
(***************************************************************************)
LEMMA UnforkedLogsAgree ==
  ASSUME IInv, NEW p \in Parties, NEW q \in Parties,
         Direct!SameOrigin(p, q), Direct!NoReattestation(p, q),
         \A i \in DOMAIN log[p], j \in DOMAIN log[q] : ~Equivocates(log[p][i], log[q][j])
  PROVE  \A i \in (DOMAIN log[p]) \cap (DOMAIN log[q]) : log[p][i] = log[q][i]
<1> DEFINE D == (DOMAIN log[p]) \cap (DOMAIN log[q])
           T == {k \in D : log[p][k] # log[q][k]}
<1>1. /\ DOMAIN log[p] = 1..Len(log[p]) /\ Len(log[p]) \in Nat
      /\ DOMAIN log[q] = 1..Len(log[q]) /\ Len(log[q]) \in Nat
  BY LogFacts DEF IInv
<1>2. SUFFICES ASSUME T # {} PROVE FALSE
  OBVIOUS
<1>3. PICK k \in T : \A m \in T : k <= m
  <2>1. T \subseteq Nat
    BY <1>1
  <2> HIDE DEF T
  <2> QED BY <1>2, <2>1, LeastElement
<1>4. k \in D /\ log[p][k] # log[q][k] /\ k \in Nat
  BY <1>1
<1>5. log[p][k].prev = log[q][k].prev
  <2>1. CASE k = 1
    BY <2>1, SameOriginAligned
  <2>2. CASE k # 1
    <3>1. k - 1 \in D /\ k - 1 \notin T
      BY <1>1, <1>3, <1>4, <2>2
    <3>2. log[p][k - 1] = log[q][k - 1]
      BY <3>1
    <3>3. k \in DOMAIN log[p] /\ k \in DOMAIN log[q] /\ k > 1
      BY <1>1, <1>4, <2>2
    <3>4. VerifyAuthorized(log[p][k - 1], log[p][k])
          /\ VerifyAuthorized(log[q][k - 1], log[q][k])
      BY <3>3 DEF IInv, ChainedLogs
    <3> QED BY <3>2, <3>4 DEF VerifyAuthorized
  <2> QED BY <2>1, <2>2
<1>6. /\ log[p][k].sequence = log[q][k].sequence
      /\ Direct!Lane(log[p][k]) = Direct!Lane(log[q][k])
  BY <1>4, SameOriginAligned
<1>7. log[p][k].anchor = log[q][k].anchor
  BY <1>4, <1>5, <1>6 DEF Equivocates, Comparable, Direct!Lane
<1> QED BY <1>4, <1>5, <1>6, <1>7 DEF Direct!NoReattestation

(* Two anchors of one log agree wherever both hold a commitment. *)
LEMMA OneLogAgrees ==
  ASSUME IInv, NEW p \in Parties, NEW i \in DOMAIN log[p], NEW j \in DOMAIN log[p],
         NEW a, a = log[p][i].anchor, NEW b, b = log[p][j].anchor,
         NEW k \in 1..a.size, k \in 1..b.size
  PROVE  a.root[k] = b.root[k]
<1>1. i \in Nat /\ j \in Nat /\ a \in ChainAnchors /\ b \in ChainAnchors
  BY LogFacts, IssuedFields DEF IInv
<1>2. i = j \/ i < j \/ j < i
  BY <1>1
<1>3. a = b \/ ChainConsistent(a, b) \/ ChainConsistent(b, a)
  BY <1>2 DEF IInv, ChainedLogs
<1> QED BY <1>1, <1>3, ConsistentPrefix

(***************************************************************************)
(* An archive cannot tell two parties different pasts unnoticed: unless    *)
(* two retained statements equivocate, both logs run through one chain of  *)
(* anchors, and a commitment tells the whole rotation.                     *)
(***************************************************************************)
THEOREM ContradictionsAreAttributable == Spec => []ContradictionIsAttributable
<1>1. IInv => ContradictionIsAttributable
  <2> SUFFICES ASSUME IInv, NEW p \in Parties, NEW q \in Parties,
                      Direct!SameOrigin(p, q), Direct!NoReattestation(p, q),
                      \A i \in DOMAIN log[p], j \in DOMAIN log[q] :
                        ~Equivocates(log[p][i], log[q][j]),
                      NEW i \in DOMAIN log[p], NEW j \in DOMAIN log[q],
                      NEW d \in Disclosures[log[p][i].anchor],
                      NEW e \in Disclosures[log[q][j].anchor]
               PROVE  ~Contradict(log[p][i].anchor, d, log[q][j].anchor, e)
    BY DEF ContradictionIsAttributable
  <2> DEFINE a == log[p][i].anchor
             b == log[q][j].anchor
  <2>1. a \in ChainAnchors /\ b \in ChainAnchors /\ a.context = b.context
    <3>1. log[p][i] \in issued /\ log[q][j] \in issued
      BY LogFacts DEF IInv
    <3>2. Direct!Lane(log[p][i]) = Direct!Lane(log[q][j])
      BY SameOriginAligned
    <3> QED BY <3>1, <3>2, IssuedFields DEF IInv, Direct!Lane
  <2>2. VerifyDisclosure(a, d) /\ VerifyDisclosure(b, e)
    BY <2>1 DEF Disclosures
  <2>3. SUFFICES ASSUME d.index = e.index PROVE DisclosedRef(a, d) = DisclosedRef(b, e)
    BY DEF Contradict
  <2>4. d.index \in 1..a.size /\ d.index \in 1..b.size
    BY <2>2, <2>3 DEF VerifyDisclosure
  <2>5. a.root[d.index] = b.root[d.index]
    <3>1. /\ DOMAIN log[p] = 1..Len(log[p]) /\ Len(log[p]) \in Nat
          /\ DOMAIN log[q] = 1..Len(log[q]) /\ Len(log[q]) \in Nat
      BY LogFacts DEF IInv
    <3>2. CASE i \in DOMAIN log[q]
      <4>1. log[p][i] = log[q][i]
        BY <3>2, UnforkedLogsAgree
      <4> QED BY <2>4, <3>2, <4>1, OneLogAgrees
    <3>3. CASE j \in DOMAIN log[p]
      <4>1. log[p][j] = log[q][j]
        BY <3>3, UnforkedLogsAgree
      <4> QED BY <2>4, <3>3, <4>1, OneLogAgrees
    <3> QED BY <3>1, <3>2, <3>3
  <2>6. DisclosedRef(a, d).step = DisclosedRef(b, e).step
    BY <2>2, <2>3, <2>5 DEF VerifyDisclosure
  <2> HIDE DEF a, b
  <2> QED BY <2>1, <2>6, StepTellsRef DEF DisclosedRef
<1> QED BY <1>1, ArchiveInvariant, PTL
=============================================================================

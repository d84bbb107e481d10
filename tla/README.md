# T-Trace: specifications, model checking and proofs

T-Trace is a library of verifiers. Agents emit traces; authorities reconcile
branches of a shared state into lineages, publish membership roots of them and
sign statements about those roots; witnesses observe the statements; relying
parties accept what the verifiers accept. No verifier keeps state, opens a
connection or starts a thread. What is hard is the *protocol around them*: many
parties call pure functions on evidence that anybody assembled, in any order,
some of it signed by authorities and witnesses that say different things to
different people. The modules here give that protocol its state - who signed
what, and what each relying party retained - and take every acceptance decision
from the code.

## 1. Inventory

| Component | Code | State it gives rise to | Operations | Model |
|---|---|---|---|---|
| Portable causality | `ttrace/portable_causality.py` | branch evidence and votes of each authority | branch tips, two-parent reconciliation, agreement revalidation | `PortableCausality`, `CausalLineage` |
| Lineage compaction | `ttrace/lineage_compaction.py` | the rolling accumulator and active tip a party keeps | seed, advance, tip validation | `LineageCompaction`, `CausalLineage` |
| Membership and disclosure | `ttrace/lineage_membership.py` | cycle records, membership anchor | replay of records, tree, paths, disclosure of one cycle | `LineageCompaction` (replay), `LineageTree`, `RootFollower` |
| Root consistency | `ttrace/lineage_consistency_core.py` | the anchor last accepted | frontier, append blocks, tip paths | `LineageTree`, `RootFollower`; its result as `AppendOnly` in `AnchorStatements` |
| Producer statements | `ttrace/lineage_consistency.py` | the authority's statement chain, a party's retained statements | build, validate, continue, detect equivocation | `AnchorStatements`, `DirectLineage` |
| Witness quorums | `ttrace/lineage_witness.py` | each witness's observation chain, a party's packages | observe, package, witnessed consistency, split-view evidence | `WitnessPackages`, `WitnessQuorum` |
| Policy rotation | `ttrace/lineage_witness_handoff.py` | handoff observations | handoff statement, two role certificates, continuity edges, equivocation evidence | `PolicyHandoff`, `PolicyRotation` |
| Chains of rotations | `ttrace/lineage_witness_handoff_chain.py` | the pinned chain reference | seed, advance, whole-chain replay, fork evidence | `HandoffChain`, `PolicyHandoff`, `PolicyRotation` |
| Membership of rotations | `..._handoff_chain_membership.py` | anchor over rotation steps | history replay, disclosure of one rotation | `HandoffChain`, `ChainArchive` |
| Consistency of rotation roots | `..._handoff_chain_consistency.py` | statements over rotation anchors | consistency proof, authorized consistency, equivocation | `ChainArchive` |
| Trace validation | `ttrace/validation.py` | ids and per-thread progress while reading | validate a record sequence | `TraceValidation`, `CaptureAssurance` |
| Effect gate, assurance | `openpoc/effect_gate.py`, `verify_assurance.py` | precommitments, receipts, applied effects | precommit, execute, finalize, bypass, assess | `EffectGate`, `CaptureAssurance` |
| Cross-source correlation | `openpoc/verify_cross_source.py` | the records an audit collected, in order of arrival | profile, window, sides, digests, report | `CrossSource`, `SourceAudit` |
| Artifact handoff | `ttrace/artifact_handoff.py`, `verifiers/node/artifact-handoff.mjs` | the receipts a party observed, the snapshots it took | context validation, historical and current authority, projection, verdict | `ArtifactHandoff`, `NodeHandoff`, `ReceiverReview` |
| Reproducibility, action receipts, Asqav packages, corpus, scripts | `openpoc/`, `scripts/` | none | one-shot evaluation of files | not modelled |

How they interact: a cycle is a reconciliation (`portable_causality`) folded into
an accumulator (`lineage_compaction`); the records of all cycles become leaves of
a tree (`lineage_membership`); roots of that tree are related by consistency
proofs (`lineage_consistency_core`) and attested by an authority's chain of
statements (`lineage_consistency`); a quorum of witnesses observes each statement
(`lineage_witness`); the set of witnesses is itself rotated
(`lineage_witness_handoff`) again and again (`..._handoff_chain`), and the
rotations get a tree and statements of their own (`..._membership`,
`..._consistency`). Each layer calls the verifiers of the one below on the whole
object it embeds; nothing is remembered between calls but what callers retain.
Beside these layers, `openpoc` asks whether a trace is complete: agents precommit
effects and execute them through a gate or around it, and a report compares the
receipts and a validated trace with an inventory somebody else took; an audit
reconciles what two sources recorded about one action; and the verdict on an
artifact handoff puts both together: receipts of two roles, each judged under the
receiver's own context of policies, key status and observation times, are projected
to records and reconciled as an audit's are - once more, independently, in the Node
implementation, which reconciles without an audit.

What is hard here, and what makes each part correct:

- *Interleaving of parties.* Packages are assembled by anybody from any of the
  authenticated observations, while witnesses go on signing. Two parties must not
  be led apart without somebody to blame, and nobody honest may be blamed.
- *Pairwise evidence.* Every detector compares two objects. Whether a fork
  several steps deep always leaves such a pair among retained evidence is a
  property of the history, not of a call.
- *Overlap, not identity.* Witnessed consistency and the rotation edges ask only
  the witnesses that two quorums share to have moved by exactly one observation.
  Too strict, and an honest continuation is refused because of which quorum a
  party happens to hold; too lax, and the evidence loses its subject.
- *Opaque digests.* A root, a proof block or an accumulator is a hash whose
  preimage the verifier never sees; claimed sizes and tips need not fit it.
- *Time and age.* The authority of a receipt rests on when it was signed, when it
  was observed and when it is judged, and on snapshots of policies and key events
  that were taken earlier. Reviews must not disagree because one came later, and
  a key reported stolen must lose its authority whatever snapshot is used.
- *Unreliable delivery.* Records of an audit arrive late, twice, out of order or
  not at all, and a late record must neither accuse a source of silence nor
  change what an audit concluded.
- *Two implementations.* The Python and the Node verdict compute the comparison
  of two receipts in different ways.
- *Order and staleness.* Evidence of an old state, votes for another branch,
  rotations that skip or repeat a policy epoch, a caller that advances from a
  state that is not the compacted one.

There are no threads, timers or stored state in the repository, so crashes and
data races are not modelled: they would be hazards of its callers. Time enters as
data - clocks of sources, cutoffs, snapshot ages - and is modelled where the code
compares it (`SourceAudit`, `ReceiverReview`).

## 2. Plan

Modules in order of importance, each usable from a proof unless it says so:

1. *Done.* `AnchorStatements` - `DirectLineage` - `WitnessPackages` -
   `WitnessQuorum`, with the abstract promise `LineageView`.
2. *Done.* `PolicyHandoff` - `PolicyRotation`, implementing `LineageView` for
   histories of policies.
3. *Done.* `LineageTree` - `RootFollower`, which ties the hash-level verifier to
   `AppendOnly`.
4. *Done.* `PortableCausality` - `LineageCompaction` - `CausalLineage`.
5. *Done.* `HandoffChain` - `ChainArchive`: anchors and statements over the steps
   of a rotation chain, disclosure of one rotation, both fork detectors.
6. *Done.* `TraceValidation`, `EffectGate` - `CaptureAssurance`.
7. *Done.* `CrossSource` - `SourceAudit`: late against missing records.
   `ArtifactHandoff` - `NodeHandoff` - `ReceiverReview`: the authority of a receipt at
   three instants (signing, observation, evaluation), in both implementations.
8. *Done.* Theorems of section 6.
9. *Done.* Theorems about `ChainArchive`.

## 3. How the modules correspond to the code

`PROJECT.json` maps each definition to its lines. In outline:

**AnchorStatements** holds the pure verifiers of producer statements, one
operator each: `ValidStatement`, `AppendOnly` (what
`verify_lineage_root_consistency` comes to), `VerifyAuthorized`, `Equivocates` with
its two modes. `issued` is every statement ever signed. An honest authority
(`IssueHonestly`) attests one append-only chain per context; any other one
(`IssueFreely`) attests whatever the builder lets through, including anchors whose
size or tip their root does not bind.

**DirectLineage** adds relying parties that use statements alone: `Trust` the
first, `Follow` by `VerifyAuthorized`. `log[p]` is the evidence p retains.

**WitnessPackages / WitnessQuorum** add policies, observations and packages.
`ValidPackage` is `verify_lineage_witness_quorum_package`, `VerifyWitnessed` is
`verify_witnessed_lineage_root_consistency`, `ComparisonRefused` and
`EquivocationDetected` are the outcomes of `detect_witness_quorum_equivocation`.
Honest witnesses (`MayWitness`) are the profile's assumption and external to the
code: they refuse what contradicts, or in one lane does not extend, what they
signed before. Faulty witnesses sign anything, in chains they fork at will.

**PolicyHandoff / PolicyRotation** model one rotation and chains of them.
`ValidHandoffPackage` is the whole package verifier: both packages, the statement,
`ValidRole` for the old and new quorum, `Edge` for the witnesses shared with the
active and the activating package. `Seeds` and `Extends` are the checks of
`build_seed_...` and `advance_...` on a verified package, and call
**HandoffChain**, which derives references from one another: a chain reference is
the record of its fields, including the reference before it, since its digests
commit to those.

**ChainArchive** stands above the rotations: archives keep histories of rotations
(`ValidHistory`), publish statements over their anchors, and relying parties follow
them by `VerifyAuthorized`. Packages are known by the quorum packages they lead
from and to; what makes them verify is `PolicyHandoff`'s. What an archive can
disclose is a function of the anchors it may sign and not state (`Disclosures`).
References and roots may be forged: a root commits to whatever its builder put
under it. The statements of archives have the form of those of `DirectLineage`,
which `ChainArchive` is shown to implement by naming its parts; the tree that
carries them is the one of `LineageTree`, over other leaf and node domains.

**LineageTree / RootFollower** model the tree over hash *terms*: leaves, odd
nodes paired with themselves, paths, maximal aligned blocks, bagging, carries. The
loops of the code are functions of the number of rounds (`Levels`, `Climbed`,
`RootOfFrontier`, `AppendBlocks`), so that they can be proved about.
The relying party accepts any proof the prover can find; the prover looks inside
roots, so if any proof verifies it has one (a root fixes every hash of a proof).

**PortableCausality / LineageCompaction / CausalLineage** model forks and votes,
`Reconcilable` (every check of `reconcile_two_branches`), `ValidAgreement`,
`SeedAccumulator`, `Advances`, and the replay `ValidCycleChain`. Honest authorities
branch once from a state and vote once on it; faulty ones sign anything at any
time, so their evidence is always available rather than recorded.

**TraceValidation** is the loop of `validate_records`, one `Read` per record, with
what a refused record leaves registered. **EffectGate** keeps precommitments,
receipts and the store; `Digest` is computed from the payload as it is now, which
`Mutate` may change between any two calls; `enacted` and `bypassed` are history.
**CaptureAssurance** puts them together: any record may be presented, agents
call in any order, `TakeInventory` is the outside witness, and `AssessAssurance`
is `assess_assurance` over the current receipts and an inventory of any age.

**CrossSource / SourceAudit**: `AssessCrossSource` is `assess_cross_source` whole - the trace
validation of the supplied sequence first (the operator of `TraceValidation`), then
the profile, the scope and the duplicates of every record, then the report per
correlation. `SourceAudit` is the world around it: sources record actions, alike or
not, one side or both, once or on every retry, on clocks that may run ahead;
the channel delivers any record any number of times at any later moment or never
(`Deliver`); the auditor stamps it with its own clock. The report is a function of
what was supplied and is evaluated in every state, with finality declared or not.

**ArtifactHandoff / NodeHandoff / ReceiverReview**: `ArtifactHandoff` is the verdict of
`verify_artifact_handoff` on a package under a receiver-selected context:
`ValidContext`, `ValidPackage`, `HistoricallyAuthorized` and `CurrentlyAuthorized` (each
the label that authorizes; the other labels name its first failing conjunct),
`ClaimBound`, `Projection` - which calls `AssessCrossSource` on the records made of the receipts -
and `Handoff`. `NodeHandoff` models the Node verdict: its authority tests are those of
the Python code, test by test, so the operators are shared and mapped to both files'
common meaning, while `CompareSnapshots` is what it does instead of the projection.
`ReceiverReview` is the external environment: the clock, policies that replace one
another, keys that are stolen, used and reported, receipts genuine, forged and
unsigned, the party's observations. Its contexts are those a careful party can have:
authentic snapshots of policy and key status, of any age they still allow.

**LineageView** is the abstract specification: parties adopt growing histories,
any two on one lane being prefixes of one another. `DirectLineage`,
`WitnessQuorum` and `PolicyRotation` implement it under the premises each states.

### Abstractions

- SHA-256 over canonical JSON is collision free, so an object stands for its
  digest: `prev` holds the predecessor itself, `root` in `AnchorStatements` the
  sequence of commitments. `LineageTree` goes below that and checks that hashes
  of leaves and nodes support it.
- Shapes, schema names, reason strings, receipts and certificates that the
  verifier recomputes are left out; contract digests and other context fields that
  are only compared are one opaque value.
- Authenticity of signatures is external in the code (`verified`/provenance
  inputs) and here: `issued`, `observed`, `handedOff`, `evidence`, `votes` are the
  authentic ones. Provenance is kept where it distinguishes statements
  (`Provenances`) and dropped from observations and votes. In portable causality
  the provider and the authority are one name.
- A consistency proof can be built by anybody who knows the tree; `AppendOnly`
  therefore has no proof argument outside `LineageTree`.
- A rotation chain stays at one producer statement, because a handoff package and
  the package it activates must carry the same one and the next rotation starts
  from that package; `PolicyRotation` fixes it as `Start`.
- Disclosures prove a step by a path; that adjacent disclosures under one *forged*
  root need not chain is part of the code (it validates one step) and of
  `ChainArchive`.
- `EffectGate.execute` is one step: nothing in the source runs concurrently, and a
  process that dies inside it persists nothing. Receipts are compared with an
  inventory no younger than they are; a younger one names effects whose
  receipts were not read yet.
- `Advances` keeps the code's refusal of lineages whose authority names occur
  anywhere in the portable text (`lineage_compaction.py:548` searches substrings);
  which names those are is the constant `WordsOfTheText`.
- Seeds are built from evidence here, although the code accepts a bare agreement
  (authentication of the seed is the deployment's).
- Times are what Python's floats are to a comparison: integers in order, or `NaN`,
  which precedes nothing and which nothing precedes (`Precedes`). The infinities
  are the largest and the smallest of the numbers and need no case of their own.
  `parse_ts` returns `NaN` as it does any float and the `json.loads` of `read_jsonl`
  reads it, so a trace and `assess_assurance` may meet it; `verify_cross_source.py`
  and `artifact_handoff.py` refuse times that are not finite before they compare
  any (`ValidSupplied`).
- Equal states can be reached through different branches and then have different
  accumulators; `PinnedHistoryIsOwn` is about exactly those.

## 4. Runs

| Run | Configuration | Checks | Shows |
|---|---|---|---|
| `direct` | `MCDirectLineage_fork.cfg` | `ForkIsAttributable`, `HonestAuthorityNeverAccused`, `ImplementsLineageView` | An honest and a faulty authority serve two parties that only check statements: every fork of the faulty one leaves a pair of retained statements the detector reports, the honest one is never accused in either context, and its followers read one append-only history. |
| `witness_split` | `MCWitnessQuorum_split.cfg` | `ComparisonAlwaysPossible`, `HonestWitnessNeverAccused`, `SplitIsAccountable`, `ContinuationAccepted`, `ImplementsDirectLineage` | A faulty authority and one faulty witness of three try to split two parties: packages stay comparable, evidence names only faulty witnesses, a split costs a quorum intersection and no less than one faulty witness, honest continuations are accepted whichever quorum the head carries, and parties take no step a direct follower of the statements could not take. |
| `witness_lineage` | `MCWitnessQuorum_lineage.cfg` | `ImplementsLineageView` | Three of four witnesses, one faulty: parties that accept packages from a faulty authority still read one append-only history. |
| `rotation_rival` | `MCPolicyRotation_rival.cfg` | `RotationsComparable`, `HonestHandoffNeverAccused` | Two rival successors of one policy, one faulty witness of three: accepted rotations stay comparable, evidence names only faulty witnesses. |
| `rotation_history` | `MCPolicyRotation_history.cfg` | `OnePolicyHistory` | Three of four witnesses, one faulty: parties that pin the genesis policy read one history of policies. |
| `rotation_chain` | `MCPolicyRotation_chain.cfg` | `TypeOK`, `HandoffAvailable` | Two rotations in a row: references pin one another, the second rotation starts from the exact package the first activated and stays available whichever quorum that package carries. |
| `root_claims` | `MCRootFollower_claims.cfg` | `AcceptedIsAppendOnly`, `AppendOnlyIsAccepted`, `DisclosureStable` | Anchors claim any size and tip for genuine and crafted roots and any proof is tried: what verifies is append-only, what is append-only verifies, and disclosures never contradict each other. |
| `causal_shared` | `MCCausalLineage_shared.cfg` | `TypeOK`, `SharedHonestySharesStates`, `EvidenceServesOnce`, `PinnedHistoryIsOwn` | Two parties reconcile two cycles from different pairs of three authorities, one of them faulty: a shared honest authority keeps their states together, evidence serves once, and an accumulator admits one history. |
| `archive_disclosure` | `MCChainArchive_archive.cfg` | `ContradictionIsAttributable`, `HonestArchiveShowsReplay`, `ForkCanBeShown`, `DisclosuresStable`, `ImplementsDirectLineage` | One honest and one faulty archive of a chain with rival rotations, forged references and roots: contradictory disclosures leave equivocation evidence, disclosures tell what a replay tells and stay valid, and forks can be shown rotation by rotation. |
| `capture` | `MCCaptureAssurance_capture.cfg` | `ReceiptsBindEffects`, `UnreceiptedIsBypassed`, `ThreadsIndependent`, `KeptIsCausal`, `ReportNamesBypasses` | Two threads present records at times that may be NaN, three effect objects with two effect ids go through the gate or around it: validation does not depend on the interleaving, what it keeps is grounded and in order but for times of NaN, and the report accuses exactly the bypasses its inventory shows. |
| `audit` | `MCSourceAudit_audit.cfg` | `RetriesNeverDecide`, `AccusationsAreReal`, `AuditFrozen` | Two sources, one with a fast clock, record two actions, retry and misname sides while records are delayed, repeated and lost: retries decide nothing, accusations are real, and what arrives after the cutoff changes no conclusion. |
| `handoff` | `MCReceiverReview_handoff.cfg` | `SupportedMeansBothSides`, `ForgeryNeverSupported`, `ReviewersAgree`, `ImplementationsAgree`, `ReplacedPolicyLapses`, `ReportTakesHold` | A policy is rotated and a key stolen, misused and reported while a receiver reviews packages under snapshots of any age: support means both sides signed, a known theft bars what the thief signed, reviewers and the two implementations agree, and replaced policies and reported keys lose current authority. |

Bounds, and why they suffice for what each run is after:

- *direct*: an honest and a faulty authority, two contexts at the same sequence
  numbers, enough statements for two chains that fork and end at
  different sizes, so that the heads show no conflict and only retained statements
  do. There is one provenance, so the premise `NoReattestation` holds throughout the
  run; the theorem covers any. It is needed: an authority that
  attests one anchor twice under two provenances forks past the detector.
- *witness_split*: two of three witnesses, one faulty: the minimum intersection is
  one, so one faulty witness is just enough to split and must be the one named.
  Five observations cover two rival packages that share only it, and a second
  package after a first one, whose head may carry any two of the three witnesses.
  A second configured policy asks one of two witnesses, which is no majority; nobody
  can observe under it, and if half were taken for a majority, two parties would be
  led apart with nobody to name.
- *witness_lineage*: three of four, one faulty: the intersection is two, so a
  split would need a second faulty witness. Six observations are two full quorums.
- *rotation_rival*, *rotation_history*: two rival successors at one statement;
  every witness may sign three times, which is an observation, a handoff and an
  activation. *rotation_history* reaches one rotation; a policy history of two and
  more, out of order or repeated, is the theorem's (`ReadsOnePolicyHistory`).
  *rotation_chain*: two rotations, four signatures for the witness
  that takes part in both. The checked invariants concern at most two accepted
  packages or one reference and its predecessor.
- *archive_disclosure*: an honest and a faulty archive, histories of up to three
  rotations with rivals in the first and second place, two forged references and
  two anchors over forged steps. Three statements are enough for a chain of two
  that is followed and a rival of either.
- *capture*: four records in two threads, each at one of two times or at `NaN`,
  which is a full cycle of one thread interleaved with another, or two times with a
  `NaN` between them and a record that is refused for want of support; three objects, of which two share an effect
  id, two payloads, four steps in all: enough to precommit, change the payload,
  execute and reuse the id. Agents build their effects from one payload at first.
- *audit*: three records and three deliveries are what the conclusions depend on -
  two sides and a retry of either, or a contradiction, or a record that comes late -
  with the clock from 0 to 2 and the window the single instant 1, so that a record
  can be early, in time or late by its own time and by its arrival, and one source
  whose clock is ahead.
- *handoff*: one receipt per role, which is what a package holds; a clock from 0 to
  3 with snapshots fresh for two instants and a window of the first two, so that a
  snapshot can be stale, a receipt late and a review follow another; two policies,
  the second in force from 1; one key that can be stolen and reported before or
  after its use; claims for the right and for another artifact. Signatures, thefts and
  reports stop at time 2 (`MaxDeedTime`): all of them can still precede a review.
- *root_claims*: every lineage up to four cycles over two commitments, uniform ones
  to nine (past a power of two by one), every claimed size and tip up to four, and
  roots of crafted trees of up to four misplaced leaves. Proofs for anchors that
  are not lineages' are tried as well.
- *causal_shared*: three authorities, one faulty, two parties, two cycles: the two
  parties can reconcile from pairs that share only one authority.

Symmetry is taken over names without an order or a role of their own: parties,
provenances, honest witnesses, in *audit* correlations and digests of actions, in
*capture* ids of records, threads and payloads. The models are bounded by the guards named `Max...`, and a
party may simply have no more evidence to accept: every run sets
`CHECK_DEADLOCK FALSE`, for these systems do stop.

Fairness is assumed of the clock of `ReceiverReview` alone (`WF_reviewVars(Tick)`: time
passes), and of nothing that somebody would have to do: nothing in the code
schedules witnesses, authorities or parties, who may stop at any time. It gives
`ReportTakesHold`: after a report of a key there comes a time from which it has no
current authority under any snapshot. The clock is bounded in the model, so the
property is stated for reports that leave it a refresh period. What else could go
wrong on the side of liveness is that an honest continuation is refused; it is
stated as the state properties `ContinuationAccepted`, `HandoffAvailable` and
`AppendOnlyIsAccepted`: whenever the evidence exists, the verifier accepts it.

Type correctness of `DirectLineage`, `WitnessQuorum` and `CaptureAssurance` is proved
and not run (section 6); `PolicyRotation`'s, which ties each reference to the one
before it, is both.

Each property is also run against a definition changed as a plausible bug would
change it (`Mutant:` comments stand before the original), and is then violated.

## 5. What the checks show

- A pair of retained statements always exposes a fork of a statement chain, and
  no honest authority or witness can be named by the detectors.
- Accepting by witness quorum never does more than following the statements,
  and gives one append-only history from an equivocating authority as long as
  fewer witnesses are faulty than any two quorums share.
- One history of policies holds under the same premise for *all* policies: an
  unprotected policy anywhere in the set can appoint successors of its choice.
- The hash-level consistency verifier accepts exactly the append-only extensions,
  among lineage roots, whatever sizes and tips are claimed; tip paths are what
  keeps false sizes out, since odd levels make roots of different sizes equal.
- Contradictory rotations shown under an archive's anchors leave a pair of its
  statements that is equivocation evidence, and a fork of the chain itself can be
  turned into fork evidence from what is disclosed, rotation by rotation.
- A report of missing effects names exactly those executed around the gate, even
  when ids are reused, payloads change and the inventory is out of date; and what
  a trace says does not depend on how its threads were interleaved.
- Records that validation keeps rest on records it keeps, but they need not be in
  order: the time `NaN` (also one in a record that is then refused for want of
  support, `validation.py:77` before 79-85) takes the place of the thread's last time,
  and no later time is less than it. A thread at 5, `NaN`, 1 is a valid trace.
  `spec/t-trace.md:42` says "`ts` MUST not decrease within a thread", without an
  exception; so `KeptIsCausal` states just when the kept times may decrease - across
  such a record, and then only - and that without one the kept records are a valid
  trace by themselves. The report of `assess_assurance` takes such a trace for valid;
  whom it accuses does not depend on times. The audit and the handoff verdict refuse
  times that are not finite.
- An audit's conclusions do not change after its cutoff, whatever still arrives;
  a late counterpart is listed and not reported missing by a report that is
  evaluable; and a record that came twice makes the report say nothing.
- A handoff is supported only by receipts both sides signed in the window; a theft
  known to be effective by the time of the forgery bars every forged receipt,
  whatever it is dated; reviews at different times agree unless one knew of an
  event the other did not; and authority of a replaced policy ends one refresh
  period after the replacement. The time that makes this work is the observation,
  not the date in the receipt: judged by its date, a forgery passes.
- The two implementations compute the same comparison and verdict for every
  package, although only one of them validates a trace.
- Parties whose cycles share an honest authority stay in one state, cycle by cycle.

## 6. Proofs

For every choice of the constants within the assumptions (any number of
authorities, witnesses, policies, parties, statements, objects, receipts), TLAPS
checks:

| Module | Theorem | Statement |
|---|---|---|
| `ReceivingParties_proofs` | `DirectInvariant` | `Spec => []IInv`, with `TypeOK` |
| | `HonestNeverAccused` | `Spec => []HonestAuthorityNeverAccused` |
| | `ForksAreAttributable` | `Spec => []ForkIsAttributable` |
| | `ReadsOneHistory` | `Spec => ImplementsLineageView` (refinement of `LineageView`) |
| | `SupportIsSigned`, `SupportMeansBothSides` | support implies `BothSidesSigned`, for any context; `ReviewSpec => []SupportedMeansBothSides` |
| | `ForgeriesAreBarred` | `ReviewSpec => []ForgeryNeverSupported` |
| | `ReplacementTakesHold` | `ReviewSpec => []ReplacedPolicyLapses` |
| | `ReviewsAgree` | `ReviewSpec => []ReviewersAgree` |
| | `ComparisonsAgree`, `ImplementationsDoAgree` | the Node comparison of two receipts is the Python reconciliation, for any readable context and package; `ReviewSpec => []ImplementationsAgree` |
| `WitnessQuorum_proofs` | `TypeCorrect` | `Spec => []TypeOK` |
| | `AlwaysComparable` | `Spec => []ComparisonAlwaysPossible` |
| | `HonestWitnessSafe` | `Spec => []HonestWitnessNeverAccused` |
| | `SplitAccountable` | `Spec => []SplitIsAccountable`: the price of a split is never zero |
| | `ContinuationsAreAccepted` | `Spec => []ContinuationAccepted` |
| | `ReadsOneHistory` | `Spec => ImplementsLineageView` (refinement of `LineageView`) |
| | `RefinesDirectLineage` | `Spec => ImplementsDirectLineage` (refinement of `DirectLineage`) |
| `PolicyRotation_proofs` | `RotationInvariant`, `RotationTypes` | `Spec => []IInv`, `Spec => []TypeOK` |
| | `RotationsAreComparable` | `Spec => []RotationsComparable` |
| | `HonestWitnessesHandOnSafely` | `Spec => []HonestHandoffNeverAccused` |
| | `HandoffsAreAvailable` | `Spec => []HandoffAvailable`, if no chain reference is `ZERO_SHA256` |
| | `ReadsOnePolicyHistory` | `Spec => OnePolicyHistory` (refinement of `LineageView`), for finitely many policies |
| `ChainArchive_proofs` | `ArchiveInvariant`, `TypeCorrect` | `Spec => []IInv`, `Spec => []TypeOK` |
| | `ContradictionsAreAttributable` | `Spec => []ContradictionIsAttributable` |
| | `HonestDisclosuresReplay` | `Spec => []HonestArchiveShowsReplay` |
| | `ForksCanBeShown` | `Spec => []ForkCanBeShown` |
| | `ShownDisclosuresStay` | `Spec => DisclosuresStable` |
| | `RefinesDirectLineage` | `Spec => ImplementsDirectLineage` (refinement of `DirectLineage`) |
| `LineageTree_proofs` | `ConsistencyIsSound` | a package that verifies between the roots of two trees of any size binds their sizes and tips, and the leaves of the one begin those of the other |
| | `DisclosureIsSound` | a disclosure under the root of a lineage shows that lineage's own commitment, size and tip |
| | `DisclosureIsComplete` | the disclosure built for any cycle of a lineage verifies, at every index and size |
| `CycleHistory_proofs` | `CausalInvariant` | `Spec => []IInv` |
| | `SharedStatesAgree` | `Spec => []SharedHonestySharesStates` |
| | `ProofsServeOnce` | `Spec => []EvidenceServesOnce` |
| | `PinnedHistoryReplays` | `Spec => []PinnedHistoryIsOwn` |
| | `KeptHistoriesReplay` | `Spec => []TypeOK`, if no accumulator is the all-zero digest |
| | `FollowerAcceptsOnlyExtensions` | `FollowSpec => []AcceptedIsAppendOnly` |
| | `ConsistencyIsComplete` | the package built for a lineage and any strict extension of it verifies between their anchors, at all sizes |
| | `ExtensionsAreAccepted` | `FollowSpec => []AppendOnlyIsAccepted` |
| | `DisclosuresStay` | `FollowSpec => []DisclosureStable`, for roots no lineage has as well |
| `TraceReports_proofs` | `CaptureInvariant`, `CaptureTypes` | `Spec => []IInv`, `Spec => []TypeOK` |
| | `ReceiptsBind`, `GateCaptures` | `Spec => []ReceiptsBindEffects`, and with it `UnreceiptedIsBypassed` |
| | `ReportSound` | `Spec => []ReportNamesBypasses` |
| | `ThreadsDoNotInterfere` | `Spec => []ThreadsIndependent` |
| | `KeptRecordsAreCausal` | `Spec => []KeptIsCausal` |
| | `RetriesDecideNothing` | `AuditSpec => []RetriesNeverDecide` |
| | `AccusationsAreFounded` | `AuditSpec => []AccusationsAreReal` |
| | `PastAuditsStay` | `AuditSpec => AuditFrozen` |

`NaturalOrder_proofs` holds the lemmas several of these rest on: a set of naturals
has a least element, what holds at 0 and goes on to the next holds up to a bound, a
prefix agrees index by index. It has one parameter, `Recur`, the step of a recursion:
a step that looks only at earlier rounds has a function up to every bound
(`RecursionExists`). `LineageTree_proofs` instantiates it once for each loop of the
tree (`Levels`, `Climbing`, `Merging`, ...), and then knows that the recursive function
is one (`LevelsUnfold`, `ClimbedUnfolds`, `AppendBlockUnfolds`, ...).

Assumptions: those the modules declare and TLC evaluates in every run -
`ConstantsAssumption` (anchors have the shape the validator admits),
`PolicyAssumption` (policies have their shape and finite witness sets, faulty witnesses are witnesses),
`WitnessAssumption`, `ArchiveAssumption` (packages keep the id of the policy they
rotate, as `_validate_policy_transition` requires; forged references and anchors have
the shape their validators admit, and a forged root is a sequence, of anything),
`RotationAssumption` (the genesis policy is one of the policies,
the first statement is valid), `BoundsAssumption` (the bounds on the lineages
of `RootFollower` are naturals), `CaptureAssumption`, `AuditAssumption` (sides are bound
to different sources), `ReviewAssumption` (policies
are numbered by epoch and issued in that order, snapshots have a positive lifetime, the
expected sources are usable thread names and neither a role nor a time is malformed:
`_identifier` and the integer checks of `artifact_handoff.py` see to that).
None limits the number of faulty witnesses; `Protected` appears in the views in
which `WitnessQuorum` and `PolicyRotation` implement `LineageView` only.

**DirectLineage.** The absence of equivocation is not inductive: a new statement
follows its predecessor, and has to be ordered after everything *before* that.
`HonestChains` is: an honest authority's statements for a context have different
sequence numbers, bound anchors, and extend one another in their order. For forks
the invariant adds `ChainedLogs`: entries of a log follow one another by
`VerifyAuthorized` and, transitively, by `AppendOnly`. Two logs from one origin that
hold no equivocation are equal as far as both go (`UnforkedLogsAgree`), by the first
index where they differ: below it they agree, so both statements have one
predecessor and one sequence number, and differ in their anchor - an equivocation -
or in provenance alone, which `NoReattestation` excludes. The refinement of `LineageView`
is `HonestChains` applied to the statement a party accepts and every tip of its lane.

**WitnessQuorum.** `IInv == TypeOK /\ HonestOrdered /\ AcceptedValid`. None
of the properties is inductive: they speak of accepted packages and say nothing of
observations nobody has packaged yet. `HonestOrdered` says that everything an honest
witness has signed is free of conflict and, in a lane, on one history;
`AcceptedValid` that every retained package verifies. From these, two packages
under one policy have signers in common (`QuorumsIntersect`, by counting: two
thresholds exceed the witness set by the minimum intersection), a common honest
signer puts both statements on one history (`HonestOverlap`), and so a conflict
leaves only faulty witnesses in the overlap. For the refinement, a step of a party
is a step of `LineageView`, or a stutter for unprotected policies, by the same
lemma applied to the new package and every other head. That a continuation honest
witnesses signed is accepted needs `SignedValid` besides (what is signed is valid, and
an honest witness signs a statement once under a policy): the observations of those
witnesses are a package, one each (`OneEach`), and straight after the head's. Forgetting
the packages, each step is one of `DirectLineage`: the refinement needs only that a
log is a sequence of packages of issued statements.

**PolicyRotation.** `IInv == TypeOK /\ ChainsVerified /\ HonestHandsOnce`: every
reference of a chain stands for a package the verifier admitted, made of signed
observations, and its epoch counts the rotations; an honest witness hands its policy
on one way at a statement. The selected quorums of two rotations of one policy
intersect by the same counting (`OldQuorumsIntersect`), whoever signed both sides of
a conflict is faulty (`ConflictImplicates`), and so a protected policy has one
successor (`OneSuccessor`). Chains agree from the genesis policy on by the least
index where two differ (`AgreementHolds`), which makes every party's step one of
`LineageView`. Policies have to be finitely many there because the abstract
histories are enumerated up to the number of epochs.

**ChainArchive.** `IInv == TypeOK /\ IssuedValid /\ HonestRebuilt /\ ChainedLogs`. The
properties are about what a *replay* of a history returns, which is a recursive
function: `ReplayExists` shows by the least length without one that the recursion
has a solution, and `ReplayUnfolds` that `Replay` is it. From there a history
is known by its references: each tells the number of rotations before it, the same id,
and the reference before it (`StepTellsRef`), so a root tells its references back
to the genesis policy (`RootTellsReplay`) and two roots that share an entry share
everything below it (`SameOriginAligned`). The archive is a `DirectLineage` whose
contexts and roots are those of a chain: `DirectAssumption` proves that the anchors
of rebuilt histories and the forged ones satisfy the assumption `DirectLineage`
makes, and each step maps to the step of the same name. Contradictory
disclosures then come from logs that are not aligned, which one equivocation-free
archive never gives (`UnforkedLogsAgree`).

**CausalLineage.** The properties compare cycles, and what makes them true is where
each cycle came from. `CyclesReconciled` keeps that: a record was reconciled from the
evidence and votes kept beside it, starts from the state the record before it
reached (so its epoch counts the cycles), and its accumulator holds the previous one.
With `HonestVotesOnce`, two parties' first cycles with different states would start
from one state and share an authority that voted twice on it. A replay is compared
with the party's own records from the last cycle back: an accumulator that agrees
determines its record by the commitment, and the accumulator before it. That a kept
history replays needs the hypothesis that no accumulator is the all-zero digest
(`NoAccumulator`), which the code takes of a SHA-256 digest; and the lemma that
what `Reconcilable` admits passes the later checks (`ReconciledIsValid`).

**RootFollower.** What is proved is soundness against *any* package, not only those
the modelled prover finds: `ConsistencyIsSound` quantifies over the proof. The
follower's invariant, `TrailIsProved`, says no more than that each anchor was reached by
some package. The argument is about places. `Placed(leaves, hash, size, start)` says that
a hash is the one the tree has over these positions. A root is in its place; if
a node is in its place so are its children (`HalvesPlaced`), since a term is a
node of one pair only. Paths: whoever climbs from a leaf to the root of a tree has
been in the tree all along, on the right level (`StaysInTree`), and at the place the leaf's
own index says. The current-tip path binds the size because an even node is the last
of its level exactly if it was paired with itself: going up, each claimed place is the
true one; coming down, no level is wider than claimed (`TipBinds`; `HashesDiffer` keeps
neighbours apart, for leaves carry their index). Frontiers are followed on roots
of any kind: `Hangs(anchor, h, i, x)` says that a path of the claimed size could join `x`
from place `i` of level `h` to the root. One hash at most hangs in a place
(`HangsAlone`). The shapes of a prefix fall by at least half from block to block
(`PrefixShapesFall`), so a bagged frontier climbs the right edge, and its blocks hang in
their places on the root they bag to (`FrontierHung`). For the old frontier that is the
old root. The appended blocks are merged into a frontier that bags to the *new* root, and
undoing the merges, the old frontier hangs there too (`AppendBlocksHung`,
`FrontierShared`). In a tree, what hangs in a place is the node there (`HangsInTree`); two
trees with one hash in one place have the same leaves below it (`PlacedAgree`, by
height), and a falling list covers every position (`FallingCovers`). Nothing is used of
the appended blocks but that they have a size, so their alignment matters to completeness
only.

`DisclosureStable` is about roots no lineage need have, so there are no leaves to
compare. A disclosure that verifies hangs at the bottom of the old root
(`VerifiedHangs`); going up it passes the old block over its index, as one hash hangs in
a place. That block hangs on the new root, and below it all pairs are complete, so
the same way down is there too (`SharedBlock`), whatever the two sizes say of odd nodes.
The prover finds every path that verifies, since the children of a node are in it
(`HangingVerifies`); and with one hash in the place, no *other* commitment can be shown.

Of completeness, the half about paths is
`DisclosureIsComplete`: a path that is built climbs through the ancestors of its leaf,
`index \div 2^k` on level `k`, and an ancestor has a sibling exactly where the
verifier expects one (`ClimbOfBuilt`).

The half about frontiers compares two recursions that know nothing of each other: the
blocks of a prefix, cut by halving, and the carries that grow them into the blocks of
the longer lineage. Both are pinned by the shapes. A list of adjacent, falling,
aligned powers of two that ends at a size is *the* frontier of that size
(`FrontiersAlike`), so it is enough that carrying keeps a frontier a frontier
(`AppendBlockFrontier`) - which needs that the walk over the suffix never takes a step
larger than the last block it meets (`StepFitsFrontier`). The hash a block is built with
is the hash the tree has in its place (`SubtreeAt`, by height; `BuiltFrontier`), blocks
that lie wholly in the old leaves have the same hash in the longer tree
(`GrownPlaced`), and blocks that are in their places bag to the root (`PlacedRoots`).
With `TipBound`'s path from `DisclosureIsComplete`, that is `ConsistencyIsComplete`.

**CaptureAssurance.** The three properties of the gate are inductive together: a
receipt is only written for an id new to the store, and so never over another, and
a bypassed id is never receipted later. The report follows because an old
inventory is contained in the store.

**Traces.** Validation is a loop, modelled by a recursive function. `WalkExists` shows
by induction up to the length that it has a value, `WalkUnfolds` that each reader is
one `Read` after the one before it. `ValidTraceCharacterised` then says without the
reader what a valid trace is: every record is `Acceptable` - well formed, its id new,
not earlier than its thread's last record, and grounded in records of its thread
before it. From left to right, because a reader that has kept all it read remembers
exactly their ids, times and kinds; from right to left, because one that keeps as many
as it read refused none. All else is about `Acceptable`: it looks at one thread but
for the ids, so it can be asked of the trace or of the thread alone
(`SievedAcceptable`, with `OfThread` analysed by a second induction), and the kept
records are acceptable among themselves, if no time is `NaN`, although the reader
remembers more than them (`ReadKeepsSound`): what the refused ones registered can only
refuse. With `NaN` that fails, because a refused record may make the reader forget a
time. What holds for any times is shown by places instead (`PlacedStep`, `WalkPlaced`,
`KeptPlaces`): each record not refused has a place in the trace, the flags of a thread
are raised by records with a place, and the time remembered for a thread is not less
than that of any record kept from it, unless a time of `NaN` came between (`Bounds`).

**SourceAudit.** `AuditInv`: each record made has its own id, names a source that is its
thread, and what arrived are records made, stamped. A report that draws a conclusion
comes from a valid trace, so two arrivals are two records; the scope then has one record
for each side of an action, the two sides' sources differ
(`verify_cross_source.py:137` is why, an assumption of the module), and one digest
means no contradiction (`TwoDigests`). After the cutoff an arrival is out of scope by the
auditor's own stamp, and a record out of scope enters no part of the report but
the list of those excluded.

**ReceiverReview.** Support is analysed once, for any context and package
(`SupportIsSigned`): the comparison is consistent only if both roles' records are in
scope, which leaves no receipt to be late, unauthorized or unclaimed. `ReviewInv` says
that observations, thefts and reports bear times that have passed, that receipts
which are not genuine are unsigned or made with a stolen key, and that they were
observed after the theft. From that an event effective by the theft is
effective by the observation. That reviews agree holds because nothing in the
historical verdict depends on the evaluation time but the freshness of the
status: archives only grow, epochs identify policies. That the two implementations
agree is shown for any context and package the validators let through
(`ReadableReview`), field by field. Authority and role tie each receipt to its expected
source, so its record meets the profile; two receipts have two ids and two threads, so
the trace is valid (`AuthorizedTraceIsValid`, from an unfolding of the reader for at
most two records, `ReadingOfTwo`); a record is in scope exactly if `AtCutoff` says so of
the receipt (`ScopeIsIncluded`); and with one correlation and at most two digests the
unpaired, matched and contradictory actions are what `compareSnapshots` derives
(`PiecesAgree`). Only then does the machine matter: the ids and times of its receipts
are readable.

Of the properties the runs check, one is only model-checked: `ReportTakesHold`, since
liveness and `ENABLED` are out of the prover's reach.

## 7. Not modelled

Left out for good: JSON parsing and its size limits, signatures, the bytes the two
implementations must agree on (canonical JSON, digests, reports - only the logic of
their verdicts is modelled, and there the tests of context and receipt that read
alike in both are one operator), corpora, reports and command lines - properties of
bytes and of single calls that the repository's tests cover - and reproducibility,
receipt compatibility and capture packages of other formats, which evaluate one
file set in a straight line, with no state, order or second actor.
Of membership and disclosure, and of portable causality, the parts that are
serialization and file handling are left out, hence "partly".
Hazards that no property covers yet are listed in `PROJECT.json` with the reason.

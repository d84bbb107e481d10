--------------------------- MODULE ArtifactHandoff ---------------------------
(***************************************************************************)
(* The verdict of ttrace/artifact_handoff.py on a package that hands an    *)
(* artifact from a sender to a receiver, under a context the relying party *)
(* selected itself:                                                        *)
(*   evaluation   the time of the verdict                                  *)
(*   archive      historical policies                                      *)
(*   current      None, or a policy with asOf and nextUpdate               *)
(*   status       None, or key events with asOf and nextUpdate             *)
(*   observed     when the party got a receipt, for those it got           *)
(*   expected     correlation, artifact, sources by role, audit window     *)
(* A policy has an epoch, an interval [from, until) and for every role a   *)
(* source, a key and the key's own interval.  A package has its artifact,  *)
(* the correlation of its manifest and receipts by role.                   *)
(*                                                                         *)
(* Digests stand for the bytes they are of, so a receipt is its own digest *)
(* and an artifact has its size; `success' means a success claimed for the *)
(* size of the artifact.  Parsing and limits on bytes are left out: a file *)
(* they refuse has no verdict, like an invalid context.                    *)
(***************************************************************************)
EXTENDS CrossSource

(* A snapshot the receiver does not have: it is never fresh. *)
None == [asOf |-> 0, nextUpdate |-> 0]

Roles == {"sender", "receiver"}

-----------------------------------------------------------------------------
(* Validation of the receiver's context. *)

DistinctRoles(binding) == binding["sender"] # binding["receiver"]

ValidPolicy(policy) ==
  /\ policy.from < policy.until
  /\ \A role \in Roles : policy.roles[role].notBefore < policy.roles[role].notAfter
  /\ DistinctRoles([role \in Roles |-> policy.roles[role].source])
  /\ DistinctRoles([role \in Roles |-> policy.roles[role].key])

ValidStatus(status) ==
  /\ status.asOf < status.nextUpdate
  /\ \A e \in status.events :
       /\ e.at <= status.asOf
       /\ \A f \in status.events : f.key = e.key => f = e

ValidCurrent(current, archive) ==
  /\ current.asOf < current.nextUpdate
  /\ ValidPolicy(current.policy)
  /\ \A p \in archive : p.epoch = current.policy.epoch => p = current.policy

ValidContext(ctx) ==
  /\ DistinctRoles(ctx.expected.sources)
  /\ ctx.expected.start <= ctx.expected.cutoff
  /\ ctx.expected.cutoff <= ctx.evaluation
  /\ \A p \in ctx.archive :
       ValidPolicy(p) /\ \A q \in ctx.archive : q.epoch = p.epoch => q = p
  /\ ctx.current # None => ValidCurrent(ctx.current, ctx.archive)
  /\ ctx.status # None => ValidStatus(ctx.status)
  /\ \A r \in DOMAIN ctx.observed : ctx.observed[r] <= ctx.evaluation

(* A receipt lies under its own role and the receipts have their own ids. *)
ValidPackage(pkg) ==
  /\ \A role \in DOMAIN pkg.receipts : pkg.receipts[role].role = role
  /\ DOMAIN pkg.receipts = Roles => pkg.receipts["sender"].id # pkg.receipts["receiver"].id

-----------------------------------------------------------------------------
(* Authority of one receipt. *)

(* Mutant: a snapshot is good from its date on. *)
FreshForever(value, at) == value # None /\ value.asOf <= at

Fresh(value, at) ==
  value # None /\ value.asOf <= at /\ at < value.nextUpdate

BindingMatches(ctx, policy, r) ==
  /\ policy.roles[r.role].key = r.key
  /\ policy.roles[r.role].source = r.source
  /\ r.source = ctx.expected.sources[r.role]

Within(policy, role, at) ==
  /\ policy.from <= at /\ at < policy.until
  /\ policy.roles[role].notBefore <= at /\ at < policy.roles[role].notAfter

Event(ctx, key, at) ==
  \E e \in ctx.status.events : e.key = key /\ e.at <= at

(* Mutant: a receipt is as old as it says. *)
HistoricallyAuthorizedAsDated(ctx, r) ==
  /\ r.signed
  /\ r \in DOMAIN ctx.observed
  /\ r.ts <= ctx.observed[r]
  /\ Fresh(ctx.status, ctx.evaluation) /\ ~Event(ctx, r.key, r.ts)
  /\ \E p \in ctx.archive :
       p.epoch = r.epoch /\ BindingMatches(ctx, p, r) /\ Within(p, r.role, r.ts)

(* Mutant: the key and policy must still be valid at the evaluation. *)
HistoricallyAuthorizedToday(ctx, r) ==
  /\ r.signed
  /\ r \in DOMAIN ctx.observed
  /\ r.ts <= ctx.observed[r]
  /\ Fresh(ctx.status, ctx.evaluation) /\ ~Event(ctx, r.key, ctx.observed[r])
  /\ \E p \in ctx.archive :
       p.epoch = r.epoch /\ BindingMatches(ctx, p, r) /\ Within(p, r.role, ctx.evaluation)

(* authorized-at-observation; the other labels of _historical name the      *)
(* first conjunct that fails.                                               *)
HistoricallyAuthorized(ctx, r) ==
  /\ r.signed
  /\ r \in DOMAIN ctx.observed
  /\ r.ts <= ctx.observed[r]
  /\ Fresh(ctx.status, ctx.evaluation) /\ ~Event(ctx, r.key, ctx.observed[r])
  /\ \E p \in ctx.archive :
       /\ p.epoch = r.epoch /\ BindingMatches(ctx, p, r)
       /\ Within(p, r.role, ctx.observed[r])

(* Mutant: a key status of any age will do. *)
CurrentlyAuthorizedAnyStatus(ctx, r) ==
  LET at == ctx.evaluation
  IN  /\ r.signed
      /\ Fresh(ctx.current, at)
      /\ ctx.status # None /\ ~Event(ctx, r.key, at)
      /\ ctx.current.policy.epoch = r.epoch
      /\ BindingMatches(ctx, ctx.current.policy, r)
      /\ Within(ctx.current.policy, r.role, at)

(* authorized-for-current-policy. *)
CurrentlyAuthorized(ctx, r) ==
  LET at == ctx.evaluation
  IN  /\ r.signed
      /\ Fresh(ctx.current, at)
      /\ Fresh(ctx.status, at) /\ ~Event(ctx, r.key, at)
      /\ ctx.current.policy.epoch = r.epoch
      /\ BindingMatches(ctx, ctx.current.policy, r)
      /\ Within(ctx.current.policy, r.role, at)

-----------------------------------------------------------------------------
(* The verdict on the package. *)

ArtifactMatches(ctx, pkg) == pkg.artifact = ctx.expected.artifact

ManifestMatches(ctx, pkg) == pkg.correlation = ctx.expected.correlation

ClaimBound(ctx, pkg, r) ==
  /\ ArtifactMatches(ctx, pkg) /\ ManifestMatches(ctx, pkg)
  /\ r.correlation = ctx.expected.correlation
  /\ r.source = ctx.expected.sources[r.role]
  /\ r.artifact = pkg.artifact
  /\ r.success

AtCutoff(ctx, r) ==
  /\ r \in DOMAIN ctx.observed /\ ctx.observed[r] <= ctx.expected.cutoff
  /\ ctx.expected.start <= r.ts /\ r.ts <= ctx.expected.cutoff

(* The record of a receipt for the reconciliation of the two sources. *)
RecordOf(ctx, r) ==
  [id |-> r.id, kind |-> "sense", thread |-> r.source, ts |-> r.ts,
   source |-> r.source, side |-> r.role, correlation |-> r.correlation,
   digest |-> r.artifact, observed |-> ctx.observed[r]]

(* The roles with a receipt, in the order of ROLES. *)
Present(pkg) ==
  IF DOMAIN pkg.receipts = Roles THEN <<"sender", "receiver">>
  ELSE IF DOMAIN pkg.receipts = {} THEN << >>
  ELSE <<CHOOSE role \in DOMAIN pkg.receipts : TRUE>>

Records(ctx, pkg) ==
  [i \in DOMAIN Present(pkg) |-> RecordOf(ctx, pkg.receipts[Present(pkg)[i]])]

ComparisonOf(ctx) ==
  [sources |-> ctx.expected.sources, start |-> ctx.expected.start,
   cutoff |-> ctx.expected.cutoff, final |-> ctx.expected.final]

Receipts(pkg) == Range(pkg.receipts)

(* A comparison that was not made, and what is kept of one that was. *)
NoComparison(status) ==
  [status |-> status, matched |-> {}, missing |-> {}, conflicting |-> FALSE,
   excluded |-> {}]

ComparisonResult(report) ==
  [status |-> report.status, matched |-> report.matched,
   missing |-> UNION {m[2] : m \in report.missing},
   conflicting |-> report.conflicts # {},
   excluded |-> {r.side : r \in report.excluded}]

(* Mutant: receipts without authority are passed over. *)
ProjectionOfAll(ctx, pkg) ==
  IF \E r \in Receipts(pkg) : r \notin DOMAIN ctx.observed
  THEN NoComparison("insufficient-authenticated-projection")
  ELSE ComparisonResult(AssessCrossSource(Records(ctx, pkg), ComparisonOf(ctx)))

Projection(ctx, pkg) ==
  IF \E r \in Receipts(pkg) : ~HistoricallyAuthorized(ctx, r)
  THEN NoComparison("insufficient-authenticated-projection")
  ELSE IF \E r \in Receipts(pkg) :
            r.correlation # ctx.expected.correlation /\ AtCutoff(ctx, r)
  THEN NoComparison("not-evaluable-claim-binding")
  ELSE ComparisonResult(AssessCrossSource(Records(ctx, pkg), ComparisonOf(ctx)))

AuthenticatedMismatch(ctx, pkg) ==
  \E r \in Receipts(pkg) :
    /\ ~ClaimBound(ctx, pkg, r)
    /\ HistoricallyAuthorized(ctx, r) /\ AtCutoff(ctx, r)

(* handoff_at_cutoff of verify_artifact_handoff. *)
Handoff(ctx, pkg) ==
  LET projection == Projection(ctx, pkg).status
  IN  IF ~(ValidPackage(pkg) /\ ValidContext(ctx)) THEN "invalid"
      ELSE IF \/ ~ArtifactMatches(ctx, pkg) \/ ~ManifestMatches(ctx, pkg)
              \/ AuthenticatedMismatch(ctx, pkg)
      THEN "violated-expected-claim"
      ELSE IF projection = "violated" THEN "violated-supplied-snapshot-contract"
      ELSE IF projection = "consistent-in-supplied-snapshots"
      THEN "supported-under-receiver-context"
      ELSE "insufficient-evidence"

Supported(ctx, pkg) == Handoff(ctx, pkg) = "supported-under-receiver-context"

-----------------------------------------------------------------------------
(***************************************************************************)
(* A handoff is supported only if both sides signed for it: each receipt   *)
(* is authorized at its observation, was made in the audit window and got  *)
(* to the party by the cutoff, and claims success for the expected         *)
(* correlation and artifact.  Nothing excluded, missing or claimed by one  *)
(* side alone ends up as support.                                          *)
(***************************************************************************)
BothSidesSigned(ctx, pkg) ==
  /\ DOMAIN pkg.receipts = Roles
  /\ pkg.artifact = ctx.expected.artifact
  /\ \A role \in Roles :
       LET r == pkg.receipts[role]
       IN  /\ r.role = role
           /\ HistoricallyAuthorized(ctx, r) /\ AtCutoff(ctx, r)
           /\ r.correlation = ctx.expected.correlation
           /\ r.artifact = ctx.expected.artifact
           /\ r.source = ctx.expected.sources[role]
           /\ r.success
=============================================================================

----------------------------- MODULE NodeHandoff -----------------------------
(***************************************************************************)
(* The second implementation of the verdict, verifiers/node/               *)
(* artifact-handoff.mjs.  It validates contexts and packages and decides   *)
(* the authority of a receipt by the same tests as the first (readContext, *)
(* receiptShape, authority), so those operators are shared.  It neither    *)
(* validates a trace nor reconciles records: it derives the comparison of  *)
(* at most two receipts directly.                                          *)
(***************************************************************************)
EXTENDS ArtifactHandoff

(* Mutant: the receipts out of the window are reported, and used. *)
IncludedAll(ctx, pkg) == DOMAIN pkg.receipts

Included(ctx, pkg) ==
  {role \in DOMAIN pkg.receipts : AtCutoff(ctx, pkg.receipts[role])}

(* compareSnapshots. *)
CompareSnapshots(ctx, pkg) ==
  LET included == Included(ctx, pkg)
      excluded == {role \in DOMAIN pkg.receipts : ~AtCutoff(ctx, pkg.receipts[role])}
      both == included = Roles
      conflicting == both /\ pkg.receipts["sender"].artifact # pkg.receipts["receiver"].artifact
  IN  IF \E role \in DOMAIN pkg.receipts : ~HistoricallyAuthorized(ctx, pkg.receipts[role])
      THEN NoComparison("insufficient-authenticated-projection")
      ELSE IF \E role \in included :
                pkg.receipts[role].correlation # ctx.expected.correlation
      THEN NoComparison("not-evaluable-claim-binding")
      ELSE IF included = {}
      THEN [NoComparison("not-evaluable") EXCEPT !.excluded = excluded]
      ELSE [status |-> IF conflicting \/ (~both /\ ctx.expected.final) THEN "violated"
                       ELSE IF ~ctx.expected.final THEN "insufficient-snapshot-finality"
                       ELSE "consistent-in-supplied-snapshots",
            matched |-> IF both /\ ~conflicting THEN {ctx.expected.correlation} ELSE {},
            missing |-> Roles \ included,
            conflicting |-> conflicting,
            excluded |-> excluded]

(* verifyHandoff. *)
VerifyHandoff(ctx, pkg) ==
  LET comparison == CompareSnapshots(ctx, pkg).status
  IN  IF ~(ValidPackage(pkg) /\ ValidContext(ctx)) THEN "invalid"
      ELSE IF \/ ~ArtifactMatches(ctx, pkg) \/ ~ManifestMatches(ctx, pkg)
              \/ AuthenticatedMismatch(ctx, pkg)
      THEN "violated-expected-claim"
      ELSE IF comparison = "violated" THEN "violated-supplied-snapshot-contract"
      ELSE IF comparison = "consistent-in-supplied-snapshots"
      THEN "supported-under-receiver-context"
      ELSE "insufficient-evidence"
=============================================================================

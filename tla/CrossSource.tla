----------------------------- MODULE CrossSource -----------------------------
(***************************************************************************)
(* Reconciling the records two sources supplied about the same actions     *)
(* (openpoc/verify_cross_source.py).  The report is a function of the      *)
(* supplied records and of a comparison                                    *)
(*   [sources, start, cutoff, final]                                       *)
(* that binds each required side to its source, bounds the audit window    *)
(* and declares whether the snapshots are final.                           *)
(*                                                                         *)
(* A record adds to the fields TraceValidation reads its source, side,     *)
(* correlation, digest and the time observed at which the audit got it.    *)
(* Fields that are missing, unknown or of a wrong type make the report     *)
(* not-evaluable like a wrong source does, and are left out.               *)
(***************************************************************************)
EXTENDS TraceValidation, FiniteSets, Functions

(* Mutant: the side is known, but not whose it is. *)
MeetsProfileAnySource(r, comparison) ==
  r.observed >= r.ts /\ r.side \in DOMAIN comparison.sources

(* What the profile asks of a record, in or out of the window. *)
MeetsProfile(r, comparison) ==
  /\ r.observed >= r.ts
  /\ r.side \in DOMAIN comparison.sources
  /\ r.source = comparison.sources[r.side]

(* Mutant: a record counts by its own time, whenever it arrived. *)
InScopeByRecordTime(r, comparison) ==
  comparison.start <= r.ts /\ r.ts <= comparison.cutoff

(* No reason to report the record as out of scope. *)
InScope(r, comparison) ==
  /\ comparison.start <= r.ts /\ r.ts <= comparison.cutoff
  /\ r.observed <= comparison.cutoff

(* Mutant: the second record of a side takes the place of the first. *)
DuplicateSideNever(scoped) == FALSE

DuplicateSide(scoped) ==
  \E a, b \in scoped :
    a # b /\ a.correlation = b.correlation /\ a.side = b.side

OfSide(scoped, k, side) ==
  {r \in scoped : r.correlation = k /\ r.side = side}

MissingSides(scoped, k, comparison) ==
  {side \in DOMAIN comparison.sources : OfSide(scoped, k, side) = {}}

DigestsOf(scoped, k) == {r.digest : r \in {s \in scoped : s.correlation = k}}

(* The supplied sequence is a trace to assess_cross_source only if every    *)
(* time is finite, which validate_records does not ask (an infinite time    *)
(* counts as NaN here: both are refused).                                   *)
ValidSupplied(records) ==
  (\A r \in Range(records) : r.ts # NaN) /\ ValidTrace(records)

(* assess_cross_source.  The supplied sequence is validated as a trace      *)
(* first; one record that misses the profile or repeats a side, or an empty *)
(* scope, leaves nothing but the records out of scope in the report.        *)
AssessCrossSource(records, comparison) ==
  LET supplied == Range(records)
      scoped == {r \in supplied : MeetsProfile(r, comparison) /\ InScope(r, comparison)}
      excluded == {r \in supplied : MeetsProfile(r, comparison) /\ ~InScope(r, comparison)}
      evaluable == /\ \A r \in supplied : MeetsProfile(r, comparison)
                   /\ ~DuplicateSide(scoped)
                   /\ scoped # {}
      ids == {r.correlation : r \in scoped}
      unpaired == {k \in ids : MissingSides(scoped, k, comparison) # {}}
      conflicts == {k \in ids \ unpaired : Cardinality(DigestsOf(scoped, k)) > 1}
      Report(status, matched, missing, conflicting, late) ==
        [status |-> status, matched |-> matched, missing |-> missing,
         conflicts |-> conflicting, excluded |-> late]
  IN  IF ~ValidSupplied(records) THEN Report("invalid-trace", {}, {}, {}, {})
      ELSE IF ~evaluable THEN Report("not-evaluable", {}, {}, {}, excluded)
      ELSE Report(
        IF conflicts # {} \/ (unpaired # {} /\ comparison.final) THEN "violated"
        ELSE IF ~comparison.final THEN "insufficient-snapshot-finality"
        ELSE "consistent-in-supplied-snapshots",
        ids \ (unpaired \cup conflicts),
        {<<k, MissingSides(scoped, k, comparison)>> : k \in unpaired},
        conflicts, excluded)
=============================================================================

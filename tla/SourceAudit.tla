----------------------------- MODULE SourceAudit -----------------------------
(***************************************************************************)
(* Two sources record actions and an auditor collects the records over a   *)
(* channel that delays, reorders, repeats and loses them, then assesses    *)
(* what arrived (openpoc/verify_cross_source.py).  The auditor keeps the   *)
(* records in order of arrival and stamps each with its own clock; actions *)
(* may be recorded by one side only, differently, or again on a retry.     *)
(***************************************************************************)
EXTENDS CrossSource

CONSTANTS
  SourceOf,       \* required_sides: the source bound to each side
  Correlations,   \* ids of actions
  ActionDigests,  \* digests of actions
  WindowStart, Cutoff,
  MaxTime,        \* bound on the clock
  Ahead,          \* sources whose clock is one ahead of the auditor's
  MaxMade,        \* bound on the records made
  MaxSupplied     \* bound on the deliveries

Sources == Range(SourceOf)

ASSUME AuditAssumption ==
  /\ Threads = Sources
  /\ {WindowStart, Cutoff, MaxTime, MaxMade, MaxSupplied} \subseteq Nat
  /\ WindowStart <= Cutoff
  /\ Ahead \subseteq Sources
  /\ \A a, b \in DOMAIN SourceOf : SourceOf[a] = SourceOf[b] => a = b

VARIABLES
  now,        \* the auditor's clock
  made,       \* what the sources recorded
  supplied    \* what arrived, in order

auditVars == <<now, made, supplied>>

-----------------------------------------------------------------------------
ClockOf(source) == IF source \in Ahead THEN now + 1 ELSE now

(* A source records one side of an action; a misconfigured one may name a   *)
(* side that is not bound to it.                                            *)
Record(source, side, k, digest) ==
  /\ Cardinality(made) < MaxMade
  /\ made' = made \cup
       {[id |-> Cardinality(made) + 1, kind |-> "sense", thread |-> source,
         ts |-> ClockOf(source), source |-> source, side |-> side,
         correlation |-> k, digest |-> digest]}
  /\ UNCHANGED <<now, supplied>>

Observed(r, at) ==
  [id |-> r.id, kind |-> r.kind, thread |-> r.thread, ts |-> r.ts,
   source |-> r.source, side |-> r.side, correlation |-> r.correlation,
   digest |-> r.digest, observed |-> at]

(* Any record may arrive at any time, again, or never. *)
Deliver(r) ==
  /\ Len(supplied) < MaxSupplied
  /\ supplied' = Append(supplied, Observed(r, now))
  /\ UNCHANGED <<now, made>>

Tick ==
  /\ now < MaxTime
  /\ now' = now + 1
  /\ UNCHANGED <<made, supplied>>

AuditInit == now = 0 /\ made = {} /\ supplied = <<>>

AuditNext ==
  \/ \E source \in Sources, side \in DOMAIN SourceOf, k \in Correlations,
        digest \in ActionDigests : Record(source, side, k, digest)
  \/ \E r \in made : Deliver(r)
  \/ Tick

AuditSpec == AuditInit /\ [][AuditNext]_auditVars

-----------------------------------------------------------------------------
(* Properties. *)

Comparison(final) ==
  [sources |-> SourceOf, start |-> WindowStart, cutoff |-> Cutoff, final |-> final]

Audit(final) == AssessCrossSource(supplied, Comparison(final))

(***************************************************************************)
(* A past audit is not rewritten.  Once the cutoff has passed, whatever     *)
(* else arrives - a late counterpart, a retry, a contradiction - changes    *)
(* none of the conclusions and is listed as out of scope, as long as the   *)
(* record satisfies the profile and the file is still a valid trace.       *)
(***************************************************************************)
LateArrivalKeeps(final) ==
  LET before == Audit(final)  after == Audit(final)'
      r == supplied'[Len(supplied')]
  IN  /\ now > Cutoff /\ supplied' # supplied
      /\ ValidSupplied(supplied') /\ MeetsProfile(r, Comparison(final))
      => after = [before EXCEPT !.excluded = @ \cup {r}]

AuditFrozen == [][\A final \in BOOLEAN : LateArrivalKeeps(final)]_auditVars

(***************************************************************************)
(* Retries and repeated deliveries never decide: when more than one record *)
(* of a side of an action, or one of them twice, arrived inside the audit  *)
(* window, the report draws no conclusion about any action.                *)
(***************************************************************************)
RetriesNeverDecide ==
  \A i, j \in DOMAIN supplied :
    LET a == supplied[i]  b == supplied[j]
    IN  /\ i # j /\ a.correlation = b.correlation /\ a.side = b.side
        /\ InScope(a, Comparison(TRUE)) /\ InScope(b, Comparison(TRUE))
        => \A final \in BOOLEAN :
             Audit(final).status \in {"invalid-trace", "not-evaluable"}

(***************************************************************************)
(* Accusations are real, and late is not missing.  After the cutoff, if    *)
(* the report is `violated', two sources did record one action differently *)
(* or, with finality declared, one recorded it and no record of the other  *)
(* arrived in the window; and if a counterpart reported missing did        *)
(* arrive, the report lists it as out of scope.  Sources that recorded     *)
(* every action alike, in time, are never accused.                         *)
(***************************************************************************)
RecordsOf(k, source) == {r \in made : r.correlation = k /\ r.source = source}

ArrivedInTime(r) ==
  \E i \in DOMAIN supplied :
    supplied[i].id = r.id /\ InScope(supplied[i], Comparison(TRUE))

RecordedDifferently(k) ==
  \E s, t \in Sources : \E a \in RecordsOf(k, s), b \in RecordsOf(k, t) :
    s # t /\ a.digest # b.digest

RecordedByOne(k) ==
  \E s, t \in Sources :
    /\ \E a \in RecordsOf(k, s) : ArrivedInTime(a)
    /\ \A b \in RecordsOf(k, t) : ~ArrivedInTime(b)

AccusationsAreReal ==
  \A final \in BOOLEAN :
    LET report == Audit(final)
    IN  /\ report.status = "violated" =>
             \E k \in Correlations :
               RecordedDifferently(k) \/ (final /\ RecordedByOne(k))
        /\ \A m \in report.missing : \A i \in DOMAIN supplied :
             LET r == supplied[i]
             IN  r.correlation = m[1] /\ r.side \in m[2] => r \in report.excluded
=============================================================================

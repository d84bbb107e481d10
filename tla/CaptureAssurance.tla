-------------------------- MODULE CaptureAssurance --------------------------
(***************************************************************************)
(* The assurance report of openpoc/verify_assurance.py over a running      *)
(* system: agents use the gate or go around it, records are presented as a *)
(* trace, and an outside witness takes the inventory of applied effects at *)
(* some moment, after which the system goes on.  assess_assurance is a     *)
(* pure function of what it is given.                                      *)
(***************************************************************************)
EXTENDS TraceValidation, EffectGate

CONSTANTS
  Records,        \* what may be presented as a record
  NoInventory,    \* external_effect_ids=None
  MaxRecords,     \* bound on the presented trace
  MaxCalls,       \* bound on the calls agents make
  MaxSteps        \* bound on records and calls together

RecordFields(r) ==
  /\ DOMAIN r = {"id", "kind", "thread", "ts"}
  /\ r.thread \in Threads \cup {Malformed}
  /\ r.ts \in Int \cup {NaN, Malformed}

ASSUME CaptureAssumption ==
  /\ \A r \in Records : RecordFields(r)
  /\ DOMAIN IdOf = Objects
  /\ NoReceipt \notin Digests
  /\ \A ids \in SUBSET Ids : ids # NoInventory
  /\ MaxRecords \in Nat /\ MaxCalls \in Nat /\ MaxSteps \in Nat

VARIABLES
  records,        \* the trace presented so far
  inventory,      \* effect ids the witness saw, or NoInventory
  calls           \* calls made, counted for the bounds

vars == <<gateVars, records, inventory, calls>>

-----------------------------------------------------------------------------
Missing(receipted, external) ==
  IF external = NoInventory THEN {} ELSE external \ receipted

(* Mutant: an attested gate is believed before the inventory is looked at. *)
AssessAttestedFirst(trace, receipted, external, attested) ==
  LET valid   == ValidTrace(trace)
      missing == Missing(receipted, external)
  IN  [trace_valid |-> valid,
       missing |-> missing,
       capture_status |->
         IF ~valid THEN "invalid-trace"
         ELSE IF attested THEN "supported-under-stated-assumptions"
         ELSE IF missing # {} THEN "violated"
         ELSE "unproven"]

(* assess_assurance.  effect_bound is false exactly if something is missing,*)
(* and the trace is complete and sufficient exactly if supported; receipts *)
(* that no effect in the inventory answers to are reported but decide      *)
(* nothing.                                                                *)
AssessAssurance(trace, receipted, external, attested) ==
  LET valid   == ValidTrace(trace)
      missing == Missing(receipted, external)
  IN  [trace_valid |-> valid,
       missing |-> missing,
       capture_status |->
         IF ~valid THEN "invalid-trace"
         ELSE IF missing # {} THEN "violated"
         ELSE IF attested THEN "supported-under-stated-assumptions"
         ELSE "unproven"]

-----------------------------------------------------------------------------
Present(r) ==
  /\ Len(records) < MaxRecords
  /\ Len(records) + calls < MaxSteps
  /\ records' = Append(records, r)
  /\ UNCHANGED <<gateVars, inventory, calls>>

Act ==
  /\ calls < MaxCalls
  /\ Len(records) + calls < MaxSteps
  /\ GateNext
  /\ calls' = calls + 1
  /\ UNCHANGED <<records, inventory>>

(* EffectStore.effect_ids, read by the witness. *)
TakeInventory ==
  /\ inventory' = AppliedIds
  /\ inventory' # inventory
  /\ UNCHANGED <<gateVars, records, calls>>

Init ==
  /\ GateInit
  /\ records = <<>>
  /\ inventory = NoInventory
  /\ calls = 0

Next ==
  \/ \E r \in Records : Present(r)
  \/ Act
  \/ TakeInventory

Spec == Init /\ [][Next]_vars

-----------------------------------------------------------------------------
TypeOK ==
  /\ GateTypeOK
  /\ records \in Seq(Records)
  /\ inventory = NoInventory \/ inventory \subseteq AppliedIds
  /\ calls \in 0..MaxCalls

(* The first record with its id, and one whose id and fields pass. *)
First(n) == \A m \in 1..(n - 1) : records[m].id # records[n].id
Timed(n) == First(n) /\ records[n].id # Malformed /\ WellFormed(records[n])

(* Where in the presented trace the records not refused are: a record that  *)
(* is not the first with its id is always refused.                          *)
PlacesOf(kept) ==
  {n \in DOMAIN records :
     First(n) /\ \E k \in DOMAIN kept : kept[k] = records[n]}

(***************************************************************************)
(* How agents' threads were interleaved does not matter to                 *)
(* validate_records: a trace passes exactly if every one of its threads    *)
(* passes on its own and no id occurs twice.  So a trace from which whole  *)
(* threads were left out passes too.                                       *)
(***************************************************************************)
ThreadsIndependent ==
  ValidTrace(records) <=>
    /\ DistinctIds(records)
    /\ \A i \in DOMAIN records : records[i].thread \in Threads
    /\ \A t \in Threads : ValidTrace(OfThread(records, t))

(***************************************************************************)
(* Refused records never lend support.  Although a refused record may have *)
(* registered its id or its time, every commit validate_records does not   *)
(* refuse rests on a transition it did not refuse and that on such a sense *)
(* of the same thread, each earlier in the trace.  The records not refused *)
(* go back in time within a thread only across a record of the thread, not *)
(* necessarily one of them, whose time is NaN; and if no record has the    *)
(* time NaN, they are a valid trace by themselves.                         *)
(***************************************************************************)
KeptIsCausal ==
  LET kept   == Reading(records).kept
      places == PlacesOf(kept)
  IN  /\ \A c \in places : records[c].kind = "commit" =>
           \E s, m \in places :
             /\ s < m /\ m < c
             /\ records[s].kind = "sense" /\ records[m].kind = "transition"
             /\ records[s].thread = records[c].thread
             /\ records[m].thread = records[c].thread
      /\ \A i, j \in places :
           /\ i < j /\ records[i].thread = records[j].thread
           /\ Precedes(records[j].ts, records[i].ts)
           => \E n \in i..j : Timed(n) /\ records[n].thread = records[i].thread
                                      /\ records[n].ts = NaN
      /\ (\A n \in DOMAIN records : records[n].ts # NaN) => ValidTrace(kept)

(***************************************************************************)
(* A report accuses exactly those who bypassed the gate.  With receipts    *)
(* read no earlier than the inventory, assess_assurance names as missing   *)
(* precisely the effects of the inventory that were executed around the    *)
(* gate, and on a valid trace its status is `violated` exactly if there    *)
(* are any - whatever is attested, whatever the trace leaves out, and      *)
(* however the system moved on after the inventory was taken.              *)
(***************************************************************************)
ReportNamesBypasses ==
  inventory # NoInventory =>
    \A attested \in BOOLEAN :
      LET report == AssessAssurance(records, ReceiptIds, inventory, attested)
      IN  /\ report.missing = inventory \cap bypassed
          /\ report.trace_valid =>
               (report.capture_status = "violated"
                  <=> inventory \cap bypassed # {})
=============================================================================

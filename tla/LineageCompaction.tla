------------------------- MODULE LineageCompaction -------------------------
(***************************************************************************)
(* The rolling accumulator of repeated reconciliations                     *)
(* (ttrace/lineage_compaction.py) and the replay of the cycle records kept *)
(* beside it (ttrace/lineage_membership.py, _validate_cycle_chain).        *)
(*                                                                         *)
(* The lineage root is the digest of every other field, so it stands for   *)
(* the accumulator itself: previous is both the predecessor's digest and   *)
(* its root.                                                               *)
(***************************************************************************)
EXTENDS PortableCausality, Sequences

CONSTANTS
  NoAccumulator,   (* the all-zero digest that precedes the first cycle       *)
  WordsOfTheText   (* authority names found as a substring of any portable    *)
                   (* text, such as a name of one letter                      *)

CycleSummary(index, common, agreement) ==
  [index |-> index, common |-> common, agreement |-> agreement]

Accumulator(common, agreement, index, previous) ==
  [cycles |-> index,
   state |-> agreement.state,
   agreement |-> agreement,
   previous |-> previous,
   commitment |-> CycleSummary(index, common, agreement)]

ValidAccumulator(acc) ==
  /\ acc.cycles >= 1
  /\ acc.cycles = 1 <=> acc.previous = NoAccumulator

SeedAccumulator(common, agreement) == Accumulator(common, agreement, 1, NoAccumulator)

ActiveTip(acc, common, agreement) ==
  /\ ValidAgreement(agreement, common)
  /\ ValidAccumulator(acc)
  /\ acc.state = agreement.state
  /\ acc.agreement = agreement

(* Mutant: the common state need not be the compacted one. *)
AdvancesAnyCommon(acc, common, b1, b2, v1, v2) ==
  /\ ValidAccumulator(acc)
  /\ Reconcilable(common, b1, b2, v1, v2)
  /\ {b1.authority, b2.authority} \cap WordsOfTheText = {}

(* advance_lineage_accumulator verifies.  Its last check looks for the      *)
(* names inside the whole portable text, not among its values.             *)
Advances(acc, common, b1, b2, v1, v2) ==
  /\ ValidAccumulator(acc)
  /\ acc.state = common
  /\ Reconcilable(common, b1, b2, v1, v2)
  /\ {b1.authority, b2.authority} \cap WordsOfTheText = {}

NextAccumulator(acc, common, agreement) ==
  Accumulator(common, agreement, acc.cycles + 1, acc)

-----------------------------------------------------------------------------
CycleRecord(index, common, agreement, acc) ==
  [index |-> index, common |-> common, agreement |-> agreement, accumulator |-> acc]

(* The record agrees with its own accumulator... *)
SelfConsistent(record, index) ==
  /\ record.index = index
  /\ ActiveTip(record.accumulator, record.common, record.agreement)
  /\ record.accumulator.cycles = index
  /\ record.accumulator.commitment = CycleSummary(index, record.common, record.agreement)

(* Mutant: equal states are taken for equal histories. *)
ContinuesSameState(before, record) == record.common = before.agreement.state

(* ...and continues the record before it. *)
Continues(before, record) ==
  /\ record.common = before.agreement.state
  /\ record.accumulator.previous = before.accumulator

ValidCycleChain(records, acc) ==
  /\ records # <<>>
  /\ ValidAccumulator(acc)
  /\ \A i \in 1 .. Len(records) : SelfConsistent(records[i], i)
  /\ records[1].accumulator.previous = NoAccumulator
  /\ \A i \in 2 .. Len(records) : Continues(records[i - 1], records[i])
  /\ Len(records) = acc.cycles
  /\ records[Len(records)].accumulator = acc
=============================================================================

-------------------------- MODULE TraceValidation --------------------------
(***************************************************************************)
(* The reading of a trace by ttrace/validation.py: validate_records walks  *)
(* over the records once, and what it remembers of those before decides    *)
(* whether the next one is refused.  A refused record may already have     *)
(* registered its id or its time; nothing takes that back.                 *)
(*                                                                         *)
(* A field the code cannot use (missing, of the wrong type, blank, an      *)
(* unknown type of record, a time that does not parse) is Malformed; a     *)
(* record that is no object or lacks a field has a Malformed id, since     *)
(* both are refused before anything is registered.                         *)
(*                                                                         *)
(* Times are floats after parsing: numbers (the infinities are the largest *)
(* and the smallest), or NaN, which JSON input may spell and float() may   *)
(* return.  NaN comes before nothing and nothing before it.                *)
(***************************************************************************)
EXTENDS Integers, Sequences

CONSTANTS Threads, Malformed, NaN

Kinds == {"sense", "transition", "commit"}

(* The comparison a < b of two floats. *)
Precedes(a, b) == a # NaN /\ b # NaN /\ a < b

(* What validate_records remembers; `kept` are the records not refused.  A *)
(* thread without a time so far refuses none, and so does the time NaN.    *)
Start == [ids |-> {}, last |-> [t \in Threads |-> NaN],
          begun |-> {}, moved |-> {}, kept |-> <<>>]

WellFormed(r) ==
  r.kind \in Kinds /\ r.thread # Malformed /\ r.ts # Malformed

(* Mutant: one flag for all threads. *)
GroundedAnyThread(reader, r) ==
  /\ r.kind = "transition" => reader.begun # {}
  /\ r.kind = "commit"     => reader.moved # {}

(* A transition needs an earlier sense or transition of its thread, a       *)
(* commit an earlier transition.                                            *)
Grounded(reader, r) ==
  /\ r.kind = "transition" => r.thread \in reader.begun
  /\ r.kind = "commit"     => r.thread \in reader.moved

Keep(reader, r) ==
  [reader EXCEPT
     !.begun = IF r.kind = "commit" THEN @ ELSE @ \cup {r.thread},
     !.moved = IF r.kind = "transition" THEN @ \cup {r.thread} ELSE @,
     !.kept  = Append(@, r)]

(* Mutant: the flags are raised before the record is refused. *)
ReadFlagsFirst(reader, r) ==
  LET named == [reader EXCEPT !.ids = @ \cup {r.id}]
  IN  IF r.id = Malformed \/ r.id \in reader.ids THEN reader
      ELSE IF ~WellFormed(r) \/ Precedes(r.ts, reader.last[r.thread]) THEN named
      ELSE IF ~Grounded(reader, r)
           THEN [named EXCEPT !.begun = @ \cup {r.thread},
                              !.last[r.thread] = r.ts]
      ELSE Keep([named EXCEPT !.last[r.thread] = r.ts], r)

(* One iteration of the loop of validate_records. *)
Read(reader, r) ==
  LET named == [reader EXCEPT !.ids = @ \cup {r.id}]
      timed == [named EXCEPT !.last[r.thread] = r.ts]
  IN  IF r.id = Malformed \/ r.id \in reader.ids THEN reader
      ELSE IF ~WellFormed(r) \/ Precedes(r.ts, reader.last[r.thread]) THEN named
      ELSE IF ~Grounded(reader, r) THEN timed
      ELSE Keep(timed, r)

(* The reader after the whole sequence. *)
Reading(records) ==
  LET after[n \in 0..Len(records)] ==
        IF n = 0 THEN Start ELSE Read(after[n - 1], records[n])
  IN  after[Len(records)]

(* validate_records(records) == []: no record was refused. *)
ValidTrace(records) == Reading(records).kept = records

(* The records of one thread, in their order. *)
OfThread(records, t) ==
  LET of[n \in 0..Len(records)] ==
        IF n = 0 THEN <<>>
        ELSE IF records[n].thread = t THEN Append(of[n - 1], records[n])
        ELSE of[n - 1]
  IN  of[Len(records)]

DistinctIds(records) ==
  \A i, j \in DOMAIN records : records[i].id = records[j].id => i = j
=============================================================================

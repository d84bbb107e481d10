------------------------- MODULE TraceReports_proofs -------------------------
(***************************************************************************)
(* Proofs about the trace validator and the two reports that start from    *)
(* it: the assurance report over the effect gate, and the audit of two     *)
(* sources.  For any number of records, threads, objects, effect ids,      *)
(* payloads, sources, actions and calls.                                   *)
(***************************************************************************)
EXTENDS CaptureAssurance, SourceAudit, NaturalOrder_proofs, FiniteSetTheorems, TLAPS

-----------------------------------------------------------------------------
(* Traces: what the reader of validate_records comes to, record by record. *)

(* What is presented as a record, so far as the reader looks at it. *)
Times == Int \cup {NaN}

Readable(r) == r.thread \in Threads \cup {Malformed} /\ r.ts \in Times \cup {Malformed}

(* The readers after 0, 1, ... records. *)
Walk(rs) ==
  CHOOSE after : after = [n \in 0..Len(rs) |->
                           IF n = 0 THEN Start ELSE Read(after[n - 1], rs[n])]

(* The recursion has a solution, one length after the other. *)
LEMMA WalkExists ==
  ASSUME NEW rs, NEW n \in Nat
  PROVE  \E after : after = [k \in 0..n |->
                              IF k = 0 THEN Start ELSE Read(after[k - 1], rs[k])]
<1> DEFINE Solves(after, m) ==
             after = [k \in 0..m |-> IF k = 0 THEN Start ELSE Read(after[k - 1], rs[k])]
           T == {m \in Nat : \E after : Solves(after, m)}
<1>1. 0 \in T
  <2> DEFINE first == [k \in 0..0 |-> Start]
  <2>1. Solves(first, 0)
    OBVIOUS
  <2> HIDE DEF first, Solves
  <2> QED BY <2>1
<1>2. ASSUME NEW m \in 1..n, m - 1 \in T
      PROVE  m \in T
  <2>1. PICK after : Solves(after, m - 1)
    BY <1>2
  <2>2. \A k \in 0..(m - 1) :
          after[k] = IF k = 0 THEN Start ELSE Read(after[k - 1], rs[k])
    <3> DEFINE e(k) == IF k = 0 THEN Start ELSE Read(after[k - 1], rs[k])
    <3>1. after = [k \in 0..(m - 1) |-> e(k)]
      BY <2>1
    <3> HIDE DEF e
    <3>2. \A k \in 0..(m - 1) : after[k] = e(k)
      BY <3>1
    <3> QED BY <3>2 DEF e
  <2> DEFINE last == Read(after[m - 1], rs[m])
             more == [k \in 0..m |-> IF k = m THEN last ELSE after[k]]
             e(k) == IF k = 0 THEN Start ELSE Read(more[k - 1], rs[k])
  <2>3. \A k \in 0..m : more[k] = e(k)
    <3> SUFFICES ASSUME NEW k \in 0..m PROVE more[k] = e(k)
      OBVIOUS
    <3>1. CASE k = m
      <4>1. more[m] = last /\ more[m - 1] = after[m - 1]
        OBVIOUS
      <4> QED BY <3>1, <4>1
    <3>2. CASE k # m
      <4>1. more[k] = after[k] /\ k \in 0..(m - 1) /\ (k # 0 => more[k - 1] = after[k - 1])
        BY <3>2
      <4> HIDE DEF more, last
      <4> QED BY <2>2, <4>1
    <3> QED BY <3>1, <3>2
  <2>4. more = [k \in 0..m |-> more[k]]
    OBVIOUS
  <2>5. more = [k \in 0..m |-> e(k)]
    <3> HIDE DEF more, e
    <3> QED BY <2>3, <2>4
  <2>6. Solves(more, m)
    <3> HIDE DEF more, last
    <3> QED BY <2>5
  <2>7. m \in Nat
    OBVIOUS
  <2> HIDE DEF more, e, Solves
  <2> QED BY <2>6, <2>7
<1>3. \A m \in 0..n : m \in T
  <2> HIDE DEF T
  <2> QED BY <1>1, <1>2, InductionUpTo
<1> QED BY <1>3

(* Reading a trace goes from record to record. *)
LEMMA WalkUnfolds ==
  ASSUME NEW S, NEW rs \in Seq(S)
  PROVE  /\ Walk(rs)[0] = Start
         /\ \A n \in 1..Len(rs) : Walk(rs)[n] = Read(Walk(rs)[n - 1], rs[n])
         /\ Reading(rs) = Walk(rs)[Len(rs)]
<1>1. Len(rs) \in Nat
  OBVIOUS
<1>2. \E after : after = [n \in 0..Len(rs) |->
                           IF n = 0 THEN Start ELSE Read(after[n - 1], rs[n])]
  BY <1>1, WalkExists
<1>3. Walk(rs) = [n \in 0..Len(rs) |->
                   IF n = 0 THEN Start ELSE Read(Walk(rs)[n - 1], rs[n])]
  BY <1>2, Zenon DEF Walk
<1> DEFINE w == Walk(rs)
           e(n) == IF n = 0 THEN Start ELSE Read(Walk(rs)[n - 1], rs[n])
<1>4. \A n \in 0..Len(rs) : w[n] = e(n)
  <2>1. w = [n \in 0..Len(rs) |-> e(n)]
    BY <1>3
  <2> HIDE DEF w, e
  <2> QED BY <2>1
<1>5. e(0) = Start /\ \A n \in 1..Len(rs) : e(n) = Read(Walk(rs)[n - 1], rs[n])
  OBVIOUS
<1>6. Reading(rs) = Walk(rs)[Len(rs)]
  BY Zenon DEF Reading, Walk
<1>7. 0 \in 0..Len(rs) /\ \A n \in 1..Len(rs) : n \in 0..Len(rs)
  BY <1>1
<1> HIDE DEF e
<1> QED BY <1>4, <1>5, <1>6, <1>7

(* A reader of records from S, and when it keeps the next one. *)
Reader(R, S) ==
  /\ R = [ids |-> R.ids, last |-> R.last, begun |-> R.begun, moved |-> R.moved,
          kept |-> R.kept]
  /\ R.last \in [Threads -> Times]
  /\ R.begun \subseteq Threads /\ R.moved \subseteq Threads
  /\ R.kept \in Seq(S)

(* A record whose time the reader takes down, and one it keeps. *)
Dated(R, r) ==
  /\ r.id # Malformed /\ r.id \notin R.ids
  /\ WellFormed(r) /\ ~Precedes(r.ts, R.last[r.thread])

Accepted(R, r) == Dated(R, r) /\ Grounded(R, r)

(* What one step of the reader changes, and what keeping the record does.  *)
Remembers(R, r, Q) ==
  /\ Q.ids = R.ids \cup ({r.id} \ {Malformed})
  /\ \A t \in Threads : Q.last[t] # R.last[t] =>
                           t = r.thread /\ Q.last[t] = r.ts /\ Dated(R, r)

PassesOver(R, Q) == Q.kept = R.kept /\ Q.begun = R.begun /\ Q.moved = R.moved

Keeps(R, r, Q) ==
  /\ r.thread \in Threads /\ r.ts \in Times
  /\ Q.kept = Append(R.kept, r)
  /\ Q.last[r.thread] = r.ts
  /\ \A t \in Threads : t # r.thread => Q.last[t] = R.last[t]
  /\ Q.begun = IF r.kind = "commit" THEN R.begun ELSE R.begun \cup {r.thread}
  /\ Q.moved = IF r.kind = "transition" THEN R.moved \cup {r.thread} ELSE R.moved

(* One record leaves the reader in shape and is remembered; it is kept only if
   accepted. *)
LEMMA ReadStep ==
  ASSUME NEW S, \A r \in S : Readable(r), NEW R, Reader(R, S), NEW r \in S
  PROVE  /\ Reader(Read(R, r), S)
         /\ Remembers(R, r, Read(R, r))
         /\ ~Accepted(R, r) => PassesOver(R, Read(R, r))
         /\ Accepted(R, r) => Keeps(R, r, Read(R, r))
<1> DEFINE named == [R EXCEPT !.ids = @ \cup {r.id}]
           timed == [named EXCEPT !.last[r.thread] = r.ts]
<1>0. /\ R.last \in [Threads -> Times] /\ R.begun \subseteq Threads
      /\ R.moved \subseteq Threads /\ R.kept \in Seq(S)
      /\ R = [ids |-> R.ids, last |-> R.last, begun |-> R.begun, moved |-> R.moved,
              kept |-> R.kept]
  BY DEF Reader
<1>1. named = [ids |-> R.ids \cup {r.id}, last |-> R.last, begun |-> R.begun,
               moved |-> R.moved, kept |-> R.kept]
  <2>1. PICK ids, last, begun, moved, kept :
          R = [ids |-> ids, last |-> last, begun |-> begun, moved |-> moved, kept |-> kept]
    BY <1>0
  <2> QED BY <2>1
<1>2. timed = [ids |-> R.ids \cup {r.id}, last |-> [R.last EXCEPT ![r.thread] = r.ts],
               begun |-> R.begun, moved |-> R.moved, kept |-> R.kept]
  <2> HIDE DEF named
  <2> QED BY <1>1
<1>3. Keep(timed, r) =
        [ids |-> R.ids \cup {r.id}, last |-> [R.last EXCEPT ![r.thread] = r.ts],
         begun |-> IF r.kind = "commit" THEN R.begun ELSE R.begun \cup {r.thread},
         moved |-> IF r.kind = "transition" THEN R.moved \cup {r.thread} ELSE R.moved,
         kept |-> Append(R.kept, r)]
  <2> HIDE DEF timed
  <2>1. Keep(timed, r) =
          [timed EXCEPT
             !.begun = IF r.kind = "commit" THEN @ ELSE @ \cup {r.thread},
             !.moved = IF r.kind = "transition" THEN @ \cup {r.thread} ELSE @,
             !.kept  = Append(@, r)]
    BY DEF Keep
  <2> QED BY <1>2, <2>1
<1>4. CASE r.id = Malformed \/ r.id \in R.ids
  <2>1. Read(R, r) = R /\ ~Accepted(R, r)
    BY <1>4 DEF Read, Accepted, Dated
  <2>2. Remembers(R, r, R) /\ PassesOver(R, R)
    BY <1>4 DEF Remembers, PassesOver
  <2> QED BY <2>1, <2>2
<1>5. CASE /\ ~(r.id = Malformed \/ r.id \in R.ids)
           /\ ~WellFormed(r) \/ Precedes(r.ts, R.last[r.thread])
  <2>1. Read(R, r) = named /\ ~Accepted(R, r)
    BY <1>5 DEF Read, Accepted, Dated
  <2> HIDE DEF named
  <2>2. Reader(named, S)
    BY <1>0, <1>1 DEF Reader
  <2>3. Remembers(R, r, named) /\ PassesOver(R, named)
    BY <1>1, <1>5 DEF Remembers, PassesOver
  <2> QED BY <2>1, <2>2, <2>3
<1>6. CASE /\ ~(r.id = Malformed \/ r.id \in R.ids)
           /\ ~(~WellFormed(r) \/ Precedes(r.ts, R.last[r.thread]))
  <2>0. r.thread \in Threads /\ r.ts \in Times /\ Dated(R, r)
    BY <1>6 DEF WellFormed, Readable, Dated
  <2>1. /\ [R.last EXCEPT ![r.thread] = r.ts] \in [Threads -> Times]
        /\ \A t \in Threads :
             [R.last EXCEPT ![r.thread] = r.ts][t] = IF t = r.thread THEN r.ts ELSE R.last[t]
    BY <1>0, <2>0
  <2> DEFINE later == [R.last EXCEPT ![r.thread] = r.ts]
  <2> HIDE DEF later
  <2>2. CASE ~Grounded(R, r)
    <3>1. Read(R, r) = timed /\ ~Accepted(R, r)
      BY <1>6, <2>2 DEF Read, Accepted, Dated
    <3> HIDE DEF timed
    <3>2. timed = [ids |-> R.ids \cup {r.id}, last |-> later,
                   begun |-> R.begun, moved |-> R.moved, kept |-> R.kept]
      BY <1>2 DEF later
    <3>3. Reader(timed, S)
      BY <1>0, <2>1, <3>2 DEF Reader, later
    <3>4. Remembers(R, r, timed) /\ PassesOver(R, timed)
      BY <1>6, <2>0, <2>1, <3>2 DEF later, Remembers, PassesOver
    <3> QED BY <3>1, <3>3, <3>4
  <2>3. CASE Grounded(R, r)
    <3> DEFINE kept == Keep(timed, r)
    <3>1. Read(R, r) = kept /\ Accepted(R, r)
      BY <1>6, <2>3 DEF Read, Accepted, Dated
    <3>2. kept =
            [ids |-> R.ids \cup {r.id}, last |-> later,
             begun |-> IF r.kind = "commit" THEN R.begun ELSE R.begun \cup {r.thread},
             moved |-> IF r.kind = "transition" THEN R.moved \cup {r.thread} ELSE R.moved,
             kept |-> Append(R.kept, r)]
      BY <1>3 DEF later
    <3> HIDE DEF kept
    <3>3. Reader(kept, S)
      <4>1. Append(R.kept, r) \in Seq(S)
        BY <1>0
      <4> QED BY <1>0, <2>0, <2>1, <3>2, <4>1 DEF Reader, later
    <3>4. Remembers(R, r, kept) /\ Keeps(R, r, kept)
      BY <1>6, <2>0, <2>1, <3>2 DEF later, Remembers, Keeps
    <3> QED BY <3>1, <3>3, <3>4
  <2> QED BY <2>2, <2>3
<1> QED BY <1>4, <1>5, <1>6

(***************************************************************************)
(* What a valid trace is, said of the records alone: each record has its   *)
(* own id and is well formed, does not precede in time the latest of its   *)
(* thread before it, and rests on an earlier record of the thread.         *)
(***************************************************************************)
Before(rs, n) == {m \in 1..(n - 1) : rs[m].thread = rs[n].thread}

Latest(rs, n, m) == m \in Before(rs, n) /\ \A k \in Before(rs, n) : k <= m

Acceptable(rs, n) ==
  /\ rs[n].id # Malformed /\ WellFormed(rs[n])
  /\ \A m \in 1..(n - 1) : rs[m].id # rs[n].id
  /\ \A m \in Before(rs, n) : Latest(rs, n, m) => ~Precedes(rs[n].ts, rs[m].ts)
  /\ rs[n].kind = "transition" => \E m \in Before(rs, n) : rs[m].kind # "commit"
  /\ rs[n].kind = "commit" => \E m \in Before(rs, n) : rs[m].kind = "transition"

(* The last record of thread t among the first n. *)
LastOf(rs, n, t, m) ==
  /\ m \in 1..n /\ rs[m].thread = t
  /\ \A k \in 1..n : rs[k].thread = t => k <= m

(* The reader R has kept the first n records of rs. *)
HasKept(R, rs, n) ==
  /\ Len(R.kept) = n
  /\ \A m \in 1..n : R.kept[m] = rs[m]
  /\ \A id : id \in R.ids <=> \E m \in 1..n : id = rs[m].id
  /\ \A t : t \in R.begun <=> \E m \in 1..n : t = rs[m].thread /\ rs[m].kind # "commit"
  /\ \A t : t \in R.moved <=> \E m \in 1..n : t = rs[m].thread /\ rs[m].kind = "transition"
  /\ \A t \in Threads : \A m \in 1..n : LastOf(rs, n, t, m) => R.last[t] = rs[m].ts
  /\ \A t \in Threads : R.last[t] = NaN \/ \E m \in 1..n : LastOf(rs, n, t, m)

(* To such a reader the next record is acceptable exactly if it keeps it. *)
LEMMA KeptIsAcceptable ==
  ASSUME NEW S, \A r \in S : Readable(r), NEW rs \in Seq(S), NEW n \in 1..Len(rs),
         NEW R, Reader(R, S), HasKept(R, rs, n - 1)
  PROVE  Accepted(R, rs[n]) <=> Acceptable(rs, n)
<1> DEFINE r == rs[n]
<1>1. r \in S /\ Readable(r) /\ n \in Nat
  BY DEF Reader
<1>2. \A m \in 1..(n - 1) : rs[m] \in S /\ Readable(rs[m])
  OBVIOUS
<1>3. (r.id # Malformed /\ r.id \notin R.ids)
        <=> (r.id # Malformed /\ \A m \in 1..(n - 1) : rs[m].id # r.id)
  BY DEF HasKept
<1>4. ASSUME WellFormed(r)
      PROVE  ~Precedes(r.ts, R.last[r.thread])
               <=> \A m \in Before(rs, n) : Latest(rs, n, m) => ~Precedes(r.ts, rs[m].ts)
  <2>1. r.thread \in Threads
    BY <1>1, <1>4 DEF WellFormed, Readable
  <2>2. \A m : Latest(rs, n, m) <=> LastOf(rs, n - 1, r.thread, m)
    BY DEF Latest, LastOf, Before
  <2>3. \A m : LastOf(rs, n - 1, r.thread, m) =>
               m \in Before(rs, n) /\ R.last[r.thread] = rs[m].ts
    BY <2>1 DEF HasKept, LastOf, Before
  <2>4. R.last[r.thread] = NaN \/ \E m : LastOf(rs, n - 1, r.thread, m)
    BY <2>1 DEF HasKept
  <2> HIDE DEF r
  <2> QED BY <2>2, <2>3, <2>4 DEF Precedes
<1>5. Grounded(R, r) <=>
        /\ r.kind = "transition" => \E m \in Before(rs, n) : rs[m].kind # "commit"
        /\ r.kind = "commit" => \E m \in Before(rs, n) : rs[m].kind = "transition"
  <2>1. r.thread \in R.begun <=> \E m \in Before(rs, n) : rs[m].kind # "commit"
    BY DEF HasKept, Before
  <2>2. r.thread \in R.moved <=> \E m \in Before(rs, n) : rs[m].kind = "transition"
    BY DEF HasKept, Before
  <2> QED BY <2>1, <2>2 DEF Grounded
<1> QED BY <1>3, <1>4, <1>5 DEF Accepted, Dated, Acceptable

(* Keeping it adds one record to those kept. *)
LEMMA KeepsNext ==
  ASSUME NEW S, \A r \in S : Readable(r), NEW rs \in Seq(S), NEW n \in 1..Len(rs),
         NEW R, Reader(R, S), HasKept(R, rs, n - 1), Accepted(R, rs[n])
  PROVE  HasKept(Read(R, rs[n]), rs, n)
<1> DEFINE r == rs[n]  Q == Read(R, r)
<1>1. /\ r \in S /\ n \in Nat /\ r.id # Malformed /\ Accepted(R, r)
      /\ R.kept \in Seq(S)
  BY DEF Reader, Accepted, Dated
<1>2. /\ r.thread \in Threads
      /\ Q.kept = Append(R.kept, r)
      /\ Q.ids = R.ids \cup {r.id}
      /\ Q.last[r.thread] = r.ts
      /\ \A t \in Threads : t # r.thread => Q.last[t] = R.last[t]
      /\ Q.begun = IF r.kind = "commit" THEN R.begun ELSE R.begun \cup {r.thread}
      /\ Q.moved = IF r.kind = "transition" THEN R.moved \cup {r.thread} ELSE R.moved
  <2>1. {r.id} \ {Malformed} = {r.id}
    BY <1>1
  <2>2. Remembers(R, r, Q) /\ Keeps(R, r, Q)
    BY <1>1, ReadStep
  <2> HIDE DEF Q, r
  <2> QED BY <2>1, <2>2 DEF Remembers, Keeps
<1>3. \A m \in 1..n : m = n \/ m \in 1..(n - 1)
  OBVIOUS
<1>4. \A m \in 1..(n - 1) : m \in 1..n
  OBVIOUS
<1>5. n \in 1..n
  OBVIOUS
<1> HIDE DEF r, Q
<1>6. Len(Q.kept) = n /\ \A m \in 1..n : Q.kept[m] = rs[m]
  <2>1. Len(R.kept) = n - 1 /\ \A m \in 1..(n - 1) : R.kept[m] = rs[m]
    BY DEF HasKept
  <2>2. Len(Append(R.kept, r)) = n /\ Append(R.kept, r)[n] = r
    BY <1>1, <2>1
  <2>3. \A m \in 1..(n - 1) : Append(R.kept, r)[m] = R.kept[m]
    BY <1>1, <2>1
  <2> QED BY <1>2, <1>3, <2>1, <2>2, <2>3 DEF r
<1>7. \A id : id \in Q.ids <=> \E m \in 1..n : id = rs[m].id
  <2>1. \A id : id \in R.ids <=> \E m \in 1..(n - 1) : id = rs[m].id
    BY DEF HasKept
  <2> QED BY <1>2, <1>3, <1>4, <1>5, <2>1 DEF r
<1>8. \A t : t \in Q.begun <=> \E m \in 1..n : t = rs[m].thread /\ rs[m].kind # "commit"
  <2>1. \A t : t \in R.begun <=>
               \E m \in 1..(n - 1) : t = rs[m].thread /\ rs[m].kind # "commit"
    BY DEF HasKept
  <2> QED BY <1>2, <1>3, <1>4, <1>5, <2>1 DEF r
<1>9. \A t : t \in Q.moved <=> \E m \in 1..n : t = rs[m].thread /\ rs[m].kind = "transition"
  <2>1. \A t : t \in R.moved <=>
               \E m \in 1..(n - 1) : t = rs[m].thread /\ rs[m].kind = "transition"
    BY DEF HasKept
  <2> QED BY <1>2, <1>3, <1>4, <1>5, <2>1 DEF r
<1>10. n \in Nat /\ LastOf(rs, n, r.thread, n) /\ \A m : LastOf(rs, n, r.thread, m) => m = n
  BY <1>1 DEF LastOf, r
<1>11. ASSUME NEW t, t # r.thread, NEW m
       PROVE  LastOf(rs, n, t, m) <=> LastOf(rs, n - 1, t, m)
  BY <1>3, <1>4, <1>11 DEF LastOf, r
<1>12. ASSUME NEW t \in Threads
       PROVE  /\ \A m \in 1..n : LastOf(rs, n, t, m) => Q.last[t] = rs[m].ts
              /\ Q.last[t] = NaN \/ \E m \in 1..n : LastOf(rs, n, t, m)
  <2>1. CASE t = r.thread
    BY <1>2, <1>5, <1>10, <2>1 DEF r
  <2>2. CASE t # r.thread
    <3>1. Q.last[t] = R.last[t]
      BY <1>2, <2>2
    <3>2. \A m : LastOf(rs, n - 1, t, m) => m \in 1..(n - 1)
      BY DEF LastOf
    <3> QED BY <1>4, <1>11, <2>2, <3>1, <3>2 DEF HasKept
  <2> QED BY <2>1, <2>2
<1> QED BY <1>6, <1>7, <1>8, <1>9, <1>12 DEF HasKept, r, Q

(***************************************************************************)
(* A trace is valid exactly if each of its records is acceptable: as long  *)
(* as all were, the reader has kept all of them; and a reader that has     *)
(* kept as many records as it read has refused none.                       *)
(***************************************************************************)
LEMMA ValidTraceCharacterised ==
  ASSUME NEW S, \A r \in S : Readable(r), NEW rs \in Seq(S)
  PROVE  ValidTrace(rs) <=> \A n \in DOMAIN rs : Acceptable(rs, n)
<1> DEFINE W == Walk(rs)
           N == Len(rs)
           Fine(n) == \A m \in 1..n : Acceptable(rs, m)
<1>0. N \in Nat /\ DOMAIN rs = 1..N
  OBVIOUS
<1>1. /\ W[0] = Start
      /\ \A n \in 1..N : W[n] = Read(W[n - 1], rs[n])
      /\ Reading(rs) = W[N]
  BY WalkUnfolds
<1> HIDE DEF W, N, Fine
<1> DEFINE T == {n \in 0..N : /\ Reader(W[n], S) /\ Len(W[n].kept) <= n
                              /\ Fine(n) => HasKept(W[n], rs, n)
                              /\ Len(W[n].kept) = n => Fine(n)}
<1>2. 0 \in T
  <2>1. Reader(Start, S) /\ Len(Start.kept) = 0 /\ HasKept(Start, rs, 0)
    BY DEF Start, Reader, HasKept, Times
  <2>2. Fine(0)
    BY DEF Fine
  <2> QED BY <1>0, <1>1, <2>1, <2>2
<1>3. ASSUME NEW n \in 1..N, n - 1 \in T
      PROVE  n \in T
  <2> DEFINE R == W[n - 1]  r == rs[n]  Q == W[n]
  <2>1. /\ Q = Read(R, r) /\ n \in 1..Len(rs) /\ n \in Nat /\ n \in 0..N
        /\ Reader(R, S) /\ Len(R.kept) <= n - 1
        /\ Fine(n - 1) => HasKept(R, rs, n - 1)
        /\ Len(R.kept) = n - 1 => Fine(n - 1)
    BY <1>0, <1>1, <1>3 DEF N
  <2>2. r \in S /\ R.kept \in Seq(S) /\ Len(R.kept) \in Nat
    BY <2>1 DEF Reader
  <2> HIDE DEF R, r, Q, T
  <2>3. /\ Reader(Q, S)
        /\ ~Accepted(R, r) => PassesOver(R, Q)
        /\ Accepted(R, r) => Keeps(R, r, Q)
    BY <2>1, <2>2, ReadStep
  <2>4. Fine(n) <=> Fine(n - 1) /\ Acceptable(rs, n)
    <3>1. \A m \in 1..n : m = n \/ m \in 1..(n - 1)
      BY <2>1
    <3>2. n \in 1..n /\ \A m \in 1..(n - 1) : m \in 1..n
      BY <2>1
    <3> QED BY <3>1, <3>2 DEF Fine
  <2>5. Fine(n - 1) => (Accepted(R, r) <=> Acceptable(rs, n))
    BY <2>1, KeptIsAcceptable DEF r
  <2>6. Len(Q.kept) = IF Accepted(R, r) THEN Len(R.kept) + 1 ELSE Len(R.kept)
    <3>1. CASE Accepted(R, r)
      <4>1. Q.kept = Append(R.kept, r)
        BY <2>3, <3>1 DEF Keeps
      <4> QED BY <2>2, <3>1, <4>1
    <3>2. CASE ~Accepted(R, r)
      BY <2>3, <3>2 DEF PassesOver
    <3> QED BY <3>1, <3>2
  <2>7. Fine(n) => HasKept(Q, rs, n)
    <3>1. SUFFICES ASSUME Fine(n) PROVE HasKept(Q, rs, n)
      OBVIOUS
    <3>2. HasKept(R, rs, n - 1) /\ Accepted(R, rs[n])
      BY <2>1, <2>4, <2>5, <3>1 DEF r
    <3>3. HasKept(Read(R, rs[n]), rs, n)
      BY <2>1, <3>2, KeepsNext
    <3> QED BY <2>1, <3>3 DEF r
  <2>8. Len(Q.kept) <= n
    BY <2>1, <2>2, <2>6
  <2>9. Len(Q.kept) = n => Accepted(R, r) /\ Len(R.kept) = n - 1
    BY <2>1, <2>2, <2>6
  <2>10. Len(Q.kept) = n => Fine(n)
    BY <2>1, <2>4, <2>5, <2>9
  <2> QED BY <2>1, <2>3, <2>7, <2>8, <2>10 DEF T, Q
<1>4. N \in T
  <2> HIDE DEF T
  <2>1. \A m \in 0..N : m \in T
    BY <1>0, <1>2, <1>3, InductionUpTo
  <2> QED BY <1>0, <2>1
<1>5. ASSUME Fine(N)
      PROVE  ValidTrace(rs)
  <2>1. HasKept(W[N], rs, N) /\ Reader(W[N], S)
    BY <1>4, <1>5
  <2>2. W[N].kept \in Seq(S) /\ Len(W[N].kept) = N /\ \A m \in 1..N : W[N].kept[m] = rs[m]
    BY <2>1 DEF Reader, HasKept
  <2>3. W[N].kept = rs
    BY <1>0, <2>2 DEF N
  <2> QED BY <1>1, <2>3 DEF ValidTrace
<1>6. ASSUME ValidTrace(rs)
      PROVE  Fine(N)
  <2>1. W[N].kept = rs
    BY <1>1, <1>6 DEF ValidTrace
  <2>2. Len(W[N].kept) = N
    BY <2>1 DEF N
  <2> QED BY <1>4, <2>2
<1> QED BY <1>0, <1>5, <1>6 DEF Fine

(***************************************************************************)
(* As long as no time is NaN, the records a reader has kept are acceptable *)
(* among themselves, though it remembers ids and times of others too: what *)
(* it remembers only makes it refuse more.                                 *)
(***************************************************************************)
KeptSound(R) ==
  /\ \A k \in DOMAIN R.kept :
       /\ Acceptable(R.kept, k)
       /\ R.kept[k].id \in R.ids
       /\ R.kept[k].thread \in Threads /\ R.kept[k].ts \in Int
       /\ R.last[R.kept[k].thread] # NaN
       /\ R.kept[k].ts <= R.last[R.kept[k].thread]
  /\ \A t \in R.begun : \E k \in DOMAIN R.kept :
       R.kept[k].thread = t /\ R.kept[k].kind # "commit"
  /\ \A t \in R.moved : \E k \in DOMAIN R.kept :
       R.kept[k].thread = t /\ R.kept[k].kind = "transition"

(* What a record needs is looked for before it: more after it do not matter.*)
LEMMA AcceptableInPrefix ==
  ASSUME NEW S, NEW rs \in Seq(S), NEW us \in Seq(S), NEW n \in DOMAIN rs, n \in DOMAIN us,
         \A m \in 1..n : rs[m] = us[m]
  PROVE  Acceptable(rs, n) <=> Acceptable(us, n)
<1>1. n \in Nat /\ n \in 1..n /\ \A m \in 1..(n - 1) : m \in 1..n
  OBVIOUS
<1>2. Before(rs, n) = Before(us, n)
  BY <1>1 DEF Before
<1>3. \A m \in Before(rs, n) : rs[m] = us[m]
  BY <1>1 DEF Before
<1>4. \A m : Latest(rs, n, m) <=> Latest(us, n, m)
  BY <1>2 DEF Latest
<1> QED BY <1>1, <1>2, <1>3, <1>4 DEF Acceptable

(* One record leaves what the reader kept sound. *)
LEMMA ReadKeepsSound ==
  ASSUME NEW S, \A r \in S : Readable(r), \A r \in S : r.ts # NaN,
         NEW R, Reader(R, S), KeptSound(R), NEW r \in S
  PROVE  KeptSound(Read(R, r))
<1> DEFINE Q == Read(R, r)  K == R.kept  L == Q.kept
<1>1. /\ Reader(Q, S) /\ Remembers(R, r, Q)
      /\ ~Accepted(R, r) => PassesOver(R, Q)
      /\ Accepted(R, r) => Keeps(R, r, Q)
  BY ReadStep
<1>2. K \in Seq(S) /\ R.last \in [Threads -> Times] /\ Q.last \in [Threads -> Times] /\ L \in Seq(S)
  BY <1>1 DEF Reader
<1> HIDE DEF Q, K, L
<1>3. \A id \in R.ids : id \in Q.ids
  BY <1>1 DEF Remembers
<1>4. ASSUME NEW k \in DOMAIN K
      PROVE  /\ K[k].id \in Q.ids
             /\ K[k].thread \in Threads /\ K[k].ts \in Int
             /\ Q.last[K[k].thread] # NaN
             /\ K[k].ts <= Q.last[K[k].thread]
  <2> DEFINE t == K[k].thread
  <2>1. /\ K[k].id \in R.ids /\ t \in Threads /\ K[k].ts \in Int
        /\ R.last[t] # NaN /\ K[k].ts <= R.last[t]
    BY DEF KeptSound, K
  <2> HIDE DEF t
  <2>2. R.last[t] \in Int
    BY <1>2, <2>1 DEF Times
  <2>3. CASE Q.last[t] = R.last[t]
    BY <1>3, <2>1, <2>3 DEF t
  <2>4. CASE Q.last[t] # R.last[t]
    <3>1. t = r.thread /\ Q.last[t] = r.ts /\ Dated(R, r)
      BY <1>1, <2>1, <2>4 DEF Remembers
    <3>2. r.ts # NaN /\ Q.last[t] \in Int /\ ~(r.ts < R.last[t])
      BY <1>2, <2>1, <3>1 DEF Dated, Precedes, Times
    <3>3. K[k].ts <= Q.last[t]
      BY <2>1, <2>2, <3>1, <3>2
    <3> QED BY <1>3, <2>1, <3>1, <3>2, <3>3 DEF t
  <2> QED BY <2>3, <2>4
<1>5. CASE ~Accepted(R, r)
  <2>1. L = K /\ Q.begun = R.begun /\ Q.moved = R.moved
    BY <1>1, <1>5 DEF PassesOver, K, L
  <2> QED BY <1>4, <2>1 DEF KeptSound, K, L, Q
<1>6. CASE Accepted(R, r)
  <2> DEFINE n == Len(K) + 1
  <2>1. /\ r.thread \in Threads /\ r.ts \in Int /\ r.ts # NaN
        /\ L = Append(K, r)
        /\ Q.last[r.thread] = r.ts
        /\ Q.begun = IF r.kind = "commit" THEN R.begun ELSE R.begun \cup {r.thread}
        /\ Q.moved = IF r.kind = "transition" THEN R.moved \cup {r.thread} ELSE R.moved
    BY <1>1, <1>6 DEF Keeps, K, L, Times
  <2>2. /\ Len(K) \in Nat /\ DOMAIN K = 1..Len(K) /\ n \in Nat
        /\ Len(L) = n /\ DOMAIN L = 1..n /\ L[n] = r
        /\ \A k \in 1..Len(K) : L[k] = K[k]
    BY <1>2, <2>1
  <2>3. /\ n - 1 = Len(K) /\ n \in 1..n
        /\ \A k \in 1..n : k = n \/ k \in 1..Len(K)
        /\ \A k \in 1..Len(K) : k \in 1..n
    BY <2>2
  <2> HIDE DEF n
  <2>4. /\ r.id # Malformed /\ r.id \notin R.ids
        /\ WellFormed(r) /\ ~Precedes(r.ts, R.last[r.thread])
        /\ r.kind = "transition" => r.thread \in R.begun
        /\ r.kind = "commit" => r.thread \in R.moved
    BY <1>6 DEF Accepted, Dated, Grounded
  <2>5. Acceptable(L, n)
    <3>1. \A m \in 1..(n - 1) : L[m] = K[m] /\ m \in DOMAIN K
      BY <2>2, <2>3
    <3>2. \A m \in 1..(n - 1) : L[m].id # r.id
      BY <2>4, <3>1 DEF KeptSound, K
    <3>3. ASSUME NEW m \in Before(L, n)
          PROVE  ~Precedes(r.ts, L[m].ts)
      <4>1. m \in 1..(n - 1) /\ L[m].thread = r.thread
        BY <2>2 DEF Before
      <4>2. L[m].ts \in Int /\ R.last[r.thread] # NaN /\ L[m].ts <= R.last[r.thread]
        BY <3>1, <4>1 DEF KeptSound, K
      <4>3. R.last[r.thread] \in Int
        BY <1>2, <2>1, <4>2 DEF Times
      <4>4. ~(r.ts < R.last[r.thread])
        BY <2>1, <2>4, <4>2 DEF Precedes
      <4>5. \A a, b, c \in Int : a <= b /\ ~(c < b) => ~(c < a)
        OBVIOUS
      <4>6. r.ts \in Int
        BY <2>1
      <4>7. ~(r.ts < L[m].ts)
        BY <4>2, <4>3, <4>4, <4>5, <4>6, Zenon
      <4> QED BY <4>7 DEF Precedes
    <3>4. r.kind = "transition" => \E m \in Before(L, n) : L[m].kind # "commit"
      <4>1. SUFFICES ASSUME r.kind = "transition"
                     PROVE  \E m \in Before(L, n) : L[m].kind # "commit"
        OBVIOUS
      <4>2. PICK m \in DOMAIN K : K[m].thread = r.thread /\ K[m].kind # "commit"
        BY <2>4, <4>1 DEF KeptSound, K
      <4>3. m \in Before(L, n)
        BY <2>2, <2>3, <4>2 DEF Before
      <4> QED BY <2>2, <4>2, <4>3
    <3>5. r.kind = "commit" => \E m \in Before(L, n) : L[m].kind = "transition"
      <4>1. SUFFICES ASSUME r.kind = "commit"
                     PROVE  \E m \in Before(L, n) : L[m].kind = "transition"
        OBVIOUS
      <4>2. PICK m \in DOMAIN K : K[m].thread = r.thread /\ K[m].kind = "transition"
        BY <2>4, <4>1 DEF KeptSound, K
      <4>3. m \in Before(L, n)
        BY <2>2, <2>3, <4>2 DEF Before
      <4> QED BY <2>2, <4>2, <4>3
    <3> QED BY <2>2, <2>4, <3>2, <3>3, <3>4, <3>5 DEF Acceptable
  <2>6. ASSUME NEW k \in DOMAIN L
        PROVE  /\ Acceptable(L, k)
               /\ L[k].id \in Q.ids
               /\ L[k].thread \in Threads /\ L[k].ts \in Int
               /\ Q.last[L[k].thread] # NaN
               /\ L[k].ts <= Q.last[L[k].thread]
    <3>1. CASE k = n
      <4>1. r.id \in Q.ids
        BY <1>1, <2>4 DEF Remembers
      <4> QED BY <2>1, <2>2, <2>5, <3>1, <4>1
    <3>2. CASE k # n
      <4>1. k \in DOMAIN K /\ L[k] = K[k] /\ \A m \in 1..k : L[m] = K[m]
        BY <2>2, <2>3, <3>2
      <4>2. Acceptable(K, k)
        BY <4>1 DEF KeptSound, K
      <4>3. Acceptable(L, k)
        BY <1>2, <4>1, <4>2, AcceptableInPrefix
      <4> QED BY <1>4, <4>1, <4>3
    <3> QED BY <3>1, <3>2
  <2>7. ASSUME NEW t \in Q.begun
        PROVE  \E k \in DOMAIN L : L[k].thread = t /\ L[k].kind # "commit"
    <3>1. CASE t \in R.begun
      <4>1. PICK k \in DOMAIN K : K[k].thread = t /\ K[k].kind # "commit"
        BY <3>1 DEF KeptSound, K
      <4> QED BY <2>2, <2>3, <4>1
    <3>2. CASE t \notin R.begun
      <4>1. t = r.thread /\ r.kind # "commit"
        BY <2>1, <3>2
      <4> QED BY <2>2, <2>3, <4>1
    <3> QED BY <3>1, <3>2
  <2>8. ASSUME NEW t \in Q.moved
        PROVE  \E k \in DOMAIN L : L[k].thread = t /\ L[k].kind = "transition"
    <3>1. CASE t \in R.moved
      <4>1. PICK k \in DOMAIN K : K[k].thread = t /\ K[k].kind = "transition"
        BY <3>1 DEF KeptSound, K
      <4> QED BY <2>2, <2>3, <4>1
    <3>2. CASE t \notin R.moved
      <4>1. t = r.thread /\ r.kind = "transition"
        BY <2>1, <3>2
      <4> QED BY <2>2, <2>3, <4>1
    <3> QED BY <3>1, <3>2
  <2> QED BY <2>6, <2>7, <2>8 DEF KeptSound, L, Q
<1> QED BY <1>5, <1>6

(* What is kept of a trace without NaN is a trace each of whose records is
   acceptable after those before. *)
LEMMA KeptIsAcceptableTrace ==
  ASSUME NEW S, \A r \in S : Readable(r), \A r \in S : r.ts # NaN, NEW rs \in Seq(S)
  PROVE  /\ Reading(rs).kept \in Seq(S)
         /\ \A k \in DOMAIN Reading(rs).kept : Acceptable(Reading(rs).kept, k)
<1> DEFINE W == Walk(rs)
           T == {n \in 0..Len(rs) : Reader(W[n], S) /\ KeptSound(W[n])}
<1>0. Len(rs) \in Nat
  OBVIOUS
<1>1. /\ W[0] = Start
      /\ \A n \in 1..Len(rs) : W[n] = Read(W[n - 1], rs[n])
      /\ Reading(rs) = W[Len(rs)]
  BY WalkUnfolds
<1> HIDE DEF W
<1>2. 0 \in T
  <2>1. Reader(Start, S) /\ KeptSound(Start)
    BY DEF Start, Reader, KeptSound, Times
  <2> QED BY <1>0, <1>1, <2>1
<1>3. ASSUME NEW n \in 1..Len(rs), n - 1 \in T
      PROVE  n \in T
  <2>1. Reader(W[n - 1], S) /\ KeptSound(W[n - 1]) /\ rs[n] \in S /\ n \in 0..Len(rs)
    BY <1>3
  <2>2. Reader(Read(W[n - 1], rs[n]), S) /\ KeptSound(Read(W[n - 1], rs[n]))
    BY <2>1, ReadStep, ReadKeepsSound
  <2> QED BY <1>1, <2>1, <2>2
<1>4. Len(rs) \in T
  <2> HIDE DEF T
  <2>1. \A m \in 0..Len(rs) : m \in T
    BY <1>0, <1>2, <1>3, InductionUpTo
  <2> QED BY <1>0, <2>1
<1> QED BY <1>1, <1>4 DEF Reader, KeptSound

-----------------------------------------------------------------------------
(* The records of one thread. *)

Sieves(of, rs, t, n) ==
  of = [k \in 0..n |-> IF k = 0 THEN << >>
                       ELSE IF rs[k].thread = t THEN Append(of[k - 1], rs[k])
                       ELSE of[k - 1]]

Sieve(rs, t) == CHOOSE of : Sieves(of, rs, t, Len(rs))

(* The records of a thread among the first n can be collected one by one. *)
LEMMA SieveExists ==
  ASSUME NEW rs, NEW t, NEW n \in Nat
  PROVE  \E of : Sieves(of, rs, t, n)
<1> DEFINE Solves(of, m) == Sieves(of, rs, t, m)
           T == {m \in Nat : \E of : Solves(of, m)}
<1>1. 0 \in T
  <2> DEFINE first == [k \in 0..0 |-> << >>]
  <2>1. Solves(first, 0)
    BY DEF Sieves
  <2> HIDE DEF first, Solves
  <2> QED BY <2>1
<1>2. ASSUME NEW m \in 1..n, m - 1 \in T
      PROVE  m \in T
  <2>1. PICK of : Solves(of, m - 1)
    BY <1>2
  <2> DEFINE e(f, k) == IF k = 0 THEN << >>
                        ELSE IF rs[k].thread = t THEN Append(f[k - 1], rs[k])
                        ELSE f[k - 1]
  <2>2. \A k \in 0..(m - 1) : of[k] = e(of, k)
    <3> DEFINE d(k) == e(of, k)
    <3>1. of = [k \in 0..(m - 1) |-> d(k)]
      BY <2>1 DEF Sieves
    <3> HIDE DEF d
    <3>2. \A k \in 0..(m - 1) : of[k] = d(k)
      BY <3>1
    <3> QED BY <3>2 DEF d
  <2> DEFINE last == e(of, m)
             more == [k \in 0..m |-> IF k = m THEN last ELSE of[k]]
  <2>3. \A k \in 0..m : more[k] = e(more, k)
    <3> SUFFICES ASSUME NEW k \in 0..m PROVE more[k] = e(more, k)
      OBVIOUS
    <3>1. CASE k = m
      <4>1. more[m] = last /\ more[m - 1] = of[m - 1] /\ m # 0
        OBVIOUS
      <4>2. e(more, m) = e(of, m)
        <5> HIDE DEF more
        <5> QED BY <4>1
      <4> HIDE DEF more, e
      <4> QED BY <3>1, <4>1, <4>2
    <3>2. CASE k # m
      <4>1. more[k] = of[k] /\ k \in 0..(m - 1) /\ (k # 0 => more[k - 1] = of[k - 1])
        BY <3>2
      <4>2. e(more, k) = e(of, k)
        <5> HIDE DEF more, last
        <5> QED BY <4>1
      <4> HIDE DEF more, last, e
      <4> QED BY <2>2, <4>1, <4>2
    <3> QED BY <3>1, <3>2
  <2>4. more = [k \in 0..m |-> more[k]]
    OBVIOUS
  <2>5. more = [k \in 0..m |-> e(more, k)]
    <3> HIDE DEF more, e
    <3> QED BY <2>3, <2>4
  <2>6. Solves(more, m)
    <3> HIDE DEF more, last
    <3> QED BY <2>5 DEF Sieves
  <2>7. m \in Nat
    OBVIOUS
  <2> HIDE DEF more, e, Solves
  <2> QED BY <2>6, <2>7
<1>3. \A m \in 0..n : m \in T
  <2> HIDE DEF T
  <2> QED BY <1>1, <1>2, InductionUpTo
<1> QED BY <1>3

(* The records of a thread are what the collection ends with. *)
LEMMA SieveUnfolds ==
  ASSUME NEW S, NEW rs \in Seq(S), NEW t
  PROVE  /\ Sieve(rs, t)[0] = << >>
         /\ \A n \in 1..Len(rs) :
              Sieve(rs, t)[n] = IF rs[n].thread = t THEN Append(Sieve(rs, t)[n - 1], rs[n])
                                ELSE Sieve(rs, t)[n - 1]
         /\ OfThread(rs, t) = Sieve(rs, t)[Len(rs)]
<1>1. Len(rs) \in Nat
  OBVIOUS
<1>2. \E of : Sieves(of, rs, t, Len(rs))
  BY <1>1, SieveExists
<1> DEFINE f == Sieve(rs, t)
           e(n) == IF n = 0 THEN << >>
                   ELSE IF rs[n].thread = t THEN Append(f[n - 1], rs[n])
                   ELSE f[n - 1]
<1>3. f = [n \in 0..Len(rs) |-> e(n)]
  BY <1>2, Zenon DEF Sieve, Sieves
<1>4. \A n \in 0..Len(rs) : f[n] = e(n)
  <2> HIDE DEF f, e
  <2> QED BY <1>3
<1>5. e(0) = << >>
  OBVIOUS
<1>6. \A n \in 1..Len(rs) : e(n) = IF rs[n].thread = t THEN Append(f[n - 1], rs[n])
                                   ELSE f[n - 1]
  <2> HIDE DEF f
  <2> QED OBVIOUS
<1>7. OfThread(rs, t) = f[Len(rs)]
  BY Zenon DEF OfThread, Sieve, Sieves
<1>8. 0 \in 0..Len(rs) /\ \A n \in 1..Len(rs) : n \in 0..Len(rs)
  BY <1>1
<1> HIDE DEF e
<1> QED BY <1>4, <1>5, <1>6, <1>7, <1>8

(* at lists, in order, the indexes of rs up to n at which t has a record,   *)
(* and s the records there.                                                *)
Sieved(s, at, rs, t, n) ==
  /\ \A k \in 1..Len(s) : at[k] \in 1..n /\ s[k] = rs[at[k]]
  /\ \A j, k \in 1..Len(s) : j < k => at[j] < at[k]
  /\ \A m \in 1..n : rs[m].thread = t <=> \E k \in 1..Len(s) : at[k] = m

(* The records of a thread are in order, each from its place in the trace. *)
LEMMA ThreadIsSieved ==
  ASSUME NEW S, NEW rs \in Seq(S), NEW t
  PROVE  OfThread(rs, t) \in Seq(S) /\ \E at : Sieved(OfThread(rs, t), at, rs, t, Len(rs))
<1> DEFINE f == Sieve(rs, t)
           T == {n \in 0..Len(rs) : f[n] \in Seq(S) /\ \E at : Sieved(f[n], at, rs, t, n)}
<1>0. Len(rs) \in Nat
  OBVIOUS
<1>1. /\ f[0] = << >> /\ OfThread(rs, t) = f[Len(rs)]
      /\ \A n \in 1..Len(rs) : f[n] = IF rs[n].thread = t THEN Append(f[n - 1], rs[n])
                                      ELSE f[n - 1]
  BY SieveUnfolds
<1> HIDE DEF f
<1>2. 0 \in T
  <2>1. Sieved(f[0], << >>, rs, t, 0) /\ f[0] \in Seq(S)
    BY <1>1 DEF Sieved
  <2> QED BY <1>0, <2>1
<1>3. ASSUME NEW n \in 1..Len(rs), n - 1 \in T
      PROVE  n \in T
  <2>1. PICK at : Sieved(f[n - 1], at, rs, t, n - 1)
    BY <1>3
  <2> DEFINE s == f[n - 1]  l == Len(s)
  <2>2. s \in Seq(S) /\ l \in Nat /\ n \in Nat /\ n \in 0..Len(rs) /\ rs[n] \in S
    BY <1>3
  <2> HIDE DEF s
  <2>3. /\ \A k \in 1..l : at[k] \in 1..(n - 1) /\ s[k] = rs[at[k]]
        /\ \A j, k \in 1..l : j < k => at[j] < at[k]
        /\ \A m \in 1..(n - 1) : rs[m].thread = t <=> \E k \in 1..l : at[k] = m
    BY <2>1 DEF Sieved, s
  <2> HIDE DEF l
  <2>4. \A m \in 1..n : m = n \/ m \in 1..(n - 1)
    BY <2>2
  <2>5. CASE rs[n].thread # t
    <3>1. f[n] = s
      BY <1>1, <2>5 DEF s
    <3>2. \A k \in 1..l : at[k] # n /\ at[k] \in 1..n
      BY <2>2, <2>3
    <3>3. Sieved(s, at, rs, t, n)
      BY <2>3, <2>4, <2>5, <3>2 DEF Sieved, l
    <3> QED BY <2>2, <3>1, <3>3
  <2>6. CASE rs[n].thread = t
    <3> DEFINE u == Append(s, rs[n])
               up == [k \in 1..(l + 1) |-> IF k = l + 1 THEN n ELSE at[k]]
    <3>1. f[n] = u
      BY <1>1, <2>6 DEF s
    <3>2. /\ u \in Seq(S) /\ Len(u) = l + 1 /\ u[l + 1] = rs[n]
          /\ \A k \in 1..l : u[k] = s[k]
      BY <2>2 DEF l
    <3>3. up[l + 1] = n /\ \A k \in 1..l : up[k] = at[k]
      BY <2>2
    <3>4. \A k \in 1..(l + 1) : k = l + 1 \/ k \in 1..l
      BY <2>2
    <3>5. l + 1 \in 1..(l + 1) /\ \A k \in 1..l : k \in 1..(l + 1) /\ k < l + 1
      BY <2>2
    <3>6. n \in 1..n /\ \A m \in 1..(n - 1) : m \in 1..n /\ m < n /\ m # n
      BY <2>2
    <3> HIDE DEF u, up
    <3>7. \A k \in 1..(l + 1) : up[k] \in 1..n /\ u[k] = rs[up[k]]
      BY <2>3, <3>2, <3>3, <3>4, <3>6
    <3>8. ASSUME NEW j \in 1..(l + 1), NEW k \in 1..(l + 1), j < k
          PROVE  up[j] < up[k]
      <4>1. j \in 1..l
        BY <2>2, <3>8
      <4>2. CASE k = l + 1
        BY <2>3, <3>3, <3>6, <4>1, <4>2
      <4>3. CASE k \in 1..l
        BY <2>3, <3>3, <3>8, <4>1, <4>3
      <4> QED BY <3>4, <4>2, <4>3
    <3>9. ASSUME NEW m \in 1..n
          PROVE  rs[m].thread = t <=> \E k \in 1..(l + 1) : up[k] = m
      <4>1. CASE m = n
        BY <2>6, <3>3, <3>5, <4>1
      <4>2. CASE m \in 1..(n - 1)
        BY <2>3, <3>3, <3>4, <3>5, <3>6, <4>2
      <4> QED BY <2>4, <4>1, <4>2
    <3>10. Sieved(u, up, rs, t, n)
      BY <3>2, <3>7, <3>8, <3>9 DEF Sieved
    <3> QED BY <2>2, <3>1, <3>2, <3>10
  <2> QED BY <2>5, <2>6
<1>4. Len(rs) \in T
  <2> HIDE DEF T
  <2>1. \A m \in 0..Len(rs) : m \in T
    BY <1>0, <1>2, <1>3, InductionUpTo
  <2> QED BY <1>0, <2>1
<1> QED BY <1>1, <1>4

(* Acceptance is a matter of the thread, but for the ids. *)
LEMMA SievedAcceptable ==
  ASSUME NEW S, NEW rs \in Seq(S), NEW s \in Seq(S), NEW at, NEW t,
         Sieved(s, at, rs, t, Len(rs)), NEW k \in DOMAIN s
  PROVE  /\ at[k] \in DOMAIN rs /\ rs[at[k]].thread = t
         /\ Acceptable(rs, at[k]) => Acceptable(s, k)
         /\ Acceptable(s, k) /\ DistinctIds(rs) => Acceptable(rs, at[k])
<1> DEFINE n == at[k]
<1>1. /\ \A j \in 1..Len(s) : at[j] \in 1..Len(rs) /\ s[j] = rs[at[j]]
      /\ \A i, j \in 1..Len(s) : i < j => at[i] < at[j]
      /\ \A m \in 1..Len(rs) : rs[m].thread = t <=> \E j \in 1..Len(s) : at[j] = m
  BY DEF Sieved
<1>2. k \in 1..Len(s) /\ DOMAIN rs = 1..Len(rs) /\ Len(rs) \in Nat /\ k \in Nat /\ Len(s) \in Nat
  OBVIOUS
<1>3. n \in 1..Len(rs) /\ n \in Nat /\ s[k] = rs[n] /\ \A j \in 1..Len(s) : s[j].thread = t
  BY <1>1, <1>2
<1> HIDE DEF n
<1>4. ASSUME NEW m \in 1..(k - 1)
      PROVE  /\ m \in 1..Len(s) /\ m \in Before(s, k)
             /\ at[m] \in Before(rs, n) /\ rs[at[m]] = s[m] /\ at[m] \in 1..(n - 1)
  <2>1. m \in 1..Len(s) /\ m < k
    BY <1>2
  <2>2. at[m] \in 1..Len(rs) /\ at[m] < n /\ s[m] = rs[at[m]]
    BY <1>1, <1>2, <2>1 DEF n
  <2>3. at[m] \in 1..(n - 1)
    BY <1>3, <2>2
  <2> QED BY <1>2, <1>3, <2>1, <2>2, <2>3 DEF Before
<1>5. ASSUME NEW i \in Before(rs, n)
      PROVE  \E m \in Before(s, k) : at[m] = i /\ rs[i] = s[m]
  <2>1. i \in 1..(n - 1) /\ i \in 1..Len(rs) /\ i < n /\ rs[i].thread = t
    BY <1>2, <1>3 DEF Before
  <2>2. PICK m \in 1..Len(s) : at[m] = i
    BY <1>1, <2>1
  <2>3. m < k
    <3>1. SUFFICES ASSUME ~(m < k) PROVE FALSE
      OBVIOUS
    <3>2. m = k \/ k < m
      BY <1>2, <3>1
    <3>3. n <= i
      BY <1>1, <1>2, <1>3, <2>1, <2>2, <3>2 DEF n
    <3> QED BY <1>3, <2>1, <3>3
  <2>4. m \in 1..(k - 1)
    BY <1>2, <2>3
  <2> QED BY <1>1, <1>4, <2>2, <2>4
<1>6. \A m \in Before(s, k) : m \in 1..(k - 1)
  BY DEF Before
<1>7. ASSUME NEW m \in Before(s, k), NEW i \in Before(s, k)
       PROVE  i <= m <=> at[i] <= at[m]
  <2>1. i \in 1..Len(s) /\ m \in 1..Len(s) /\ i \in Nat /\ m \in Nat
    BY <1>2 DEF Before
  <2>2. at[i] \in Nat /\ at[m] \in Nat /\ (i < m => at[i] < at[m]) /\ (m < i => at[m] < at[i])
    BY <1>1, <1>2, <2>1
  <2>3. i < m \/ m < i \/ i = m
    BY <2>1
  <2> QED BY <2>1, <2>2, <2>3
<1>8. ASSUME NEW m \in Before(s, k)
       PROVE  Latest(s, k, m) <=> Latest(rs, n, at[m])
  <2>1. m \in 1..(k - 1) /\ at[m] \in Before(rs, n)
    BY <1>4, <1>6
  <2>2. ASSUME Latest(s, k, m), NEW j \in Before(rs, n) PROVE j <= at[m]
    <3>1. PICK i \in Before(s, k) : at[i] = j
      BY <1>5
    <3> QED BY <1>7, <2>2, <3>1 DEF Latest
  <2>3. ASSUME Latest(rs, n, at[m]), NEW i \in Before(s, k) PROVE i <= m
    <3>1. at[i] \in Before(rs, n)
      BY <1>4, <1>6
    <3> QED BY <1>7, <2>3, <3>1 DEF Latest
  <2> QED BY <2>1, <2>2, <2>3 DEF Latest
<1>9. ASSUME Acceptable(rs, n)
      PROVE  Acceptable(s, k)
  <2>1. /\ s[k].id # Malformed /\ WellFormed(s[k])
        /\ \A m \in 1..(n - 1) : rs[m].id # s[k].id
        /\ \A m \in Before(rs, n) : Latest(rs, n, m) => ~Precedes(s[k].ts, rs[m].ts)
        /\ s[k].kind = "transition" => \E m \in Before(rs, n) : rs[m].kind # "commit"
        /\ s[k].kind = "commit" => \E m \in Before(rs, n) : rs[m].kind = "transition"
    BY <1>3, <1>9 DEF Acceptable
  <2>2. \A m \in 1..(k - 1) : s[m].id # s[k].id
    BY <1>4, <2>1
  <2>3. \A m \in Before(s, k) : Latest(s, k, m) => ~Precedes(s[k].ts, s[m].ts)
    BY <1>4, <1>6, <1>8, <2>1
  <2>4. s[k].kind = "transition" => \E m \in Before(s, k) : s[m].kind # "commit"
    BY <1>5, <2>1
  <2>5. s[k].kind = "commit" => \E m \in Before(s, k) : s[m].kind = "transition"
    BY <1>5, <2>1
  <2> QED BY <2>1, <2>2, <2>3, <2>4, <2>5 DEF Acceptable
<1>10. ASSUME Acceptable(s, k), DistinctIds(rs)
      PROVE  Acceptable(rs, n)
  <2>1. /\ rs[n].id # Malformed /\ WellFormed(rs[n])
        /\ \A m \in Before(s, k) : Latest(s, k, m) => ~Precedes(rs[n].ts, s[m].ts)
        /\ rs[n].kind = "transition" => \E m \in Before(s, k) : s[m].kind # "commit"
        /\ rs[n].kind = "commit" => \E m \in Before(s, k) : s[m].kind = "transition"
    BY <1>3, <1>10 DEF Acceptable
  <2>2. \A m \in 1..(n - 1) : rs[m].id # rs[n].id
    <3>1. \A m \in 1..(n - 1) : m \in DOMAIN rs /\ m # n
      BY <1>2, <1>3
    <3> QED BY <1>2, <1>3, <1>10, <3>1 DEF DistinctIds
  <2>3. \A m \in Before(rs, n) : Latest(rs, n, m) => ~Precedes(rs[n].ts, rs[m].ts)
    BY <1>5, <1>8, <2>1
  <2>4. rs[n].kind = "transition" => \E m \in Before(rs, n) : rs[m].kind # "commit"
    BY <1>4, <1>6, <2>1
  <2>5. rs[n].kind = "commit" => \E m \in Before(rs, n) : rs[m].kind = "transition"
    BY <1>4, <1>6, <2>1
  <2> QED BY <2>1, <2>2, <2>3, <2>4, <2>5 DEF Acceptable
<1>11. rs[n].thread = t /\ n \in DOMAIN rs
  BY <1>2, <1>3
<1> QED BY <1>9, <1>10, <1>11 DEF n

(***************************************************************************)
(* Where the records not refused are in the trace, and what each of them   *)
(* leaves in the reader, times of NaN or not.                              *)
(***************************************************************************)
IsFirst(rs, n) == \A m \in 1..(n - 1) : rs[m].id # rs[n].id

Kept(rs, n) == Accepted(Walk(rs)[n - 1], rs[n])

(* A place where the thread's last time becomes NaN. *)
Unclocks(rs, n, t) ==
  /\ IsFirst(rs, n) /\ rs[n].id # Malformed /\ WellFormed(rs[n])
  /\ rs[n].thread = t /\ rs[n].ts = NaN

(* The time ts of thread t is no later than what is remembered of t, unless *)
(* a NaN from place m to place n came between.                              *)
Bounds(rs, n, m, ts, last, t) ==
  \/ ts # NaN /\ last # NaN /\ ts <= last
  \/ \E q \in m..n : Unclocks(rs, q, t)

Supported(rs, n, t) ==
  \E s, m \in 1..n :
    /\ s < m /\ Kept(rs, s) /\ Kept(rs, m)
    /\ rs[s].kind = "sense" /\ rs[m].kind = "transition"
    /\ rs[s].thread = t /\ rs[m].thread = t

Placed(rs, n, R) ==
  /\ \A id : id \in R.ids <=> id # Malformed /\ \E m \in 1..n : rs[m].id = id
  /\ \A k \in DOMAIN R.kept : \E m \in 1..n : Kept(rs, m) /\ R.kept[k] = rs[m]
  /\ \A m \in 1..n : Kept(rs, m) => \E k \in DOMAIN R.kept : R.kept[k] = rs[m]
  /\ \A t \in R.begun : \E s \in 1..n :
       Kept(rs, s) /\ rs[s].kind = "sense" /\ rs[s].thread = t
  /\ \A t \in R.moved : Supported(rs, n, t)
  /\ \A m \in 1..n : Kept(rs, m) =>
       Bounds(rs, n, m, rs[m].ts, R.last[rs[m].thread], rs[m].thread)

(* Reading one more record. *)
LEMMA PlacedStep ==
  ASSUME NEW S, \A r \in S : Readable(r), NEW rs \in Seq(S), NEW n \in 1..Len(rs),
         Reader(Walk(rs)[n - 1], S), Placed(rs, n - 1, Walk(rs)[n - 1]),
         Walk(rs)[n] = Read(Walk(rs)[n - 1], rs[n])
  PROVE  Placed(rs, n, Walk(rs)[n])
<1> DEFINE R == Walk(rs)[n - 1]  Q == Walk(rs)[n]  r == rs[n]
<1>1. /\ Remembers(R, r, Q)
      /\ ~Accepted(R, r) => PassesOver(R, Q)
      /\ Accepted(R, r) => Keeps(R, r, Q)
      /\ Reader(R, S) /\ Reader(Q, S) /\ Placed(rs, n - 1, R)
      /\ Kept(rs, n) <=> Accepted(R, r)
      /\ r \in S /\ n \in Nat
  <2>1. r \in S
    OBVIOUS
  <2> QED BY <2>1, ReadStep DEF Kept
<1>2. /\ n \in 1..n
      /\ \A m \in 1..n : m = n \/ m \in 1..(n - 1)
      /\ \A m \in 1..(n - 1) : m \in 1..n /\ m < n /\ \A q \in m..(n - 1) : q \in m..n
      /\ \A m \in 1..n : n \in m..n
  OBVIOUS
<1> HIDE DEF R, Q
<1>3. \A id : id \in Q.ids <=> id # Malformed /\ \E m \in 1..n : rs[m].id = id
  <2>1. \A id : id \in R.ids <=> id # Malformed /\ \E m \in 1..(n - 1) : rs[m].id = id
    BY <1>1 DEF Placed
  <2>2. Q.ids = R.ids \cup ({r.id} \ {Malformed})
    BY <1>1 DEF Remembers
  <2> HIDE DEF r
  <2> QED BY <1>2, <2>1, <2>2 DEF r
<1>4. Dated(R, r) => IsFirst(rs, n) /\ r.id # Malformed /\ WellFormed(r)
  <2>1. \A id : id \in R.ids <=> id # Malformed /\ \E m \in 1..(n - 1) : rs[m].id = id
    BY <1>1 DEF Placed
  <2> HIDE DEF r
  <2> QED BY <2>1 DEF Dated, IsFirst, r
<1>5. ASSUME NEW m \in 1..n, Kept(rs, m)
      PROVE  Bounds(rs, n, m, rs[m].ts, Q.last[rs[m].thread], rs[m].thread)
  <2>1. CASE m = n
    <3>1. Accepted(R, r) /\ r.thread \in Threads /\ r.ts \in Times /\ Q.last[r.thread] = r.ts
      BY <1>1, <1>5, <2>1 DEF Keeps
    <3>2. CASE r.ts = NaN
      <4>1. Unclocks(rs, n, r.thread)
        BY <1>4, <3>1, <3>2 DEF Accepted, Unclocks
      <4> QED BY <1>2, <2>1, <4>1 DEF Bounds
    <3>3. CASE r.ts # NaN
      <4>1. r.ts \in Int /\ r.ts <= r.ts
        BY <3>1, <3>3 DEF Times
      <4> QED BY <2>1, <3>1, <3>3, <4>1 DEF Bounds
    <3> QED BY <3>2, <3>3
  <2>2. CASE m \in 1..(n - 1)
    <3> DEFINE t == rs[m].thread  ts == rs[m].ts
    <3>1. Bounds(rs, n - 1, m, ts, R.last[t], t)
      BY <1>1, <1>5, <2>2 DEF Placed
    <3>2. t \in Threads /\ ts \in Times
      <4>1. rs[m] \in S
        BY <2>2
      <4>2. WellFormed(rs[m])
        BY <1>5 DEF Kept, Accepted, Dated
      <4> QED BY <4>1, <4>2 DEF WellFormed, Readable
    <3>3. R.last[t] \in Times /\ Q.last[t] \in Times
      BY <1>1, <3>2 DEF Reader
    <3> HIDE DEF t, ts
    <3>4. CASE \E q \in m..(n - 1) : Unclocks(rs, q, t)
      BY <1>2, <2>2, <3>4 DEF Bounds, t, ts
    <3>5. CASE ts # NaN /\ R.last[t] # NaN /\ ts <= R.last[t]
      <4>1. CASE Q.last[t] = R.last[t]
        BY <3>5, <4>1 DEF Bounds, t, ts
      <4>2. CASE Q.last[t] # R.last[t]
        <5>1. t = r.thread /\ Q.last[t] = r.ts /\ Dated(R, r)
          BY <1>1, <3>2, <4>2 DEF Remembers
        <5>2. CASE r.ts = NaN
          <6>1. Unclocks(rs, n, t)
            BY <1>4, <5>1, <5>2 DEF Unclocks
          <6> QED BY <1>2, <6>1 DEF Bounds, t, ts
        <5>3. CASE r.ts # NaN
          <6>1. ts \in Int /\ R.last[t] \in Int /\ r.ts \in Int /\ ~(r.ts < R.last[t])
            BY <3>2, <3>3, <3>5, <5>1, <5>3 DEF Dated, Precedes, Times
          <6>2. ts <= r.ts
            BY <3>5, <6>1
          <6> QED BY <3>5, <5>1, <5>3, <6>2 DEF Bounds, t, ts
        <5> QED BY <5>2, <5>3
      <4> QED BY <4>1, <4>2
    <3> QED BY <3>1, <3>4, <3>5 DEF Bounds
  <2> QED BY <1>2, <2>1, <2>2
<1>6. CASE ~Accepted(R, r)
  <2>1. Q.kept = R.kept /\ Q.begun = R.begun /\ Q.moved = R.moved /\ ~Kept(rs, n)
    BY <1>1, <1>6 DEF PassesOver
  <2>2. \A t : Supported(rs, n - 1, t) => Supported(rs, n, t)
    BY <1>2 DEF Supported
  <2>3. /\ \A k \in DOMAIN Q.kept : \E m \in 1..n : Kept(rs, m) /\ Q.kept[k] = rs[m]
        /\ \A m \in 1..n : Kept(rs, m) => \E k \in DOMAIN Q.kept : Q.kept[k] = rs[m]
        /\ \A t \in Q.begun : \E s \in 1..n :
             Kept(rs, s) /\ rs[s].kind = "sense" /\ rs[s].thread = t
        /\ \A t \in Q.moved : Supported(rs, n, t)
    BY <1>1, <1>2, <2>1, <2>2 DEF Placed
  <2> QED BY <1>3, <1>5, <2>3 DEF Placed, Q
<1>7. CASE Accepted(R, r)
  <2>1. /\ Kept(rs, n)
        /\ Q.kept = Append(R.kept, r)
        /\ Q.begun = IF r.kind = "commit" THEN R.begun ELSE R.begun \cup {r.thread}
        /\ Q.moved = IF r.kind = "transition" THEN R.moved \cup {r.thread} ELSE R.moved
    BY <1>1, <1>7 DEF Keeps
  <2>2. r.kind \in Kinds /\ (r.kind = "transition" => r.thread \in R.begun)
    BY <1>7 DEF Accepted, Dated, Grounded, WellFormed
  <2>3. /\ R.kept \in Seq(S) /\ DOMAIN Q.kept = DOMAIN R.kept \cup {Len(R.kept) + 1}
        /\ Q.kept[Len(R.kept) + 1] = r
        /\ \A k \in DOMAIN R.kept : Q.kept[k] = R.kept[k]
    <3>1. R.kept \in Seq(S)
      BY <1>1 DEF Reader
    <3> QED BY <1>1, <2>1, <3>1
  <2>4. /\ \A k \in DOMAIN R.kept : \E m \in 1..(n - 1) : Kept(rs, m) /\ R.kept[k] = rs[m]
        /\ \A m \in 1..(n - 1) : Kept(rs, m) => \E k \in DOMAIN R.kept : R.kept[k] = rs[m]
        /\ \A t \in R.begun : \E s \in 1..(n - 1) :
             Kept(rs, s) /\ rs[s].kind = "sense" /\ rs[s].thread = t
        /\ \A t \in R.moved : Supported(rs, n - 1, t)
    BY <1>1 DEF Placed
  <2>5. \A k \in DOMAIN Q.kept : \E m \in 1..n : Kept(rs, m) /\ Q.kept[k] = rs[m]
    BY <1>2, <2>1, <2>3, <2>4
  <2>6. \A m \in 1..n : Kept(rs, m) => \E k \in DOMAIN Q.kept : Q.kept[k] = rs[m]
    BY <1>2, <2>3, <2>4
  <2>7. ASSUME NEW t \in Q.begun
        PROVE  \E s \in 1..n : Kept(rs, s) /\ rs[s].kind = "sense" /\ rs[s].thread = t
    <3>1. CASE t \in R.begun
      BY <1>2, <2>4, <3>1
    <3>2. CASE t \notin R.begun
      <4>1. t = r.thread /\ r.kind # "commit"
        BY <2>1, <3>2
      <4>2. r.kind = "sense"
        BY <2>2, <3>2, <4>1 DEF Kinds
      <4> QED BY <1>2, <2>1, <4>1, <4>2
    <3> QED BY <3>1, <3>2
  <2>8. ASSUME NEW t \in Q.moved
        PROVE  Supported(rs, n, t)
    <3>1. CASE t \in R.moved
      BY <1>2, <2>4, <3>1 DEF Supported
    <3>2. CASE t \notin R.moved
      <4>1. t = r.thread /\ r.kind = "transition"
        BY <2>1, <3>2
      <4>2. PICK s \in 1..(n - 1) : Kept(rs, s) /\ rs[s].kind = "sense" /\ rs[s].thread = t
        BY <2>2, <2>4, <4>1
      <4> QED BY <1>2, <2>1, <4>1, <4>2 DEF Supported
    <3> QED BY <3>1, <3>2
  <2> QED BY <1>3, <1>5, <2>5, <2>6, <2>7, <2>8 DEF Placed, Q
<1> QED BY <1>6, <1>7

(* What is known of the places after any number of records. *)
LEMMA WalkPlaced ==
  ASSUME NEW S, \A r \in S : Readable(r), NEW rs \in Seq(S)
  PROVE  \A n \in 0..Len(rs) : Reader(Walk(rs)[n], S) /\ Placed(rs, n, Walk(rs)[n])
<1> DEFINE W == Walk(rs)
           T == {n \in 0..Len(rs) : Reader(W[n], S) /\ Placed(rs, n, W[n])}
<1>0. Len(rs) \in Nat
  OBVIOUS
<1>1. /\ W[0] = Start
      /\ \A n \in 1..Len(rs) : W[n] = Read(W[n - 1], rs[n])
  BY WalkUnfolds
<1>2. 0 \in T
  <2>1. Reader(Start, S) /\ Placed(rs, 0, Start)
    BY DEF Start, Reader, Placed, Times
  <2> HIDE DEF W
  <2> QED BY <1>0, <1>1, <2>1
<1>3. ASSUME NEW n \in 1..Len(rs), n - 1 \in T
      PROVE  n \in T
  <2>1. Reader(W[n - 1], S) /\ Placed(rs, n - 1, W[n - 1]) /\ rs[n] \in S /\ n \in 0..Len(rs)
    BY <1>3
  <2>2. W[n] = Read(W[n - 1], rs[n])
    BY <1>1
  <2>3. Reader(W[n], S)
    <3> HIDE DEF W
    <3> QED BY <2>1, <2>2, ReadStep
  <2>4. Placed(rs, n, W[n])
    BY <2>1, <2>2, PlacedStep
  <2> HIDE DEF W
  <2> QED BY <2>1, <2>3, <2>4
<1>4. \A n \in 0..Len(rs) : n \in T
  <2> HIDE DEF T
  <2> QED BY <1>0, <1>2, <1>3, InductionUpTo
<1> QED BY <1>4

(***************************************************************************)
(* The places of the records not refused are those the reader accepted;    *)
(* their commits are supported, and their times bounded by one another.    *)
(***************************************************************************)
LEMMA KeptPlaces ==
  ASSUME NEW S, \A r \in S : Readable(r), NEW rs \in Seq(S)
  PROVE  LET kept == Reading(rs).kept
         IN  /\ \A n \in DOMAIN rs :
                  Kept(rs, n) <=> IsFirst(rs, n) /\ \E k \in DOMAIN kept : kept[k] = rs[n]
             /\ \A c \in DOMAIN rs : Kept(rs, c) /\ rs[c].kind = "commit" =>
                  Supported(rs, c - 1, rs[c].thread)
             /\ \A i, j \in DOMAIN rs :
                  /\ Kept(rs, i) /\ Kept(rs, j) /\ i < j /\ rs[i].thread = rs[j].thread
                  /\ Precedes(rs[j].ts, rs[i].ts)
                  => \E q \in i..j : Unclocks(rs, q, rs[i].thread)
<1> DEFINE W == Walk(rs)
           N == Len(rs)
<1>0. N \in Nat /\ DOMAIN rs = 1..N
  OBVIOUS
<1>1. \A n \in 0..N : Reader(W[n], S) /\ Placed(rs, n, W[n])
  BY WalkPlaced
<1>2. Reading(rs) = W[N]
  BY WalkUnfolds
<1>3. \A n \in 1..N : n \in Nat /\ n - 1 \in 0..N /\ rs[n] \in S
  OBVIOUS
<1> HIDE DEF N
<1>4. ASSUME NEW n \in 1..N
      PROVE  Kept(rs, n) => IsFirst(rs, n) /\ rs[n].id # Malformed /\ WellFormed(rs[n])
  <2>1. Placed(rs, n - 1, W[n - 1])
    BY <1>1, <1>3
  <2>2. \A m \in 1..(n - 1) : rs[m].id # Malformed => rs[m].id \in W[n - 1].ids
    <3> HIDE DEF W
    <3> QED BY <2>1 DEF Placed
  <2> QED BY <2>2 DEF Kept, Accepted, Dated, IsFirst
<1>5. ASSUME NEW n \in 1..N
      PROVE  Kept(rs, n) <=> IsFirst(rs, n) /\ \E k \in DOMAIN W[N].kept : W[N].kept[k] = rs[n]
  <2>1. Placed(rs, N, W[N])
    BY <1>0, <1>1
  <2>2. /\ \A k \in DOMAIN W[N].kept : \E m \in 1..N : Kept(rs, m) /\ W[N].kept[k] = rs[m]
        /\ Kept(rs, n) => \E k \in DOMAIN W[N].kept : W[N].kept[k] = rs[n]
    <3> HIDE DEF W
    <3> QED BY <2>1 DEF Placed
  <2>3. ASSUME IsFirst(rs, n), NEW k \in DOMAIN W[N].kept, W[N].kept[k] = rs[n]
        PROVE  Kept(rs, n)
    <3>1. PICK m \in 1..N : Kept(rs, m) /\ rs[n] = rs[m]
      BY <2>2, <2>3
    <3>2. IsFirst(rs, m)
      BY <1>4, <3>1
    <3>3. m = n
      <4>1. m \in Nat /\ n \in Nat /\ (m < n \/ n < m \/ m = n)
        BY <1>3
      <4>2. ~(m < n)
        <5>1. m < n => m \in 1..(n - 1)
          BY <1>0, <4>1
        <5> QED BY <2>3, <3>1, <5>1 DEF IsFirst
      <4>3. ~(n < m)
        <5>1. n < m => n \in 1..(m - 1)
          BY <1>0, <4>1
        <5> QED BY <3>1, <3>2, <5>1 DEF IsFirst
      <4> QED BY <4>1, <4>2, <4>3
    <3> QED BY <3>1, <3>3
  <2> QED BY <1>4, <2>2, <2>3
<1>6. ASSUME NEW c \in 1..N, Kept(rs, c), rs[c].kind = "commit"
      PROVE  Supported(rs, c - 1, rs[c].thread)
  <2>1. Placed(rs, c - 1, W[c - 1])
    BY <1>1, <1>3
  <2>2. rs[c].thread \in W[c - 1].moved
    BY <1>6 DEF Kept, Accepted, Grounded
  <2> HIDE DEF W
  <2> QED BY <2>1, <2>2 DEF Placed
<1>7. ASSUME NEW i \in 1..N, NEW j \in 1..N, Kept(rs, i), Kept(rs, j), i < j,
             rs[i].thread = rs[j].thread, Precedes(rs[j].ts, rs[i].ts)
      PROVE  \E q \in i..j : Unclocks(rs, q, rs[i].thread)
  <2> DEFINE t == rs[i].thread  R == W[j - 1]
  <2>1. Placed(rs, j - 1, R) /\ Reader(R, S) /\ i \in 1..(j - 1)
    BY <1>1, <1>3, <1>7
  <2>2. ~Precedes(rs[j].ts, R.last[t]) /\ WellFormed(rs[j]) /\ WellFormed(rs[i])
    BY <1>7 DEF Kept, Accepted, Dated
  <2> HIDE DEF R
  <2>3. Bounds(rs, j - 1, i, rs[i].ts, R.last[t], t)
    BY <1>7, <2>1 DEF Placed
  <2>4. t \in Threads /\ rs[i].ts \in Times /\ rs[j].ts \in Times
    BY <1>3, <2>2 DEF WellFormed, Readable
  <2>5. R.last[t] \in Times
    BY <2>1, <2>4 DEF Reader
  <2> HIDE DEF t
  <2>6. ~(rs[i].ts # NaN /\ R.last[t] # NaN /\ rs[i].ts <= R.last[t])
    <3>1. SUFFICES ASSUME rs[i].ts # NaN, R.last[t] # NaN, rs[i].ts <= R.last[t]
                   PROVE  FALSE
      OBVIOUS
    <3>2. rs[j].ts # NaN /\ rs[j].ts < rs[i].ts
      BY <1>7 DEF Precedes
    <3>3. rs[i].ts \in Int /\ rs[j].ts \in Int /\ R.last[t] \in Int
      BY <2>4, <2>5, <3>1, <3>2 DEF Times
    <3>4. rs[j].ts < R.last[t]
      BY <3>1, <3>2, <3>3
    <3> QED BY <2>2, <3>1, <3>2, <3>4 DEF Precedes
  <2>7. PICK q \in i..(j - 1) : Unclocks(rs, q, t)
    BY <2>3, <2>6 DEF Bounds
  <2>8. q \in i..j
    BY <1>3
  <2> QED BY <2>7, <2>8 DEF t
<1> HIDE DEF W
<1> QED BY <1>0, <1>2, <1>5, <1>6, <1>7

-----------------------------------------------------------------------------
(* The gate and the assurance report. *)

(* The invariant is inductive: no call can separate the receipts from what *)
(* was applied through the gate.                                           *)
IInv == TypeOK /\ ReceiptsBindEffects /\ UnreceiptedIsBypassed

(* The digest of an object and its identifier have their types. *)
LEMMA DigestType ==
  ASSUME GateTypeOK, NEW o \in Objects
  PROVE  /\ Digest(o) \in Digests
         /\ IdOf[o] \in Ids
         /\ Digest(o) # NoReceipt
  BY CaptureAssumption DEF GateTypeOK, Digest, Digests, Ids

(* The gate's invariant holds initially. *)
LEMMA InitIInv == Init => IInv
  BY CaptureAssumption DEF Init, GateInit, IInv, TypeOK, GateTypeOK,
     ReceiptsBindEffects, UnreceiptedIsBypassed, ReceiptIds, AppliedIds, Ids

(* Applying an object adds its id, new to the store, and records what it is.*)
LEMMA Applying ==
  ASSUME GateTypeOK, NEW o \in Objects, Apply(o)
  PROVE  /\ AppliedIds' = AppliedIds \cup {IdOf[o]}
         /\ IdOf[o] \notin AppliedIds
         /\ applied' \subseteq Objects
         /\ enacted' \in [Ids -> Digests \cup {NoReceipt}]
         /\ enacted'[IdOf[o]] = Digest(o)
         /\ \A id \in Ids : id # IdOf[o] => enacted'[id] = enacted[id]
  BY DigestType DEF Apply, AppliedIds, GateTypeOK

(* Writing the receipt of o adds its id to the receipted ones.              *)
LEMMA Receipting ==
  ASSUME GateTypeOK, NEW o \in Objects,
         receipts' = [receipts EXCEPT ![IdOf[o]] = Digest(o)]
  PROVE  /\ ReceiptIds' = ReceiptIds \cup {IdOf[o]}
         /\ receipts' \in [Ids -> Digests \cup {NoReceipt}]
         /\ receipts'[IdOf[o]] = Digest(o)
         /\ \A id \in Ids : id # IdOf[o] => receipts'[id] = receipts[id]
  BY DigestType DEF ReceiptIds, GateTypeOK

(* The parts of the invariant that are about the gate. *)
GateInv == GateTypeOK /\ ReceiptsBindEffects /\ UnreceiptedIsBypassed

(* A step of the gate keeps its invariant and takes no effect back. *)
LEMMA GateStep ==
  ASSUME GateInv, GateNext
  PROVE  GateInv' /\ AppliedIds \subseteq AppliedIds'
<1>0. GateTypeOK /\ ReceiptsBindEffects /\ UnreceiptedIsBypassed
  BY DEF GateInv
<1>1. /\ ReceiptIds = AppliedIds \ bypassed
      /\ bypassed \subseteq AppliedIds
      /\ AppliedIds \subseteq Ids
  BY <1>0 DEF AppliedIds, GateTypeOK, Ids, UnreceiptedIsBypassed
<1>2. PICK o \in Objects :
        \/ Precommit(o)
        \/ \E pre \in precommitted : Execute(o, pre)
        \/ ExecuteViaGate(o)
        \/ ExecuteBypass(o)
        \/ \E c \in Contents : Mutate(o, c)
  BY DEF GateNext
<1>3. CASE Precommit(o)
  BY <1>0, <1>3, DigestType
     DEF Precommit, GateInv, GateTypeOK, ReceiptsBindEffects,
         UnreceiptedIsBypassed, ReceiptIds, AppliedIds
<1>4. ASSUME Apply(o), Digest(o) \in precommitted',
              precommitted \subseteq precommitted',
              receipts' = [receipts EXCEPT ![IdOf[o]] = Digest(o)],
              UNCHANGED bypassed
       PROVE  ReceiptsBindEffects' /\ UnreceiptedIsBypassed'
  <2>1. /\ AppliedIds' = AppliedIds \cup {IdOf[o]}
        /\ IdOf[o] \notin AppliedIds
        /\ enacted'[IdOf[o]] = Digest(o)
        /\ \A id \in Ids : id # IdOf[o] => enacted'[id] = enacted[id]
    BY <1>0, <1>4, Applying
  <2>2. /\ ReceiptIds' = ReceiptIds \cup {IdOf[o]}
        /\ receipts'[IdOf[o]] = Digest(o)
        /\ \A id \in Ids : id # IdOf[o] => receipts'[id] = receipts[id]
    BY <1>0, <1>4, Receipting
  <2>3. ReceiptsBindEffects'
    BY <1>0, <1>1, <1>4, <2>1, <2>2 DEF ReceiptsBindEffects
  <2>4. UnreceiptedIsBypassed'
    BY <1>1, <1>4, <2>1, <2>2 DEF UnreceiptedIsBypassed
  <2> QED BY <2>3, <2>4
<1>5. ASSUME NEW pre \in precommitted, Execute(o, pre)
      PROVE  GateInv' /\ AppliedIds \subseteq AppliedIds'
  <2>1. /\ Apply(o) /\ pre = Digest(o)
        /\ receipts' = [receipts EXCEPT ![IdOf[o]] = Digest(o)]
        /\ UNCHANGED <<content, precommitted, bypassed>>
    BY <1>5 DEF Execute, IsValidPrecommitment, Finalize
  <2>2. GateTypeOK'
    BY <1>0, <2>1, Applying, Receipting DEF GateTypeOK
  <2>3. ReceiptsBindEffects' /\ UnreceiptedIsBypassed'
    BY <1>4, <1>5, <2>1
  <2> QED BY <1>0, <2>1, <2>2, <2>3, Applying DEF GateInv
<1>6. CASE ExecuteViaGate(o)
  <2>1. /\ precommitted' = precommitted \cup {Digest(o)}
        /\ UNCHANGED <<content, bypassed>>
    BY <1>6 DEF ExecuteViaGate
  <2>2. CASE /\ Apply(o)
             /\ receipts' = [receipts EXCEPT ![IdOf[o]] = Digest(o)]
    <3>1. GateTypeOK'
      BY <1>0, <2>1, <2>2, DigestType, Applying, Receipting DEF GateTypeOK
    <3>2. ReceiptsBindEffects' /\ UnreceiptedIsBypassed'
      BY <1>4, <2>1, <2>2
    <3> QED BY <1>0, <2>2, <3>1, <3>2, Applying DEF GateInv
  <2>3. CASE UNCHANGED <<receipts, applied, enacted>>
    BY <1>0, <2>1, <2>3, DigestType
       DEF GateInv, GateTypeOK, ReceiptsBindEffects, UnreceiptedIsBypassed,
           ReceiptIds, AppliedIds
  <2> QED BY <1>6, <2>2, <2>3 DEF ExecuteViaGate, Finalize
<1>7. CASE ExecuteBypass(o)
  <2>1. /\ Apply(o) /\ bypassed' = bypassed \cup {IdOf[o]}
        /\ UNCHANGED <<content, precommitted, receipts>>
    BY <1>7 DEF ExecuteBypass
  <2>2. ReceiptIds' = ReceiptIds /\ IdOf[o] \notin ReceiptIds
    BY <1>0, <1>1, <2>1, Applying DEF ReceiptIds
  <2>3. GateTypeOK'
    BY <1>0, <2>1, Applying DEF GateTypeOK
  <2>4. ReceiptsBindEffects'
    BY <1>0, <1>1, <2>1, <2>2, Applying DEF ReceiptsBindEffects
  <2>5. UnreceiptedIsBypassed'
    BY <1>0, <1>1, <2>1, <2>2, Applying DEF UnreceiptedIsBypassed
  <2> QED BY <1>0, <2>1, <2>3, <2>4, <2>5, Applying DEF GateInv
<1>8. ASSUME NEW c \in Contents, Mutate(o, c)
      PROVE  GateInv' /\ AppliedIds \subseteq AppliedIds'
  BY <1>0, <1>8
     DEF Mutate, GateInv, GateTypeOK, ReceiptsBindEffects,
         UnreceiptedIsBypassed, ReceiptIds, AppliedIds
<1> QED BY <1>2, <1>3, <1>5, <1>6, <1>7, <1>8

(* What leaves the gate alone keeps its invariant. *)
LEMMA GateStutter ==
  ASSUME GateInv, UNCHANGED gateVars
  PROVE  GateInv' /\ AppliedIds' = AppliedIds
  BY DEF GateInv, gateVars, GateTypeOK, ReceiptsBindEffects,
         UnreceiptedIsBypassed, ReceiptIds, AppliedIds

(* Every step keeps the gate's invariant. *)
LEMMA NextIInv == IInv /\ [Next]_vars => IInv'
<1> SUFFICES ASSUME IInv, [Next]_vars PROVE IInv'
  OBVIOUS
<1>0. GateInv /\ TypeOK
  BY DEF IInv, TypeOK, GateInv
<1>1. ASSUME NEW r \in Records, Present(r) PROVE IInv'
  <2>1. GateInv' /\ AppliedIds' = AppliedIds
    BY <1>0, <1>1, GateStutter DEF Present
  <2>2. records' \in Seq(Records)
    BY <1>0, <1>1 DEF TypeOK, Present
  <2> QED BY <1>0, <1>1, <2>1, <2>2 DEF IInv, TypeOK, GateInv, Present
<1>2. CASE Act
  <2>1. GateInv' /\ AppliedIds \subseteq AppliedIds'
    BY <1>0, <1>2, GateStep DEF Act
  <2>2. calls' \in 0..MaxCalls
    BY <1>0, <1>2, CaptureAssumption DEF Act, TypeOK
  <2> QED BY <1>0, <1>2, <2>1, <2>2 DEF IInv, TypeOK, GateInv, Act
<1>3. CASE TakeInventory
  <2>1. GateInv' /\ AppliedIds' = AppliedIds
    BY <1>0, <1>3, GateStutter DEF TakeInventory
  <2> QED BY <1>0, <1>3, <2>1 DEF IInv, TypeOK, GateInv, TakeInventory
<1>4. CASE UNCHANGED vars
  <2>1. GateInv' /\ AppliedIds' = AppliedIds
    BY <1>0, <1>4, GateStutter DEF vars
  <2> QED BY <1>0, <1>4, <2>1 DEF IInv, TypeOK, GateInv, vars
<1> QED BY <1>1, <1>2, <1>3, <1>4 DEF Next

(* The invariant holds in every reachable state. *)
THEOREM CaptureInvariant == Spec => []IInv
<1> QED BY InitIInv, NextIInv, PTL DEF Spec

(* The gate, the trace and the inventory keep their types. *)
THEOREM CaptureTypes == Spec => []TypeOK
<1>1. IInv => TypeOK
  BY DEF IInv
<1> QED BY <1>1, CaptureInvariant, PTL

(***************************************************************************)
(* A receipt names the content that was precommitted and applied, however  *)
(* payloads change between the calls.                                      *)
(***************************************************************************)
THEOREM ReceiptsBind == Spec => []ReceiptsBindEffects
<1>1. IInv => ReceiptsBindEffects
  BY DEF IInv
<1> QED BY <1>1, CaptureInvariant, PTL

(***************************************************************************)
(* Exactly the effects that went through the gate are receipted, whatever  *)
(* ids agents use again.                                                   *)
(***************************************************************************)
THEOREM GateCaptures == Spec => []UnreceiptedIsBypassed
<1>1. IInv => UnreceiptedIsBypassed
  BY DEF IInv
<1> QED BY <1>1, CaptureInvariant, PTL

(***************************************************************************)
(* The report of assess_assurance accuses exactly the bypasses its         *)
(* inventory shows, for every trace, attestation and age of the inventory. *)
(***************************************************************************)
THEOREM ReportSound == Spec => []ReportNamesBypasses
<1>1. IInv => ReportNamesBypasses
  <2> SUFFICES ASSUME IInv, inventory # NoInventory, NEW attested \in BOOLEAN
               PROVE  LET report == AssessAssurance(records, ReceiptIds, inventory, attested)
                      IN  /\ report.missing = inventory \cap bypassed
                          /\ report.trace_valid =>
                               (report.capture_status = "violated"
                                  <=> inventory \cap bypassed # {})
    BY DEF ReportNamesBypasses
  <2>1. inventory \subseteq AppliedIds /\ ReceiptIds = AppliedIds \ bypassed
    BY DEF IInv, TypeOK, UnreceiptedIsBypassed
  <2>2. Missing(ReceiptIds, inventory) = inventory \cap bypassed
    BY <2>1 DEF Missing
  <2> QED BY <2>2 DEF AssessAssurance
<1> QED BY <1>1, CaptureInvariant, PTL

(* Every record the gate may write can be read. *)
LEMMA RecordsReadable == \A r \in Records : Readable(r)
  BY CaptureAssumption DEF RecordFields, Readable, Times

(***************************************************************************)
(* A trace passes validate_records exactly if no id occurs twice and each  *)
(* of its threads passes on its own, for any records and interleaving.     *)
(***************************************************************************)
THEOREM ThreadsDoNotInterfere == Spec => []ThreadsIndependent
<1>1. IInv => ThreadsIndependent
  <2> SUFFICES ASSUME IInv PROVE ThreadsIndependent
    OBVIOUS
  <2> DEFINE rs == records
             S == Records
  <2>1. rs \in Seq(S) /\ \A r \in S : Readable(r)
    BY RecordsReadable DEF IInv, TypeOK
  <2> HIDE DEF rs, S
  <2>2. ValidTrace(rs) <=> \A n \in DOMAIN rs : Acceptable(rs, n)
    BY <2>1, ValidTraceCharacterised
  <2>3. \A n \in DOMAIN rs : n \in 1..Len(rs) /\ n \in Nat /\ rs[n] \in S
    BY <2>1
  <2>4. ASSUME NEW t \in Threads
        PROVE  /\ OfThread(rs, t) \in Seq(S)
               /\ ValidTrace(OfThread(rs, t))
                    <=> \A k \in DOMAIN OfThread(rs, t) : Acceptable(OfThread(rs, t), k)
               /\ \E at : Sieved(OfThread(rs, t), at, rs, t, Len(rs))
    <3>1. OfThread(rs, t) \in Seq(S) /\ \E at : Sieved(OfThread(rs, t), at, rs, t, Len(rs))
      BY <2>1, ThreadIsSieved
    <3> QED BY <2>1, <3>1, ValidTraceCharacterised
  <2>5. ASSUME \A n \in DOMAIN rs : Acceptable(rs, n)
        PROVE  /\ DistinctIds(rs)
               /\ \A i \in DOMAIN rs : rs[i].thread \in Threads
               /\ \A t \in Threads : ValidTrace(OfThread(rs, t))
    <3>1. ASSUME NEW i \in DOMAIN rs, NEW j \in DOMAIN rs, rs[i].id = rs[j].id
          PROVE  i = j
      <4>1. i < j \/ j < i \/ i = j
        BY <2>3
      <4>2. ASSUME i < j PROVE FALSE
        <5>1. i \in 1..(j - 1) /\ Acceptable(rs, j)
          BY <2>3, <2>5, <4>2
        <5> QED BY <3>1, <5>1 DEF Acceptable
      <4>3. ASSUME j < i PROVE FALSE
        <5>1. j \in 1..(i - 1) /\ Acceptable(rs, i)
          BY <2>3, <2>5, <4>3
        <5> QED BY <3>1, <5>1 DEF Acceptable
      <4> QED BY <4>1, <4>2, <4>3
    <3>2. \A i \in DOMAIN rs : rs[i].thread \in Threads
      BY <2>1, <2>3, <2>5 DEF Acceptable, WellFormed, Readable
    <3>3. ASSUME NEW t \in Threads
          PROVE  ValidTrace(OfThread(rs, t))
      <4>1. PICK at : Sieved(OfThread(rs, t), at, rs, t, Len(rs))
        BY <2>4
      <4>2. ASSUME NEW k \in DOMAIN OfThread(rs, t)
            PROVE  Acceptable(OfThread(rs, t), k)
        <5>1. /\ at[k] \in DOMAIN rs
              /\ Acceptable(rs, at[k]) => Acceptable(OfThread(rs, t), k)
          BY <2>1, <2>4, <4>1, SievedAcceptable
        <5> QED BY <2>5, <5>1
      <4> QED BY <2>4, <4>2
    <3> QED BY <3>1, <3>2, <3>3 DEF DistinctIds
  <2>6. ASSUME DistinctIds(rs),
               \A i \in DOMAIN rs : rs[i].thread \in Threads,
               \A t \in Threads : ValidTrace(OfThread(rs, t)),
               NEW n \in DOMAIN rs
        PROVE  Acceptable(rs, n)
    <3>1. PICK t \in Threads : t = rs[n].thread
      BY <2>6
    <3>2. PICK at : Sieved(OfThread(rs, t), at, rs, t, Len(rs))
      BY <2>4
    <3>3. PICK k \in 1..Len(OfThread(rs, t)) : at[k] = n
      BY <2>3, <3>1, <3>2 DEF Sieved
    <3>4. k \in DOMAIN OfThread(rs, t)
      BY <2>4
    <3>5. Acceptable(OfThread(rs, t), k)
      BY <2>4, <2>6, <3>4
    <3> QED BY <2>1, <2>4, <2>6, <3>2, <3>3, <3>4, <3>5, SievedAcceptable
  <2> QED BY <2>2, <2>5, <2>6 DEF ThreadsIndependent, rs
<1> QED BY <1>1, CaptureInvariant, PTL

(***************************************************************************)
(* Commits that validate_records does not refuse rest on earlier           *)
(* transitions and senses it does not refuse, for any records and whatever *)
(* was refused between them; only across a time of NaN do the records not  *)
(* refused go back in time, and without one they are a valid trace.        *)
(***************************************************************************)
THEOREM KeptRecordsAreCausal == Spec => []KeptIsCausal
<1>1. IInv => KeptIsCausal
  <2> SUFFICES ASSUME IInv PROVE KeptIsCausal
    OBVIOUS
  <2> DEFINE rs == records
             kept == Reading(rs).kept
             S == Records
             places == PlacesOf(kept)
  <2>1. rs \in Seq(S) /\ \A r \in S : Readable(r)
    BY RecordsReadable DEF IInv, TypeOK
  <2>2. \A n : n \in places <=> n \in DOMAIN rs /\ Kept(rs, n)
    <3>1. \A n \in DOMAIN rs :
            Kept(rs, n) <=> IsFirst(rs, n) /\ \E k \in DOMAIN kept : kept[k] = rs[n]
      BY <2>1, KeptPlaces
    <3> HIDE DEF kept
    <3> QED BY <3>1 DEF PlacesOf, First, IsFirst
  <2>3. ASSUME NEW c \in places, rs[c].kind = "commit"
        PROVE  \E s, m \in places :
                 /\ s < m /\ m < c
                 /\ rs[s].kind = "sense" /\ rs[m].kind = "transition"
                 /\ rs[s].thread = rs[c].thread
                 /\ rs[m].thread = rs[c].thread
    <3>1. Supported(rs, c - 1, rs[c].thread) /\ c \in DOMAIN rs
      BY <2>1, <2>2, <2>3, KeptPlaces
    <3>2. DOMAIN rs = 1..Len(rs) /\ Len(rs) \in Nat
      BY <2>1
    <3>3. \A m \in 1..(c - 1) : m \in DOMAIN rs /\ m < c
      BY <3>1, <3>2
    <3> HIDE DEF places, rs
    <3> QED BY <2>2, <3>1, <3>3 DEF Supported
  <2>4. ASSUME NEW i \in places, NEW j \in places, i < j, rs[i].thread = rs[j].thread,
               Precedes(rs[j].ts, rs[i].ts)
        PROVE  \E n \in i..j : Timed(n) /\ rs[n].thread = rs[i].thread /\ rs[n].ts = NaN
    <3>1. \E n \in i..j : Unclocks(rs, n, rs[i].thread)
      BY <2>1, <2>2, <2>4, KeptPlaces
    <3> QED BY <3>1 DEF Unclocks, Timed, First, IsFirst
  <2>5. ASSUME \A n \in DOMAIN rs : rs[n].ts # NaN
        PROVE  ValidTrace(kept)
    <3> DEFINE U == {r \in S : r.ts # NaN}
    <3>1. rs \in Seq(U)
      <4>1. Len(rs) \in Nat /\ rs = [n \in 1..Len(rs) |-> rs[n]] /\ \A n \in 1..Len(rs) : rs[n] \in U
        BY <2>1, <2>5
      <4> HIDE DEF U, rs
      <4> QED BY <4>1
    <3>2. \A r \in U : Readable(r) /\ r.ts # NaN
      BY <2>1
    <3> HIDE DEF U, rs
    <3>3. kept \in Seq(U) /\ \A k \in DOMAIN kept : Acceptable(kept, k)
      BY <3>1, <3>2, KeptIsAcceptableTrace
    <3> QED BY <3>2, <3>3, ValidTraceCharacterised
  <2> HIDE DEF kept, places
  <2> QED BY <2>3, <2>4, <2>5 DEF KeptIsCausal, kept, places
<1> QED BY <1>1, CaptureInvariant, PTL

-----------------------------------------------------------------------------
(* The audit of two sources. *)

(***************************************************************************)
(* Every record made has its own id and is one a source could make, and    *)
(* what arrived are such records, stamped.                                 *)
(***************************************************************************)
MadeRecord(r) ==
  /\ r = [id |-> r.id, kind |-> r.kind, thread |-> r.thread, ts |-> r.ts,
          source |-> r.source, side |-> r.side, correlation |-> r.correlation,
          digest |-> r.digest]
  /\ r.source \in Sources /\ r.thread = r.source /\ r.ts \in Nat
  /\ r.correlation \in Correlations

Arrivals == {Observed(r, at) : r \in made, at \in Nat}

AuditInv ==
  /\ now \in Nat
  /\ IsFiniteSet(made)
  /\ \A r \in made : MadeRecord(r) /\ r.id \in 1..Cardinality(made)
  /\ \A r, q \in made : r.id = q.id => r = q
  /\ supplied \in Seq(Arrivals)

(* The auditor's invariant holds initially. *)
LEMMA AuditInitInv == AuditInit => AuditInv
<1> SUFFICES ASSUME AuditInit PROVE AuditInv
  OBVIOUS
<1>1. IsFiniteSet({}) /\ now = 0 /\ made = {} /\ supplied = << >>
  BY FS_EmptySet DEF AuditInit
<1> QED BY <1>1 DEF AuditInv

(* Every step keeps the auditor's invariant. *)
LEMMA AuditStep == AuditInv /\ [AuditNext]_auditVars => AuditInv'
<1> SUFFICES ASSUME AuditInv, [AuditNext]_auditVars PROVE AuditInv'
  OBVIOUS
<1>0. /\ now \in Nat /\ IsFiniteSet(made) /\ supplied \in Seq(Arrivals)
      /\ \A r \in made : MadeRecord(r) /\ r.id \in 1..Cardinality(made)
      /\ \A r, q \in made : r.id = q.id => r = q
  BY DEF AuditInv
<1>1. ASSUME NEW source \in Sources, NEW side \in DOMAIN SourceOf, NEW k \in Correlations,
             NEW digest \in ActionDigests, Record(source, side, k, digest)
      PROVE  AuditInv'
  <2> DEFINE n == Cardinality(made)
             r == [id |-> n + 1, kind |-> "sense", thread |-> source,
                   ts |-> ClockOf(source), source |-> source, side |-> side,
                   correlation |-> k, digest |-> digest]
  <2>1. made' = made \cup {r} /\ now' = now /\ supplied' = supplied
    BY <1>1 DEF Record
  <2>2. n \in Nat
    BY <1>0, FS_CardinalityType
  <2>3. ClockOf(source) \in Nat
    BY <1>0 DEF ClockOf
  <2>4. r.id = n + 1 /\ MadeRecord(r)
    BY <2>3 DEF MadeRecord
  <2> HIDE DEF r, n
  <2>5. r \notin made
    BY <1>0, <2>2, <2>4 DEF n
  <2>6. IsFiniteSet(made') /\ Cardinality(made') = n + 1
    BY <1>0, <2>1, <2>5, FS_AddElement DEF n
  <2>7. \A q \in made' : MadeRecord(q) /\ q.id \in 1..Cardinality(made')
    <3>1. \A q \in made : MadeRecord(q) /\ q.id \in 1..n
      BY <1>0 DEF n
    <3>2. \A i \in 1..n : i \in 1..(n + 1)
      BY <2>2
    <3>3. n + 1 \in 1..(n + 1)
      BY <2>2
    <3> QED BY <2>1, <2>4, <2>6, <3>1, <3>2, <3>3
  <2>8. \A p, q \in made' : p.id = q.id => p = q
    <3>1. \A q \in made : q.id # n + 1
      BY <1>0, <2>2 DEF n
    <3> QED BY <1>0, <2>1, <2>4, <3>1
  <2>9. supplied' \in Seq(Arrivals')
    <3>1. Arrivals \subseteq Arrivals'
      BY <2>1 DEF Arrivals, Observed
    <3> QED BY <1>0, <2>1, <3>1
  <2> QED BY <1>0, <2>1, <2>6, <2>7, <2>8, <2>9 DEF AuditInv
<1>2. ASSUME NEW r \in made, Deliver(r)
      PROVE  AuditInv'
  <2>1. supplied' = Append(supplied, Observed(r, now)) /\ now' = now /\ made' = made
    BY <1>2 DEF Deliver
  <2>2. Arrivals' = Arrivals /\ Observed(r, now) \in Arrivals
    BY <1>0, <2>1 DEF Arrivals, Observed
  <2>3. supplied' \in Seq(Arrivals)
    BY <1>0, <2>1, <2>2
  <2> QED BY <1>0, <2>1, <2>2, <2>3 DEF AuditInv
<1>3. CASE Tick
  <2>1. now' = now + 1 /\ made' = made /\ supplied' = supplied /\ Arrivals' = Arrivals
    BY <1>3 DEF Tick, Arrivals, Observed
  <2> QED BY <1>0, <2>1 DEF AuditInv
<1>4. CASE UNCHANGED auditVars
  <2>1. now' = now /\ made' = made /\ supplied' = supplied /\ Arrivals' = Arrivals
    BY <1>4 DEF auditVars, Arrivals, Observed
  <2> QED BY <1>0, <2>1 DEF AuditInv
<1> QED BY <1>1, <1>2, <1>3, <1>4 DEF AuditNext

(* What arrived: its fields are those of a record made. *)
LEMMA ArrivalFields ==
  ASSUME AuditInv, NEW a \in Arrivals
  PROVE  /\ Readable(a) /\ a.correlation \in Correlations
         /\ \E r \in made : /\ r.id = a.id /\ r.source = a.source
                            /\ r.correlation = a.correlation /\ r.digest = a.digest
<1>1. PICK r \in made, at \in Nat : a = Observed(r, at)
  BY DEF Arrivals
<1>2. MadeRecord(r)
  BY DEF AuditInv
<1>3. /\ a.id = r.id /\ a.source = r.source /\ a.thread = r.thread /\ a.ts = r.ts
      /\ a.correlation = r.correlation /\ a.digest = r.digest
  BY <1>1 DEF Observed
<1>4. Threads = Sources
  BY AuditAssumption
<1> QED BY <1>2, <1>3, <1>4 DEF MadeRecord, Readable, Times

(* A valid trace names no id twice, and what it starts with is valid.       *)
LEMMA ValidTraceIds ==
  ASSUME NEW S, \A r \in S : Readable(r), NEW rs \in Seq(S), ValidTrace(rs),
         NEW i \in DOMAIN rs, NEW j \in DOMAIN rs, i # j
  PROVE  rs[i].id # rs[j].id
<1>1. \A n \in DOMAIN rs : Acceptable(rs, n)
  BY ValidTraceCharacterised
<1>2. i \in Nat /\ j \in Nat /\ (i < j \/ j < i) /\ i >= 1 /\ j >= 1
  OBVIOUS
<1>3. CASE i < j
  <2>1. i \in 1..(j - 1) /\ Acceptable(rs, j)
    BY <1>1, <1>2, <1>3
  <2> QED BY <2>1 DEF Acceptable
<1>4. CASE j < i
  <2>1. j \in 1..(i - 1) /\ Acceptable(rs, i)
    BY <1>1, <1>2, <1>4
  <2> QED BY <2>1 DEF Acceptable
<1> QED BY <1>2, <1>3, <1>4

(* A valid trace is valid without its last record. *)
LEMMA ValidTraceShorter ==
  ASSUME NEW S, \A r \in S : Readable(r), NEW rs \in Seq(S), NEW r \in S,
         ValidTrace(Append(rs, r))
  PROVE  ValidTrace(rs)
<1> DEFINE more == Append(rs, r)
<1>1. /\ more \in Seq(S) /\ \A n \in DOMAIN rs : n \in DOMAIN more
      /\ \A n \in DOMAIN rs : \A m \in 1..n : rs[m] = more[m]
  OBVIOUS
<1> HIDE DEF more
<1>2. \A n \in DOMAIN more : Acceptable(more, n)
  BY <1>1, ValidTraceCharacterised DEF more
<1>3. \A n \in DOMAIN rs : Acceptable(rs, n)
  BY <1>1, <1>2, AcceptableInPrefix
<1> QED BY <1>3, ValidTraceCharacterised

-----------------------------------------------------------------------------
(* The report of assess_cross_source, from the parts it is made of. *)

Scope(rs, c) == {r \in Range(rs) : MeetsProfile(r, c) /\ InScope(r, c)}
Late(rs, c) == {r \in Range(rs) : MeetsProfile(r, c) /\ ~InScope(r, c)}

Evaluable(rs, c) ==
  /\ \A r \in Range(rs) : MeetsProfile(r, c)
  /\ ~DuplicateSide(Scope(rs, c))
  /\ Scope(rs, c) # {}

Actions(scoped) == {r.correlation : r \in scoped}
Unpaired(scoped, c) == {k \in Actions(scoped) : MissingSides(scoped, k, c) # {}}
Conflicting(scoped, c) ==
  {k \in Actions(scoped) \ Unpaired(scoped, c) : Cardinality(DigestsOf(scoped, k)) > 1}
MissingPairs(scoped, c) == {<<k, MissingSides(scoped, k, c)>> : k \in Unpaired(scoped, c)}

Conclusion(scoped, c) ==
  IF Conflicting(scoped, c) # {} \/ (Unpaired(scoped, c) # {} /\ c.final) THEN "violated"
  ELSE IF ~c.final THEN "insufficient-snapshot-finality"
  ELSE "consistent-in-supplied-snapshots"

Reported(valid, evaluable, scoped, late, c) ==
  IF ~valid
  THEN [status |-> "invalid-trace", matched |-> {}, missing |-> {}, conflicts |-> {},
        excluded |-> {}]
  ELSE IF ~evaluable
  THEN [status |-> "not-evaluable", matched |-> {}, missing |-> {}, conflicts |-> {},
        excluded |-> late]
  ELSE [status |-> Conclusion(scoped, c),
        matched |-> Actions(scoped) \ (Unpaired(scoped, c) \cup Conflicting(scoped, c)),
        missing |-> MissingPairs(scoped, c),
        conflicts |-> Conflicting(scoped, c), excluded |-> late]

(* The assessment as a function of its named parts. *)
LEMMA AssessmentParts ==
  ASSUME NEW rs, NEW c
  PROVE  AssessCrossSource(rs, c)
           = Reported(ValidSupplied(rs), Evaluable(rs, c), Scope(rs, c), Late(rs, c), c)
  BY Zenon DEF AssessCrossSource, Reported, Evaluable, Scope, Late, Actions, Unpaired,
               Conflicting, MissingPairs, Conclusion

(* What a conclusion about actions presupposes. *)
LEMMA ConclusionIsEvaluated ==
  ASSUME NEW rs, NEW c
  PROVE  LET report == AssessCrossSource(rs, c)
         IN  /\ ~ValidSupplied(rs) => report.status = "invalid-trace" /\ report.missing = {}
             /\ ValidSupplied(rs) /\ ~Evaluable(rs, c) =>
                  report.status = "not-evaluable" /\ report.missing = {}
             /\ ValidSupplied(rs) /\ Evaluable(rs, c) =>
                  /\ report.status = Conclusion(Scope(rs, c), c)
                  /\ report.missing = MissingPairs(Scope(rs, c), c)
                  /\ report.excluded = Late(rs, c)
  BY AssessmentParts DEF Reported

(***************************************************************************)
(* Retries and repeated deliveries never decide, for any sources, actions  *)
(* and order of arrival.                                                   *)
(***************************************************************************)
THEOREM RetriesDecideNothing == AuditSpec => []RetriesNeverDecide
<1>1. AuditInv => RetriesNeverDecide
  <2> SUFFICES ASSUME AuditInv, NEW i \in DOMAIN supplied, NEW j \in DOMAIN supplied, i # j,
                      supplied[i].correlation = supplied[j].correlation,
                      supplied[i].side = supplied[j].side,
                      InScope(supplied[i], Comparison(TRUE)),
                      InScope(supplied[j], Comparison(TRUE)),
                      NEW final \in BOOLEAN
               PROVE  Audit(final).status \in {"invalid-trace", "not-evaluable"}
    BY Zenon DEF RetriesNeverDecide
  <2> DEFINE rs == supplied
             c == Comparison(final)
  <2>1. rs \in Seq(Arrivals) /\ \A r \in Arrivals : Readable(r)
    BY ArrivalFields DEF AuditInv
  <2>2. InScope(rs[i], c) /\ InScope(rs[j], c)
    BY DEF InScope, Comparison
  <2>3. rs[i] \in Range(rs) /\ rs[j] \in Range(rs)
    BY DEF Range
  <2> HIDE DEF rs, c
  <2>4. SUFFICES ASSUME ValidSupplied(rs) PROVE ~Evaluable(rs, c)
    BY ConclusionIsEvaluated DEF Audit, rs, c
  <2>5. rs[i] # rs[j]
    BY <2>1, <2>4, ValidTraceIds DEF rs, ValidSupplied
  <2>6. SUFFICES ASSUME \A r \in Range(rs) : MeetsProfile(r, c)
                 PROVE  DuplicateSide(Scope(rs, c))
    BY DEF Evaluable
  <2>7. rs[i] \in Scope(rs, c) /\ rs[j] \in Scope(rs, c)
    BY <2>2, <2>3, <2>6 DEF Scope
  <2> QED BY <2>5, <2>7 DEF DuplicateSide, rs
<1> QED BY <1>1, AuditInitInv, AuditStep, PTL DEF AuditSpec

(* Two digests were counted, so there are two. *)
LEMMA TwoDigests ==
  ASSUME NEW D, Cardinality(D) > 1
  PROVE  \E x, y \in D : x # y
<1> SUFFICES ASSUME \A x, y \in D : x = y PROVE FALSE
  OBVIOUS
<1>1. CASE D = {}
  BY <1>1, FS_EmptySet
<1>2. CASE D # {}
  <2>1. PICK x \in D : D = {x}
    BY <1>2
  <2> QED BY <2>1, FS_Singleton
<1> QED BY <1>1, <1>2

(***************************************************************************)
(* Accusations are real, and late is not missing, for any sources and      *)
(* whatever the channel does to the records.                               *)
(***************************************************************************)
THEOREM AccusationsAreFounded == AuditSpec => []AccusationsAreReal
<1>1. AuditInv => AccusationsAreReal
  <2> SUFFICES ASSUME AuditInv, NEW final \in BOOLEAN
               PROVE  /\ Audit(final).status = "violated" =>
                           \E k \in Correlations :
                             RecordedDifferently(k) \/ (final /\ RecordedByOne(k))
                      /\ \A m \in Audit(final).missing : \A i \in DOMAIN supplied :
                           supplied[i].correlation = m[1] /\ supplied[i].side \in m[2]
                             => supplied[i] \in Audit(final).excluded
    BY Zenon DEF AccusationsAreReal
  <2> DEFINE rs == supplied
             c == Comparison(final)
             sc == Scope(rs, c)
  <2>1. rs \in Seq(Arrivals)
    BY DEF AuditInv
  <2>2. /\ c.sources = SourceOf /\ c.final = final
        /\ \A r : InScope(r, Comparison(TRUE)) <=> InScope(r, c)
    BY DEF Comparison, InScope
  <2>3. Audit(final) = AssessCrossSource(rs, c)
    BY DEF Audit
  <2> HIDE DEF rs, c, sc
  <2>4. ASSUME NEW a \in sc
        PROVE  /\ \E i \in DOMAIN rs : rs[i] = a
               /\ a \in Arrivals /\ a.correlation \in Correlations
               /\ InScope(a, c)
               /\ a.side \in DOMAIN SourceOf /\ a.source = SourceOf[a.side]
               /\ \E r \in RecordsOf(a.correlation, a.source) :
                    r.id = a.id /\ r.digest = a.digest
    <3>1. a \in Range(rs) /\ MeetsProfile(a, c) /\ InScope(a, c)
      BY DEF sc, Scope
    <3>2. PICK i \in DOMAIN rs : rs[i] = a
      BY <3>1 DEF Range
    <3>3. a \in Arrivals
      BY <2>1, <3>2
    <3>4. PICK r \in made : /\ r.id = a.id /\ r.source = a.source
                            /\ r.correlation = a.correlation /\ r.digest = a.digest
      BY <3>3, ArrivalFields
    <3>5. r \in RecordsOf(a.correlation, a.source)
      BY <3>4 DEF RecordsOf
    <3>6. a.correlation \in Correlations
      BY <3>3, ArrivalFields
    <3> QED BY <2>2, <3>1, <3>2, <3>3, <3>4, <3>5, <3>6 DEF MeetsProfile
  <2>5. ASSUME Audit(final).status = "violated"
        PROVE  \E k \in Correlations : RecordedDifferently(k) \/ (final /\ RecordedByOne(k))
    <3>1. Evaluable(rs, c) /\ Conclusion(sc, c) = "violated"
      BY <2>3, <2>5, ConclusionIsEvaluated DEF sc
    <3>2. Conflicting(sc, c) # {} \/ (Unpaired(sc, c) # {} /\ final)
      BY <2>2, <3>1 DEF Conclusion
    <3>3. ASSUME NEW k \in Conflicting(sc, c)
          PROVE  k \in Correlations /\ RecordedDifferently(k)
      <4>1. Cardinality(DigestsOf(sc, k)) > 1
        BY DEF Conflicting
      <4>2. PICK x \in DigestsOf(sc, k), y \in DigestsOf(sc, k) : x # y
        BY <4>1, TwoDigests
      <4>3. PICK a \in sc, b \in sc : /\ a.correlation = k /\ b.correlation = k
                                      /\ a.digest = x /\ b.digest = y
        BY DEF DigestsOf
      <4>4. a # b /\ ~DuplicateSide(sc)
        BY <3>1, <4>2, <4>3 DEF Evaluable, sc
      <4>5. a.side # b.side
        BY <4>3, <4>4 DEF DuplicateSide
      <4>6. a.source # b.source /\ a.source \in Sources /\ b.source \in Sources
        <5>1. /\ a.side \in DOMAIN SourceOf /\ a.source = SourceOf[a.side]
              /\ b.side \in DOMAIN SourceOf /\ b.source = SourceOf[b.side]
          BY <2>4
        <5>2. \A s, t \in DOMAIN SourceOf : SourceOf[s] = SourceOf[t] => s = t
          BY AuditAssumption
        <5> QED BY <4>5, <5>1, <5>2 DEF Sources, Range
      <4>7. PICK r \in RecordsOf(k, a.source), q \in RecordsOf(k, b.source) :
              r.digest = x /\ q.digest = y
        BY <2>4, <4>3
      <4> QED BY <2>4, <4>2, <4>3, <4>6, <4>7 DEF RecordedDifferently
    <3>4. ASSUME NEW k \in Unpaired(sc, c)
          PROVE  k \in Correlations /\ RecordedByOne(k)
      <4>1. PICK a \in sc : a.correlation = k
        BY DEF Unpaired, Actions
      <4>2. PICK side \in DOMAIN SourceOf : OfSide(sc, k, side) = {}
        BY <2>2 DEF Unpaired, MissingSides
      <4> DEFINE t == SourceOf[side]
      <4>3. a.source \in Sources /\ t \in Sources
        BY <2>4 DEF Sources, Range
      <4>4. PICK r \in RecordsOf(k, a.source) : ArrivedInTime(r)
        <5>1. PICK r \in RecordsOf(k, a.source) : r.id = a.id
          BY <2>4, <4>1
        <5>2. PICK i \in DOMAIN rs : rs[i] = a
          BY <2>4
        <5>3. i \in DOMAIN supplied /\ supplied[i].id = r.id
              /\ InScope(supplied[i], Comparison(TRUE))
          BY <2>2, <2>4, <5>1, <5>2 DEF rs
        <5>4. ArrivedInTime(r)
          BY <5>3 DEF ArrivedInTime
        <5> QED BY <5>4
      <4>5. ASSUME NEW b \in RecordsOf(k, t), ArrivedInTime(b)
            PROVE  FALSE
        <5>1. PICK i \in DOMAIN rs : rs[i].id = b.id /\ InScope(rs[i], c)
          BY <2>2, <4>5 DEF ArrivedInTime, rs
        <5>2. rs[i] \in Arrivals /\ rs[i] \in Range(rs)
          BY <2>1 DEF Range
        <5>3. PICK q \in made : /\ q.id = rs[i].id /\ q.source = rs[i].source
                                /\ q.correlation = rs[i].correlation
          BY <5>2, ArrivalFields
        <5>4. q = b
          BY <5>1, <5>3 DEF AuditInv, RecordsOf
        <5>5. rs[i].correlation = k /\ rs[i].source = t
          BY <5>3, <5>4 DEF RecordsOf
        <5>6. MeetsProfile(rs[i], c)
          BY <3>1, <5>2 DEF Evaluable
        <5>7. rs[i].side = side
          <6>1. rs[i].side \in DOMAIN SourceOf /\ SourceOf[rs[i].side] = SourceOf[side]
            BY <2>2, <5>5, <5>6 DEF MeetsProfile
          <6> QED BY <6>1, AuditAssumption
        <5>8. rs[i] \in OfSide(sc, k, side)
          BY <5>1, <5>2, <5>5, <5>6, <5>7 DEF OfSide, sc, Scope
        <5> QED BY <4>2, <5>8
      <4> QED BY <2>4, <4>1, <4>3, <4>4, <4>5 DEF RecordedByOne
    <3> QED BY <3>2, <3>3, <3>4
  <2>6. ASSUME NEW m \in Audit(final).missing, NEW i \in DOMAIN rs,
               rs[i].correlation = m[1], rs[i].side \in m[2]
        PROVE  rs[i] \in Audit(final).excluded
    <3>1. ValidSupplied(rs) /\ Evaluable(rs, c)
      BY <2>3, <2>6, ConclusionIsEvaluated
    <3>2. m \in MissingPairs(sc, c) /\ Audit(final).excluded = Late(rs, c)
      BY <2>3, <2>6, <3>1, ConclusionIsEvaluated DEF sc
    <3>3. PICK k \in Unpaired(sc, c) : m = <<k, MissingSides(sc, k, c)>>
      BY <3>2 DEF MissingPairs
    <3>4. rs[i].correlation = k /\ rs[i].side \in MissingSides(sc, k, c)
      BY <2>6, <3>3
    <3>5. rs[i] \notin sc
      BY <3>4 DEF MissingSides, OfSide
    <3>6. rs[i] \in Range(rs) /\ MeetsProfile(rs[i], c)
      BY <3>1 DEF Range, Evaluable
    <3> QED BY <3>2, <3>5, <3>6 DEF Late, sc, Scope
  <2> QED BY <2>5, <2>6 DEF rs
<1> QED BY <1>1, AuditInitInv, AuditStep, PTL DEF AuditSpec

(* A record out of scope adds itself to the excluded ones and does nothing else. *)
LEMMA LateRecordExcluded ==
  ASSUME NEW S, \A r \in S : Readable(r), NEW rs \in Seq(S), NEW q \in S, NEW c,
         ValidSupplied(Append(rs, q)), MeetsProfile(q, c), ~InScope(q, c)
  PROVE  AssessCrossSource(Append(rs, q), c)
           = [AssessCrossSource(rs, c) EXCEPT !.excluded = @ \cup {q}]
<1> DEFINE more == Append(rs, q)
<1>1. Range(more) = Range(rs) \cup {q}
  <2>1. /\ DOMAIN more = DOMAIN rs \cup {Len(rs) + 1} /\ more[Len(rs) + 1] = q
        /\ \A n \in DOMAIN rs : more[n] = rs[n]
    OBVIOUS
  <2> HIDE DEF more
  <2> QED BY <2>1 DEF Range
<1>2. ValidSupplied(rs) /\ ValidSupplied(more)
  <2>1. ValidTrace(rs)
    BY ValidTraceShorter DEF ValidSupplied
  <2> HIDE DEF more
  <2>2. \A r \in Range(rs) : r \in Range(more)
    BY <1>1
  <2> QED BY <2>1, <2>2 DEF ValidSupplied, more
<1> HIDE DEF more
<1>3. Scope(more, c) = Scope(rs, c)
  BY <1>1 DEF Scope
<1>4. Late(more, c) = Late(rs, c) \cup {q}
  BY <1>1 DEF Late
<1>5. Evaluable(more, c) <=> Evaluable(rs, c)
  BY <1>1, <1>3 DEF Evaluable
<1> DEFINE sc == Scope(rs, c)
           late == Late(rs, c)
<1>6. AssessCrossSource(rs, c) = Reported(TRUE, Evaluable(rs, c), sc, late, c)
  BY <1>2, AssessmentParts
<1>7. AssessCrossSource(more, c) = Reported(TRUE, Evaluable(rs, c), sc, late \cup {q}, c)
  <2>1. AssessCrossSource(more, c)
          = Reported(ValidSupplied(more), Evaluable(more, c), Scope(more, c), Late(more, c), c)
    BY AssessmentParts
  <2>2. ValidSupplied(more) = TRUE /\ Evaluable(more, c) = Evaluable(rs, c)
    BY <1>2, <1>5 DEF ValidSupplied, Evaluable
  <2> QED BY <1>3, <1>4, <2>1, <2>2
<1>8. Reported(TRUE, Evaluable(rs, c), sc, late \cup {q}, c)
        = [Reported(TRUE, Evaluable(rs, c), sc, late, c) EXCEPT !.excluded = @ \cup {q}]
  <2> HIDE DEF sc, late
  <2>1. CASE Evaluable(rs, c)
    <3> DEFINE st == Conclusion(sc, c)
               ma == Actions(sc) \ (Unpaired(sc, c) \cup Conflicting(sc, c))
               mi == MissingPairs(sc, c)
               co == Conflicting(sc, c)
    <3>1. Reported(TRUE, Evaluable(rs, c), sc, late, c)
            = [status |-> st, matched |-> ma, missing |-> mi, conflicts |-> co,
               excluded |-> late]
      BY <2>1 DEF Reported
    <3>2. Reported(TRUE, Evaluable(rs, c), sc, late \cup {q}, c)
            = [status |-> st, matched |-> ma, missing |-> mi, conflicts |-> co,
               excluded |-> late \cup {q}]
      BY <2>1 DEF Reported
    <3> HIDE DEF st, ma, mi, co
    <3>3. PICK R : R = Reported(TRUE, Evaluable(rs, c), sc, late, c)
      OBVIOUS
    <3>4. R = [status |-> st, matched |-> ma, missing |-> mi, conflicts |-> co,
               excluded |-> late]
      BY <3>1, <3>3
    <3>5. [R EXCEPT !.excluded = @ \cup {q}]
            = [status |-> st, matched |-> ma, missing |-> mi, conflicts |-> co,
               excluded |-> late \cup {q}]
      <4>1. R.excluded = late
        BY <3>4
      <4>2. PICK l : l = late \cup {q}
        OBVIOUS
      <4>3. [R EXCEPT !.excluded = l]
              = [status |-> st, matched |-> ma, missing |-> mi, conflicts |-> co,
                 excluded |-> l]
        BY <3>4
      <4> QED BY <4>1, <4>2, <4>3
    <3> QED BY <3>2, <3>3, <3>5
  <2>2. CASE ~Evaluable(rs, c)
    <3> DEFINE ne == "not-evaluable"
               no == {}
    <3>1. Reported(TRUE, Evaluable(rs, c), sc, late, c)
            = [status |-> ne, matched |-> no, missing |-> no,
               conflicts |-> no, excluded |-> late]
      BY <2>2 DEF Reported
    <3>2. Reported(TRUE, Evaluable(rs, c), sc, late \cup {q}, c)
            = [status |-> ne, matched |-> no, missing |-> no,
               conflicts |-> no, excluded |-> late \cup {q}]
      BY <2>2 DEF Reported
    <3> HIDE DEF ne, no
    <3>3. PICK R : R = Reported(TRUE, Evaluable(rs, c), sc, late, c)
      OBVIOUS
    <3>4. R = [status |-> ne, matched |-> no, missing |-> no, conflicts |-> no,
               excluded |-> late]
      BY <3>1, <3>3
    <3>5. [R EXCEPT !.excluded = @ \cup {q}]
            = [status |-> ne, matched |-> no, missing |-> no, conflicts |-> no,
               excluded |-> late \cup {q}]
      <4>1. R.excluded = late
        BY <3>4
      <4>2. PICK l : l = late \cup {q}
        OBVIOUS
      <4>3. [R EXCEPT !.excluded = l]
              = [status |-> ne, matched |-> no, missing |-> no, conflicts |-> no,
                 excluded |-> l]
        BY <3>4
      <4> QED BY <4>1, <4>2, <4>3
    <3> QED BY <3>2, <3>3, <3>5
  <2> QED BY <2>1, <2>2
<1> QED BY <1>6, <1>7, <1>8 DEF more

(***************************************************************************)
(* A past audit is not rewritten: after the cutoff an arrival that leaves  *)
(* the trace valid is listed as out of scope and changes nothing else.     *)
(***************************************************************************)
THEOREM PastAuditsStay == AuditSpec => AuditFrozen
<1>1. AuditInv /\ [AuditNext]_auditVars =>
        [\A final \in BOOLEAN : LateArrivalKeeps(final)]_auditVars
  <2> SUFFICES ASSUME AuditInv, [AuditNext]_auditVars, NEW final \in BOOLEAN
               PROVE  LateArrivalKeeps(final)
    OBVIOUS
  <2> DEFINE c == Comparison(final)
             q == supplied'[Len(supplied')]
  <2> SUFFICES ASSUME now > Cutoff, supplied' # supplied,
                      ValidSupplied(supplied'), MeetsProfile(q, c)
               PROVE  AssessCrossSource(supplied', c)
                        = [AssessCrossSource(supplied, c) EXCEPT !.excluded = @ \cup {q}]
    BY DEF LateArrivalKeeps, Audit, Comparison
  <2>1. PICK r \in made : supplied' = Append(supplied, Observed(r, now))
    BY DEF AuditNext, auditVars, Record, Deliver, Tick
  <2>2. supplied \in Seq(Arrivals) /\ now \in Nat
    BY DEF AuditInv
  <2>3. q = Observed(r, now)
    BY <2>1, <2>2
  <2>4. q \in Arrivals
    BY <2>2, <2>3 DEF Arrivals
  <2>5. ~InScope(q, c)
    <3>1. q.observed = now
      BY <2>3 DEF Observed
    <3> QED BY <2>2, <3>1, AuditAssumption DEF InScope, Comparison
  <2>6. \A a \in Arrivals : Readable(a)
    BY ArrivalFields
  <2> QED BY <2>1, <2>2, <2>3, <2>4, <2>5, <2>6, LateRecordExcluded
<1> QED BY <1>1, AuditInitInv, AuditStep, PTL DEF AuditSpec, AuditFrozen
=============================================================================

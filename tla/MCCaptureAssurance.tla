------------------------- MODULE MCCaptureAssurance -------------------------
(* An instance of CaptureAssurance for TLC. *)
EXTENDS CaptureAssurance, TLC

CONSTANTS t1, t2, i1, i2, i3, i4, o1, o2, o3, x, y, k1, k2

(* Three objects, two of them with one effect id. *)
SharedId == (o1 :> x) @@ (o2 :> x) @@ (o3 :> y)

Names == {i1, i2, i3, i4}

Record(id, kind, thread, ts) ==
  [id |-> id, kind |-> kind, thread |-> thread, ts |-> ts]

(* Every kind of record in two threads, at two times or NaN, under any id,  *)
(* and records with a field the validator cannot use.                       *)
AnyRecord ==
  [id : Names, kind : Kinds, thread : Threads, ts : {1, 2, NaN}]
    \cup {Record(n, "sense", Malformed, 1) : n \in Names}
    \cup {Record(Malformed, "sense", t, 1) : t \in Threads}

Symmetric == Permutations(Names) \cup Permutations(Threads) \cup Permutations(Contents)
=============================================================================

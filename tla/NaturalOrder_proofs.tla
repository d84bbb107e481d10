------------------------- MODULE NaturalOrder_proofs -------------------------
(***************************************************************************)
(* Least and greatest elements of sets of naturals: what the proofs use    *)
(* for induction, as an argument about the least counterexample.  Prefixes *)
(* of sequences, index by index.  And the existence of functions defined   *)
(* by recursion, for whatever step a module instantiates this one with; no *)
(* other fact depends on Recur.                                            *)
(***************************************************************************)
EXTENDS Integers, SequencesExt, WellFoundedInduction, TLAPS

CONSTANT Recur(_, _, _)  (* what f[k] is, of a parameter, f below k, and k *)

(* Every set of naturals that is not empty has a least element. *)
LEMMA LeastElement ==
  ASSUME NEW T, T \subseteq Nat, T # {}
  PROVE  \E x \in T : \A y \in T : x <= y
<1>1. PICK R : IsWellFoundedOn(R, Nat) /\ \A x, y \in Nat : x < y => <<x, y>> \in R
  <2>1. \A x, y \in Nat : x < y => <<x, y>> \in OpToRel(<, Nat)
    BY DEF OpToRel
  <2> QED BY <2>1, NatLessThanWellFounded, Zenon
<1>2. IsWellFoundedOn(R, Nat)
  BY <1>1
<1>3. \E x \in T : \A y \in T : ~(<<y, x>> \in R)
  BY <1>2, WFMin, Zenon
<1>4. PICK x \in T : \A y \in T : ~(<<y, x>> \in R)
  BY <1>3
<1>5. \A y \in T : ~(y < x)
  BY <1>1, <1>4
<1> QED BY <1>5

(* A bounded one has a greatest element: the least of its upper bounds. *)
LEMMA GreatestElement ==
  ASSUME NEW T, T \subseteq Nat, T # {}, NEW n \in Nat, \A y \in T : y <= n
  PROVE  \E x \in T : \A y \in T : y <= x
<1> DEFINE U == {u \in Nat : \A y \in T : y <= u}
<1>1. PICK u \in U : \A v \in U : u <= v
  <2>1. U \subseteq Nat /\ n \in U
    OBVIOUS
  <2> HIDE DEF U
  <2> QED BY <2>1, LeastElement
<1>2. u \in T
  <2>1. SUFFICES ASSUME u \notin T PROVE FALSE
    OBVIOUS
  <2>2. \A y \in T : y < u
    BY <1>1, <2>1
  <2>3. u - 1 \in U
    <3>1. PICK z \in T : TRUE
      OBVIOUS
    <3>2. z \in Nat /\ z < u /\ u \in Nat
      BY <2>2, <3>1
    <3>3. u - 1 \in Nat
      BY <3>2
    <3>4. \A y \in T : y <= u - 1
      BY <2>2
    <3> QED BY <3>3, <3>4
  <2> QED BY <1>1, <2>3
<1> QED BY <1>1, <1>2

(* Induction up to a bound: a set that has 0 and the successor of each of   *)
(* its elements below n is everything up to n.                             *)
LEMMA InductionUpTo ==
  ASSUME NEW n \in Nat, NEW T, 0 \in T, \A m \in 1..n : m - 1 \in T => m \in T
  PROVE  \A m \in 0..n : m \in T
<1> DEFINE U == {m \in 0..n : m \notin T}
<1>1. SUFFICES ASSUME U # {} PROVE FALSE
  OBVIOUS
<1>2. PICK m \in U : \A k \in U : m <= k
  <2>1. U \subseteq Nat
    OBVIOUS
  <2> HIDE DEF U
  <2> QED BY <1>1, <2>1, LeastElement
<1>3. m \in 1..n /\ m - 1 \in 0..n /\ ~(m <= m - 1)
  OBVIOUS
<1>4. m - 1 \in T
  BY <1>2, <1>3
<1> QED BY <1>3, <1>4

(* A step that looks only below k has a function up to every bound. *)
LooksBelow(p, n) ==
  \A k \in 0..n : \A g, h :
    (\A m \in 0..(k - 1) : g[m] = h[m]) => Recur(p, g, k) = Recur(p, h, k)

Recursive(p, n) == \E f : f = [k \in 0..n |-> Recur(p, f, k)]

(* A recursion that looks only below its argument has its function, up to any
   n. *)
LEMMA RecursionExists == \A p : \A n \in Nat : LooksBelow(p, n) => Recursive(p, n)
<1> SUFFICES ASSUME NEW p, NEW n \in Nat, LooksBelow(p, n) PROVE Recursive(p, n)
  OBVIOUS
<1> DEFINE T == {k \in 0..n : Recursive(p, k)}
<1>1. 0 \in T
  <2> DEFINE g == [k \in 0..0 |-> Recur(p, <<>>, 0)]
  <2>1. Recur(p, g, 0) = Recur(p, <<>>, 0)
    BY DEF LooksBelow
  <2>2. g = [k \in 0..0 |-> g[k]] /\ \A k \in 0..0 : g[k] = Recur(p, g, 0) /\ k = 0
    BY <2>1
  <2> HIDE DEF g
  <2> QED BY <2>2 DEF Recursive
<1>2. ASSUME NEW k \in 1..n, k - 1 \in T PROVE k \in T
  <2>1. PICK g : g = [m \in 0..(k - 1) |-> Recur(p, g, m)]
    BY <1>2 DEF Recursive
  <2> DEFINE f == [m \in 0..k |-> IF m = k THEN Recur(p, g, k) ELSE g[m]]
  <2>2. ASSUME NEW m \in 0..k PROVE f[m] = Recur(p, f, m)
    <3>1. m \in 0..n /\ \A l \in 0..(m - 1) : g[l] = f[l]
      OBVIOUS
    <3>2. Recur(p, g, m) = Recur(p, f, m)
      <4> HIDE DEF f
      <4> QED BY <3>1 DEF LooksBelow
    <3>3. CASE m = k
      BY <3>2, <3>3
    <3>4. CASE m # k
      <4>1. m \in 0..(k - 1)
        BY <3>4
      <4>2. g[m] = Recur(p, g, m)
        BY <2>1, <4>1
      <4> QED BY <3>2, <3>4, <4>2
    <3> QED BY <3>3, <3>4
  <2>3. f = [m \in 0..k |-> f[m]]
    OBVIOUS
  <2> HIDE DEF f
  <2>4. f = [m \in 0..k |-> Recur(p, f, m)]
    BY <2>2, <2>3
  <2> QED BY <2>4 DEF Recursive
<1>3. \A k \in 0..n : k \in T
  <2> HIDE DEF T
  <2> QED BY <1>1, <1>2, InductionUpTo
<1> QED BY <1>3

(* A prefix agrees with the sequence at every index it has. *)
LEMMA PrefixPointwise ==
  ASSUME NEW S, NEW s \in Seq(S), NEW t \in Seq(S)
  PROVE  IsPrefix(s, t) <=> /\ Len(s) <= Len(t)
                            /\ \A i \in 1..Len(s) : s[i] = t[i]
<1>1. SubSeq(s, 1, Len(s)) = s
  OBVIOUS
<1>2. ASSUME Len(s) <= Len(t)
      PROVE  /\ SubSeq(t, 1, Len(s)) \in Seq(S)
             /\ Len(SubSeq(t, 1, Len(s))) = Len(s)
             /\ \A i \in 1..Len(s) : SubSeq(t, 1, Len(s))[i] = t[i]
  BY <1>2
<1>3. ASSUME Len(s) <= Len(t), \A i \in 1..Len(s) : s[i] = t[i]
      PROVE  s = SubSeq(t, 1, Len(s))
  BY <1>2, <1>3
<1> QED BY <1>1, <1>2, <1>3 DEF IsPrefix
=============================================================================

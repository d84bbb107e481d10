-------------------------- MODULE MCCausalLineage --------------------------
(* Three authorities, c faulty: a and b propose one branch each, c stands   *)
(* behind b's branch too, or behind one it names after a.  Whoever          *)
(* reconciles to t1 first can still reach t2, and the other way around.     *)
EXTENDS CausalLineage, TLC

CONSTANTS a, b, c, x, y, g, s1, s2, s3, t1, t2, p1, p2, r

MCOffers ==
  {[authority |-> a, branch |-> x, semantic |-> s1],
   [authority |-> b, branch |-> y, semantic |-> s2],
   [authority |-> c, branch |-> y, semantic |-> s2],
   [authority |-> c, branch |-> a, semantic |-> s3]}

(* Parties are interchangeable: nothing but their lineages tells them apart. *)
PartySymmetry == Permutations(Parties)
=============================================================================

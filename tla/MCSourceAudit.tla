---------------------------- MODULE MCSourceAudit ----------------------------
(* An instance of SourceAudit for TLC. *)
EXTENDS SourceAudit, TLC

CONSTANTS sa, sb, s, t, x, y, k1, k2

TwoSides == s :> sa @@ t :> sb

Symmetric == Permutations(Correlations) \cup Permutations(ActionDigests)
=============================================================================

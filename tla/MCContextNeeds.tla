---------------------------- MODULE MCContextNeeds ----------------------------
(* Small instances of ContextNeeds for TLC.                                *)
EXTENDS ContextNeeds, TLC

CONSTANTS v1, v2, h1, h2, a1, a2, p1, p2, q1, q2, q3, yes, no, o1, o2

MCSymmetry == Permutations({v1, v2}) \cup Permutations({a1, a2}) \cup Permutations({p1, p2})
                \cup Permutations({q1, q2, q3}) \cup Permutations({o1, o2})
=============================================================================

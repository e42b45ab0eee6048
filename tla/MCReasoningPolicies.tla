------------------------ MODULE MCReasoningPolicies ------------------------
(* A small instance of ReasoningPolicies for TLC.                          *)
EXTENDS ReasoningPolicies, TLC
CONSTANTS p1, p2, s1, s2, h1, h2, r1, r2
MCSymmetry == Permutations({p1, p2}) \cup Permutations({s1, s2})
                \cup Permutations({h1, h2}) \cup Permutations({r1, r2})
=============================================================================

-------------------------- MODULE MCEpistemicStore --------------------------
(* Small instances of EpistemicStore for TLC.                              *)
EXTENDS HeadReplay, TLC

CONSTANTS k1, k2, c1, c2, c3, c4, w1, w2

(* "0" and "9" stand for the missing bounds of an interval.                *)
Always == [from |-> 0, to |-> 9]
MCValidities == {Always, [from |-> 2, to |-> 9]}
MCAlways == {Always}

MCSymmetry == Permutations({c1, c2, c3, c4}) \cup Permutations({w1, w2})
MCClaimSymmetry == Permutations({c1, c2, c3})
=============================================================================

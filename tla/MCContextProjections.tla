------------------------ MODULE MCContextProjections ------------------------
(* Small instances of ContextProjections for TLC.                          *)
EXTENDS ContextProjections, TLC

CONSTANTS k1, k2, c1, c2, c3, w1, x1, i1, i2, q1

MCAlways == {[from |-> 0, to |-> 9]}

Now(needs) == [needs |-> needs, known |-> None, valid |-> None]

MCOneKeyOrAll == {Now({k1}), Now({})}

(* Everything now, and one key as it is valid at 1.                        *)
MCAnyTime == {Now({}), [needs |-> {k1}, known |-> None, valid |-> 1]}

(* The second is over at 1.                                                *)
MCEnded == {[from |-> 0, to |-> 9], [from |-> 0, to |-> 1]}

MCSymmetry == Permutations({c1, c2, c3}) \cup Permutations({i1, i2})
=============================================================================

------------------------- MODULE MCSchemaMigration -------------------------
(* Small instances of SchemaMigration for TLC.                             *)
EXTENDS SchemaMigration, TLC
CONSTANTS o1, o2, m1, m2, i1, i2
MCSymmetry == Permutations({o1, o2}) \cup Permutations({m1, m2}) \cup Permutations({i1, i2})
=============================================================================

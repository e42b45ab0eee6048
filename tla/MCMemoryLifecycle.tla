------------------------- MODULE MCMemoryLifecycle -------------------------
(* A small instance of MemoryLifecycle for TLC.                            *)
EXTENDS LifecycleReplay, TLC
CONSTANTS m1, m2
MCSymmetry == Permutations({m1, m2})
=============================================================================

-------------------------- MODULE MCCognitiveRuntime --------------------------
(* Small instances of CognitiveRuntime for TLC.                            *)
EXTENDS CognitiveRuntime

CONSTANTS v1, h1, a1, p1, q1, yes
=============================================================================

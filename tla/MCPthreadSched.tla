--------------------------- MODULE MCPthreadSched ---------------------------
(* Instances of the scheduler for TLC.                                     *)
EXTENDS PthreadSched, TLC

\* All threads but the main one are alike; no run of a temporal property uses it.
Symmetry == Permutations(Thread \ {Main})
=============================================================================

--------------------------- MODULE MCPthreadCond ----------------------------
(* TLC instances of PthreadCond: the constants are in the configurations.  *)
EXTENDS PthreadCond, TLC

\* All threads but the main one are alike; no run of a temporal property uses it.
Symmetry == Permutations(Thread \ {Main})
=============================================================================

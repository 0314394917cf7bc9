---------------------------- MODULE MCPthreadLife ---------------------------
(* TLC instances of PthreadLife: the constants are in the configurations.  *)
EXTENDS PthreadLife, TLC

\* All threads but the main one are alike.
Symmetry == Permutations(Thread \ {Main})
=============================================================================

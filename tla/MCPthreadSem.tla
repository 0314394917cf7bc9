---------------------------- MODULE MCPthreadSem ----------------------------
(* TLC instances of PthreadSem: the constants are in the configurations.   *)
EXTENDS PthreadSem
=============================================================================

---------------------------- MODULE MCPthreadIpc ----------------------------
(* TLC instances of PthreadIpc: the constants are in the configurations.   *)
EXTENDS PthreadIpc
=============================================================================

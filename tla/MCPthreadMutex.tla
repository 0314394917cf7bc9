--------------------------- MODULE MCPthreadMutex ---------------------------
(* TLC instances of PthreadMutex: the constants are in the configurations. *)
EXTENDS PthreadMutex
=============================================================================

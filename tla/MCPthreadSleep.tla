--------------------------- MODULE MCPthreadSleep ---------------------------
(* TLC instances of PthreadSleep: the constants are in the configurations. *)
EXTENDS PthreadSleep
=============================================================================

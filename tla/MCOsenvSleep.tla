---------------------------- MODULE MCOsenvSleep ----------------------------
(* TLC instances of OsenvSleep: the constants are in the configurations.   *)
EXTENDS OsenvSleep
=============================================================================

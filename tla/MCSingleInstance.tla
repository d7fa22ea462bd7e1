-------------------------- MODULE MCSingleInstance ---------------------------
(* Three daemons.                                                          *)
EXTENDS SingleInstance

CONSTANTS d1, d2, d3

MCProcs == {d1, d2, d3}
=============================================================================

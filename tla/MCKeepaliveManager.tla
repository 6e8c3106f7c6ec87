------------------------- MODULE MCKeepaliveManager -------------------------
(* Two threads share one manager and two connections; the worker may be    *)
(* started twice.                                                          *)
EXTENDS KeepaliveManager
=============================================================================

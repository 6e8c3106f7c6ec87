--------------------------- MODULE MCRetryHelpers ---------------------------
(* Two helper calls on one connection, of two operations or three attempts *)
(* each: the second call meets what the first one left behind.             *)
EXTENDS RetryHelpers
=============================================================================

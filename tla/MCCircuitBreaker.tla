---------------------------- MODULE MCCircuitBreaker --------------------------
(* Two threads and two requests; the gate admits one, two failures trip.   *)
EXTENDS CircuitBreaker

===============================================================================

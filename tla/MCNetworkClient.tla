--------------------------- MODULE MCNetworkClient ---------------------------
(* The instances of NetworkClient that TLC checks. *)
EXTENDS NetworkClient

=============================================================================

-------------------------- MODULE MCOdbcConnection --------------------------
(* Two connections of one environment: the first writes two rows, enough   *)
(* for a partially applied batch, the second one.                          *)
EXTENDS OdbcConnection

MCMaxRows == <<2, 1>>
=============================================================================

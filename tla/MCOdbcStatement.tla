-------------------------- MODULE MCOdbcStatement --------------------------
(* Two parameters and bulk operations of up to two rows; batches of up to  *)
(* two statements with result sets of up to two rows. The two halves of a  *)
(* statement meet only where an execution ends, so the search goes on      *)
(* either with parameters, put in pieces in no more than two of their four *)
(* cells at a time, and executions without a result, or with results and   *)
(* no parameter. An execution after SQLCancel leaves the statement as any  *)
(* other does, but for what sent records of it: the search stops there.    *)
EXTENDS OdbcStatement

MCParams == 1..2

OneHalf ==
    /\ ~sent.cancelled
    /\ \/ /\ Cardinality({k \in Keys : ind[k].dae \/ streams[k] # NoStream}) <= 2
          /\ sets = <<>> /\ ~column.bound /\ ~scroll
       \/ bound = {} /\ paramset = 1 /\ ~cancelled
=============================================================================

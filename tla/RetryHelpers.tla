---------------------------- MODULE RetryHelpers ----------------------------
(***************************************************************************)
(* The helpers of pool.cpp that run several requests for one call:         *)
(* sb_execute_with_retry (and sb_query_with_retry), sb_batch_execute and   *)
(* sb_bulk_insert, over one connection and one thread.                     *)
(*                                                                         *)
(* The session below them is reduced to what decides their outcome. An     *)
(* answer is whole (a result or an error, up to its READY) or only the     *)
(* READY that was left behind when a read timed out or a payload did not   *)
(* decode; the reader takes the first answer on the wire, whatever request *)
(* it is for. The server takes its requests in order and may answer late   *)
(* or not at all. Whether the circuit breaker admits a request is a free   *)
(* choice. Each statement is a transaction of its own.                     *)
(***************************************************************************)
EXTENDS Naturals, Sequences

CONSTANTS
    MaxCalls,     \* bound: helper calls on the connection
    NumOps,       \* operations of a batch, rows of a bulk insert
    MaxRetries,   \* sb_retry_config.max_retries
    RetryConnectionErrors, RetryTransactionErrors   \* sb_retry_config

ASSUME RetryAssumption ==
    /\ MaxCalls \in Nat /\ NumOps \in Nat \ {0} /\ MaxRetries \in Nat
    /\ RetryConnectionErrors \in BOOLEAN /\ RetryTransactionErrors \in BOOLEAN

VARIABLES
    call,      \* the helper: its loop variables and where it is
    requests,  \* sent and not yet taken by the server
    wire,      \* answers the client has not read
    up,        \* the server has not closed the connection
    applied,   \* how often each statement took effect
    late,      \* the first call in which a read gave up before the end of an answer, or 0
    garbled    \* the first call in which an answer did not decode, or 0

vars == <<call, requests, wire, up, applied, late, garbled>>

Calls == 1..MaxCalls
Ops == 1..NumOps

Kinds == {"retry", "batch", "bulk"}

(* Server errors and failures, one for each class that should_retry tells  *)
(* apart, and the codes of the C API they become.                          *)
Statuses == {"CONNECTION_FAILURE", "IO_ERROR", "SERIALIZATION_FAILURE", "SYNTAX_ERROR",
             "PROTOCOL_VIOLATION"}
Codes == {"OK", "CONNECTION_FAILED", "TIMEOUT", "SERIALIZATION", "SYNTAX", "PROTOCOL",
          "INVALID_PARAM", "UNKNOWN"}

Requests == [call: Calls, op: Ops, prepare: BOOLEAN]

(* What is left of an answer: all of it, with the status it carries, or    *)
(* its READY.                                                              *)
Answers == [of: Requests, whole: BOOLEAN, status: {"OK"} \cup Statuses]

(* Every variable has its type. *)
TypeOK ==
    /\ call \in [n: 0..MaxCalls, kind: Kinds, op: Ops, attempt: 0..MaxRetries,
                 at: {"idle", "operation", "prepare", "admit", "await", "failed"},
                 prepare: BOOLEAN, code: Codes]
    /\ requests \in Seq(Requests) /\ wire \in Seq(Answers)
    /\ up \in BOOLEAN /\ late \in 0..MaxCalls /\ garbled \in 0..MaxCalls
    /\ applied \in [Calls \X Ops -> Nat]

(***************************************************************************)
(* Status and error codes.                                                 *)
(***************************************************************************)

(* A mapping that tells a read timeout apart. *)
MapStatus_Timeout(status) ==
    CASE status = "CONNECTION_FAILURE"    -> "CONNECTION_FAILED"
      [] status = "SERIALIZATION_FAILURE" -> "SERIALIZATION"
      [] status = "SYNTAX_ERROR"          -> "SYNTAX"
      [] status = "PROTOCOL_VIOLATION"    -> "PROTOCOL"
      [] status = "IO_ERROR"              -> "TIMEOUT"

(* map_status: a read that times out is an IO_ERROR, which has no code of  *)
(* its own; an end of file is a CONNECTION_FAILURE.                        *)
MapStatus(status) ==
    CASE status = "CONNECTION_FAILURE"    -> "CONNECTION_FAILED"
      [] status = "SERIALIZATION_FAILURE" -> "SERIALIZATION"
      [] status = "SYNTAX_ERROR"          -> "SYNTAX"
      [] status = "PROTOCOL_VIOLATION"    -> "PROTOCOL"
      [] status = "IO_ERROR"              -> "UNKNOWN"

ShouldRetry(code) ==
    \/ code \in {"CONNECTION_FAILED", "TIMEOUT", "PROTOCOL"} /\ RetryConnectionErrors
    \/ code = "SERIALIZATION" /\ RetryTransactionErrors

(***************************************************************************)
(* The loops.                                                              *)
(***************************************************************************)

Return(code) == call' = [call EXCEPT !.at = "idle", !.code = code]

(* A batch that goes on with the next operation after a failed one. *)
Failed_GoesOn(code) ==
    IF call.kind = "retry"
    THEN call' = [call EXCEPT !.at = "failed", !.code = code]
    ELSE IF call.op = NumOps THEN Return("OK")
         ELSE call' = [call EXCEPT !.op = @ + 1,
                                   !.at = IF call.kind = "batch" THEN "operation" ELSE "admit"]

(* A request failed: the retry loop decides, batch and bulk return.        *)
Failed(code) ==
    IF call.kind = "retry"
    THEN call' = [call EXCEPT !.at = "failed", !.code = code]
    ELSE Return(code)

(* A request succeeded: after a prepare comes the execution, after an      *)
(* operation the next one.                                                 *)
Succeeded ==
    CASE call.prepare -> call' = [call EXCEPT !.at = "admit"]
      [] ~call.prepare /\ (call.kind = "retry" \/ call.op = NumOps) -> Return("OK")
      [] ~call.prepare /\ call.kind # "retry" /\ call.op < NumOps ->
            call' = [call EXCEPT !.op = @ + 1,
                                 !.at = IF call.kind = "batch" THEN "operation" ELSE "admit"]

Start(kind) ==
    /\ call.at = "idle" /\ call.n < MaxCalls
    /\ call' = [n |-> call.n + 1, kind |-> kind, op |-> 1, attempt |-> 0, prepare |-> FALSE,
                code |-> "OK",
                at |-> CASE kind = "retry" -> "admit"
                         [] kind = "batch" -> "operation"
                         [] kind = "bulk"  -> "prepare"]
    /\ UNCHANGED <<requests, wire, up, applied, late, garbled>>

(* An operation of a batch is refused, runs at once, or is prepared first  *)
(* because it has parameters.                                              *)
BatchOperation ==
    /\ call.at = "operation"
    /\ \/ Return("INVALID_PARAM")
       \/ \E next \in {"admit", "prepare"} : call' = [call EXCEPT !.at = next]
    /\ UNCHANGED <<requests, wire, up, applied, late, garbled>>

(* sendMessage: a closed connection is noticed when writing or when        *)
(* reading the answer; a write may also stop short on a connection that is *)
(* up, and half a request is not executed.                                 *)
SendRequest(prepare) ==
    \/ /\ requests' = IF up
                      THEN Append(requests, [call |-> call.n, op |-> call.op, prepare |-> prepare])
                      ELSE requests
       /\ call' = [call EXCEPT !.at = "await", !.prepare = prepare]
    \/ /\ Failed("CONNECTION_FAILED")
       /\ UNCHANGED requests

(* sb_prepare asks no circuit breaker. *)
Prepare ==
    /\ call.at = "prepare"
    /\ SendRequest(TRUE)
    /\ UNCHANGED <<wire, up, applied, late, garbled>>

(* A parameter cannot be bound (batch and bulk). *)
BindFails ==
    /\ call.at = "admit" /\ (call.prepare \/ call.kind = "bulk")
    /\ Return("INVALID_PARAM")
    /\ UNCHANGED <<requests, wire, up, applied, late, garbled>>

(* start_operation and the request of sb_execute or sb_execute_prepared.   *)
(* A refusal is the same code as a lost connection.                        *)
Execute ==
    /\ call.at = "admit"
    /\ SendRequest(FALSE)
    /\ UNCHANGED <<wire, up, applied, late, garbled>>

Refuse ==
    /\ call.at = "admit"
    /\ Failed("CONNECTION_FAILED")
    /\ UNCHANGED <<requests, wire, up, applied, late, garbled>>

(* The end of the retry loop's body. The delay in between is not modelled. *)
Decide_Forever ==
    /\ call.at = "failed"
    /\ IF ~ShouldRetry(call.code)
       THEN Return(call.code)
       ELSE call' = [call EXCEPT !.at = "admit"]
    /\ UNCHANGED <<requests, wire, up, applied, late, garbled>>

Decide ==
    /\ call.at = "failed"
    /\ IF call.attempt >= MaxRetries \/ ~ShouldRetry(call.code)
       THEN Return(call.code)
       ELSE call' = [call EXCEPT !.attempt = @ + 1, !.at = "admit"]
    /\ UNCHANGED <<requests, wire, up, applied, late, garbled>>

(***************************************************************************)
(* Reading the answer (executeQuery, executePrepared, prepare and          *)
(* handleErrorResponse).                                                   *)
(***************************************************************************)

Read ==
    /\ call.at = "await" /\ wire # <<>>
    /\ wire' = Tail(wire)
    /\ IF Head(wire).status = "OK" \/ ~Head(wire).whole
       THEN Succeeded
       ELSE Failed(MapStatus(Head(wire).status))
    /\ UNCHANGED <<requests, up, applied, late, garbled>>

GivesUp == late' = IF late = 0 THEN call.n ELSE late

(* The read times out before the first message of an answer, or before the *)
(* READY of a result.                                                      *)
ReadTimesOut ==
    /\ call.at = "await"
    /\ \/ UNCHANGED wire
       \/ /\ wire # <<>> /\ Head(wire).whole /\ Head(wire).status = "OK"
          /\ wire' = [wire EXCEPT ![1].whole = FALSE]
    /\ Failed(MapStatus("IO_ERROR"))
    /\ GivesUp
    /\ UNCHANGED <<requests, up, applied, garbled>>

(* The read times out in the drain after an error: the call fails with the *)
(* error it has, and the READY stays.                                      *)
DrainTimesOut ==
    /\ call.at = "await" /\ wire # <<>>
    /\ Head(wire).whole /\ Head(wire).status # "OK"
    /\ wire' = [wire EXCEPT ![1].whole = FALSE]
    /\ Failed(MapStatus(Head(wire).status))
    /\ GivesUp
    /\ UNCHANGED <<requests, up, applied, garbled>>

(* The payload of a result, or of a READY, does not decode: the call fails *)
(* at once on a connection that stays up. What follows a result is its     *)
(* READY.                                                                  *)
AnswerGarbled ==
    /\ call.at = "await" /\ wire # <<>>
    /\ \/ /\ Head(wire).whole /\ Head(wire).status = "OK"
          /\ wire' = [wire EXCEPT ![1].whole = FALSE]
       \/ wire' = Tail(wire)
    /\ Failed(MapStatus("PROTOCOL_VIOLATION"))
    /\ GivesUp
    /\ garbled' = IF garbled = 0 THEN call.n ELSE garbled
    /\ UNCHANGED <<requests, up, applied>>

ReadEnds ==
    /\ call.at = "await" /\ wire = <<>> /\ ~up
    /\ Failed(MapStatus("CONNECTION_FAILURE"))
    /\ UNCHANGED <<requests, wire, up, applied, late, garbled>>

(***************************************************************************)
(* The server.                                                             *)
(***************************************************************************)

Applies(r) == applied' = IF r.prepare THEN applied ELSE [applied EXCEPT ![<<r.call, r.op>>] = @ + 1]

(* A PROTOCOL_VIOLATION is an ERROR that does not decode. *)
ServerAnswers ==
    /\ up /\ requests # <<>>
    /\ LET r == Head(requests)
       IN  \/ /\ Applies(r)
              /\ wire' = Append(wire, [of |-> r, whole |-> TRUE, status |-> "OK"])
           \/ /\ \E s \in Statuses \ {"IO_ERROR"} :
                    wire' = Append(wire, [of |-> r, whole |-> TRUE, status |-> s])
              /\ UNCHANGED applied
    /\ requests' = Tail(requests)
    /\ UNCHANGED <<call, up, late, garbled>>

(* The server closes the connection, after it applied a request or not;    *)
(* requests it did not take are lost.                                      *)
ServerCloses ==
    /\ up
    /\ \/ UNCHANGED applied
       \/ requests # <<>> /\ Applies(Head(requests))
    /\ up' = FALSE /\ requests' = <<>>
    /\ UNCHANGED <<call, wire, late, garbled>>

-----------------------------------------------------------------------------
Init ==
    /\ call = [n |-> 0, kind |-> "retry", op |-> 1, attempt |-> 0, at |-> "idle",
               prepare |-> FALSE, code |-> "OK"]
    /\ requests = <<>> /\ wire = <<>>
    /\ up = TRUE /\ late = 0 /\ garbled = 0
    /\ applied = [s \in Calls \X Ops |-> 0]

Progress ==
    \/ BatchOperation \/ Prepare \/ BindFails \/ Execute \/ Refuse \/ Decide
    \/ Read \/ AnswerGarbled \/ ReadEnds

Helper == Progress \/ ReadTimesOut \/ DrainTimesOut

Next == (\E kind \in Kinds : Start(kind)) \/ Helper \/ ServerAnswers \/ ServerCloses

Spec == Init /\ [][Next]_vars

(* A thread inside a helper goes on with what its reads bring; no read has *)
(* to end by itself, since over TLS there is no timeout.                   *)
FairSpec == Spec /\ WF_vars(Progress)

-----------------------------------------------------------------------------
(***************************************************************************)
(* Properties.                                                             *)
(***************************************************************************)

(* No retry applies a statement twice in a call that began in step with    *)
(* the server and whose answers decode, whatever is lost or late from then *)
(* on: an attempt whose effect is unknown is either not retried (a read    *)
(* timeout is SB_ERR_UNKNOWN) or retried on a connection that is gone.     *)
(* Neither a later call nor one that met an undecodable answer has such a  *)
(* promise: the first may take the late error of an earlier statement for  *)
(* its own, and SB_ERR_PROTOCOL is retried on the open connection, so both *)
(* replay what the server applied.                                         *)
AppliedAtMostOnce ==
    \A n \in Calls, i \in Ops :
        (late = 0 \/ n <= late) /\ (garbled = 0 \/ n < garbled) => applied[<<n, i>>] <= 1

(* As long as no read on the connection gave up and every answer decoded,  *)
(* a helper's report is true: success means that each of its operations    *)
(* took effect, and at any time the operations that took effect are the    *)
(* first ones of the call. A helper that reports a server's error leaves   *)
(* exactly the operations before the failed one.                           *)
ReportsTrue ==
    late = 0 => \A n \in Calls :
        LET done == {i \in Ops : applied[<<n, i>>] > 0}
        IN  /\ \A i \in done : 1..i \subseteq done
            /\ call.n = n /\ call.at = "idle" /\ call.code = "OK" =>
                  done = IF call.kind = "retry" THEN {1} ELSE Ops
            /\ call.n = n /\ call.at = "idle" /\ call.code \in {"SERIALIZATION", "SYNTAX"} =>
                  done = 1..(call.op - 1)

(* The server leaves a read waiting. *)
Waiting == call.at = "await" /\ wire = <<>> /\ up

(* Every helper call returns unless the server leaves a read waiting for   *)
(* ever, also when the connection is gone and every attempt fails with a   *)
(* retryable code.                                                         *)
HelperReturns == []<>~Waiting => (call.at # "idle" ~> call.at = "idle")
=============================================================================

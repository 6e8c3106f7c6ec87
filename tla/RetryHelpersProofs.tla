------------------------- MODULE RetryHelpersProofs -------------------------
(***************************************************************************)
(* Proofs about RetryHelpers for any number of calls, operations and       *)
(* retries and any sb_retry_config: types, that no statement of a call     *)
(* that began in step and whose answers decode is applied twice, and that  *)
(* a helper's report is true as long as no read gave up.                   *)
(***************************************************************************)
EXTENDS RetryHelpers, SequenceTheorems, TLAPS

\* The request the helper waits for, and the execution of an operation.
Current == [call |-> call.n, op |-> call.op, prepare |-> call.prepare]
Exec(n, i) == [call |-> n, op |-> i, prepare |-> FALSE]

\* The calls AppliedAtMostOnce is about.
Covered(n) == (late = 0 \/ n <= late) /\ (garbled = 0 \/ n < garbled)

\* An operation that has not run and will not unless it is sent again.
Fresh(n, i) ==
    /\ applied[<<n, i>>] = 0
    /\ \A j \in 1..Len(requests) : requests[j] # Exec(n, i)

\* The helper may still send its current operation.
MaySend ==
    \/ call.at \in {"operation", "prepare", "admit"}
    \/ call.at = "failed" /\ ShouldRetry(call.code)
    \/ call.at = "await" /\ call.prepare

\* A call that runs has a number, and the retry helper sends one statement,
\* without a prepare.
CallShape ==
    /\ call.at # "idle" => call.n # 0
    /\ call.kind = "retry" => ~call.prepare /\ call.op = 1
    /\ call.at = "failed" => call.kind = "retry" /\ call.code # "OK"
    /\ call.at \in {"operation", "prepare"} => call.kind # "retry"
    /\ late <= call.n /\ garbled <= call.n
    /\ garbled # 0 => late # 0

\* While no read gave up, nothing but the current request or its answer is
\* under way.
OneUnderWay ==
    late = 0 =>
        /\ call.at # "await" => requests = <<>> /\ wire = <<>>
        /\ call.at = "await" =>
              \/ requests = <<Current>> /\ wire = <<>> /\ up
              \/ /\ requests = <<>> /\ Len(wire) = 1
                 /\ wire[1].of = Current /\ wire[1].whole
              \/ requests = <<>> /\ wire = <<>> /\ ~up

\* As long as every answer decoded, the call in which a read gave up goes on only
\* behind the READY it left, which ends its next attempt.
BehindReady ==
    garbled = 0 /\ late # 0 /\ late = call.n /\ call.at # "idle"
        /\ (call.at = "failed" => ShouldRetry(call.code)) =>
        call.kind = "retry" /\ Len(wire) > 0 /\ ~wire[1].whole

\* The requests of one operation of a covered call and its effect are at most one.
SentOnce ==
    \A n \in Calls, i \in Ops : Covered(n) =>
        /\ applied[<<n, i>>] <= 1
        /\ \A j, k \in 1..Len(requests) :
              requests[j] = Exec(n, i) /\ requests[k] = Exec(n, i) => j = k
        /\ applied[<<n, i>>] # 0 => \A j \in 1..Len(requests) : requests[j] # Exec(n, i)

\* What was not sent has no effect, nor has what may be sent again as long as
\* the connection is up.
NotYetSent ==
    /\ \A n \in Calls, i \in Ops :
          n > call.n \/ (n = call.n /\ i > call.op) => Fresh(n, i)
    /\ MaySend /\ up /\ Covered(call.n) => Fresh(call.n, call.op)

\* An answer to an execution tells whether it took effect.
AnswerTrue ==
    late = 0 /\ call.at = "await" /\ ~call.prepare /\ Len(wire) = 1 =>
        /\ wire[1].status = "OK" => applied[<<call.n, call.op>>] # 0
        /\ wire[1].status # "OK" => applied[<<call.n, call.op>>] = 0

\* The operations of the past calls and of this one that took effect are the
\* first ones.
Prefixes ==
    late = 0 =>
        /\ \A n \in Calls : n < call.n =>
              \A i, j \in Ops : j < i /\ applied[<<n, i>>] # 0 => applied[<<n, j>>] # 0
        /\ \A i \in Ops : call.n # 0 /\ i < call.op => applied[<<call.n, i>>] # 0

\* The current operation had no effect where a report will say so, and had one
\* where the call reported success.
CurrentTrue ==
    late = 0 /\ call.n # 0 =>
        /\ call.kind # "retry" /\ MaySend => applied[<<call.n, call.op>>] = 0
        /\ call.at \in {"failed", "idle"} /\ call.code \in {"SERIALIZATION", "SYNTAX"} =>
              applied[<<call.n, call.op>>] = 0
        /\ call.at = "idle" /\ call.code = "OK" =>
              applied[<<call.n, call.op>>] # 0 /\ (call.kind = "retry" \/ call.op = NumOps)

\* The inductive invariant.
RetryInv ==
    /\ TypeOK /\ CallShape /\ OneUnderWay /\ BehindReady
    /\ SentOnce /\ NotYetSent /\ AnswerTrue /\ Prefixes /\ CurrentTrue

-----------------------------------------------------------------------------
(* The helper's loop variables.                                            *)

CallType ==
    [n: 0..MaxCalls, kind: Kinds, op: Ops, attempt: 0..MaxRetries,
     at: {"idle", "operation", "prepare", "admit", "await", "failed"},
     prepare: BOOLEAN, code: Codes]

\* What no step of a running helper but the next operation changes.
SameOp ==
    /\ call'.n = call.n /\ call'.op = call.op /\ call'.kind = call.kind
    /\ call'.prepare = call.prepare

\* A helper returns.
LEMMA Returned ==
    ASSUME TypeOK, NEW c \in Codes, Return(c)
    PROVE  SameOp /\ call'.at = "idle" /\ call'.code = c /\ call' \in CallType
  <1>1. call \in CallType /\ call' = [call EXCEPT !.at = "idle", !.code = c]
    BY DEF TypeOK, Return, CallType
  <1>2. call'.n = call.n /\ call'.op = call.op /\ call'.kind = call.kind
    BY <1>1 DEF CallType
  <1>3. call'.prepare = call.prepare
    BY <1>1 DEF CallType
  <1>4. call'.at = "idle" /\ call'.code = c /\ call' \in CallType
    BY <1>1 DEF CallType
  <1> QED
    BY <1>2, <1>3, <1>4 DEF SameOp

\* A request failed.
LEMMA FailedCall ==
    ASSUME TypeOK, NEW c \in Codes, Failed(c)
    PROVE  /\ SameOp /\ call'.code = c /\ call' \in CallType
           /\ call'.at = IF call.kind = "retry" THEN "failed" ELSE "idle"
  <1>1. CASE call.kind = "retry"
    <2>1. call \in CallType /\ call' = [call EXCEPT !.at = "failed", !.code = c]
      BY <1>1 DEF TypeOK, Failed, CallType
    <2>2. call'.n = call.n /\ call'.op = call.op /\ call'.kind = call.kind
      BY <2>1 DEF CallType
    <2>3. call'.prepare = call.prepare
      BY <2>1 DEF CallType
    <2>4. call'.at = "failed" /\ call'.code = c /\ call' \in CallType
      BY <2>1 DEF CallType
    <2> QED
      BY <1>1, <2>2, <2>3, <2>4 DEF SameOp
  <1>2. CASE call.kind # "retry"
    BY <1>2, Returned DEF Failed
  <1> QED
    BY <1>1, <1>2

\* The helper goes to another place of its loop, and nothing else changes.
LEMMA MovedOn ==
    ASSUME TypeOK, NEW a \in {"operation", "prepare", "admit"},
           call' = [call EXCEPT !.at = a]
    PROVE  SameOp /\ call'.at = a /\ call'.code = call.code /\ call' \in CallType
  <1>1. call \in CallType
    BY DEF TypeOK, CallType
  <1>2. call'.n = call.n /\ call'.op = call.op /\ call'.kind = call.kind
    BY <1>1 DEF CallType
  <1>3. call'.prepare = call.prepare
    BY <1>1 DEF CallType
  <1>4. call'.at = a /\ call'.code = call.code /\ call' \in CallType
    BY <1>1 DEF CallType
  <1> QED
    BY <1>2, <1>3, <1>4 DEF SameOp

\* The retry loop starts another attempt.
LEMMA TriedAgain ==
    ASSUME TypeOK, call.attempt < MaxRetries,
           call' = [call EXCEPT !.attempt = @ + 1, !.at = "admit"]
    PROVE  SameOp /\ call'.at = "admit" /\ call'.code = call.code /\ call' \in CallType
  <1>1. call \in CallType /\ call.attempt + 1 \in 0..MaxRetries
    BY RetryAssumption DEF TypeOK, CallType
  <1>2. call'.n = call.n /\ call'.op = call.op /\ call'.kind = call.kind
    BY <1>1 DEF CallType
  <1>3. call'.prepare = call.prepare
    BY <1>1 DEF CallType
  <1>4. call'.at = "admit" /\ call'.code = call.code /\ call' \in CallType
    BY <1>1 DEF CallType
  <1> QED
    BY <1>2, <1>3, <1>4 DEF SameOp

\* The helper goes on with the next operation.
LEMMA NextOp ==
    ASSUME TypeOK, call.op < NumOps, NEW a \in {"operation", "admit"},
           call' = [call EXCEPT !.op = @ + 1, !.at = a]
    PROVE  /\ call'.n = call.n /\ call'.op = call.op + 1 /\ call'.kind = call.kind
           /\ call'.prepare = call.prepare
           /\ call'.at = a /\ call'.code = call.code /\ call' \in CallType
  <1>1. call \in CallType /\ call.op + 1 \in Ops
    BY RetryAssumption DEF TypeOK, CallType, Ops
  <1>2. call'.n = call.n /\ call'.op = call.op + 1 /\ call'.kind = call.kind
    BY <1>1 DEF CallType
  <1>3. call'.prepare = call.prepare
    BY <1>1 DEF CallType
  <1>4. call'.at = a /\ call'.code = call.code /\ call' \in CallType
    BY <1>1 DEF CallType
  <1> QED
    BY <1>2, <1>3, <1>4

\* The codes a status becomes.
LEMMA Mapped ==
    ASSUME NEW s \in Statuses
    PROVE  /\ MapStatus(s) \in Codes /\ MapStatus(s) # "OK"
           /\ s = "IO_ERROR" => MapStatus(s) = "UNKNOWN"
           /\ s = "CONNECTION_FAILURE" => MapStatus(s) = "CONNECTION_FAILED"
  BY DEF MapStatus, Statuses, Codes

-----------------------------------------------------------------------------
(* The steps of the helper.                                                *)

\* The typed facts the proofs about one step share.
LEMMA Typed ==
    ASSUME RetryInv
    PROVE  /\ call \in CallType /\ call.n \in Nat /\ call.op \in Ops /\ late \in Nat
           /\ late <= call.n /\ garbled \in Nat /\ garbled <= call.n
           /\ garbled # 0 => late # 0
           /\ call.at # "idle" => call.n \in Calls
           /\ requests \in Seq(Requests) /\ wire \in Seq(Answers)
           /\ applied \in [Calls \X Ops -> Nat]
           /\ Ops \subseteq Nat /\ Calls \subseteq Nat
  BY RetryAssumption DEF RetryInv, TypeOK, CallShape, CallType, Calls, Ops

\* Steps that change nothing but where the helper is, and leave the answer it
\* waits for only on a connection that is gone.
LEMMA LocalStep ==
    ASSUME RetryInv, UNCHANGED <<requests, wire, up, applied, late, garbled>>,
           call' \in CallType, SameOp,
           call.at # "idle", call'.at # "await",
           call.at = "await" => wire = <<>> /\ ~up,
           call.at \in {"operation", "prepare", "admit", "failed", "await"},
           call'.at = "failed" => call'.kind = "retry" /\ call'.code # "OK",
           call'.at \in {"operation", "prepare"} => call.kind # "retry",
           MaySend' /\ call.at # "await" => MaySend,
           MaySend' /\ call.at = "await" => call.kind = "retry",
           call'.at \in {"failed", "idle"} /\ call'.code \in {"SERIALIZATION", "SYNTAX"} =>
              call.at = "failed" /\ call'.code = call.code,
           call'.at = "idle" => call'.code # "OK"
    PROVE  RetryInv'
  <1>1. /\ call'.n = call.n /\ call'.op = call.op /\ call'.kind = call.kind
        /\ call'.prepare = call.prepare
    BY DEF SameOp
  <1>2. /\ call.n \in Nat /\ call.op \in Ops /\ late \in Nat /\ late <= call.n
        /\ call.n \in Calls /\ Ops \subseteq Nat /\ Calls \subseteq Nat
    BY Typed
  <1>0. call.n # 0
    BY DEF RetryInv, CallShape
  <1>3. TypeOK'
    BY DEF RetryInv, TypeOK, CallType
  <1>4. CallShape'
    BY <1>1, <1>2 DEF RetryInv, CallShape
  <1>5. OneUnderWay'
    BY DEF RetryInv, OneUnderWay
  <1>6. BehindReady'
    <2> SUFFICES ASSUME garbled = 0, late # 0, late = call.n, MaySend'
                 PROVE  call'.kind = "retry" /\ Len(wire) > 0 /\ ~wire[1].whole
      BY <1>1 DEF BehindReady, MaySend, CallType
    <2>1. CASE call.at = "await"
      <3>1. Len(wire) > 0
        BY <2>1 DEF RetryInv, BehindReady
      <3> QED
        BY <2>1, <3>1
    <2>2. CASE call.at # "await"
      <3>1. call.at = "failed" => ShouldRetry(call.code)
        BY <2>2 DEF MaySend
      <3> QED
        BY <1>1, <3>1 DEF RetryInv, BehindReady
    <2> QED
      BY <2>1, <2>2
  <1>7. \A n, i : Fresh(n, i)' <=> Fresh(n, i)
    BY DEF Fresh, Exec
  <1>8. SentOnce'
    BY ZenonT(30) DEF RetryInv, SentOnce, Covered, Exec
  <1>9. NotYetSent'
    <2>1. ASSUME NEW n \in Calls, NEW i \in Ops, n > call.n \/ (n = call.n /\ i > call.op)
          PROVE  Fresh(n, i)'
      BY <1>7, <2>1 DEF RetryInv, NotYetSent
    <2>2. ASSUME MaySend', up', Covered(call.n)' PROVE Fresh(call.n, call.op)'
      <3>1. call.at # "await" /\ MaySend /\ up /\ Covered(call.n)
        BY <1>1, <2>2 DEF Covered
      <3>2. Fresh(call.n, call.op)
        BY <3>1 DEF RetryInv, NotYetSent
      <3> QED
        BY <1>1, <3>2 DEF Fresh, Exec
    <2> QED
      BY <1>1, <2>1, <2>2 DEF NotYetSent
  <1>10. AnswerTrue'
    BY DEF AnswerTrue
  <1>11. Prefixes'
    BY <1>1 DEF RetryInv, Prefixes
  <1>12. CurrentTrue'
    <2>1. ASSUME late = 0, call.kind # "retry", MaySend' PROVE applied[<<call.n, call.op>>] = 0
      BY <1>0, <2>1 DEF RetryInv, CurrentTrue
    <2>2. ASSUME late = 0, call'.at \in {"failed", "idle"}, call'.code \in {"SERIALIZATION", "SYNTAX"}
          PROVE  applied[<<call.n, call.op>>] = 0
      BY <1>0, <2>2 DEF RetryInv, CurrentTrue
    <2> QED
      BY <1>1, <2>1, <2>2 DEF CurrentTrue
  <1> QED
    BY <1>3, <1>4, <1>5, <1>6, <1>8, <1>9, <1>10, <1>11, <1>12 DEF RetryInv

\* A request that is refused, cannot be written or gets no answer fails with the
\* code of a lost connection.
LEMMA LostRequest ==
    ASSUME RetryInv, Failed("CONNECTION_FAILED"),
           UNCHANGED <<requests, wire, up, applied, late, garbled>>,
           \/ call.at \in {"prepare", "admit"}
           \/ call.at = "await" /\ wire = <<>> /\ ~up
    PROVE  RetryInv'
  <1>1. TypeOK /\ "CONNECTION_FAILED" \in Codes
    BY DEF RetryInv, Codes
  <1>2. /\ SameOp /\ call'.code = "CONNECTION_FAILED" /\ call' \in CallType
        /\ call'.at = IF call.kind = "retry" THEN "failed" ELSE "idle"
    BY <1>1, FailedCall
  <1>3. MaySend' => call.kind = "retry"
    BY <1>2 DEF MaySend
  <1>4. call.at # "await" => MaySend
    BY DEF MaySend
  <1>5. call'.kind = call.kind
    BY <1>2 DEF SameOp
  <1> QED
    BY <1>2, <1>3, <1>4, <1>5, LocalStep

\* A parameter that cannot be bound, or an operation that is refused, ends the
\* call.
LEMMA InvalidParam ==
    ASSUME RetryInv, Return("INVALID_PARAM"),
           UNCHANGED <<requests, wire, up, applied, late, garbled>>,
           call.at \in {"operation", "admit"}
    PROVE  RetryInv'
  <1>1. TypeOK /\ "INVALID_PARAM" \in Codes
    BY DEF RetryInv, Codes
  <1>2. SameOp /\ call'.at = "idle" /\ call'.code = "INVALID_PARAM" /\ call' \in CallType
    BY <1>1, Returned
  <1>3. ~MaySend'
    BY <1>2 DEF MaySend
  <1> QED
    BY <1>2, <1>3, LocalStep

\* An operation of a batch starts.
LEMMA BatchOperationStep ==
    ASSUME RetryInv, BatchOperation
    PROVE  RetryInv'
  <1>1. call.at = "operation" /\ UNCHANGED <<requests, wire, up, applied, late, garbled>>
    BY DEF BatchOperation
  <1>2. CASE Return("INVALID_PARAM")
    BY <1>1, <1>2, InvalidParam
  <1>3. ASSUME NEW next \in {"admit", "prepare"}, call' = [call EXCEPT !.at = next]
        PROVE  RetryInv'
    <2>1. SameOp /\ call'.at = next /\ call'.code = call.code /\ call' \in CallType
      BY <1>3, MovedOn DEF RetryInv
    <2>2. call.kind # "retry" /\ MaySend
      BY <1>1 DEF RetryInv, CallShape, MaySend
    <2> QED
      BY <1>1, <2>1, <2>2, LocalStep
  <1> QED
    BY <1>2, <1>3 DEF BatchOperation

\* The retry loop returns what failed, or tries again what may be tried again.
LEMMA DecideStep ==
    ASSUME RetryInv, Decide
    PROVE  RetryInv'
  <1>1. call.at = "failed" /\ UNCHANGED <<requests, wire, up, applied, late, garbled>>
    BY DEF Decide
  <1>2. call.kind = "retry" /\ call.code # "OK" /\ call.code \in Codes /\ TypeOK
    BY <1>1 DEF RetryInv, CallShape, TypeOK
  <1>3. CASE call.attempt >= MaxRetries \/ ~ShouldRetry(call.code)
    <2>1. SameOp /\ call'.at = "idle" /\ call'.code = call.code /\ call' \in CallType
      BY <1>2, <1>3, Returned DEF Decide
    <2>2. ~MaySend'
      BY <2>1 DEF MaySend
    <2> QED
      BY <1>1, <1>2, <2>1, <2>2, LocalStep
  <1>4. CASE ~(call.attempt >= MaxRetries \/ ~ShouldRetry(call.code))
    <2>1. call.attempt \in Nat /\ MaxRetries \in Nat
      BY RetryAssumption DEF RetryInv, TypeOK
    <2>2. call.attempt < MaxRetries
      BY <1>4, <2>1
    <2>3. SameOp /\ call'.at = "admit" /\ call'.code = call.code /\ call' \in CallType
      BY <1>2, <1>4, <2>2, TriedAgain DEF Decide
    <2>4. MaySend
      BY <1>1, <1>4 DEF MaySend
    <2> QED
      BY <1>1, <2>3, <2>4, LocalStep
  <1> QED
    BY <1>3, <1>4

\* A helper starts after the one before it returned: if no read gave up,
\* nothing is under way.
LEMMA StartStep ==
    ASSUME RetryInv, NEW kind \in Kinds, Start(kind)
    PROVE  RetryInv'
  <1>1. /\ call.at = "idle" /\ call.n < MaxCalls
        /\ UNCHANGED <<requests, wire, up, applied, late, garbled>>
    BY DEF Start
  <1>2. /\ call.n \in Nat /\ call.op \in Ops /\ late \in Nat /\ late <= call.n
        /\ Ops \subseteq Nat /\ Calls \subseteq Nat
    BY Typed
  <1>3. /\ call'.n = call.n + 1 /\ call'.kind = kind /\ call'.op = 1 /\ call'.attempt = 0
        /\ ~call'.prepare /\ call'.prepare \in BOOLEAN /\ call'.code = "OK"
        /\ kind = "retry" => call'.at = "admit"
        /\ kind = "batch" => call'.at = "operation"
        /\ kind = "bulk" => call'.at = "prepare"
    BY DEF Start, Kinds
  <1>4. call'.at \in {"admit", "operation", "prepare"}
    BY <1>3 DEF Kinds
  <1>5. 1 \in Ops /\ call.n + 1 \in Calls /\ 0 \in 0..MaxRetries
    BY <1>1, <1>2, RetryAssumption DEF Ops, Calls
  <1>6. TypeOK'
    <2>1. call' \in CallType
      BY <1>1, <1>2, <1>5, RetryAssumption DEF Start, CallType, Kinds, Codes, Calls
    <2> QED
      BY <1>1, <2>1 DEF RetryInv, TypeOK, CallType
  <1>15. garbled \in Nat /\ garbled <= call.n /\ (garbled # 0 => late # 0)
    BY Typed
  <1>7. CallShape'
    BY <1>1, <1>2, <1>3, <1>4, <1>15 DEF CallShape, Kinds
  <1>8. OneUnderWay'
    BY <1>1, <1>4 DEF RetryInv, OneUnderWay
  <1>9. BehindReady'
    BY <1>1, <1>2, <1>3 DEF BehindReady
  <1>10. SentOnce'
    BY <1>1, ZenonT(30) DEF RetryInv, SentOnce, Covered, Exec
  <1>11. NotYetSent'
    <2>1. \A n \in Calls, i \in Ops : n > call.n => Fresh(n, i)
      BY DEF RetryInv, NotYetSent
    <2>2. \A n \in Calls, i \in Ops : n > call.n => Fresh(n, i)'
      BY <1>1, <2>1 DEF Fresh, Exec
    <2>3. \A n \in Calls, i \in Ops : n >= call.n + 1 => n > call.n
      BY <1>2
    <2>4. Fresh(call.n, call.op)'
      <3>1. Fresh(call.n + 1, 1)
        BY <1>2, <1>5, <2>1
      <3> QED
        BY <1>1, <1>3, <3>1 DEF Fresh, Exec
    <2>5. \A n \in Calls, i \in Ops : n > call'.n \/ (n = call'.n /\ i > call'.op) => n > call.n
      BY <1>2, <1>3
    <2> QED
      BY <2>2, <2>4, <2>5 DEF NotYetSent
  <1>12. AnswerTrue'
    BY <1>4 DEF AnswerTrue
  <1>13. Prefixes'
    <2> SUFFICES ASSUME late = 0 PROVE Prefixes'
      BY <1>1 DEF Prefixes
    <2>1. ASSUME NEW n \in Calls, n < call.n + 1, NEW i \in Ops, NEW j \in Ops,
                 j < i, applied[<<n, i>>] # 0
          PROVE  applied[<<n, j>>] # 0
      <3>1. CASE n < call.n
        BY <2>1, <3>1 DEF RetryInv, Prefixes
      <3>2. CASE n = call.n
        <4>1. ~(i > call.op)
          BY <2>1, <3>2 DEF RetryInv, NotYetSent, Fresh
        <4>2. j < call.op
          <5>1. i \in Nat /\ j \in Nat /\ call.op \in Nat
            BY <1>2
          <5> QED
            BY <2>1, <4>1, <5>1
        <4>3. call.n # 0
          BY <3>2, RetryAssumption DEF Calls
        <4> QED
          BY <3>2, <4>2, <4>3 DEF RetryInv, Prefixes
      <3> QED
        BY <1>2, <2>1, <3>1, <3>2
    <2>2. \A i \in Ops : ~(i < 1)
      BY DEF Ops
    <2> QED
      BY <1>1, <1>3, <2>1, <2>2 DEF Prefixes
  <1>14. CurrentTrue'
    <2>1. Fresh(call.n + 1, 1)
      BY <1>2, <1>5 DEF RetryInv, NotYetSent
    <2>2. applied'[<<call'.n, call'.op>>] = 0
      BY <1>1, <1>3, <2>1 DEF Fresh
    <2> QED
      BY <1>4, <2>2 DEF CurrentTrue
  <1> QED
    BY <1>6, <1>7, <1>8, <1>9, <1>10, <1>11, <1>12, <1>13, <1>14 DEF RetryInv

\* A request is sent: if the call is covered and the connection is up, its
\* operation had no effect and no request before.
LEMMA SentStep ==
    ASSUME RetryInv, NEW p \in BOOLEAN,
           call.at = IF p THEN "prepare" ELSE call.at,
           call.at \in {"prepare", "admit"},
           requests' = IF up
                       THEN Append(requests, [call |-> call.n, op |-> call.op, prepare |-> p])
                       ELSE requests,
           call' = [call EXCEPT !.at = "await", !.prepare = p],
           UNCHANGED <<wire, up, applied, late, garbled>>
    PROVE  RetryInv'
  <1> DEFINE r == [call |-> call.n, op |-> call.op, prepare |-> p]
  <1>1. /\ call \in CallType /\ call.n \in Nat /\ call.op \in Ops /\ late \in Nat
        /\ late <= call.n /\ call.n \in Calls /\ call.n # 0
        /\ requests \in Seq(Requests) /\ applied \in [Calls \X Ops -> Nat]
        /\ Ops \subseteq Nat /\ Calls \subseteq Nat
    BY Typed DEF RetryInv, CallShape
  <1>2. /\ call'.n = call.n /\ call'.op = call.op /\ call'.kind = call.kind
        /\ call'.at = "await" /\ call'.code = call.code /\ call' \in CallType
    BY <1>1 DEF CallType
  <1>3. call'.prepare = p
    BY <1>1 DEF CallType
  <1>4. r \in Requests
    BY <1>1 DEF Requests
  <1>5. /\ requests' \in Seq(Requests) /\ Len(requests) \in Nat
        /\ up => /\ Len(requests') = Len(requests) + 1 /\ requests'[Len(requests) + 1] = r
                 /\ \A j \in 1..Len(requests) : requests'[j] = requests[j]
        /\ ~up => requests' = requests
    BY <1>1, <1>4
  <1>6. MaySend
    BY DEF MaySend
  <1>7. \A n \in Calls, i \in Ops : r = Exec(n, i) => n = call.n /\ i = call.op /\ ~p
    <2>1. r.call = call.n /\ r.op = call.op
      OBVIOUS
    <2>2. r.prepare = p
      OBVIOUS
    <2> HIDE DEF r
    <2>3. ASSUME NEW n \in Calls, NEW i \in Ops, r = Exec(n, i) PROVE n = call.n /\ i = call.op
      <3>1. Exec(n, i).call = n /\ Exec(n, i).op = i
        BY DEF Exec
      <3> QED
        BY <2>1, <2>3, <3>1
    <2>4. ASSUME NEW n \in Calls, NEW i \in Ops, r = Exec(n, i) PROVE ~p
      <3>1. ~Exec(n, i).prepare
        BY DEF Exec
      <3> QED
        BY <2>2, <2>4, <3>1
    <2> QED
      BY <2>3, <2>4
  <1> HIDE DEF r
  <1>8. ASSUME NEW n \in Calls, NEW i \in Ops, Fresh(n, i),
               n # call.n \/ i # call.op \/ p \/ ~up
        PROVE  Fresh(n, i)'
    <2>1. \A j \in 1..Len(requests) : requests[j] # Exec(n, i)
      BY <1>8 DEF Fresh
    <2>2. \A j \in 1..Len(requests') : requests'[j] # Exec(n, i)
      BY <1>5, <1>7, <1>8, <2>1
    <2> QED
      BY <1>8, <2>2 DEF Fresh, Exec
  <1>9. TypeOK'
    BY <1>2, <1>5 DEF RetryInv, TypeOK, CallType
  <1>10. CallShape'
    BY <1>1, <1>2, <1>3 DEF RetryInv, CallShape
  <1>11. OneUnderWay'
    <2>1. CASE late = 0
      <3>1. requests = <<>> /\ wire = <<>>
        BY <2>1 DEF RetryInv, OneUnderWay
      <3>2. r = Current'
        BY <1>2, <1>3 DEF Current, r
      <3>3. up => requests' = <<Current'>>
        BY <3>1, <3>2 DEF r
      <3> QED
        BY <1>2, <1>5, <3>1, <3>3 DEF OneUnderWay
    <2> QED
      BY <2>1 DEF OneUnderWay
  <1>12. BehindReady'
    BY <1>2 DEF RetryInv, BehindReady
  <1>13. SentOnce'
    <2> SUFFICES ASSUME NEW n \in Calls, NEW i \in Ops, Covered(n)
                 PROVE  /\ applied[<<n, i>>] <= 1
                        /\ \A j, k \in 1..Len(requests') :
                              requests'[j] = Exec(n, i) /\ requests'[k] = Exec(n, i) => j = k
                        /\ applied[<<n, i>>] # 0 =>
                              \A j \in 1..Len(requests') : requests'[j] # Exec(n, i)
      BY DEF SentOnce, Covered, Exec
    <2>1. /\ applied[<<n, i>>] <= 1
          /\ \A j, k \in 1..Len(requests) :
                requests[j] = Exec(n, i) /\ requests[k] = Exec(n, i) => j = k
          /\ applied[<<n, i>>] # 0 => \A j \in 1..Len(requests) : requests[j] # Exec(n, i)
      BY DEF RetryInv, SentOnce
    <2>2. up /\ r = Exec(n, i) => Fresh(n, i)
      BY <1>6, <1>7 DEF RetryInv, NotYetSent
    <2>3. CASE up /\ r = Exec(n, i)
      <3>1. applied[<<n, i>>] = 0 /\ \A j \in 1..Len(requests) : requests[j] # Exec(n, i)
        BY <2>2, <2>3 DEF Fresh
      <3>2. \A j \in 1..Len(requests') : requests'[j] = Exec(n, i) => j = Len(requests) + 1
        BY <1>5, <2>3, <3>1
      <3> QED
        BY <2>1, <3>1, <3>2
    <2>4. CASE up /\ r # Exec(n, i)
      <3>1. \A j \in 1..Len(requests') : requests'[j] = Exec(n, i) =>
               j \in 1..Len(requests) /\ requests[j] = Exec(n, i)
        BY <1>5, <2>4
      <3> QED
        BY <2>1, <3>1
    <2>5. CASE ~up
      BY <1>5, <2>1, <2>5
    <2> QED
      BY <2>3, <2>4, <2>5
  <1>14. NotYetSent'
    <2>1. ASSUME NEW n \in Calls, NEW i \in Ops, n > call.n \/ (n = call.n /\ i > call.op)
          PROVE  Fresh(n, i)'
      <3>1. Fresh(n, i) /\ (n # call.n \/ i # call.op)
        BY <1>1, <2>1 DEF RetryInv, NotYetSent
      <3> QED
        BY <1>8, <3>1
    <2>2. ASSUME MaySend', up', Covered(call.n)' PROVE Fresh(call.n, call.op)'
      <3>1. p
        BY <1>2, <1>3, <2>2 DEF MaySend
      <3>2. Fresh(call.n, call.op)
        BY <1>2, <1>6, <2>2 DEF RetryInv, NotYetSent, Covered
      <3>3. PICK n \in Calls, i \in Ops : n = call.n /\ i = call.op
        BY <1>1
      <3>4. Fresh(n, i)'
        BY <1>8, <3>1, <3>2, <3>3
      <3> QED
        BY <1>2, <3>3, <3>4 DEF Fresh, Exec
    <2> QED
      BY <1>2, <2>1, <2>2 DEF NotYetSent
  <1>15. AnswerTrue'
    <2>1. late = 0 => Len(wire) = 0
      BY DEF RetryInv, OneUnderWay
    <2> QED
      BY <2>1 DEF AnswerTrue
  <1>16. Prefixes'
    BY <1>2 DEF RetryInv, Prefixes
  <1>17. CurrentTrue'
    BY <1>1, <1>2, <1>6 DEF RetryInv, CurrentTrue
  <1> QED
    BY <1>9, <1>10, <1>11, <1>12, <1>13, <1>14, <1>15, <1>16, <1>17 DEF RetryInv

-----------------------------------------------------------------------------
(* Reading an answer.                                                      *)

\* What a covered call finds on the wire: the answer to its own request or,
\* behind a read that gave up, a READY that ends its attempt.
LEMMA FirstAnswer ==
    ASSUME RetryInv, call.at = "await", wire # <<>>
    PROVE  /\ Len(wire) \in Nat \ {0} /\ Head(wire) = wire[1] /\ wire[1] \in Answers
           /\ wire[1].status \in {"OK"} \cup Statuses
           /\ Tail(wire) \in Seq(Answers)
           /\ late = 0 => requests = <<>> /\ Tail(wire) = <<>> /\ wire[1].whole /\ Len(wire) = 1
           /\ garbled = 0 /\ late = call.n => call.kind = "retry" /\ ~wire[1].whole
  <1>1. wire \in Seq(Answers) /\ call.n \in Nat /\ call.n # 0
    BY Typed DEF RetryInv, CallShape
  <1>2. Len(wire) \in Nat \ {0} /\ Head(wire) = wire[1] /\ wire[1] \in Answers
        /\ Tail(wire) \in Seq(Answers)
    BY <1>1
  <1>3. wire[1].status \in {"OK"} \cup Statuses
    BY <1>2 DEF Answers
  <1>4. late = 0 => requests = <<>> /\ Len(wire) = 1 /\ wire[1].whole
    BY DEF RetryInv, OneUnderWay
  <1>5. Len(wire) = 1 => Tail(wire) = <<>>
    <2> DEFINE rest == Tail(wire)
    <2>1. rest \in Seq(Answers) /\ Len(rest) = Len(wire) - 1
      BY <1>1, HeadTailProperties
    <2> HIDE DEF rest
    <2>2. rest # <<>> => Len(rest) \in Nat \ {0}
      BY <2>1, EmptySeq
    <2>3. Len(wire) = 1 => rest = <<>>
      BY <2>1, <2>2
    <2> QED
      BY <2>3 DEF rest
  <1>6. garbled = 0 /\ late = call.n => call.kind = "retry" /\ ~wire[1].whole
    BY <1>1 DEF RetryInv, BehindReady
  <1> QED
    BY <1>2, <1>3, <1>4, <1>5, <1>6

\* A request succeeded. In a call that is covered the answer was its own, so
\* that the operation took effect, or the call ends here.
LEMMA SucceededStep ==
    ASSUME RetryInv, call.at = "await", wire # <<>>, wire' = Tail(wire), Succeeded,
           wire[1].status = "OK" \/ ~wire[1].whole,
           UNCHANGED <<requests, up, applied, late, garbled>>
    PROVE  RetryInv'
  <1>1. /\ call \in CallType /\ call.n \in Nat /\ call.op \in Ops /\ late \in Nat
        /\ late <= call.n /\ call.n \in Calls /\ call.n # 0
        /\ Ops \subseteq Nat /\ Calls \subseteq Nat
    BY Typed DEF RetryInv, CallShape
  <1>2. /\ Tail(wire) \in Seq(Answers)
        /\ late = 0 => /\ requests = <<>> /\ Tail(wire) = <<>> /\ Len(wire) = 1
                       /\ wire[1].status = "OK"
        /\ garbled = 0 /\ late = call.n => call.kind = "retry"
    BY FirstAnswer
  <1>3. TypeOK
    BY DEF RetryInv
  <1>4. /\ call'.n = call.n /\ call'.kind = call.kind /\ call' \in CallType
        /\ call'.prepare = call.prepare
        /\ \/ call.prepare /\ call'.at = "admit" /\ call'.op = call.op
           \/ /\ ~call.prepare /\ (call.kind = "retry" \/ call.op = NumOps)
              /\ call'.at = "idle" /\ call'.op = call.op /\ call'.code = "OK"
           \/ /\ ~call.prepare /\ call.kind # "retry" /\ call.op < NumOps
              /\ call'.at \in {"operation", "admit"} /\ call'.op = call.op + 1
    <2>1. CASE call.prepare
      <3>1. call' = [call EXCEPT !.at = "admit"]
        BY <2>1 DEF Succeeded
      <3>2. SameOp /\ call'.at = "admit" /\ call' \in CallType
        BY <1>3, <3>1, MovedOn
      <3> QED
        BY <2>1, <3>2 DEF SameOp
    <2>2. CASE ~call.prepare /\ (call.kind = "retry" \/ call.op = NumOps)
      <3>1. Return("OK")
        <4>1. ~(call.kind # "retry" /\ call.op < NumOps)
          BY <1>1, <2>2, RetryAssumption
        <4> QED
          BY <2>2, <4>1 DEF Succeeded
      <3>2. SameOp /\ call'.at = "idle" /\ call'.code = "OK" /\ call' \in CallType
        BY <1>3, <3>1, Returned DEF Codes
      <3> QED
        BY <2>2, <3>2 DEF SameOp
    <2>3. CASE ~call.prepare /\ ~(call.kind = "retry" \/ call.op = NumOps)
      <3>1. call.op < NumOps
        BY <1>1, <2>3, RetryAssumption DEF Ops
      <3> DEFINE a == IF call.kind = "batch" THEN "operation" ELSE "admit"
      <3>2. call' = [call EXCEPT !.op = @ + 1, !.at = a]
        BY <2>3, <3>1 DEF Succeeded
      <3>3. a \in {"operation", "admit"}
        OBVIOUS
      <3> HIDE DEF a
      <3>4. /\ call'.n = call.n /\ call'.op = call.op + 1 /\ call'.kind = call.kind
            /\ call'.prepare = call.prepare /\ call'.at = a /\ call' \in CallType
        BY <1>3, <3>1, <3>2, <3>3, NextOp
      <3> QED
        BY <2>3, <3>1, <3>3, <3>4
    <2> QED
      BY <2>1, <2>2, <2>3
  <1>5. late = 0 /\ ~call.prepare => applied[<<call.n, call.op>>] # 0
    BY <1>2 DEF RetryInv, AnswerTrue
  <1>6. call'.op \in Nat /\ call.op \in Nat /\ call'.op \in Ops /\ call'.op >= call.op
    <2>1. call.op \in Nat /\ call'.op \in Ops
      BY <1>1, <1>4 DEF CallType
    <2>2. call'.op = call.op \/ call'.op = call.op + 1
      BY <1>4
    <2> QED
      BY <1>1, <2>1, <2>2
  <1>7. \A n, i : Fresh(n, i)' <=> Fresh(n, i)
    BY DEF Fresh, Exec
  <1>8. TypeOK'
    BY <1>2, <1>4 DEF RetryInv, TypeOK, CallType
  <1>9. CallShape'
    BY <1>1, <1>4 DEF RetryInv, CallShape
  <1>10. OneUnderWay'
    BY <1>2, <1>4 DEF OneUnderWay
  <1>11. BehindReady'
    <2>1. garbled = 0 /\ late = call.n => call'.at = "idle"
      BY <1>2, <1>4 DEF RetryInv, CallShape
    <2> QED
      BY <1>4, <2>1 DEF BehindReady
  <1>12. SentOnce'
    BY ZenonT(30) DEF RetryInv, SentOnce, Covered, Exec
  <1>13. NotYetSent'
    <2>1. ASSUME NEW n \in Calls, NEW i \in Ops, n > call.n \/ (n = call.n /\ i > call'.op)
          PROVE  Fresh(n, i)'
      <3>1. i \in Nat /\ (i > call'.op => i > call.op)
        BY <1>1, <1>6
      <3>2. Fresh(n, i)
        BY <2>1, <3>1 DEF RetryInv, NotYetSent
      <3> QED
        BY <1>7, <3>2
    <2>2. ASSUME MaySend', up', Covered(call.n)' PROVE Fresh(call.n, call.op)'
      <3>1. Fresh(call.n, call'.op)
        <4>1. CASE call.prepare
          <5>1. MaySend /\ up /\ Covered(call.n) /\ call'.op = call.op
            BY <1>4, <2>2, <4>1 DEF MaySend, Covered
          <5> QED
            BY <5>1 DEF RetryInv, NotYetSent
        <4>2. CASE ~call.prepare
          <5>1. call'.op = call.op + 1
            BY <1>4, <2>2, <4>2 DEF MaySend
          <5>2. call'.op > call.op
            BY <1>6, <5>1
          <5> QED
            BY <1>1, <1>6, <5>2 DEF RetryInv, NotYetSent
        <4> QED
          BY <4>1, <4>2
      <3> QED
        BY <1>4, <3>1 DEF Fresh, Exec
    <2> QED
      BY <1>4, <2>1, <2>2 DEF NotYetSent
  <1>14. AnswerTrue'
    BY <1>4 DEF AnswerTrue
  <1>15. Prefixes'
    <2>1. ASSUME late = 0, NEW i \in Ops, i < call'.op PROVE applied[<<call.n, i>>] # 0
      <3>1. i \in Nat
        BY <1>1
      <3>2. CASE i < call.op
        BY <1>1, <2>1, <3>2 DEF RetryInv, Prefixes
      <3>3. CASE ~(i < call.op)
        <4>1. i = call.op /\ ~call.prepare
          BY <1>4, <1>6, <2>1, <3>1, <3>3
        <4> QED
          BY <1>5, <2>1, <4>1
      <3> QED
        BY <3>2, <3>3
    <2> QED
      BY <1>4, <2>1 DEF RetryInv, Prefixes
  <1>16. CurrentTrue'
    <2> SUFFICES ASSUME late = 0 PROVE CurrentTrue'
      BY DEF CurrentTrue
    <2>1. ASSUME call.kind # "retry", MaySend' PROVE applied[<<call.n, call'.op>>] = 0
      <3>1. CASE call.prepare
        <4>1. MaySend /\ call'.op = call.op
          BY <1>4, <3>1 DEF MaySend
        <4> QED
          BY <1>1, <2>1, <4>1 DEF RetryInv, CurrentTrue
      <3>2. CASE ~call.prepare
        <4>1. call'.op > call.op
          BY <1>4, <1>6, <2>1, <3>2 DEF MaySend
        <4> QED
          BY <1>1, <1>6, <4>1 DEF RetryInv, NotYetSent, Fresh
      <3> QED
        BY <3>1, <3>2
    <2>2. call'.at # "failed" /\ (call'.at = "idle" => call'.code = "OK")
      BY <1>4
    <2>3. call'.at = "idle" =>
             applied[<<call.n, call'.op>>] # 0 /\ (call.kind = "retry" \/ call'.op = NumOps)
      BY <1>4, <1>5
    <2> QED
      BY <1>4, <2>1, <2>2, <2>3 DEF CurrentTrue
  <1> QED
    BY <1>8, <1>9, <1>10, <1>11, <1>12, <1>13, <1>14, <1>15, <1>16 DEF RetryInv

\* A request fails while its answer is read: by an error in the answer, which
\* says that it had no effect, or by a timeout, after which it is not retried.
LEMMA FailedStep ==
    ASSUME RetryInv, call.at = "await", NEW c \in Codes, c # "OK", Failed(c),
           UNCHANGED <<requests, up, applied, garbled>>, wire' \in Seq(Answers),
           late' = late \/ (late = 0 /\ late' = call.n),
           \/ c = "UNKNOWN" /\ late' # 0
           \/ /\ wire # <<>> /\ wire[1].whole /\ wire[1].status # "OK"
              /\ late' = 0 => wire' = Tail(wire)
              /\ late' # late => Len(wire') > 0 /\ ~wire'[1].whole
    PROVE  RetryInv'
  <1>1. /\ call \in CallType /\ call.n \in Nat /\ call.op \in Ops /\ late \in Nat
        /\ late <= call.n /\ call.n \in Calls /\ call.n # 0
        /\ Ops \subseteq Nat /\ Calls \subseteq Nat
    BY Typed DEF RetryInv, CallShape
  <1>2. /\ call'.n = call.n /\ call'.op = call.op /\ call'.kind = call.kind
        /\ call'.prepare = call.prepare /\ call'.code = c /\ call' \in CallType
        /\ call'.at = IF call.kind = "retry" THEN "failed" ELSE "idle"
    BY FailedCall DEF RetryInv, SameOp
  <1>3. ~ShouldRetry("UNKNOWN")
    BY DEF ShouldRetry
  <1>4. MaySend' => call.kind = "retry" /\ ShouldRetry(c)
    BY <1>2 DEF MaySend
  <1>5. ASSUME ShouldRetry(c) \/ late' = 0
        PROVE  /\ wire # <<>> /\ wire[1].whole /\ wire[1].status # "OK"
               /\ garbled = 0 => late # call.n
               /\ late = 0 => /\ requests = <<>> /\ Tail(wire) = <<>>
                              /\ ~call.prepare => applied[<<call.n, call.op>>] = 0
    <2>1. wire # <<>> /\ wire[1].whole /\ wire[1].status # "OK"
      BY <1>3, <1>5
    <2>2. /\ late = 0 => requests = <<>> /\ Tail(wire) = <<>> /\ Len(wire) = 1
          /\ garbled = 0 => late # call.n
      BY <2>1, FirstAnswer
    <2>3. late = 0 /\ ~call.prepare => applied[<<call.n, call.op>>] = 0
      BY <2>1, <2>2 DEF RetryInv, AnswerTrue
    <2> QED
      BY <2>1, <2>2, <2>3
  <1>6. \A n \in Calls : Covered(n)' => Covered(n)
    BY DEF Covered
  <1>17. garbled \in Nat /\ garbled <= call.n
    BY Typed
  <1>7. \A n, i : Fresh(n, i)' <=> Fresh(n, i)
    BY DEF Fresh, Exec
  <1>8. TypeOK'
    <2>1. late' \in 0..MaxCalls
      BY <1>1 DEF RetryInv, TypeOK, CallType
    <2> QED
      BY <1>2, <2>1 DEF RetryInv, TypeOK, CallType
  <1>9. CallShape'
    BY <1>1, <1>2 DEF RetryInv, CallShape
  <1>10. OneUnderWay'
    <2>1. ASSUME late' = 0 PROVE requests' = <<>> /\ wire' = <<>> /\ call'.at # "await"
      BY <1>1, <1>2, <1>3, <1>5, <2>1
    <2> QED
      BY <2>1 DEF OneUnderWay
  <1>11. BehindReady'
    <2> SUFFICES ASSUME garbled = 0, late' # 0, late' = call.n, call'.at = "failed", ShouldRetry(c)
                 PROVE  call'.kind = "retry" /\ Len(wire') > 0 /\ ~wire'[1].whole
      BY <1>2 DEF BehindReady
    <2>1. late' # late
      BY <1>5
    <2> QED
      BY <1>2, <1>3, <2>1
  <1>12. SentOnce'
    BY <1>6 DEF RetryInv, SentOnce, Exec
  <1>13. NotYetSent'
    <2>1. ASSUME NEW n \in Calls, NEW i \in Ops, n > call.n \/ (n = call.n /\ i > call.op)
          PROVE  Fresh(n, i)'
      BY <1>7, <2>1 DEF RetryInv, NotYetSent
    <2>2. ASSUME MaySend', up', Covered(call.n)' PROVE Fresh(call.n, call.op)'
      <3>1. ShouldRetry(c) /\ call.kind = "retry"
        BY <1>4, <2>2
      <3>2. garbled = 0 /\ (late = 0 \/ late = call.n)
        BY <1>1, <1>2, <1>17, <2>2 DEF Covered
      <3>3. late = 0
        BY <1>5, <3>1, <3>2
      <3>4. requests = <<>> /\ applied[<<call.n, call.op>>] = 0
        BY <1>5, <3>1, <3>3 DEF RetryInv, CallShape
      <3>5. \A j \in 1..Len(requests') : FALSE
        BY <3>4
      <3> QED
        BY <1>2, <3>4, <3>5 DEF Fresh
    <2> QED
      BY <1>2, <2>1, <2>2 DEF NotYetSent
  <1>14. AnswerTrue'
    BY <1>2 DEF AnswerTrue
  <1>15. Prefixes'
    <2>1. late' = 0 => late = 0
      BY <1>1
    <2> QED
      BY <1>2, <2>1 DEF RetryInv, Prefixes
  <1>16. CurrentTrue'
    <2> SUFFICES ASSUME late' = 0 PROVE applied[<<call.n, call.op>>] = 0
      BY <1>2, <1>4 DEF CurrentTrue
    <2>1. late = 0
      BY <1>1
    <2>2. CASE call.prepare
      <3>1. MaySend /\ call.kind # "retry"
        BY <2>2 DEF MaySend, RetryInv, CallShape
      <3> QED
        BY <1>1, <2>1, <3>1 DEF RetryInv, CurrentTrue
    <2>3. CASE ~call.prepare
      BY <1>5, <2>1, <2>3
    <2> QED
      BY <2>2, <2>3
  <1> QED
    BY <1>8, <1>9, <1>10, <1>11, <1>12, <1>13, <1>14, <1>15, <1>16 DEF RetryInv

\* The three ways a read can end.
LEMMA ReadStep ==
    ASSUME RetryInv, Read
    PROVE  RetryInv'
  <1>1. /\ call.at = "await" /\ wire # <<>> /\ wire' = Tail(wire)
        /\ UNCHANGED <<requests, up, applied, late, garbled>>
    BY DEF Read
  <1>2. /\ Head(wire) = wire[1] /\ wire[1].status \in {"OK"} \cup Statuses
        /\ Tail(wire) \in Seq(Answers)
    BY <1>1, FirstAnswer
  <1>3. CASE wire[1].status = "OK" \/ ~wire[1].whole
    <2>1. Succeeded
      BY <1>2, <1>3 DEF Read
    <2> QED
      BY <1>1, <1>3, <2>1, SucceededStep
  <1>4. CASE ~(wire[1].status = "OK" \/ ~wire[1].whole)
    <2> DEFINE c == MapStatus(wire[1].status)
    <2>1. Failed(c)
      BY <1>2, <1>4 DEF Read
    <2>2. c \in Codes /\ c # "OK"
      BY <1>2, <1>4, Mapped
    <2> HIDE DEF c
    <2> QED
      BY <1>1, <1>2, <1>4, <2>1, <2>2, FailedStep
  <1> QED
    BY <1>3, <1>4

\* An answer whose READY was left on the wire.
LEMMA LeftReady ==
    ASSUME RetryInv, call.at = "await", wire # <<>>,
           wire' = [wire EXCEPT ![1].whole = FALSE]
    PROVE  wire' \in Seq(Answers) /\ Len(wire') > 0 /\ ~wire'[1].whole
  <1>1. Len(wire) \in Nat \ {0} /\ wire[1] \in Answers /\ wire \in Seq(Answers)
    BY FirstAnswer, Typed
  <1> DEFINE a == [wire[1] EXCEPT !.whole = FALSE]
  <1>2. a \in Answers /\ ~a.whole
    BY <1>1 DEF Answers
  <1>3. wire' = [wire EXCEPT ![1] = a]
    OBVIOUS
  <1> HIDE DEF a
  <1>4. wire' \in Seq(Answers) /\ Len(wire') = Len(wire) /\ wire'[1] = a
    <2>1. 1 \in 1..Len(wire)
      BY <1>1
    <2>2. /\ [wire EXCEPT ![1] = a] \in Seq(Answers)
          /\ Len([wire EXCEPT ![1] = a]) = Len(wire)
          /\ [wire EXCEPT ![1] = a][1] = a
      BY <1>1, <1>2, <2>1, ExceptSeq
    <2> QED
      BY <1>3, <2>2
  <1> QED
    BY <1>1, <1>2, <1>4

\* A read that gives up before the end of an answer.
LEMMA ReadTimesOutStep ==
    ASSUME RetryInv, ReadTimesOut
    PROVE  RetryInv'
  <1>1. /\ call.at = "await" /\ UNCHANGED <<requests, up, applied, garbled>>
        /\ late' = IF late = 0 THEN call.n ELSE late
    BY DEF ReadTimesOut, GivesUp
  <1>2. call.n # 0 /\ late \in Nat /\ call.n \in Nat /\ wire \in Seq(Answers)
    BY <1>1, Typed DEF RetryInv, CallShape
  <1>3. Failed("UNKNOWN") /\ "UNKNOWN" \in Codes
    BY Mapped DEF ReadTimesOut, Statuses
  <1>4. wire' \in Seq(Answers)
    <2>1. CASE UNCHANGED wire
      BY <1>2, <2>1
    <2>2. CASE wire # <<>> /\ wire' = [wire EXCEPT ![1].whole = FALSE]
      BY <1>1, <2>2, LeftReady
    <2> QED
      BY <2>1, <2>2 DEF ReadTimesOut
  <1>5. late' # 0 /\ (late' = late \/ (late = 0 /\ late' = call.n))
    BY <1>1, <1>2
  <1> QED
    BY <1>1, <1>3, <1>4, <1>5, FailedStep

\* A read that gives up in the drain after an error.
LEMMA DrainTimesOutStep ==
    ASSUME RetryInv, DrainTimesOut
    PROVE  RetryInv'
  <1>1. /\ call.at = "await" /\ wire # <<>> /\ UNCHANGED <<requests, up, applied, garbled>>
        /\ Head(wire).whole /\ Head(wire).status # "OK"
        /\ wire' = [wire EXCEPT ![1].whole = FALSE]
        /\ Failed(MapStatus(Head(wire).status))
        /\ late' = IF late = 0 THEN call.n ELSE late
    BY DEF DrainTimesOut, GivesUp
  <1>2. Head(wire) = wire[1] /\ wire[1].status \in {"OK"} \cup Statuses
    BY <1>1, FirstAnswer
  <1> DEFINE c == MapStatus(wire[1].status)
  <1>3. Failed(c)
    BY <1>1, <1>2
  <1>7. c \in Codes /\ c # "OK"
    BY <1>1, <1>2, Mapped
  <1> HIDE DEF c
  <1>4. call.n # 0 /\ late \in Nat /\ call.n \in Nat
    BY <1>1, Typed DEF RetryInv, CallShape
  <1>5. wire' \in Seq(Answers) /\ Len(wire') > 0 /\ ~wire'[1].whole
    BY <1>1, LeftReady
  <1>6. late' # 0 /\ (late' = late \/ (late = 0 /\ late' = call.n))
    BY <1>1, <1>4
  <1> QED
    BY <1>1, <1>2, <1>3, <1>5, <1>6, <1>7, FailedStep

\* An answer that does not decode: the call is not covered from here on.
LEMMA AnswerGarbledStep ==
    ASSUME RetryInv, AnswerGarbled
    PROVE  RetryInv'
  <1>1. /\ call.at = "await" /\ wire # <<>> /\ UNCHANGED <<requests, up, applied>>
        /\ late' = IF late = 0 THEN call.n ELSE late
        /\ garbled' = IF garbled = 0 THEN call.n ELSE garbled
    BY DEF AnswerGarbled, GivesUp
  <1>2. /\ call.n # 0 /\ call.n \in Calls /\ call.n \in Nat /\ Calls \subseteq Nat
        /\ late \in Nat /\ late <= call.n /\ garbled \in Nat /\ garbled <= call.n
    BY <1>1, Typed DEF RetryInv, CallShape
  <1>3. Failed("PROTOCOL") /\ "PROTOCOL" \in Codes
    BY DEF AnswerGarbled, MapStatus, Codes
  <1>4. /\ call'.n = call.n /\ call'.op = call.op /\ call'.kind = call.kind
        /\ call'.prepare = call.prepare /\ call'.code = "PROTOCOL" /\ call' \in CallType
        /\ call'.at = IF call.kind = "retry" THEN "failed" ELSE "idle"
    BY <1>3, FailedCall DEF RetryInv, SameOp
  <1>5. wire' \in Seq(Answers)
    <2>1. CASE wire' = [wire EXCEPT ![1].whole = FALSE]
      BY <1>1, <2>1, LeftReady
    <2>2. CASE wire' = Tail(wire)
      BY <1>1, <2>2, FirstAnswer
    <2> QED
      BY <2>1, <2>2 DEF AnswerGarbled
  <1>6. /\ late' # 0 /\ late' \in Nat /\ late' <= call.n
        /\ garbled' # 0 /\ garbled' \in Nat /\ garbled' <= call.n
    BY <1>1, <1>2
  <1>7. ~Covered(call.n)'
    BY <1>2, <1>4, <1>6 DEF Covered
  <1>8. \A n \in Calls : Covered(n)' => Covered(n)
    BY <1>1, <1>2 DEF Covered
  <1>9. TypeOK'
    <2>1. late' \in 0..MaxCalls /\ garbled' \in 0..MaxCalls
      BY <1>2, <1>6, RetryAssumption DEF Calls
    <2> QED
      BY <1>1, <1>4, <1>5, <2>1 DEF RetryInv, TypeOK, CallType
  <1>10. CallShape'
    BY <1>2, <1>4, <1>6 DEF RetryInv, CallShape
  <1>11. OneUnderWay' /\ BehindReady' /\ AnswerTrue' /\ Prefixes' /\ CurrentTrue'
    BY <1>6 DEF OneUnderWay, BehindReady, AnswerTrue, Prefixes, CurrentTrue
  <1>12. SentOnce'
    BY <1>1, <1>8 DEF RetryInv, SentOnce, Exec
  <1>13. NotYetSent'
    <2>1. \A n, i : Fresh(n, i)' <=> Fresh(n, i)
      BY <1>1 DEF Fresh, Exec
    <2> QED
      BY <1>4, <1>7, <2>1 DEF RetryInv, NotYetSent
  <1> QED
    BY <1>9, <1>10, <1>11, <1>12, <1>13 DEF RetryInv

-----------------------------------------------------------------------------
(* The server.                                                             *)

\* What taking a request does to the statements' effects.
LEMMA Effects ==
    ASSUME applied \in [Calls \X Ops -> Nat], NEW r \in Requests,
           Applies(r) \/ UNCHANGED applied
    PROVE  /\ applied' \in [Calls \X Ops -> Nat]
           /\ \A n \in Calls, i \in Ops :
                 \/ applied'[<<n, i>>] = applied[<<n, i>>]
                 \/ /\ r = Exec(n, i) /\ r.call = n /\ r.op = i /\ ~r.prepare
                    /\ applied'[<<n, i>>] = applied[<<n, i>>] + 1
  <1>1. CASE UNCHANGED applied
    BY <1>1
  <1>2. CASE Applies(r) /\ r.prepare
    BY <1>2 DEF Applies
  <1>3. CASE Applies(r) /\ ~r.prepare
    <2>1. r.call \in Calls /\ r.op \in Ops
      BY DEF Requests
    <2>2. r = Exec(r.call, r.op)
      <3>1. r.prepare = FALSE
        BY <1>3 DEF Requests
      <3> QED
        BY <3>1 DEF Requests, Exec
    <2>3. applied' = [applied EXCEPT ![<<r.call, r.op>>] = @ + 1]
      BY <1>3 DEF Applies
    <2>4. applied' \in [Calls \X Ops -> Nat]
      BY <2>1, <2>3
    <2>5. ASSUME NEW n \in Calls, NEW i \in Ops
          PROVE  \/ applied'[<<n, i>>] = applied[<<n, i>>]
                 \/ /\ r = Exec(n, i) /\ r.call = n /\ r.op = i /\ ~r.prepare
                    /\ applied'[<<n, i>>] = applied[<<n, i>>] + 1
      <3>1. CASE n = r.call /\ i = r.op
        BY <1>3, <2>1, <2>2, <2>3, <3>1
      <3>2. CASE ~(n = r.call /\ i = r.op)
        <4>1. <<n, i>> # <<r.call, r.op>>
          BY <3>2
        <4> QED
          BY <2>3, <4>1
      <3> QED
        BY <3>1, <3>2
    <2> QED
      BY <2>4, <2>5
  <1> QED
    BY <1>1, <1>2, <1>3

\* The server takes requests in order, so that the other requests keep theirs.
LEMMA TakenRequest ==
    ASSUME RetryInv, requests # <<>>
    PROVE  /\ Head(requests) = requests[1] /\ Head(requests) \in Requests
           /\ Len(requests) \in Nat \ {0}
           /\ Tail(requests) \in Seq(Requests) /\ Len(Tail(requests)) = Len(requests) - 1
           /\ \A j \in 1..Len(Tail(requests)) : Tail(requests)[j] = requests[j + 1]
           /\ late = 0 => /\ call.at = "await" /\ Head(requests) = Current /\ wire = <<>>
                          /\ Len(Tail(requests)) = 0 /\ Tail(requests) = <<>>
  <1>1. requests \in Seq(Requests)
    BY Typed
  <1>2. /\ Head(requests) = requests[1] /\ Head(requests) \in Requests
        /\ Len(requests) \in Nat \ {0}
    BY <1>1
  <1>3. /\ Tail(requests) \in Seq(Requests) /\ Len(Tail(requests)) = Len(requests) - 1
        /\ \A j \in 1..Len(Tail(requests)) : Tail(requests)[j] = requests[j + 1]
    BY <1>1, HeadTailProperties
  <1>4. late = 0 => call.at = "await" /\ requests = <<Current>> /\ wire = <<>>
    BY DEF RetryInv, OneUnderWay
  <1>5. requests = <<Current>> => /\ requests[1] = Current /\ Len(requests) = 1
                                  /\ Tail(requests) = <<>>
    OBVIOUS
  <1> QED
    BY <1>2, <1>3, <1>4, <1>5

\* A request the server took, applied or not, and dropped or answered: the
\* effects stay at most one, and what was not sent stays without one.
LEMMA TakenOnce ==
    ASSUME RetryInv, UNCHANGED <<call, late, garbled>>, up' => up,
           \/ /\ requests # <<>>
              /\ Applies(Head(requests)) \/ UNCHANGED applied
              /\ requests' \in {Tail(requests), <<>>}
           \/ requests' = <<>> /\ UNCHANGED applied
    PROVE  /\ SentOnce' /\ NotYetSent'
           /\ requests' \in Seq(Requests) /\ applied' \in [Calls \X Ops -> Nat]
  <1>1. /\ requests \in Seq(Requests) /\ applied \in [Calls \X Ops -> Nat]
        /\ Len(requests) \in Nat /\ call.op \in Ops /\ call.n \in Nat
        /\ call.at # "idle" => call.n \in Calls
    BY Typed
  <1>2. /\ requests' \in Seq(Requests) /\ applied' \in [Calls \X Ops -> Nat]
        /\ Len(requests') \in Nat
        /\ \A j \in 1..Len(requests') : j + 1 \in 1..Len(requests) /\ requests'[j] = requests[j + 1]
        /\ \A n \in Calls, i \in Ops :
              \/ applied'[<<n, i>>] = applied[<<n, i>>]
              \/ /\ requests # <<>> /\ requests[1] = Exec(n, i)
                 /\ applied'[<<n, i>>] = applied[<<n, i>>] + 1
    <2>1. CASE requests # <<>>
      <3>1. /\ Head(requests) = requests[1] /\ Head(requests) \in Requests
            /\ Len(requests) \in Nat \ {0}
            /\ Tail(requests) \in Seq(Requests) /\ Len(Tail(requests)) = Len(requests) - 1
            /\ \A j \in 1..Len(Tail(requests)) : Tail(requests)[j] = requests[j + 1]
        BY <2>1, TakenRequest
      <3>2. Applies(Head(requests)) \/ UNCHANGED applied
        OBVIOUS
      <3>3. /\ applied' \in [Calls \X Ops -> Nat]
            /\ \A n \in Calls, i \in Ops :
                  \/ applied'[<<n, i>>] = applied[<<n, i>>]
                  \/ /\ Head(requests) = Exec(n, i)
                     /\ applied'[<<n, i>>] = applied[<<n, i>>] + 1
        BY <1>1, <3>1, <3>2, Effects
      <3>4. requests' \in {Tail(requests), <<>>}
        OBVIOUS
      <3>5. CASE requests' = <<>>
        <4>1. Len(requests') = 0 /\ requests' \in Seq(Requests)
          BY <3>5
        <4>2. \A j \in 1..Len(requests') : FALSE
          BY <4>1
        <4> QED
          BY <2>1, <3>1, <3>3, <4>1, <4>2
      <3>6. CASE requests' = Tail(requests)
        <4> DEFINE rest == Tail(requests)
        <4>1. /\ rest \in Seq(Requests) /\ Len(rest) = Len(requests) - 1
              /\ \A j \in 1..Len(rest) : rest[j] = requests[j + 1]
          BY <3>1
        <4>2. requests' = rest
          BY <3>6
        <4> HIDE DEF rest
        <4>3. \A j \in 1..Len(rest) : j + 1 \in 1..Len(requests)
          BY <3>1, <4>1
        <4> QED
          BY <2>1, <3>1, <3>3, <4>1, <4>2, <4>3
      <3> QED
        BY <3>4, <3>5, <3>6
    <2>2. CASE requests = <<>>
      <3>1. requests' = <<>> /\ UNCHANGED applied
        BY <2>2
      <3>2. Len(requests') = 0 /\ requests' \in Seq(Requests)
        BY <3>1
      <3>3. \A j \in 1..Len(requests') : FALSE
        BY <3>2
      <3> QED
        BY <1>1, <3>1, <3>2, <3>3
    <2> QED
      BY <2>1, <2>2
  <1>3. requests # <<>> => 1 \in 1..Len(requests)
    BY <1>1
  <1>4. ASSUME NEW n \in Calls, NEW i \in Ops, Fresh(n, i)
        PROVE  Fresh(n, i)'
    <2>1. \A j \in 1..Len(requests) : requests[j] # Exec(n, i)
      BY <1>4 DEF Fresh
    <2>2. applied'[<<n, i>>] = applied[<<n, i>>]
      BY <1>2, <1>3, <2>1
    <2>3. \A j \in 1..Len(requests') : requests'[j] # Exec(n, i)
      BY <1>2, <2>1
    <2> QED
      BY <1>4, <2>2, <2>3 DEF Fresh, Exec
  <1>5. SentOnce'
    <2> SUFFICES ASSUME NEW n \in Calls, NEW i \in Ops, Covered(n)
                 PROVE  /\ applied'[<<n, i>>] <= 1
                        /\ \A j, k \in 1..Len(requests') :
                              requests'[j] = Exec(n, i) /\ requests'[k] = Exec(n, i) => j = k
                        /\ applied'[<<n, i>>] # 0 =>
                              \A j \in 1..Len(requests') : requests'[j] # Exec(n, i)
      BY DEF SentOnce, Covered, Exec
    <2>1. /\ applied[<<n, i>>] <= 1 /\ applied[<<n, i>>] \in Nat
          /\ \A j, k \in 1..Len(requests) :
                requests[j] = Exec(n, i) /\ requests[k] = Exec(n, i) => j = k
          /\ applied[<<n, i>>] # 0 => \A j \in 1..Len(requests) : requests[j] # Exec(n, i)
      BY <1>1 DEF RetryInv, SentOnce
    <2>2. ASSUME NEW j \in 1..Len(requests'), NEW k \in 1..Len(requests'),
                 requests'[j] = Exec(n, i), requests'[k] = Exec(n, i)
          PROVE  j = k
      <3>1. /\ j + 1 \in 1..Len(requests) /\ requests[j + 1] = Exec(n, i)
            /\ k + 1 \in 1..Len(requests) /\ requests[k + 1] = Exec(n, i)
        BY <1>2, <2>2
      <3>2. j + 1 = k + 1
        BY <2>1, <3>1
      <3> QED
        BY <1>2, <3>2
    <2>3. CASE applied'[<<n, i>>] = applied[<<n, i>>]
      BY <1>2, <2>1, <2>2, <2>3
    <2>4. CASE requests # <<>> /\ requests[1] = Exec(n, i)
               /\ applied'[<<n, i>>] = applied[<<n, i>>] + 1
      <3>1. applied[<<n, i>>] = 0
        BY <1>3, <2>1, <2>4
      <3>2. ASSUME NEW j \in 1..Len(requests') PROVE requests'[j] # Exec(n, i)
        <4>1. j + 1 \in 1..Len(requests) /\ requests'[j] = requests[j + 1] /\ j + 1 # 1
          BY <1>2
        <4> QED
          BY <1>3, <2>1, <2>4, <4>1
      <3> QED
        BY <2>2, <2>4, <3>1, <3>2
    <2> QED
      BY <1>2, <2>3, <2>4
  <1>6. NotYetSent'
    <2>1. ASSUME NEW n \in Calls, NEW i \in Ops, n > call.n \/ (n = call.n /\ i > call.op)
          PROVE  Fresh(n, i)'
      BY <1>4, <2>1 DEF RetryInv, NotYetSent
    <2>2. ASSUME MaySend', up', Covered(call.n)' PROVE Fresh(call.n, call.op)'
      <3>1. Fresh(call.n, call.op) /\ call.n \in Calls
        BY <1>1, <2>2 DEF RetryInv, NotYetSent, Covered, MaySend
      <3>2. PICK n \in Calls, i \in Ops : n = call.n /\ i = call.op
        BY <1>1, <3>1
      <3>3. Fresh(n, i)'
        BY <1>4, <3>1, <3>2
      <3> QED
        BY <3>2, <3>3 DEF Fresh, Exec
    <2> QED
      BY <2>1, <2>2 DEF NotYetSent
  <1> QED
    BY <1>2, <1>5, <1>6

\* The server answers a request.
LEMMA ServerAnswersStep ==
    ASSUME RetryInv, ServerAnswers
    PROVE  RetryInv'
  <1> DEFINE r == Head(requests)
  <1>1. /\ up /\ requests # <<>> /\ requests' = Tail(requests)
        /\ UNCHANGED <<call, up, late, garbled>>
        /\ Applies(r) \/ UNCHANGED applied
    BY DEF ServerAnswers
  <1>2. PICK s \in {"OK"} \cup Statuses :
           /\ wire' = Append(wire, [of |-> r, whole |-> TRUE, status |-> s])
           /\ s = "OK" => Applies(r)
           /\ s # "OK" => UNCHANGED applied
    BY DEF ServerAnswers, Statuses
  <1>3. /\ r \in Requests
        /\ late = 0 => call.at = "await" /\ r = Current /\ wire = <<>> /\ Tail(requests) = <<>>
    BY <1>1, TakenRequest
  <1>4. /\ wire \in Seq(Answers) /\ call \in CallType /\ call.n \in Nat /\ call.op \in Ops
        /\ applied \in [Calls \X Ops -> Nat] /\ (call.at # "idle" => call.n \in Calls)
        /\ Ops \subseteq Nat /\ Calls \subseteq Nat
    BY Typed
  <1>5. /\ SentOnce' /\ NotYetSent'
        /\ requests' \in Seq(Requests) /\ applied' \in [Calls \X Ops -> Nat]
    BY <1>1, TakenOnce
  <1> HIDE DEF r
  <1>6. \A n \in Calls, i \in Ops :
           \/ applied'[<<n, i>>] = applied[<<n, i>>]
           \/ /\ r.call = n /\ r.op = i /\ ~r.prepare
              /\ applied'[<<n, i>>] = applied[<<n, i>>] + 1
    <2>1. r \in Requests /\ applied \in [Calls \X Ops -> Nat]
      BY <1>3, <1>4
    <2>2. Applies(r) \/ UNCHANGED applied
      BY <1>1
    <2>3. \A n \in Calls, i \in Ops :
             \/ applied'[<<n, i>>] = applied[<<n, i>>]
             \/ /\ r = Exec(n, i) /\ r.call = n /\ r.op = i /\ ~r.prepare
                /\ applied'[<<n, i>>] = applied[<<n, i>>] + 1
      BY <2>1, <2>2, Effects
    <2> QED
      BY <2>3
  <1> DEFINE a == [of |-> r, whole |-> TRUE, status |-> s]
  <1>7. a \in Answers /\ a.of = r /\ a.status = s /\ a.whole
    BY <1>3 DEF Answers
  <1>8. wire' = Append(wire, a)
    BY <1>2
  <1> HIDE DEF a
  <1>9. /\ wire' \in Seq(Answers) /\ Len(wire') = Len(wire) + 1 /\ Len(wire) \in Nat
        /\ wire = <<>> => Len(wire') = 1 /\ wire'[1] = a
        /\ Len(wire) > 0 => wire'[1] = wire[1]
    BY <1>4, <1>7, <1>8
  <1>10. TypeOK'
    BY <1>1, <1>5, <1>9 DEF RetryInv, TypeOK
  <1>11. CallShape'
    BY <1>1 DEF RetryInv, CallShape
  <1>12. OneUnderWay'
    BY <1>1, <1>3, <1>7, <1>9 DEF OneUnderWay, Current
  <1>13. BehindReady'
    BY <1>1, <1>9 DEF RetryInv, BehindReady
  <1>14. late = 0 => /\ r.call = call.n /\ r.op = call.op /\ call.n \in Calls
                     /\ (r.prepare <=> call.prepare)
    BY <1>3, <1>4 DEF Current
  <1>15. AnswerTrue'
    <2> SUFFICES ASSUME late = 0, call.at = "await", ~call.prepare
                 PROVE  /\ s = "OK" => applied'[<<call.n, call.op>>] # 0
                        /\ s # "OK" => applied'[<<call.n, call.op>>] = 0
      BY <1>1, <1>3, <1>7, <1>9 DEF AnswerTrue
    <2>1. applied[<<call.n, call.op>>] = 0
      <3>1. requests[1] = Exec(call.n, call.op) /\ 1 \in 1..Len(requests)
        <4>1. requests[1] = Current /\ Len(requests) \in Nat \ {0}
          BY <1>1, TakenRequest
        <4>2. call.prepare = FALSE
          BY <1>4 DEF CallType
        <4>3. Current = Exec(call.n, call.op)
          BY <4>2 DEF Current, Exec
        <4> QED
          BY <4>1, <4>3
      <3>2. Covered(call.n)
        BY Typed DEF Covered
      <3> QED
        BY <1>4, <1>14, <3>1, <3>2 DEF RetryInv, SentOnce
    <2>2. s = "OK" => applied' = [applied EXCEPT ![<<call.n, call.op>>] = @ + 1]
      BY <1>2, <1>14 DEF Applies
    <2>3. <<call.n, call.op>> \in Calls \X Ops
      BY <1>4, <1>14
    <2> QED
      BY <1>2, <1>4, <2>1, <2>2, <2>3
  <1>16. Prefixes'
    <2> SUFFICES ASSUME late = 0 PROVE Prefixes'
      BY <1>1 DEF Prefixes
    <2>1. \A n \in Calls, i \in Ops : n < call.n => applied'[<<n, i>>] = applied[<<n, i>>]
      BY <1>4, <1>6, <1>14
    <2>2. ASSUME NEW i \in Ops, i < call.op PROVE applied'[<<call.n, i>>] # 0
      <3>1. applied[<<call.n, i>>] # 0 /\ i # call.op
        BY <1>3, <1>4, <2>2 DEF RetryInv, Prefixes, CallShape
      <3>2. applied'[<<call.n, i>>] = applied[<<call.n, i>>]
        BY <1>6, <1>14, <3>1
      <3> QED
        BY <3>1, <3>2
    <2> QED
      BY <1>1, <2>1, <2>2 DEF RetryInv, Prefixes
  <1>17. CurrentTrue'
    <2> SUFFICES ASSUME late = 0, call.prepare
                 PROVE  applied'[<<call.n, call.op>>] = applied[<<call.n, call.op>>]
      BY <1>1, <1>3 DEF RetryInv, CurrentTrue, MaySend
    <2> QED
      BY <1>4, <1>6, <1>14
  <1> QED
    BY <1>5, <1>10, <1>11, <1>12, <1>13, <1>15, <1>16, <1>17 DEF RetryInv

\* The server closes the connection; what the call waits for may have taken
\* effect, and nothing sent from now on does.
LEMMA ServerClosesStep ==
    ASSUME RetryInv, ServerCloses
    PROVE  RetryInv'
  <1> DEFINE r == Head(requests)
  <1>1. /\ up /\ up' = FALSE /\ requests' = <<>> /\ UNCHANGED <<call, wire, late, garbled>>
        /\ \/ UNCHANGED applied
           \/ requests # <<>> /\ Applies(r)
    BY DEF ServerCloses
  <1>2. /\ call \in CallType /\ call.n \in Nat /\ call.op \in Ops
        /\ applied \in [Calls \X Ops -> Nat] /\ (call.at # "idle" => call.n \in Calls)
        /\ Ops \subseteq Nat /\ Calls \subseteq Nat
    BY Typed
  <1>3. /\ SentOnce' /\ NotYetSent'
        /\ requests' \in Seq(Requests) /\ applied' \in [Calls \X Ops -> Nat]
    BY <1>1, TakenOnce
  <1>4. requests # <<>> =>
           /\ r \in Requests
           /\ late = 0 => call.at = "await" /\ r = Current /\ wire = <<>>
    BY TakenRequest
  <1>5. ASSUME late = 0, NEW n \in Calls, NEW i \in Ops,
               n # call.n \/ i # call.op \/ call.prepare \/ call.at # "await" \/ Len(wire) > 0
        PROVE  applied'[<<n, i>>] = applied[<<n, i>>]
    <2>1. CASE UNCHANGED applied
      BY <2>1
    <2>2. CASE requests # <<>> /\ Applies(r)
      <3>1. r \in Requests /\ call.at = "await" /\ r = Current /\ wire = <<>>
        BY <1>4, <1>5, <2>2
      <3>2. r.call = call.n /\ r.op = call.op /\ (r.prepare <=> call.prepare)
        BY <3>1 DEF Current
      <3>3. n # call.n \/ i # call.op \/ call.prepare
        BY <1>5, <3>1
      <3> HIDE DEF r
      <3>4. \/ applied'[<<n, i>>] = applied[<<n, i>>]
            \/ r.call = n /\ r.op = i /\ ~r.prepare
        BY <1>2, <2>2, <3>1, Effects
      <3> QED
        BY <3>2, <3>3, <3>4
    <2> QED
      BY <1>1, <2>1, <2>2
  <1>6. TypeOK'
    BY <1>1, <1>3 DEF RetryInv, TypeOK
  <1>7. CallShape'
    BY <1>1 DEF RetryInv, CallShape
  <1>8. OneUnderWay'
    BY <1>1 DEF RetryInv, OneUnderWay, Current
  <1>9. BehindReady'
    BY <1>1 DEF RetryInv, BehindReady
  <1>10. AnswerTrue'
    <2> SUFFICES ASSUME late = 0, call.at = "await", ~call.prepare, Len(wire) = 1
                 PROVE  /\ wire[1].status = "OK" => applied'[<<call.n, call.op>>] # 0
                        /\ wire[1].status # "OK" => applied'[<<call.n, call.op>>] = 0
      BY <1>1 DEF AnswerTrue
    <2>1. applied'[<<call.n, call.op>>] = applied[<<call.n, call.op>>]
      <3>1. call.n \in Calls /\ call.op \in Ops /\ Len(wire) > 0
        BY <1>2
      <3> QED
        BY <1>5, <3>1
    <2> QED
      BY <2>1 DEF RetryInv, AnswerTrue
  <1>11. Prefixes'
    <2> SUFFICES ASSUME late = 0 PROVE Prefixes'
      BY <1>1 DEF Prefixes
    <2>1. \A n \in Calls, i \in Ops : n < call.n => applied'[<<n, i>>] = applied[<<n, i>>]
      BY <1>2, <1>5
    <2>2. ASSUME NEW i \in Ops, i < call.op, call.n # 0 PROVE applied'[<<call.n, i>>] # 0
      <3>1. applied[<<call.n, i>>] # 0 /\ i # call.op
        BY <1>2, <2>2 DEF RetryInv, Prefixes
      <3>2. call.n \in Calls
        BY <1>2, <2>2, RetryAssumption DEF Calls, CallType
      <3>3. applied'[<<call.n, i>>] = applied[<<call.n, i>>]
        BY <1>5, <3>1, <3>2
      <3> QED
        BY <3>1, <3>3
    <2> QED
      BY <1>1, <2>1, <2>2 DEF RetryInv, Prefixes
  <1>12. CurrentTrue'
    <2> SUFFICES ASSUME late = 0, call.n # 0, call.prepare \/ call.at # "await"
                 PROVE  applied'[<<call.n, call.op>>] = applied[<<call.n, call.op>>]
      BY <1>1 DEF RetryInv, CurrentTrue, MaySend
    <2>1. call.n \in Calls
      BY <1>2, RetryAssumption DEF Calls, CallType
    <2> QED
      BY <1>2, <1>5, <2>1
  <1> QED
    BY <1>3, <1>6, <1>7, <1>8, <1>9, <1>10, <1>11, <1>12 DEF RetryInv

-----------------------------------------------------------------------------
(* The theorems.                                                           *)

\* The invariant holds before the first call.
LEMMA RetryInit == Init => RetryInv
  <1> SUFFICES ASSUME Init PROVE RetryInv
    OBVIOUS
  <1>1. /\ call = [n |-> 0, kind |-> "retry", op |-> 1, attempt |-> 0, at |-> "idle",
                   prepare |-> FALSE, code |-> "OK"]
        /\ requests = <<>> /\ wire = <<>> /\ up = TRUE /\ late = 0 /\ garbled = 0
        /\ applied = [s \in Calls \X Ops |-> 0]
    BY DEF Init
  <1>2. 1 \in Ops /\ 0 \in 0..MaxCalls /\ 0 \in 0..MaxRetries
    BY RetryAssumption DEF Ops
  <1>3. call \in CallType
    BY <1>1, <1>2 DEF CallType, Kinds, Codes
  <1>4. /\ call.n = 0 /\ call.kind = "retry" /\ call.op = 1 /\ call.at = "idle"
        /\ ~call.prepare /\ call.code = "OK"
    BY <1>1
  <1>5. TypeOK
    <2>1. requests \in Seq(Requests) /\ wire \in Seq(Answers)
      BY <1>1
    <2>2. applied \in [Calls \X Ops -> Nat]
      BY <1>1
    <2> QED
      BY <1>1, <1>2, <1>3, <2>1, <2>2 DEF TypeOK, CallType
  <1>6. CallShape /\ OneUnderWay /\ BehindReady /\ AnswerTrue
    BY <1>1, <1>4 DEF CallShape, OneUnderWay, BehindReady, AnswerTrue
  <1>7. \A j \in 1..Len(requests) : FALSE
    BY <1>1
  <1>8. \A n \in Calls, i \in Ops : applied[<<n, i>>] = 0
    BY <1>1
  <1>9. SentOnce
    BY <1>7, <1>8 DEF SentOnce
  <1>10. NotYetSent
    BY <1>4, <1>7, <1>8 DEF NotYetSent, Fresh, MaySend
  <1>11. Prefixes /\ CurrentTrue
    BY <1>4, <1>8 DEF Prefixes, CurrentTrue
  <1> QED
    BY <1>5, <1>6, <1>9, <1>10, <1>11 DEF RetryInv

\* Every step keeps the invariant.
LEMMA RetryStep ==
    ASSUME RetryInv, [Next]_vars
    PROVE  RetryInv'
  <1>1. ASSUME NEW p \in BOOLEAN, SendRequest(p), call.at = IF p THEN "prepare" ELSE "admit",
               UNCHANGED <<wire, up, applied, late, garbled>>
        PROVE  RetryInv'
    <2>1. CASE /\ requests' = IF up
                              THEN Append(requests, [call |-> call.n, op |-> call.op, prepare |-> p])
                              ELSE requests
               /\ call' = [call EXCEPT !.at = "await", !.prepare = p]
      BY <1>1, <2>1, SentStep
    <2>2. CASE Failed("CONNECTION_FAILED") /\ UNCHANGED requests
      BY <1>1, <2>2, LostRequest
    <2> QED
      BY <1>1, <2>1, <2>2 DEF SendRequest
  <1>2. CASE Prepare
    BY <1>1, <1>2 DEF Prepare
  <1>3. CASE Execute
    BY <1>1, <1>3 DEF Execute
  <1>4. CASE Refuse
    BY <1>4, LostRequest DEF Refuse
  <1>5. CASE BindFails
    BY <1>5, InvalidParam DEF BindFails
  <1>6. CASE ReadEnds
    <2>1. MapStatus("CONNECTION_FAILURE") = "CONNECTION_FAILED"
      BY Mapped DEF Statuses
    <2> QED
      BY <1>6, <2>1, LostRequest DEF ReadEnds
  <1>7. CASE Helper
    BY <1>2, <1>3, <1>4, <1>5, <1>6, <1>7, BatchOperationStep, DecideStep, ReadStep,
       ReadTimesOutStep, DrainTimesOutStep, AnswerGarbledStep DEF Helper, Progress
  <1>8. CASE UNCHANGED vars
    <2>1. UNCHANGED <<call, requests, wire, up, applied, late, garbled>>
      BY <1>8 DEF vars
    <2>2. TypeOK' /\ CallShape'
      BY <2>1 DEF RetryInv, TypeOK, CallShape
    <2>3. OneUnderWay' /\ BehindReady'
      BY <2>1 DEF RetryInv, OneUnderWay, BehindReady, Current
    <2>4. SentOnce'
      BY <2>1, ZenonT(30) DEF RetryInv, SentOnce, Covered, Exec
    <2>5. NotYetSent'
      BY <2>1 DEF RetryInv, NotYetSent, Covered, Fresh, MaySend, Exec
    <2>6. AnswerTrue' /\ Prefixes' /\ CurrentTrue'
      BY <2>1 DEF RetryInv, AnswerTrue, Prefixes, CurrentTrue, MaySend
    <2> QED
      BY <2>2, <2>3, <2>4, <2>5, <2>6 DEF RetryInv
  <1> QED
    BY <1>7, <1>8, StartStep, ServerAnswersStep, ServerClosesStep DEF Next

\* The loop variables of the helpers, the two directions of the connection and
\* the effects keep their types: no attempt exceeds max_retries, and no operation
\* runs past the last.
THEOREM RetryTypeCorrect == Spec => []TypeOK
  <1>1. RetryInv => TypeOK
    BY DEF RetryInv
  <1> QED
    BY <1>1, RetryInit, RetryStep, PTL DEF Spec

\* sb_execute_with_retry, sb_batch_execute and sb_bulk_insert apply no statement
\* twice in a call that began in step with the server and whose answers decode.
THEOREM NoDoubleEffect == Spec => []AppliedAtMostOnce
  <1>1. RetryInv => AppliedAtMostOnce
    BY DEF RetryInv, SentOnce, Covered, AppliedAtMostOnce
  <1> QED
    BY <1>1, RetryInit, RetryStep, PTL DEF Spec

\* As long as no read gave up, what a helper returned tells which of its
\* operations took effect.
THEOREM ReportsAreTrue == Spec => []ReportsTrue
  <1>1. RetryInv => ReportsTrue
    <2> SUFFICES ASSUME RetryInv, late = 0, NEW n \in Calls
                 PROVE  LET done == {i \in Ops : applied[<<n, i>>] > 0}
                        IN  /\ \A i \in done : 1..i \subseteq done
                            /\ call.n = n /\ call.at = "idle" /\ call.code = "OK" =>
                                  done = IF call.kind = "retry" THEN {1} ELSE Ops
                            /\ call.n = n /\ call.at = "idle"
                                  /\ call.code \in {"SERIALIZATION", "SYNTAX"} =>
                                  done = 1..(call.op - 1)
      BY DEF ReportsTrue
    <2> DEFINE done == {i \in Ops : applied[<<n, i>>] > 0}
    <2>1. /\ call.n \in Nat /\ call.op \in Ops /\ Ops \subseteq Nat /\ n \in Nat /\ n # 0
          /\ \A i \in Ops : applied[<<n, i>>] \in Nat
      BY Typed, RetryAssumption DEF Calls
    <2>2. Ops = 1..NumOps /\ NumOps \in Nat /\ call.op \in Nat
      BY <2>1, RetryAssumption DEF Ops
    <2>3. \A i \in Ops : i \in done <=> applied[<<n, i>>] # 0
      BY <2>1
    <2>4. \A i \in done : i \in Ops
      OBVIOUS
    <2> HIDE DEF done
    <2>5. n > call.n => \A i \in Ops : i \notin done
      BY <2>3 DEF RetryInv, NotYetSent, Fresh
    <2>6. n = call.n => \A i \in Ops : /\ i < call.op => i \in done
                                       /\ i > call.op => i \notin done
      BY <2>1, <2>3 DEF RetryInv, NotYetSent, Fresh, Prefixes
    <2>7. n < call.n => \A i, j \in Ops : j < i /\ i \in done => j \in done
      BY <2>3 DEF RetryInv, Prefixes
    <2>8. ASSUME NEW i \in done, NEW j \in 1..i PROVE j \in done
      <3>1. i \in Ops /\ i \in Nat /\ j \in Nat /\ j \in Ops /\ (j < i \/ j = i)
        BY <2>2, <2>4
      <3>2. CASE n = call.n
        <4>1. ~(i > call.op)
          BY <2>6, <3>1, <3>2
        <4>2. j = i \/ j < call.op
          BY <2>2, <3>1, <4>1
        <4> QED
          BY <2>6, <3>1, <3>2, <4>2
      <3>3. CASE n < call.n
        BY <2>7, <3>1, <3>3
      <3>4. CASE n > call.n
        BY <2>5, <3>1, <3>4
      <3> QED
        BY <2>1, <3>2, <3>3, <3>4
    <2>9. ASSUME call.n = n, call.at = "idle", call.code = "OK"
          PROVE  done = IF call.kind = "retry" THEN {1} ELSE Ops
      <3>1. call.op \in done /\ (call.kind = "retry" \/ call.op = NumOps)
        BY <2>1, <2>3, <2>9 DEF RetryInv, CurrentTrue
      <3>2. CASE call.kind = "retry"
        <4>1. call.op = 1
          BY <3>2 DEF RetryInv, CallShape
        <4>2. \A i \in done : i = 1
          BY <2>2, <2>4, <2>6, <2>9, <4>1
        <4> QED
          BY <3>1, <3>2, <4>1, <4>2
      <3>3. CASE call.kind # "retry"
        <4>1. \A i \in Ops : i \in done
          BY <2>2, <2>6, <2>9, <3>1, <3>3
        <4> QED
          BY <2>4, <3>3, <4>1
      <3> QED
        BY <3>2, <3>3
    <2>10. ASSUME call.n = n, call.at = "idle", call.code \in {"SERIALIZATION", "SYNTAX"}
           PROVE  done = 1..(call.op - 1)
      <3>1. call.op \notin done
        BY <2>1, <2>3, <2>10 DEF RetryInv, CurrentTrue
      <3>2. ASSUME NEW i \in done PROVE i \in 1..(call.op - 1)
        <4>1. i \in Ops /\ ~(i > call.op) /\ i # call.op
          BY <2>4, <2>6, <2>10, <3>1
        <4> QED
          BY <2>2, <4>1
      <3>3. ASSUME NEW i \in 1..(call.op - 1) PROVE i \in done
        <4>1. i \in Ops /\ i < call.op
          BY <2>1, <2>2
        <4> QED
          BY <2>6, <2>10, <4>1
      <3> QED
        BY <3>2, <3>3
    <2>11. \A i \in done : 1..i \subseteq done
      BY <2>8
    <2> QED
      BY <2>9, <2>10, <2>11 DEF done
  <1> QED
    BY <1>1, RetryInit, RetryStep, PTL DEF Spec
=============================================================================

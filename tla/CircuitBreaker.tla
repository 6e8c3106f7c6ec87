---------------------------- MODULE CircuitBreaker ----------------------------
(***************************************************************************)
(* The circuit breaker of the C/C++ driver (cpp/src/circuit_breaker.cpp):  *)
(* three counters, a state and a time stamp, each an atomic of its own,    *)
(* and no lock.  One action per atomic access, so that any number of       *)
(* threads interleave as the hardware lets them (all accesses are          *)
(* sequentially consistent).                                               *)
(*                                                                         *)
(* A request is admitted by AllowRequest and finished, by any thread, with *)
(* RecordSuccess or RecordFailure.  Time is the age of a time stamp in     *)
(* ticks, capped at the recovery timeout; NoFailure is the zero stamp.     *)
(***************************************************************************)
EXTENDS Integers, FiniteSets

CONSTANTS
    Threads,
    Requests,           \* as many as the application has unfinished at a time
    NoRequest,
    FailureThreshold,   \* failure_threshold
    SuccessThreshold,   \* success_threshold
    HalfOpenMax,        \* half_open_max_requests
    RecoveryTimeout,    \* recovery_timeout_ms, in ticks
    CounterRange        \* a counter holds 0 .. CounterRange - 1 (2^32 in the code)

ASSUME BreakerAssumption ==
    /\ IsFiniteSet(Requests) /\ NoRequest \notin Requests
    /\ FailureThreshold \in Nat \ {0} /\ SuccessThreshold \in Nat \ {0}
    /\ HalfOpenMax \in Nat /\ RecoveryTimeout \in Nat
    /\ CounterRange \in Nat /\ CounterRange > HalfOpenMax

VARIABLES
    state,              \* state_
    failureCount,       \* failure_count_
    successCount,       \* success_count_
    halfOpenRequests,   \* half_open_requests_
    lastFailure,        \* the age of last_failure_time_
    pc,                 \* the next atomic access of each thread
    tmp,                \* the local of that access: a stamp's age or `current`
    req,                \* the request a thread asks for or records the end of
    where,              \* "free", admitted by the gate of this half-open period
                        \* ("gate"), or admitted otherwise ("other")
    clean               \* has nothing disturbed the gate's count in this period?

vars == <<state, failureCount, successCount, halfOpenRequests, lastFailure, pc,
          tmp, req, where, clean>>
counters == <<failureCount, successCount, halfOpenRequests>>
requests == <<req, where, clean>>

NoFailure == -1
States == {"CLOSED", "OPEN", "HALF_OPEN"}
Labels == {"idle", "timeLoad", "timeCompare", "halfOpenCas", "halfZeroFailures",
           "halfZeroSuccesses", "halfZeroRequests", "gateLoad", "gateCas",
           "closedZeroFailures", "successDec", "successAdd", "closeCas",
           "closeZeroFailures", "closeZeroSuccesses", "failureAdd", "openCas",
           "failureDec", "reopenCas", "readClock", "stampTime", "resetFailures",
           "resetSuccesses", "resetRequests"}

Gate == {r \in Requests : where[r] = "gate"}

Init ==
    /\ state = "CLOSED"
    /\ failureCount = 0 /\ successCount = 0 /\ halfOpenRequests = 0
    /\ lastFailure = NoFailure
    /\ pc = [t \in Threads |-> "idle"]
    /\ tmp = [t \in Threads |-> 0]
    /\ req = [t \in Threads |-> NoRequest]
    /\ where = [r \in Requests |-> "free"]
    /\ clean = TRUE

Step(t, from, to) == pc[t] = from /\ pc' = [pc EXCEPT ![t] = to]

Idle(r) == \A t \in Threads : req[t] # r

-----------------------------------------------------------------------------
(* AllowRequest *)

AllowRequest(t) ==
    /\ \E r \in Requests :
        /\ where[r] = "free" /\ Idle(r)
        /\ IF state = "CLOSED"
           THEN /\ Step(t, "idle", "idle")
                /\ where' = [where EXCEPT ![r] = "other"] /\ UNCHANGED req
           ELSE /\ Step(t, "idle", IF state = "OPEN" THEN "timeLoad" ELSE "gateLoad")
                /\ req' = [req EXCEPT ![t] = r] /\ UNCHANGED where
    /\ UNCHANGED <<state, counters, lastFailure, tmp, clean>>

Refuse(t) == req' = [req EXCEPT ![t] = NoRequest] /\ UNCHANGED <<where, clean>>

LoadLastFailure(t) ==
    /\ Step(t, "timeLoad", "timeCompare")
    /\ tmp' = [tmp EXCEPT ![t] = lastFailure]
    /\ UNCHANGED <<state, counters, lastFailure, requests>>

Recovered(age) == age # NoFailure /\ age >= RecoveryTimeout

CompareTime(t) ==
    /\ IF Recovered(tmp[t])
       THEN Step(t, "timeCompare", "halfOpenCas") /\ UNCHANGED requests
       ELSE Step(t, "timeCompare", "idle") /\ Refuse(t)
    /\ tmp' = [tmp EXCEPT ![t] = 0]
    /\ UNCHANGED <<state, counters, lastFailure>>

\* A half-open period begins with the exchange; what was admitted before it
\* was not admitted by its gate.
HalfOpenCas(t) ==
    /\ IF state = "OPEN"
       THEN /\ Step(t, "halfOpenCas", "halfZeroFailures")
            /\ state' = "HALF_OPEN"
            /\ where' = [r \in Requests |-> IF where[r] = "free" THEN "free" ELSE "other"]
            /\ clean' = TRUE
       ELSE Step(t, "halfOpenCas", "gateLoad") /\ UNCHANGED <<state, where, clean>>
    /\ UNCHANGED <<counters, lastFailure, tmp, req>>

HalfZeroFailures(t) ==
    /\ Step(t, "halfZeroFailures", "halfZeroSuccesses") /\ failureCount' = 0
    /\ UNCHANGED <<state, successCount, halfOpenRequests, lastFailure, tmp, requests>>

HalfZeroSuccesses(t) ==
    /\ Step(t, "halfZeroSuccesses", "halfZeroRequests") /\ successCount' = 0
    /\ UNCHANGED <<state, failureCount, halfOpenRequests, lastFailure, tmp, requests>>

HalfZeroRequests(t) ==
    /\ Step(t, "halfZeroRequests", "gateLoad") /\ halfOpenRequests' = 0
    /\ clean' = (clean /\ Gate = {})
    /\ UNCHANGED <<state, failureCount, successCount, lastFailure, tmp, req, where>>

(* AllowHalfOpenRequest: a load and an exchange, retried when it fails.    *)
\* mutant: the limit is compared with > instead of >=
GateLoadPastLimit(t) ==
    /\ IF halfOpenRequests > HalfOpenMax
       THEN Step(t, "gateLoad", "idle") /\ Refuse(t) /\ UNCHANGED tmp
       ELSE /\ Step(t, "gateLoad", "gateCas")
            /\ tmp' = [tmp EXCEPT ![t] = halfOpenRequests] /\ UNCHANGED requests
    /\ UNCHANGED <<state, counters, lastFailure>>

GateLoad(t) ==
    /\ IF halfOpenRequests >= HalfOpenMax
       THEN Step(t, "gateLoad", "idle") /\ Refuse(t) /\ UNCHANGED tmp
       ELSE /\ Step(t, "gateLoad", "gateCas")
            /\ tmp' = [tmp EXCEPT ![t] = halfOpenRequests] /\ UNCHANGED requests
    /\ UNCHANGED <<state, counters, lastFailure>>

GateCas(t) ==
    /\ IF halfOpenRequests = tmp[t]
       THEN /\ Step(t, "gateCas", "idle")
            /\ halfOpenRequests' = (halfOpenRequests + 1) % CounterRange
            /\ where' = [where EXCEPT ![req[t]] = "gate"]
            /\ req' = [req EXCEPT ![t] = NoRequest]
       ELSE Step(t, "gateCas", "gateLoad") /\ UNCHANGED <<halfOpenRequests, where, req>>
    /\ tmp' = [tmp EXCEPT ![t] = 0]
    /\ UNCHANGED <<state, failureCount, successCount, lastFailure, clean>>

-----------------------------------------------------------------------------
(* RecordSuccess and RecordFailure begin with the load of state_.  What    *)
(* they find in CLOSED or OPEN does not touch half_open_requests_.         *)

Record(t, whenClosed, whenHalfOpen, whenOpen) ==
    /\ \E r \in Requests :
        /\ where[r] # "free" /\ Idle(r)
        /\ IF state = "HALF_OPEN"
           THEN /\ Step(t, "idle", whenHalfOpen)
                /\ req' = [req EXCEPT ![t] = r] /\ UNCHANGED where
           ELSE /\ Step(t, "idle", IF state = "CLOSED" THEN whenClosed ELSE whenOpen)
                /\ where' = [where EXCEPT ![r] = "free"] /\ UNCHANGED req
    /\ UNCHANGED <<state, counters, lastFailure, tmp, clean>>

RecordSuccess(t) == Record(t, "closedZeroFailures", "successDec", "idle")
RecordFailure(t) == Record(t, "failureAdd", "failureDec", "readClock")

ClosedZeroFailures(t) ==
    /\ Step(t, "closedZeroFailures", "idle") /\ failureCount' = 0
    /\ UNCHANGED <<state, successCount, halfOpenRequests, lastFailure, tmp, requests>>

\* mutant: the counter is signed and goes below zero
LeaveSigned(t) ==
    /\ halfOpenRequests' = halfOpenRequests - 1
    /\ clean' = (clean /\ where[req[t]] = "gate")
    /\ where' = [where EXCEPT ![req[t]] = "free"]
    /\ req' = [req EXCEPT ![t] = NoRequest]
    /\ UNCHANGED <<state, failureCount, successCount, lastFailure, tmp>>

\* half_open_requests_-- on behalf of req[t], whoever admitted it
Leave(t) ==
    /\ halfOpenRequests' = (halfOpenRequests - 1) % CounterRange
    /\ clean' = (clean /\ where[req[t]] = "gate")
    /\ where' = [where EXCEPT ![req[t]] = "free"]
    /\ req' = [req EXCEPT ![t] = NoRequest]
    /\ UNCHANGED <<state, failureCount, successCount, lastFailure, tmp>>

SuccessDec(t) == Step(t, "successDec", "successAdd") /\ Leave(t)
FailureDec(t) == Step(t, "failureDec", "reopenCas") /\ Leave(t)

\* mutant: the count before the increment is compared
SuccessAddLate(t) ==
    /\ Step(t, "successAdd", IF successCount >= SuccessThreshold THEN "closeCas" ELSE "idle")
    /\ successCount' = (successCount + 1) % CounterRange
    /\ UNCHANGED <<state, failureCount, halfOpenRequests, lastFailure, tmp, requests>>

SuccessAdd(t) ==
    LET successes == (successCount + 1) % CounterRange IN
    /\ Step(t, "successAdd", IF successes >= SuccessThreshold THEN "closeCas" ELSE "idle")
    /\ successCount' = successes
    /\ UNCHANGED <<state, failureCount, halfOpenRequests, lastFailure, tmp, requests>>

\* compare_exchange_strong(from, to), then `won` or the end of the call
ExchangeState(t, label, from, to, won) ==
    /\ IF state = from
       THEN Step(t, label, won) /\ state' = to
       ELSE Step(t, label, "idle") /\ UNCHANGED state
    /\ UNCHANGED <<counters, lastFailure, tmp, requests>>

CloseCas(t) == ExchangeState(t, "closeCas", "HALF_OPEN", "CLOSED", "closeZeroFailures")
OpenCas(t) == ExchangeState(t, "openCas", "CLOSED", "OPEN", "readClock")
ReopenCas(t) == ExchangeState(t, "reopenCas", "HALF_OPEN", "OPEN", "readClock")

\* mutant: closing forgets failure_count_.store(0)
CloseKeepsFailures(t) ==
    /\ Step(t, "closeZeroFailures", "closeZeroSuccesses")
    /\ UNCHANGED <<state, counters, lastFailure, tmp, requests>>

CloseZeroFailures(t) ==
    /\ Step(t, "closeZeroFailures", "closeZeroSuccesses") /\ failureCount' = 0
    /\ UNCHANGED <<state, successCount, halfOpenRequests, lastFailure, tmp, requests>>

CloseZeroSuccesses(t) ==
    /\ Step(t, "closeZeroSuccesses", "idle") /\ successCount' = 0
    /\ UNCHANGED <<state, failureCount, halfOpenRequests, lastFailure, tmp, requests>>

FailureAdd(t) ==
    LET failures == (failureCount + 1) % CounterRange IN
    /\ Step(t, "failureAdd", IF failures >= FailureThreshold THEN "openCas" ELSE "idle")
    /\ failureCount' = failures
    /\ UNCHANGED <<state, successCount, halfOpenRequests, lastFailure, tmp, requests>>

\* now() and the store of its result are apart, so a stamp may be old
\* when it is stored, and older than the one it replaces.
ReadClock(t) ==
    /\ Step(t, "readClock", "stampTime")
    /\ UNCHANGED <<state, counters, lastFailure, tmp, requests>>

\* mutant: the stamp is not stored
StampNothing(t) ==
    /\ Step(t, "stampTime", "idle") /\ tmp' = [tmp EXCEPT ![t] = 0]
    /\ UNCHANGED <<state, counters, lastFailure, requests>>

StampTime(t) ==
    /\ Step(t, "stampTime", "idle")
    /\ lastFailure' = tmp[t] /\ tmp' = [tmp EXCEPT ![t] = 0]
    /\ UNCHANGED <<state, counters, requests>>

-----------------------------------------------------------------------------
(* Reset, and the clock *)

Reset(t) ==
    /\ Step(t, "idle", "resetFailures") /\ state' = "CLOSED"
    /\ UNCHANGED <<counters, lastFailure, tmp, requests>>

ResetFailures(t) ==
    /\ Step(t, "resetFailures", "resetSuccesses") /\ failureCount' = 0
    /\ UNCHANGED <<state, successCount, halfOpenRequests, lastFailure, tmp, requests>>

ResetSuccesses(t) ==
    /\ Step(t, "resetSuccesses", "resetRequests") /\ successCount' = 0
    /\ UNCHANGED <<state, failureCount, halfOpenRequests, lastFailure, tmp, requests>>

\* Reset may also hit requests of a half-open period that began meanwhile.
ResetRequests(t) ==
    /\ Step(t, "resetRequests", "idle") /\ halfOpenRequests' = 0
    /\ clean' = (clean /\ Gate = {})
    /\ UNCHANGED <<state, failureCount, successCount, lastFailure, tmp, req, where>>

Older(age) == IF age = NoFailure \/ age >= RecoveryTimeout THEN age ELSE age + 1

\* does the thread's local hold a time?
HoldsTime(t) == pc[t] \in {"timeCompare", "stampTime"}

Tick ==
    /\ \/ lastFailure # Older(lastFailure)
       \/ \E t \in Threads : HoldsTime(t) /\ tmp[t] # Older(tmp[t])
    /\ lastFailure' = Older(lastFailure)
    /\ tmp' = [t \in Threads |-> IF HoldsTime(t) THEN Older(tmp[t]) ELSE tmp[t]]
    /\ UNCHANGED <<state, counters, pc, requests>>

-----------------------------------------------------------------------------

Call(t) == AllowRequest(t) \/ RecordSuccess(t) \/ RecordFailure(t) \/ Reset(t)

Inside(t) ==
    \/ LoadLastFailure(t) \/ CompareTime(t) \/ HalfOpenCas(t)
    \/ HalfZeroFailures(t) \/ HalfZeroSuccesses(t) \/ HalfZeroRequests(t)
    \/ GateLoad(t) \/ GateCas(t)
    \/ ClosedZeroFailures(t) \/ SuccessDec(t) \/ SuccessAdd(t)
    \/ CloseCas(t) \/ CloseZeroFailures(t) \/ CloseZeroSuccesses(t)
    \/ FailureAdd(t) \/ FailureDec(t) \/ OpenCas(t) \/ ReopenCas(t)
    \/ ReadClock(t) \/ StampTime(t)
    \/ ResetFailures(t) \/ ResetSuccesses(t) \/ ResetRequests(t)

Next == Tick \/ \E t \in Threads : Call(t) \/ Inside(t)

Spec == Init /\ [][Next]_vars

(* A running call goes on, time passes, the application finishes what it   *)
(* started and keeps asking.                                               *)
Fairness ==
    /\ WF_vars(Tick)
    /\ \A t \in Threads :
        /\ WF_vars(Inside(t))
        /\ SF_vars(AllowRequest(t))
        /\ SF_vars(RecordSuccess(t) \/ RecordFailure(t))

FairSpec == Spec /\ Fairness

-----------------------------------------------------------------------------
(* Properties *)

(* Types: every counter stays in its range although it is decremented by  *)
(* requests it never counted.                                             *)
TypeOK ==
    /\ state \in States
    /\ failureCount \in 0 .. CounterRange - 1
    /\ successCount \in 0 .. CounterRange - 1
    /\ halfOpenRequests \in 0 .. CounterRange - 1
    /\ lastFailure \in NoFailure .. RecoveryTimeout
    /\ pc \in [Threads -> Labels]
    /\ tmp \in [Threads -> Int]
    /\ req \in [Threads -> Requests \cup {NoRequest}]
    /\ where \in [Requests -> {"free", "gate", "other"}]
    /\ clean \in BOOLEAN

\* The breaker never rests CLOSED on a failure count that has reached the
\* threshold: some RecordFailure is about to exchange the state to OPEN, or a
\* close or a Reset is about to clear the count (RecordFailure, RecordSuccess
\* and Reset touch the two atomics separately, in different orders).
TripsWhenDue ==
    state = "CLOSED" /\ failureCount >= FailureThreshold =>
        \E t \in Threads : pc[t] \in {"openCas", "closeZeroFailures", "resetFailures"}

\* The breaker never rests HALF_OPEN on enough successes: some RecordSuccess
\* is about to close it, or the thread that opened the period has yet to
\* clear the successes left over from an earlier one.
ClosesWhenDue ==
    state = "HALF_OPEN" /\ successCount >= SuccessThreshold =>
        \E t \in Threads : pc[t] \in {"closeCas", "halfZeroFailures", "halfZeroSuccesses"}

\* Of the requests admitted in one half-open period no more than
\* half_open_max_requests are unfinished, as long as every decrement of the
\* period was for a request its gate admitted and no late zeroing (of the
\* thread that opened the period, or of a Reset) forgot one.
HalfOpenLimit == clean => Cardinality(Gate) <= HalfOpenMax

\* An open breaker does not stay open: the last failure is stamped, the
\* stamp ages past recovery_timeout_ms, and the next AllowRequest takes the
\* breaker to HALF_OPEN, whatever late failures restamp it meanwhile.
RecoversFromOpen == state = "OPEN" ~> state # "OPEN"

===============================================================================

------------------------ MODULE CircuitBreakerProofs ------------------------
(***************************************************************************)
(* Proofs about CircuitBreaker for any number of threads and requests, any *)
(* thresholds and any counter width: types, that the breaker trips and     *)
(* closes when it is due, and the limit on half-open requests.             *)
(***************************************************************************)
EXTENDS CircuitBreaker, FiniteSetTheorems, TLAPS

\* What each thread's locals hold between two accesses: the request of the
\* call, an age while one is compared or stored, the counter value that the
\* gate found below the limit, and nothing otherwise.
Locals ==
    \A t \in Threads :
        /\ pc[t] \in {"timeLoad", "timeCompare", "halfOpenCas", "halfZeroFailures",
                      "halfZeroSuccesses", "halfZeroRequests", "gateLoad", "gateCas",
                      "successDec", "failureDec"} => req[t] \in Requests
        /\ HoldsTime(t) => tmp[t] \in NoFailure .. RecoveryTimeout
        /\ pc[t] = "gateCas" => tmp[t] \in 0 .. HalfOpenMax - 1
        /\ ~HoldsTime(t) /\ pc[t] # "gateCas" => tmp[t] = 0

\* The inductive invariant of TypeOK.
TypeInv == TypeOK /\ Locals

\* The inductive invariant of HalfOpenLimit: as long as nothing disturbed the
\* count, it is no less than the number of requests the gate has let through.
GateCounted ==
    clean => /\ Cardinality(Gate) <= HalfOpenMax
             /\ Cardinality(Gate) <= halfOpenRequests

-----------------------------------------------------------------------------
\* A counter wraps around and stays in its range.
LEMMA Wraps ==
    /\ CounterRange \in Nat \ {0}
    /\ \A x \in Int : x % CounterRange \in 0 .. CounterRange - 1
    /\ \A x \in 0 .. CounterRange - 1 : x % CounterRange = x
  <1>1. CounterRange \in Nat \ {0}
    BY BreakerAssumption
  <1>2. \A x \in Int : x % CounterRange \in 0 .. CounterRange - 1
    BY <1>1
  <1>3. \A x \in 0 .. CounterRange - 1 : x % CounterRange = x
    BY <1>1
  <1> QED
    BY <1>1, <1>2, <1>3

\* Ageing a stamp keeps it a stamp.
LEMMA OlderType ==
    ASSUME NEW age \in NoFailure .. RecoveryTimeout
    PROVE  Older(age) \in NoFailure .. RecoveryTimeout
  BY BreakerAssumption DEF Older, NoFailure

\* A step of one thread keeps types and locals when it moves only its own
\* locals and leaves them as its next label wants them.
LEMMA LocalStep ==
    ASSUME TypeInv, NEW t \in Threads, NEW to \in Labels,
           pc' = [pc EXCEPT ![t] = to],
           \A u \in Threads \ {t} : tmp'[u] = tmp[u] /\ req'[u] = req[u],
           to \in {"timeLoad", "timeCompare", "halfOpenCas", "halfZeroFailures",
                   "halfZeroSuccesses", "halfZeroRequests", "gateLoad", "gateCas",
                   "successDec", "failureDec"} => req'[t] \in Requests,
           to \in {"timeCompare", "stampTime"} => tmp'[t] \in NoFailure .. RecoveryTimeout,
           to = "gateCas" => tmp'[t] \in 0 .. HalfOpenMax - 1,
           to \notin {"timeCompare", "stampTime", "gateCas"} => tmp'[t] = 0
    PROVE  Locals' /\ pc' \in [Threads -> Labels]
  BY DEF TypeInv, TypeOK, Locals, HoldsTime

\* What a call that begins does: it takes a request, or finishes or admits one
\* at once, and touches no counter.
LEMMA CallTypes ==
    ASSUME TypeInv, NEW t \in Threads, Call(t)
    PROVE  TypeInv'
  <1> USE DEF TypeInv
  <1>1. CASE AllowRequest(t)
    <2>1. PICK r \in Requests :
            IF state = "CLOSED"
            THEN /\ Step(t, "idle", "idle")
                 /\ where' = [where EXCEPT ![r] = "other"] /\ UNCHANGED req
            ELSE /\ Step(t, "idle", IF state = "OPEN" THEN "timeLoad" ELSE "gateLoad")
                 /\ req' = [req EXCEPT ![t] = r] /\ UNCHANGED where
      BY <1>1 DEF AllowRequest
    <2>2. UNCHANGED <<state, counters, lastFailure, tmp, clean>>
      BY <1>1 DEF AllowRequest
    <2>3. CASE state = "CLOSED"
      <3>1. Locals' /\ pc' \in [Threads -> Labels]
        BY <2>1, <2>2, <2>3, LocalStep DEF Step, Labels, TypeOK, Locals, HoldsTime
      <3> QED
        BY <2>1, <2>2, <2>3, <3>1 DEF TypeOK, counters
    <2>4. CASE state # "CLOSED"
      <3> DEFINE to == IF state = "OPEN" THEN "timeLoad" ELSE "gateLoad"
      <3>1. /\ pc[t] = "idle" /\ to \in Labels /\ pc' = [pc EXCEPT ![t] = to]
            /\ to \in {"timeLoad", "gateLoad"}
        BY <2>1, <2>4 DEF Step, Labels
      <3>2. req' \in [Threads -> Requests \cup {NoRequest}] /\ req'[t] \in Requests
        BY <2>1, <2>4 DEF TypeOK
      <3>3. tmp'[t] = 0
        BY <2>2, <3>1 DEF Locals, HoldsTime
      <3>4. \A u \in Threads \ {t} : tmp'[u] = tmp[u] /\ req'[u] = req[u]
        BY <2>1, <2>2, <2>4 DEF TypeOK
      <3> HIDE DEF to
      <3>5. Locals' /\ pc' \in [Threads -> Labels]
        BY <3>1, <3>2, <3>3, <3>4, LocalStep
      <3> QED
        BY <2>1, <2>2, <2>4, <3>2, <3>5 DEF TypeOK, counters
    <2> QED
      BY <2>3, <2>4
  <1>2. ASSUME NEW wc \in Labels, NEW wh \in Labels, NEW wo \in Labels,
               Record(t, wc, wh, wo),
               wc \in {"closedZeroFailures", "failureAdd"},
               wh \in {"successDec", "failureDec"},
               wo \in {"idle", "readClock"}
        PROVE  TypeInv'
    <2>1. PICK r \in Requests :
            IF state = "HALF_OPEN"
            THEN /\ Step(t, "idle", wh)
                 /\ req' = [req EXCEPT ![t] = r] /\ UNCHANGED where
            ELSE /\ Step(t, "idle", IF state = "CLOSED" THEN wc ELSE wo)
                 /\ where' = [where EXCEPT ![r] = "free"] /\ UNCHANGED req
      BY <1>2 DEF Record
    <2>2. UNCHANGED <<state, counters, lastFailure, tmp, clean>>
      BY <1>2 DEF Record
    <2>3. tmp'[t] = 0
      BY <2>1, <2>2 DEF Locals, HoldsTime, Step
    <2>4. CASE state = "HALF_OPEN"
      <3>1. req' \in [Threads -> Requests \cup {NoRequest}] /\ req'[t] \in Requests
        BY <2>1, <2>4 DEF TypeOK
      <3>2. \A u \in Threads \ {t} : tmp'[u] = tmp[u] /\ req'[u] = req[u]
        BY <2>1, <2>2, <2>4 DEF TypeOK
      <3>3. Locals' /\ pc' \in [Threads -> Labels]
        BY <1>2, <2>1, <2>3, <2>4, <3>1, <3>2, LocalStep DEF Step
      <3> QED
        BY <2>1, <2>2, <2>4, <3>1, <3>3 DEF TypeOK, counters
    <2>5. CASE state # "HALF_OPEN"
      <3> DEFINE to == IF state = "CLOSED" THEN wc ELSE wo
      <3>1. /\ to \in {"closedZeroFailures", "failureAdd", "idle", "readClock"}
            /\ to \in Labels /\ pc' = [pc EXCEPT ![t] = to]
        BY <1>2, <2>1, <2>5 DEF Step
      <3>2. \A u \in Threads \ {t} : tmp'[u] = tmp[u] /\ req'[u] = req[u]
        BY <2>1, <2>2, <2>5
      <3> HIDE DEF to
      <3>3. Locals' /\ pc' \in [Threads -> Labels]
        BY <2>3, <3>1, <3>2, LocalStep
      <3> QED
        BY <2>1, <2>2, <2>5, <3>3 DEF TypeOK, counters
    <2> QED
      BY <2>4, <2>5
  <1>3. CASE RecordSuccess(t) \/ RecordFailure(t)
    BY <1>2, <1>3 DEF RecordSuccess, RecordFailure, Labels
  <1>4. CASE Reset(t)
    <2>1. Locals' /\ pc' \in [Threads -> Labels]
      BY <1>4, LocalStep DEF Reset, Step, Labels, TypeOK, Locals, HoldsTime, requests
    <2> QED
      BY <1>4, <2>1 DEF Reset, TypeOK, States, counters, requests
  <1> QED
    BY <1>1, <1>3, <1>4 DEF Call

\* A step that leaves the locals alone keeps types and locals when they suit
\* both labels.
LEMMA PlainStep ==
    ASSUME TypeInv, NEW t \in Threads, NEW from \in Labels, NEW to \in Labels,
           Step(t, from, to), UNCHANGED <<tmp, req>>,
           from \notin {"timeCompare", "stampTime", "gateCas"},
           to \notin {"timeCompare", "gateCas", "successDec", "failureDec", "timeLoad"},
           to \in {"halfOpenCas", "halfZeroFailures", "halfZeroSuccesses",
                   "halfZeroRequests", "gateLoad"}
              => from \in {"halfOpenCas", "halfZeroFailures", "halfZeroSuccesses",
                           "halfZeroRequests"}
    PROVE  Locals' /\ pc' \in [Threads -> Labels]
  <1>1. pc[t] = from /\ pc' = [pc EXCEPT ![t] = to]
    BY DEF Step
  <1>2. tmp'[t] = 0
    BY <1>1 DEF TypeInv, Locals, HoldsTime
  <1>3. 0 \in NoFailure .. RecoveryTimeout
    BY BreakerAssumption DEF NoFailure
  <1>4. to \in {"halfOpenCas", "halfZeroFailures", "halfZeroSuccesses",
                "halfZeroRequests", "gateLoad"} => req'[t] \in Requests
    BY <1>1 DEF TypeInv, Locals
  <1> QED
    BY <1>1, <1>2, <1>3, <1>4, LocalStep

\* Every access inside a call keeps the types.
LEMMA InsideTypes ==
    ASSUME TypeInv, NEW t \in Threads, Inside(t)
    PROVE  TypeInv'
  <1> USE DEF TypeInv
  <1>0. TypeOK
    OBVIOUS
  <1>z. 0 \in 0 .. CounterRange - 1
    BY Wraps
  <1>1. CASE LoadLastFailure(t)
    <2>1. Step(t, "timeLoad", "timeCompare") /\ tmp' = [tmp EXCEPT ![t] = lastFailure]
      BY <1>1 DEF LoadLastFailure
    <2>2. UNCHANGED <<state, counters, lastFailure, requests>>
      BY <1>1 DEF LoadLastFailure
    <2>3. /\ tmp'[t] = lastFailure /\ tmp' \in [Threads -> Int]
          /\ \A u \in Threads \ {t} : tmp'[u] = tmp[u] /\ req'[u] = req[u]
          /\ req'[t] \in Requests /\ lastFailure \in NoFailure .. RecoveryTimeout
      BY <2>1, <2>2, BreakerAssumption DEF TypeOK, NoFailure, requests, Locals, Step
    <2>4. Locals' /\ pc' \in [Threads -> Labels]
      BY <2>1, <2>3, LocalStep DEF Step, Labels
    <2> QED
      BY <2>2, <2>3, <2>4 DEF TypeOK, counters, requests
  <1>2. CASE CompareTime(t)
    <2>1. /\ pc[t] = "timeCompare" /\ tmp' = [tmp EXCEPT ![t] = 0]
          /\ UNCHANGED <<state, counters, lastFailure, where, clean>>
      BY <1>2 DEF CompareTime, Step, Refuse, requests
    <2>2. \/ pc' = [pc EXCEPT ![t] = "halfOpenCas"] /\ UNCHANGED req
          \/ pc' = [pc EXCEPT ![t] = "idle"] /\ req' = [req EXCEPT ![t] = NoRequest]
      BY <1>2 DEF CompareTime, Step, Refuse, requests
    <2>3. /\ tmp' \in [Threads -> Int] /\ tmp'[t] = 0
          /\ \A u \in Threads \ {t} : tmp'[u] = tmp[u] /\ req'[u] = req[u]
          /\ req' \in [Threads -> Requests \cup {NoRequest}]
      BY <2>1, <2>2 DEF TypeOK
    <2>4. Locals' /\ pc' \in [Threads -> Labels]
      <3>1. CASE pc' = [pc EXCEPT ![t] = "halfOpenCas"] /\ UNCHANGED req
        BY <2>1, <2>3, <3>1, LocalStep DEF Labels, Locals
      <3>2. CASE pc' = [pc EXCEPT ![t] = "idle"] /\ req' = [req EXCEPT ![t] = NoRequest]
        BY <2>1, <2>3, <3>2, LocalStep DEF Labels
      <3> QED
        BY <2>2, <3>1, <3>2
    <2> QED
      BY <2>1, <2>3, <2>4 DEF TypeOK, counters
  <1>3. CASE HalfOpenCas(t)
    <2>1. Locals' /\ pc' \in [Threads -> Labels]
      BY <1>3, PlainStep DEF HalfOpenCas, Labels
    <2>2. where' \in [Requests -> {"free", "gate", "other"}] /\ clean' \in BOOLEAN
      BY <1>3 DEF HalfOpenCas, TypeOK
    <2> QED
      BY <1>3, <2>1, <2>2 DEF HalfOpenCas, TypeOK, counters, States
  <1>4. CASE HalfZeroFailures(t) \/ HalfZeroSuccesses(t) \/ HalfZeroRequests(t)
    <2>1. Locals' /\ pc' \in [Threads -> Labels]
      BY <1>4, PlainStep
      DEF HalfZeroFailures, HalfZeroSuccesses, HalfZeroRequests, Labels, requests
    <2> QED
      BY <1>4, <1>z, <2>1
      DEF HalfZeroFailures, HalfZeroSuccesses, HalfZeroRequests, TypeOK, requests
  <1>5. CASE GateLoad(t)
    <2>1. pc[t] = "gateLoad" /\ UNCHANGED <<state, counters, lastFailure, where, clean>>
      BY <1>5 DEF GateLoad, Step, Refuse, requests
    <2>2. CASE halfOpenRequests >= HalfOpenMax
      <3>1. /\ pc' = [pc EXCEPT ![t] = "idle"] /\ UNCHANGED tmp
            /\ req' = [req EXCEPT ![t] = NoRequest]
        BY <1>5, <2>2 DEF GateLoad, Step, Refuse
      <3>2. /\ \A u \in Threads \ {t} : tmp'[u] = tmp[u] /\ req'[u] = req[u]
            /\ req' \in [Threads -> Requests \cup {NoRequest}] /\ tmp'[t] = 0
        BY <2>1, <3>1 DEF TypeOK, Locals, HoldsTime
      <3>3. Locals' /\ pc' \in [Threads -> Labels]
        BY <3>1, <3>2, LocalStep DEF Labels
      <3> QED
        BY <2>1, <3>1, <3>2, <3>3 DEF TypeOK, counters
    <2>3. CASE ~(halfOpenRequests >= HalfOpenMax)
      <3>1. /\ pc' = [pc EXCEPT ![t] = "gateCas"] /\ UNCHANGED req
            /\ tmp' = [tmp EXCEPT ![t] = halfOpenRequests]
        BY <1>5, <2>3 DEF GateLoad, Step, requests
      <3>2. halfOpenRequests \in Int /\ halfOpenRequests \in 0 .. HalfOpenMax - 1
        BY <2>3, BreakerAssumption DEF TypeOK
      <3>3. /\ \A u \in Threads \ {t} : tmp'[u] = tmp[u] /\ req'[u] = req[u]
            /\ tmp' \in [Threads -> Int] /\ tmp'[t] \in 0 .. HalfOpenMax - 1
            /\ req'[t] \in Requests
        BY <2>1, <3>1, <3>2 DEF TypeOK, Locals
      <3>4. Locals' /\ pc' \in [Threads -> Labels]
        BY <3>1, <3>3, LocalStep DEF Labels
      <3> QED
        BY <2>1, <3>1, <3>3, <3>4 DEF TypeOK, counters
    <2> QED
      BY <2>2, <2>3
  <1>6. CASE GateCas(t)
    <2>1. /\ pc[t] = "gateCas" /\ tmp' = [tmp EXCEPT ![t] = 0]
          /\ UNCHANGED <<state, failureCount, successCount, lastFailure, clean>>
      BY <1>6 DEF GateCas, Step
    <2>2. \/ /\ pc' = [pc EXCEPT ![t] = "idle"]
             /\ halfOpenRequests' = (halfOpenRequests + 1) % CounterRange
             /\ where' = [where EXCEPT ![req[t]] = "gate"]
             /\ req' = [req EXCEPT ![t] = NoRequest]
          \/ /\ pc' = [pc EXCEPT ![t] = "gateLoad"]
             /\ UNCHANGED <<halfOpenRequests, where, req>>
      BY <1>6 DEF GateCas, Step
    <2>3. halfOpenRequests' \in 0 .. CounterRange - 1
      BY <2>2, Wraps DEF TypeOK
    <2>4. /\ tmp' \in [Threads -> Int] /\ tmp'[t] = 0
          /\ \A u \in Threads \ {t} : tmp'[u] = tmp[u] /\ req'[u] = req[u]
          /\ req' \in [Threads -> Requests \cup {NoRequest}]
          /\ where' \in [Requests -> {"free", "gate", "other"}]
      BY <2>1, <2>2 DEF TypeOK
    <2>5. Locals' /\ pc' \in [Threads -> Labels]
      <3>1. CASE pc' = [pc EXCEPT ![t] = "idle"]
        BY <2>4, <3>1, LocalStep DEF Labels
      <3>2. CASE pc' = [pc EXCEPT ![t] = "gateLoad"] /\ UNCHANGED req
        BY <2>1, <2>4, <3>2, LocalStep DEF Labels, Locals
      <3> QED
        BY <2>2, <3>1, <3>2
    <2> QED
      BY <2>1, <2>3, <2>4, <2>5 DEF TypeOK
  <1>7. CASE SuccessDec(t) \/ FailureDec(t)
    <2>1. PICK to \in {"successAdd", "reopenCas"} : pc' = [pc EXCEPT ![t] = to] /\ Leave(t)
      BY <1>7 DEF SuccessDec, FailureDec, Step
    <2>2. tmp[t] = 0
      BY <1>7 DEF SuccessDec, FailureDec, Step, Locals, HoldsTime
    <2>3. halfOpenRequests' \in 0 .. CounterRange - 1
      BY <2>1, Wraps DEF Leave, TypeOK
    <2>4. /\ tmp' = tmp
          /\ \A u \in Threads \ {t} : req'[u] = req[u]
          /\ req' \in [Threads -> Requests \cup {NoRequest}]
          /\ where' \in [Requests -> {"free", "gate", "other"}]
          /\ clean' \in BOOLEAN
      BY <2>1 DEF Leave, TypeOK
    <2>5. Locals' /\ pc' \in [Threads -> Labels]
      BY <2>1, <2>2, <2>4, LocalStep DEF Labels
    <2> QED
      BY <2>1, <2>3, <2>4, <2>5 DEF TypeOK, Leave
  <1>8. CASE SuccessAdd(t) \/ FailureAdd(t)
    <2>1. PICK from \in {"successAdd", "failureAdd"}, to \in {"closeCas", "openCas", "idle"} :
            Step(t, from, to)
      BY <1>8 DEF SuccessAdd, FailureAdd
    <2>2. Locals' /\ pc' \in [Threads -> Labels]
      BY <1>8, <2>1, PlainStep DEF SuccessAdd, FailureAdd, Labels, requests
    <2>3. /\ (successCount + 1) % CounterRange \in 0 .. CounterRange - 1
          /\ (failureCount + 1) % CounterRange \in 0 .. CounterRange - 1
      BY Wraps DEF TypeOK
    <2>4. successCount' \in 0 .. CounterRange - 1 /\ failureCount' \in 0 .. CounterRange - 1
      BY <1>8, <2>3 DEF SuccessAdd, FailureAdd, TypeOK
    <2> QED
      BY <1>8, <2>2, <2>4 DEF SuccessAdd, FailureAdd, TypeOK, requests
  <1>9. CASE CloseCas(t) \/ OpenCas(t) \/ ReopenCas(t)
    <2>1. Locals' /\ pc' \in [Threads -> Labels]
      BY <1>9, PlainStep DEF CloseCas, OpenCas, ReopenCas, ExchangeState, Labels, requests
    <2> QED
      BY <1>9, <2>1
      DEF CloseCas, OpenCas, ReopenCas, ExchangeState, TypeOK, States, counters, requests
  <1>10. CASE ClosedZeroFailures(t) \/ CloseZeroFailures(t) \/ CloseZeroSuccesses(t)
    <2>1. Locals' /\ pc' \in [Threads -> Labels]
      BY <1>10, PlainStep
      DEF ClosedZeroFailures, CloseZeroFailures, CloseZeroSuccesses, Labels, requests
    <2> QED
      BY <1>10, <1>z, <2>1
      DEF ClosedZeroFailures, CloseZeroFailures, CloseZeroSuccesses, TypeOK, requests
  <1>11. CASE ReadClock(t)
    <2>1. Locals' /\ pc' \in [Threads -> Labels]
      BY <1>11, PlainStep DEF ReadClock, Labels, requests
    <2> QED
      BY <1>11, <2>1 DEF ReadClock, TypeOK, counters, requests
  <1>12. CASE StampTime(t)
    <2>1. /\ pc[t] = "stampTime" /\ pc' = [pc EXCEPT ![t] = "idle"]
          /\ lastFailure' = tmp[t] /\ tmp' = [tmp EXCEPT ![t] = 0]
          /\ UNCHANGED <<state, counters, requests>>
      BY <1>12 DEF StampTime, Step
    <2>2. lastFailure' \in NoFailure .. RecoveryTimeout
      BY <2>1 DEF Locals, HoldsTime
    <2>3. /\ tmp' \in [Threads -> Int] /\ tmp'[t] = 0
          /\ \A u \in Threads \ {t} : tmp'[u] = tmp[u] /\ req'[u] = req[u]
      BY <2>1 DEF TypeOK, requests
    <2>4. Locals' /\ pc' \in [Threads -> Labels]
      BY <2>1, <2>3, LocalStep DEF Labels
    <2> QED
      BY <2>1, <2>2, <2>3, <2>4 DEF TypeOK, counters, requests
  <1>13. CASE ResetFailures(t) \/ ResetSuccesses(t) \/ ResetRequests(t)
    <2>1. Locals' /\ pc' \in [Threads -> Labels]
      BY <1>13, PlainStep
      DEF ResetFailures, ResetSuccesses, ResetRequests, Labels, requests
    <2> QED
      BY <1>13, <1>z, <2>1
      DEF ResetFailures, ResetSuccesses, ResetRequests, TypeOK, requests
  <1> QED
    BY <1>1, <1>2, <1>3, <1>4, <1>5, <1>6, <1>7, <1>8, <1>9, <1>10, <1>11, <1>12, <1>13
    DEF Inside

\* The clock keeps the types.
LEMMA TickTypes ==
    ASSUME TypeInv, Tick
    PROVE  TypeInv'
  <1>1. lastFailure' \in NoFailure .. RecoveryTimeout
    BY OlderType DEF Tick, TypeInv, TypeOK
  <1>2. \A t \in Threads : HoldsTime(t) => Older(tmp[t]) \in NoFailure .. RecoveryTimeout
    BY OlderType DEF TypeInv, Locals
  <1>3. tmp' \in [Threads -> Int]
    BY <1>2, BreakerAssumption DEF Tick, TypeInv, TypeOK, NoFailure
  <1>4. UNCHANGED <<state, counters, pc, requests>>
    BY DEF Tick
  <1>5. Locals'
    BY <1>2, <1>4 DEF Tick, TypeInv, Locals, HoldsTime, requests
  <1> QED
    BY <1>1, <1>3, <1>4, <1>5 DEF TypeInv, TypeOK, counters, requests

\* Every access to an atomic keeps the types.
LEMMA TypeStep == TypeInv /\ [Next]_vars => TypeInv'
  <1> SUFFICES ASSUME TypeInv, [Next]_vars
               PROVE  TypeInv'
    OBVIOUS
  <1>1. CASE UNCHANGED vars
    BY <1>1 DEF vars, TypeInv, TypeOK, Locals, HoldsTime
  <1> QED
    BY <1>1, TickTypes, CallTypes, InsideTypes DEF Next

\* The types hold of a new breaker.
LEMMA TypeInit == Init => TypeInv
  <1> SUFFICES ASSUME Init PROVE TypeInv
    OBVIOUS
  <1>1. 0 \in 0 .. CounterRange - 1 /\ NoFailure \in NoFailure .. RecoveryTimeout
    BY Wraps, BreakerAssumption DEF NoFailure
  <1>2. TypeOK
    BY <1>1 DEF Init, TypeOK, States, Labels
  <1>3. Locals
    BY DEF Init, Locals, HoldsTime
  <1> QED
    BY <1>2, <1>3 DEF TypeInv

\* Every counter stays in its range and every time stamp is an age, although
\* half_open_requests_ is decremented for requests it never counted.
THEOREM BreakerTypeCorrect == Spec => []TypeOK
  <1>1. TypeInv => TypeOK
    BY DEF TypeInv
  <1> QED
    BY <1>1, TypeInit, TypeStep, PTL DEF Spec

-----------------------------------------------------------------------------
\* How one access moves the state and failure_count_: only FailureAdd can take
\* the count up, and then to openCas if the threshold is reached; the state
\* becomes CLOSED only under a thread that is about to clear the count.
LEMMA TripsStep ==
    ASSUME TypeOK, TripsWhenDue, NEW t \in Threads, Call(t) \/ Inside(t)
    PROVE  TripsWhenDue'
  <1> DEFINE Pending == {"openCas", "closeZeroFailures", "resetFailures"}
  <1>0. 0 < FailureThreshold /\ FailureThreshold \in Nat
    BY BreakerAssumption
  <1>1. ASSUME NEW to \in Labels, pc' = [pc EXCEPT ![t] = to], to \in Pending
        PROVE  TripsWhenDue'
    BY <1>1 DEF TripsWhenDue, TypeOK
  <1>2. ASSUME failureCount' = 0
        PROVE  TripsWhenDue'
    BY <1>0, <1>2 DEF TripsWhenDue
  <1>3. ASSUME state' # "CLOSED"
        PROVE  TripsWhenDue'
    BY <1>3 DEF TripsWhenDue
  <1>4. ASSUME NEW from \in Labels, NEW to \in Labels, Step(t, from, to),
               from \notin Pending, UNCHANGED <<state, failureCount>>
        PROVE  TripsWhenDue'
    BY <1>4 DEF TripsWhenDue, TypeOK, Step
  <1>5. CASE Call(t)
    <2>1. CASE Reset(t)
      BY <1>1, <2>1 DEF Reset, Step, Labels
    <2>2. CASE AllowRequest(t) \/ RecordSuccess(t) \/ RecordFailure(t)
      <3>1. UNCHANGED <<state, failureCount>>
        BY <2>2 DEF AllowRequest, RecordSuccess, RecordFailure, Record, counters
      <3>2. \E to \in Labels : Step(t, "idle", to)
        BY <2>2 DEF AllowRequest, RecordSuccess, RecordFailure, Record, Labels
      <3> QED
        BY <1>4, <3>1, <3>2 DEF Labels
    <2> QED
      BY <1>5, <2>1, <2>2 DEF Call
  <1>6. CASE HalfOpenCas(t)
    BY <1>3, <1>4, <1>6 DEF HalfOpenCas, counters, Labels
  <1>7. CASE HalfZeroFailures(t) \/ ClosedZeroFailures(t) \/ CloseZeroFailures(t)
             \/ ResetFailures(t)
    BY <1>2, <1>7 DEF HalfZeroFailures, ClosedZeroFailures, CloseZeroFailures, ResetFailures
  <1>8. CASE CloseCas(t)
    BY <1>1, <1>4, <1>8 DEF CloseCas, ExchangeState, Step, Labels, counters
  <1>9. CASE OpenCas(t) \/ ReopenCas(t)
    <2>1. state' # "CLOSED" \/ (UNCHANGED <<state, failureCount>> /\ Step(t, "reopenCas", "idle"))
      BY <1>9 DEF OpenCas, ReopenCas, ExchangeState, counters
    <2> QED
      BY <1>3, <1>4, <2>1 DEF Labels
  <1>10. CASE FailureAdd(t)
    <2> DEFINE failures == (failureCount + 1) % CounterRange
    <2>1. failures \in 0 .. CounterRange - 1 /\ failureCount' = failures
      BY <1>10, Wraps DEF FailureAdd, TypeOK
    <2>2. Step(t, "failureAdd", IF failures >= FailureThreshold THEN "openCas" ELSE "idle")
      BY <1>10 DEF FailureAdd
    <2> HIDE DEF failures
    <2>3. CASE failures >= FailureThreshold
      BY <1>1, <2>2, <2>3 DEF Step, Labels
    <2>4. CASE ~(failures >= FailureThreshold)
      BY <2>1, <2>4 DEF TripsWhenDue
    <2> QED
      BY <2>3, <2>4
  <1>11. CASE LoadLastFailure(t) \/ CompareTime(t) \/ HalfZeroSuccesses(t)
              \/ HalfZeroRequests(t) \/ GateLoad(t) \/ GateCas(t) \/ ReadClock(t)
              \/ StampTime(t) \/ ResetSuccesses(t) \/ ResetRequests(t)
    <2>1. UNCHANGED <<state, failureCount>>
      BY <1>11 DEF LoadLastFailure, CompareTime, HalfZeroSuccesses, HalfZeroRequests,
           GateLoad, GateCas, ReadClock, StampTime, ResetSuccesses, ResetRequests, counters
    <2>2. \E from \in Labels \ Pending, to \in Labels : Step(t, from, to)
      BY <1>11 DEF LoadLastFailure, CompareTime, HalfZeroSuccesses, HalfZeroRequests,
           GateLoad, GateCas, ReadClock, StampTime, ResetSuccesses, ResetRequests, Labels
    <2> QED
      BY <1>4, <2>1, <2>2
  <1>12. CASE SuccessDec(t) \/ FailureDec(t) \/ SuccessAdd(t) \/ CloseZeroSuccesses(t)
    <2>1. UNCHANGED <<state, failureCount>>
      BY <1>12 DEF SuccessDec, FailureDec, SuccessAdd, CloseZeroSuccesses, Leave
    <2>2. \E from \in Labels \ Pending, to \in Labels : Step(t, from, to)
      BY <1>12 DEF SuccessDec, FailureDec, SuccessAdd, CloseZeroSuccesses, Labels
    <2> QED
      BY <1>4, <2>1, <2>2
  <1> QED
    BY <1>5, <1>6, <1>7, <1>8, <1>9, <1>10, <1>11, <1>12 DEF Inside

\* The breaker never rests CLOSED on failures that have reached the threshold:
\* whatever the interleaving of RecordFailure, RecordSuccess, Reset and a
\* close, some thread is about to trip it or to clear the count.
THEOREM TripsWhenItIsDue == Spec => []TripsWhenDue
  <1>1. Init => TripsWhenDue
    BY BreakerAssumption DEF Init, TripsWhenDue
  <1>2. TypeInv /\ TripsWhenDue /\ [Next]_vars => TripsWhenDue'
    <2> SUFFICES ASSUME TypeInv, TripsWhenDue, [Next]_vars
                 PROVE  TripsWhenDue'
      OBVIOUS
    <2>1. CASE UNCHANGED vars \/ Tick
      BY <2>1 DEF vars, Tick, TripsWhenDue, counters
    <2> QED
      BY <2>1, TripsStep DEF Next, TypeInv
  <1> QED
    BY <1>1, <1>2, TypeInit, TypeStep, PTL DEF Spec

-----------------------------------------------------------------------------
\* The same for HALF_OPEN and success_count_: only SuccessAdd takes the count
\* up, and the state becomes HALF_OPEN only under a thread that has yet to
\* clear it.
LEMMA ClosesStep ==
    ASSUME TypeOK, ClosesWhenDue, NEW t \in Threads, Call(t) \/ Inside(t)
    PROVE  ClosesWhenDue'
  <1> DEFINE Pending == {"closeCas", "halfZeroFailures", "halfZeroSuccesses"}
  <1>0. 0 < SuccessThreshold /\ SuccessThreshold \in Nat
    BY BreakerAssumption
  <1>1. ASSUME NEW to \in Labels, pc' = [pc EXCEPT ![t] = to], to \in Pending
        PROVE  ClosesWhenDue'
    BY <1>1 DEF ClosesWhenDue, TypeOK
  <1>2. ASSUME successCount' = 0
        PROVE  ClosesWhenDue'
    BY <1>0, <1>2 DEF ClosesWhenDue
  <1>3. ASSUME state' # "HALF_OPEN"
        PROVE  ClosesWhenDue'
    BY <1>3 DEF ClosesWhenDue
  <1>4. ASSUME NEW from \in Labels, NEW to \in Labels, Step(t, from, to),
               from \notin Pending, UNCHANGED <<state, successCount>>
        PROVE  ClosesWhenDue'
    BY <1>4 DEF ClosesWhenDue, TypeOK, Step
  <1>5. CASE Call(t)
    <2>1. CASE Reset(t)
      BY <1>3, <2>1 DEF Reset
    <2>2. CASE AllowRequest(t) \/ RecordSuccess(t) \/ RecordFailure(t)
      <3>1. UNCHANGED <<state, successCount>>
        BY <2>2 DEF AllowRequest, RecordSuccess, RecordFailure, Record, counters
      <3>2. \E to \in Labels : Step(t, "idle", to)
        BY <2>2 DEF AllowRequest, RecordSuccess, RecordFailure, Record, Labels
      <3> QED
        BY <1>4, <3>1, <3>2 DEF Labels
    <2> QED
      BY <1>5, <2>1, <2>2 DEF Call
  <1>6. CASE HalfOpenCas(t) \/ HalfZeroFailures(t)
    <2>1. \/ pc' = [pc EXCEPT ![t] = "halfZeroFailures"]
          \/ pc' = [pc EXCEPT ![t] = "halfZeroSuccesses"]
          \/ Step(t, "halfOpenCas", "gateLoad") /\ UNCHANGED <<state, successCount>>
      BY <1>6 DEF HalfOpenCas, HalfZeroFailures, Step, counters
    <2> QED
      BY <1>1, <1>4, <2>1 DEF Labels
  <1>7. CASE HalfZeroSuccesses(t) \/ CloseZeroSuccesses(t) \/ ResetSuccesses(t)
    BY <1>2, <1>7 DEF HalfZeroSuccesses, CloseZeroSuccesses, ResetSuccesses
  <1>8. CASE CloseCas(t) \/ OpenCas(t) \/ ReopenCas(t)
    <2>1. \/ state' # "HALF_OPEN"
          \/ Step(t, "openCas", "idle") /\ UNCHANGED <<state, successCount>>
      BY <1>8 DEF CloseCas, OpenCas, ReopenCas, ExchangeState, counters
    <2> QED
      BY <1>3, <1>4, <2>1 DEF Labels
  <1>9. CASE SuccessAdd(t)
    <2> DEFINE successes == (successCount + 1) % CounterRange
    <2>1. successes \in 0 .. CounterRange - 1 /\ successCount' = successes
      BY <1>9, Wraps DEF SuccessAdd, TypeOK
    <2>2. Step(t, "successAdd", IF successes >= SuccessThreshold THEN "closeCas" ELSE "idle")
      BY <1>9 DEF SuccessAdd
    <2> HIDE DEF successes
    <2>3. CASE successes >= SuccessThreshold
      BY <1>1, <2>2, <2>3 DEF Step, Labels
    <2>4. CASE ~(successes >= SuccessThreshold)
      BY <2>1, <2>4 DEF ClosesWhenDue
    <2> QED
      BY <2>3, <2>4
  <1>10. CASE LoadLastFailure(t) \/ CompareTime(t) \/ ClosedZeroFailures(t)
              \/ HalfZeroRequests(t) \/ GateLoad(t) \/ GateCas(t) \/ ReadClock(t)
              \/ StampTime(t) \/ ResetFailures(t) \/ ResetRequests(t)
    <2>1. UNCHANGED <<state, successCount>>
      BY <1>10 DEF LoadLastFailure, CompareTime, ClosedZeroFailures, HalfZeroRequests,
           GateLoad, GateCas, ReadClock, StampTime, ResetFailures, ResetRequests, counters
    <2>2. \E from \in Labels \ Pending, to \in Labels : Step(t, from, to)
      BY <1>10 DEF LoadLastFailure, CompareTime, ClosedZeroFailures, HalfZeroRequests,
           GateLoad, GateCas, ReadClock, StampTime, ResetFailures, ResetRequests, Labels
    <2> QED
      BY <1>4, <2>1, <2>2
  <1>11. CASE SuccessDec(t) \/ FailureDec(t) \/ FailureAdd(t) \/ CloseZeroFailures(t)
    <2>1. UNCHANGED <<state, successCount>>
      BY <1>11 DEF SuccessDec, FailureDec, FailureAdd, CloseZeroFailures, Leave
    <2>2. \E from \in Labels \ Pending, to \in Labels : Step(t, from, to)
      BY <1>11 DEF SuccessDec, FailureDec, FailureAdd, CloseZeroFailures, Labels
    <2> QED
      BY <1>4, <2>1, <2>2
  <1> QED
    BY <1>5, <1>6, <1>7, <1>8, <1>9, <1>10, <1>11 DEF Inside

\* The breaker never rests HALF_OPEN on enough successes: some RecordSuccess is
\* about to close it, or the thread that opened the period has yet to clear
\* what an earlier period left in success_count_.
THEOREM ClosesWhenItIsDue == Spec => []ClosesWhenDue
  <1>1. Init => ClosesWhenDue
    BY DEF Init, ClosesWhenDue
  <1>2. TypeInv /\ ClosesWhenDue /\ [Next]_vars => ClosesWhenDue'
    <2> SUFFICES ASSUME TypeInv, ClosesWhenDue, [Next]_vars
                 PROVE  ClosesWhenDue'
      OBVIOUS
    <2>1. CASE UNCHANGED vars \/ Tick
      BY <2>1 DEF vars, Tick, ClosesWhenDue, counters
    <2> QED
      BY <2>1, ClosesStep DEF Next, TypeInv
  <1> QED
    BY <1>1, <1>2, TypeInit, TypeStep, PTL DEF Spec

-----------------------------------------------------------------------------
\* The requests behind the gate are finitely many; one more makes the number
\* at most one larger, one less makes it one smaller.
LEMMA GateCard ==
    /\ IsFiniteSet(Gate) /\ Cardinality(Gate) \in Nat
    /\ \A r \in Requests : IsFiniteSet(Gate \cup {r})
                            /\ Cardinality(Gate \cup {r}) <= Cardinality(Gate) + 1
    /\ \A r \in Gate : Cardinality(Gate) >= 1
                        /\ Cardinality(Gate \ {r}) = Cardinality(Gate) - 1
    /\ \A S \in SUBSET Gate : Cardinality(S) \in Nat /\ Cardinality(S) <= Cardinality(Gate)
  <1>1. IsFiniteSet(Gate) /\ Cardinality(Gate) \in Nat
    BY BreakerAssumption, FS_Subset, FS_CardinalityType DEF Gate
  <1>2. ASSUME NEW r \in Requests
        PROVE  /\ IsFiniteSet(Gate \cup {r})
               /\ Cardinality(Gate \cup {r}) <= Cardinality(Gate) + 1
    BY <1>1, FS_AddElement
  <1>3. ASSUME NEW r \in Gate
        PROVE  Cardinality(Gate) >= 1 /\ Cardinality(Gate \ {r}) = Cardinality(Gate) - 1
    <2>1. Cardinality(Gate) # 0
      BY <1>1, FS_EmptySet
    <2> QED
      BY <1>1, <2>1, FS_RemoveElement
  <1>4. ASSUME NEW S \in SUBSET Gate
        PROVE  Cardinality(S) \in Nat /\ Cardinality(S) <= Cardinality(Gate)
    BY <1>1, FS_Subset, FS_CardinalityType
  <1> QED
    BY <1>1, <1>2, <1>3, <1>4

\* Every access keeps the count no less than the gate's requests, as long as
\* the period is undisturbed.
LEMMA GateStep ==
    ASSUME TypeInv, GateCounted, NEW t \in Threads, Call(t) \/ Inside(t)
    PROVE  GateCounted'
  <1>0. /\ TypeOK /\ Locals
        /\ HalfOpenMax \in Nat /\ HalfOpenMax < CounterRange /\ CounterRange \in Nat
        /\ halfOpenRequests \in 0 .. CounterRange - 1
    BY BreakerAssumption DEF TypeInv, TypeOK
  <1>1. ASSUME Gate' \in SUBSET Gate, UNCHANGED <<halfOpenRequests, clean>>
        PROVE  GateCounted'
    BY <1>0, <1>1, GateCard DEF GateCounted
  <1>2. ASSUME UNCHANGED <<where, halfOpenRequests, clean>>
        PROVE  GateCounted'
    BY <1>2 DEF GateCounted, Gate
  <1>3. ASSUME Gate' = {}, halfOpenRequests' \in Nat
        PROVE  GateCounted'
    BY <1>0, <1>3, FS_EmptySet DEF GateCounted
  <1>4. CASE AllowRequest(t)
    <2>1. Gate' = Gate /\ UNCHANGED <<halfOpenRequests, clean>>
      BY <1>0, <1>4 DEF AllowRequest, Gate, TypeOK, counters
    <2> QED
      BY <1>1, <2>1
  <1>5. CASE RecordSuccess(t) \/ RecordFailure(t)
    <2>1. PICK r \in Requests : UNCHANGED where \/ where' = [where EXCEPT ![r] = "free"]
      BY <1>5 DEF RecordSuccess, RecordFailure, Record
    <2>2. Gate' \in SUBSET Gate
      BY <1>0, <2>1 DEF Gate, TypeOK
    <2>3. UNCHANGED <<halfOpenRequests, clean>>
      BY <1>5 DEF RecordSuccess, RecordFailure, Record, counters
    <2> QED
      BY <1>1, <2>2, <2>3
  <1>6. CASE HalfOpenCas(t)
    <2>1. CASE state = "OPEN"
      <3>1. Gate' = {}
        BY <1>6, <2>1 DEF HalfOpenCas, Gate
      <3> QED
        BY <1>0, <1>3, <1>6, <3>1 DEF HalfOpenCas, counters
    <2>2. CASE state # "OPEN"
      BY <1>2, <1>6, <2>2 DEF HalfOpenCas, counters
    <2> QED
      BY <2>1, <2>2
  <1>7. CASE HalfZeroRequests(t) \/ ResetRequests(t)
    <2>1. /\ halfOpenRequests' = 0 /\ clean' = (clean /\ Gate = {}) /\ Gate' = Gate
      BY <1>7 DEF HalfZeroRequests, ResetRequests, Gate
    <2>2. CASE Gate = {}
      BY <1>3, <2>1, <2>2
    <2>3. CASE Gate # {}
      BY <2>1, <2>3 DEF GateCounted
    <2> QED
      BY <2>2, <2>3
  <1>8. CASE GateCas(t)
    <2>1. CASE halfOpenRequests = tmp[t]
      <3>1. pc[t] = "gateCas" /\ UNCHANGED clean
        BY <1>8, <2>1 DEF GateCas, Step
      <3>2. req[t] \in Requests /\ halfOpenRequests \in 0 .. HalfOpenMax - 1
        BY <1>0, <2>1, <3>1 DEF Locals
      <3>3. halfOpenRequests' = halfOpenRequests + 1
        BY <1>0, <1>8, <2>1, <3>2, Wraps DEF GateCas
      <3>4. Gate' = Gate \cup {req[t]}
        BY <1>0, <1>8, <2>1, <3>2 DEF GateCas, Gate, TypeOK
      <3>5. Cardinality(Gate') \in Nat /\ Cardinality(Gate') <= Cardinality(Gate) + 1
        BY <3>2, <3>4, GateCard, FS_CardinalityType
      <3> QED
        BY <1>0, <3>1, <3>2, <3>3, <3>5, GateCard DEF GateCounted
    <2>2. CASE halfOpenRequests # tmp[t]
      BY <1>2, <1>8, <2>2 DEF GateCas
    <2> QED
      BY <2>1, <2>2
  <1>9. CASE SuccessDec(t) \/ FailureDec(t)
    <2>1. Leave(t) /\ req[t] \in Requests
      BY <1>0, <1>9 DEF SuccessDec, FailureDec, Step, Locals
    <2>2. CASE clean /\ where[req[t]] = "gate"
      <3>1. req[t] \in Gate /\ Gate' = Gate \ {req[t]}
        BY <1>0, <2>1, <2>2 DEF Leave, Gate, TypeOK
      <3>2. Cardinality(Gate') = Cardinality(Gate) - 1 /\ Cardinality(Gate) >= 1
        BY <3>1, GateCard
      <3>3. halfOpenRequests - 1 \in 0 .. CounterRange - 1
        BY <1>0, <2>2, <3>2, GateCard DEF GateCounted
      <3>4. halfOpenRequests' = halfOpenRequests - 1
        BY <2>1, <3>3, Wraps DEF Leave
      <3> QED
        BY <1>0, <2>2, <3>2, <3>4, GateCard DEF GateCounted
    <2>3. CASE ~(clean /\ where[req[t]] = "gate")
      BY <2>1, <2>3 DEF Leave, GateCounted
    <2> QED
      BY <2>2, <2>3
  <1>10. CASE \/ LoadLastFailure(t) \/ CompareTime(t) \/ HalfZeroFailures(t)
              \/ HalfZeroSuccesses(t) \/ GateLoad(t) \/ ClosedZeroFailures(t)
              \/ SuccessAdd(t) \/ FailureAdd(t) \/ CloseZeroFailures(t)
              \/ CloseZeroSuccesses(t)
    <2>1. UNCHANGED <<where, halfOpenRequests, clean>>
      BY <1>10 DEF LoadLastFailure, CompareTime, HalfZeroFailures, HalfZeroSuccesses,
           GateLoad, ClosedZeroFailures, SuccessAdd, FailureAdd, CloseZeroFailures,
           CloseZeroSuccesses, Refuse, counters, requests
    <2> QED
      BY <1>2, <2>1
  <1>11. CASE \/ CloseCas(t) \/ OpenCas(t) \/ ReopenCas(t) \/ ReadClock(t) \/ StampTime(t)
              \/ Reset(t) \/ ResetFailures(t) \/ ResetSuccesses(t)
    <2>1. UNCHANGED <<where, halfOpenRequests, clean>>
      BY <1>11 DEF CloseCas, OpenCas, ReopenCas, ExchangeState, ReadClock, StampTime,
           Reset, ResetFailures, ResetSuccesses, counters, requests
    <2> QED
      BY <1>2, <2>1
  <1> QED
    BY <1>4, <1>5, <1>6, <1>7, <1>8, <1>9, <1>10, <1>11 DEF Call, Inside

\* Of the requests the gate of one half-open period admitted, no more than
\* half_open_max_requests are unfinished, for any number of threads between
\* the gate's load and its exchange, as long as no decrement for a request of
\* another period and no late zeroing disturbed the count.
THEOREM HalfOpenLimitHolds == Spec => []HalfOpenLimit
  <1>1. Init => GateCounted
    <2> SUFFICES ASSUME Init PROVE GateCounted
      OBVIOUS
    <2>1. Gate = {} /\ halfOpenRequests = 0
      BY DEF Init, Gate
    <2> QED
      BY <2>1, FS_EmptySet, BreakerAssumption DEF GateCounted
  <1>2. TypeInv /\ GateCounted /\ [Next]_vars => GateCounted'
    <2> SUFFICES ASSUME TypeInv, GateCounted, [Next]_vars
                 PROVE  GateCounted'
      OBVIOUS
    <2>1. CASE UNCHANGED vars \/ Tick
      BY <2>1 DEF vars, Tick, GateCounted, Gate, counters, requests
    <2> QED
      BY <2>1, GateStep DEF Next
  <1>3. GateCounted => HalfOpenLimit
    BY DEF GateCounted, HalfOpenLimit
  <1> QED
    BY <1>1, <1>2, <1>3, TypeInit, TypeStep, PTL DEF Spec
=============================================================================

------------------------ MODULE OdbcConnectionProofs ------------------------
(***************************************************************************)
(* Proofs about OdbcConnection for any number of connections, rows and     *)
(* faults and any thresholds of the circuit breaker: types, what SQLEndTran*)
(* reports on a connection and on the environment, batches, and the slots  *)
(* of the half-open breaker.                                               *)
(***************************************************************************)
EXTENDS OdbcConnection, FiniteSetTheorems, TLAPS

\* Nothing is on the wire: no request the server has not taken and no answer
\* the client has not read.
Quiet(s) == s.sent = <<>> /\ s.answers = <<>>

\* The requests that write no row above u.
Upto(u) ==
    [op: {"row"}, row: 1..u] \cup [op: {"auto"}, on: BOOLEAN] \cup [op: {"isolation"} \cup Kinds]

\* A server session: only rows handed out occur, a broken session has nothing
\* pending and nothing on the wire, and while nothing is on the wire what is
\* pending is not durable and nothing is pending in autocommit mode.
SessionOK(s, u) ==
    /\ s.pending \cup s.durable \subseteq 1..u
    /\ \A i \in 1..Len(s.sent) : s.sent[i] \in Upto(u)
    /\ ~s.up => s.pending = {} /\ Quiet(s)
    /\ Quiet(s) => s.pending \cap s.durable = {} /\ (s.auto => s.pending = {})

\* The handle against the session. As long as SQL_ATTR_AUTOCOMMIT never
\* failed and no answer was given up on, nothing is on the wire between
\* calls, the driver's two flags agree, and agree with the server's mode.
FlagsAgree(c) ==
    /\ ~conn[c].connected => ~srv[c].up
    /\ ~unsure[c] => Quiet(srv[c])
    /\ conn[c].connected /\ ~unsure[c] =>
          /\ conn[c].inTxn <=> ~conn[c].auto
          /\ srv[c].up => (srv[c].auto <=> conn[c].auto)

\* Rows acknowledged since the last boundary are on the server: durable in
\* autocommit mode, pending in manual-commit mode while the session lives.
AckedKept(c) ==
    conn[c].connected /\ ~unsure[c] /\ report[c] = "none" =>
        IF conn[c].auto THEN unit[c] \subseteq srv[c].durable
                        ELSE srv[c].up => unit[c] \subseteq srv[c].pending

\* What SQLEndTran reported holds until the next call on the connection.
Settled(c) ==
    report[c] # "none" /\ ~unsure[c] =>
        /\ srv[c].pending = {}
        /\ report[c] = "committed" => unit[c] \subseteq srv[c].durable
        /\ report[c] = "rolledBack" /\ ~conn[c].auto => unit[c] \cap srv[c].durable = {}

\* A batch under way, and one that ended.
BatchKept(c) ==
    /\ bulk[c].rows \subseteq 1..used[c]
    /\ bulk[c].at # "idle" => (bulk[c].auto <=> conn[c].auto)
    /\ bulk[c].at = "running" =>
          /\ conn[c].connected /\ report[c] = "none" /\ bulk[c].left >= 1
          /\ used[c] + bulk[c].left <= MaxRows[c]
          /\ Cardinality(bulk[c].rows) + bulk[c].left = BatchSize
          /\ ~bulk[c].auto /\ ~unsure[c] /\ srv[c].up => bulk[c].rows \subseteq srv[c].pending
    /\ ~bulk[c].auto /\ ~unsure[c] =>
          /\ bulk[c].at = "done" =>
                /\ Cardinality(bulk[c].rows) = BatchSize
                /\ srv[c].up => bulk[c].rows \subseteq srv[c].pending \cup srv[c].durable
          /\ bulk[c].at = "undone" =>
                bulk[c].rows \cap (srv[c].pending \cup srv[c].durable) = {}

\* What the environment's commit owes a connection: kept like the rows
\* acknowledged, and durable once the loop is past the connection.
OwedKept(c) ==
    /\ ~conn[c].connected => env.owed[c] = {}
    /\ env.kind = "committed" /\ ~unsure[c] =>
          /\ conn[c].auto => env.owed[c] \subseteq srv[c].durable
          /\ ~conn[c].auto /\ srv[c].up => env.owed[c] \subseteq srv[c].pending \cup srv[c].durable
          /\ env.running /\ c < env.next => env.owed[c] \subseteq srv[c].durable

ConnInv(c) ==
    /\ used[c] <= MaxRows[c]
    /\ SessionOK(srv[c], used[c])
    /\ FlagsAgree(c) /\ AckedKept(c) /\ Settled(c) /\ BatchKept(c) /\ OwedKept(c)

\* The state's types alone.
Types ==
    /\ conn \in [Conns -> Handles]
    /\ srv \in [Conns -> Sessions]
    /\ faults \in 0..MaxFaults
    /\ used \in [Conns -> Nat]
    /\ unit \in [Conns -> SUBSET Rows]
    /\ report \in [Conns -> Kinds \cup {"none", "invalid"}]
    /\ unsure \in [Conns -> BOOLEAN]
    /\ bulk \in [Conns -> [at: {"idle", "running", "done", "failed", "undone", "stuck"},
                           rows: SUBSET Rows, left: 0..BatchSize, auto: BOOLEAN]]
    /\ env \in [running: BOOLEAN, kind: Kinds, next: 1..(N + 1), owed: [Conns -> SUBSET Rows]]

\* The inductive invariant, connection by connection.
OdbcInv == Types /\ \A c \in Conns : ConnInv(c)

-----------------------------------------------------------------------------
(* The circuit breaker.                                                    *)

Answers == [brk: Breakers, ok: BOOLEAN]

\* allowRequest: a slot is taken exactly when the request is let through
\* in the half-open state, whether the breaker was half-open before or not.
LEMMA AllowOutcome ==
    ASSUME NEW b \in Breakers, NEW a \in AllowRequest(b)
    PROVE  /\ a \in Answers
           /\ ~a.ok => a.brk.halfOpen <= b.halfOpen
           /\ a.ok /\ a.brk.state = "half" =>
                 a.brk.halfOpen \in Nat \ {0} /\ a.brk.halfOpen - 1 <= b.halfOpen
           /\ a.ok /\ a.brk.state # "half" => a.brk.halfOpen <= b.halfOpen
  <1>0. b.halfOpen \in Nat /\ HalfOpenMax \in Nat \ {0}
    BY OdbcAssumption DEF Breakers
  <1> DEFINE new == [state |-> "half", failures |-> 0, successes |-> 0, halfOpen |-> 0]
  <1>1. CASE b.state = "closed"
    <2>1. a = [brk |-> b, ok |-> TRUE]
      BY <1>1 DEF AllowRequest
    <2>2. a \in Answers
      BY <2>1 DEF Answers
    <2>3. a.brk = b /\ a.ok
      BY <2>1
    <2>4. a.brk.halfOpen = b.halfOpen /\ a.brk.state = "closed"
      BY <1>1, <2>3
    <2>5. a.brk.halfOpen <= b.halfOpen
      BY <1>0, <2>4
    <2> QED BY <2>2, <2>3, <2>4, <2>5
  <1>2. CASE b.state = "open"
    <2>1. a = [brk |-> b, ok |-> FALSE] \/ a = AllowHalfOpenRequest(new)
      BY <1>2 DEF AllowRequest
    <2>2. CASE a = [brk |-> b, ok |-> FALSE]
      <3>1. a.brk = b /\ a.ok = FALSE /\ a \in Answers
        BY <2>2 DEF Answers
      <3> QED BY <1>0, <3>1
    <2>3. CASE a = AllowHalfOpenRequest(new)
      <3> DEFINE new1 == [state |-> "half", failures |-> 0, successes |-> 0, halfOpen |-> 1]
      <3>1. AllowHalfOpenRequest(new) = [brk |-> [new EXCEPT !.halfOpen = 1], ok |-> TRUE]
        BY <1>0 DEF AllowHalfOpenRequest
      <3>2. [new EXCEPT !.halfOpen = 1] = new1
        OBVIOUS
      <3>3. new1 \in Breakers /\ new1.halfOpen = 1 /\ new1.state = "half"
        BY DEF Breakers
      <3> HIDE DEF new, new1
      <3>4. a = [brk |-> new1, ok |-> TRUE]
        BY <2>3, <3>1, <3>2
      <3>5. a \in Answers
        BY <3>3, <3>4 DEF Answers
      <3>6. a.brk = new1 /\ a.ok
        BY <3>4
      <3>7. a.brk.halfOpen \in Nat \ {0} /\ a.brk.halfOpen - 1 <= b.halfOpen /\ a.brk.state = "half"
        BY <1>0, <3>3, <3>6
      <3> QED BY <3>5, <3>6, <3>7
    <2> QED BY <2>1, <2>2, <2>3
  <1>3. CASE b.state = "half"
    <2>1. a = AllowHalfOpenRequest(b)
      BY <1>3 DEF AllowRequest
    <2>2. CASE b.halfOpen >= HalfOpenMax
      <3>1. a = [brk |-> b, ok |-> FALSE]
        BY <2>1, <2>2 DEF AllowHalfOpenRequest
      <3>2. a.brk = b /\ a.ok = FALSE /\ a \in Answers
        BY <3>1 DEF Answers
      <3> QED BY <1>0, <3>2
    <2>3. CASE ~(b.halfOpen >= HalfOpenMax)
      <3>1. a = [brk |-> [b EXCEPT !.halfOpen = b.halfOpen + 1], ok |-> TRUE]
        BY <2>1, <2>3 DEF AllowHalfOpenRequest
      <3>2. /\ [b EXCEPT !.halfOpen = b.halfOpen + 1] \in Breakers
            /\ [b EXCEPT !.halfOpen = b.halfOpen + 1].halfOpen = b.halfOpen + 1
        BY <1>0 DEF Breakers
      <3>3. a.brk.halfOpen = b.halfOpen + 1 /\ a.ok
        BY <3>1, <3>2
      <3>4. a \in Answers
        BY <3>1, <3>2 DEF Answers
      <3>5. a.brk.state = "half"
        BY <1>3, <3>1 DEF Breakers
      <3>6. a.brk.halfOpen \in Nat \ {0} /\ a.brk.halfOpen - 1 <= b.halfOpen
        BY <1>0, <3>3
      <3> QED BY <3>3, <3>4, <3>5, <3>6
    <2> QED BY <2>2, <2>3
  <1>4. b.state \in {"closed", "open", "half"}
    BY DEF Breakers
  <1> QED BY <1>1, <1>2, <1>3, <1>4

\* recordSuccess and recordFailure give the slot back.
LEMMA RecordOutcome ==
    ASSUME NEW b \in Breakers, b.state = "half" => b.halfOpen # 0
    PROVE  /\ RecordSuccess(b) \in Breakers /\ RecordFailure(b) \in Breakers
           /\ b.state = "half" => /\ RecordSuccess(b).halfOpen = b.halfOpen - 1
                                  /\ RecordFailure(b).halfOpen = b.halfOpen - 1
           /\ b.state # "half" => /\ RecordSuccess(b).halfOpen = b.halfOpen
                                  /\ RecordFailure(b).halfOpen = b.halfOpen
  <1>0. b.halfOpen \in Nat /\ b.failures \in Nat /\ b.successes \in Nat
    BY DEF Breakers
  <1>1. CASE b.state = "closed"
    <2>1. RecordSuccess(b) = [b EXCEPT !.failures = 0]
      BY <1>1 DEF RecordSuccess
    <2>2. RecordFailure(b) =
            [b EXCEPT !.failures = b.failures + 1,
                      !.state = IF b.failures + 1 >= FailureThreshold THEN "open" ELSE b.state]
      BY <1>1 DEF RecordFailure
    <2>3. (IF b.failures + 1 >= FailureThreshold THEN "open" ELSE b.state) \in {"closed", "open", "half"}
      BY <1>1
    <2> DEFINE st == IF b.failures + 1 >= FailureThreshold THEN "open" ELSE b.state
    <2>4. RecordSuccess(b) = [state |-> b.state, failures |-> 0, successes |-> b.successes, halfOpen |-> b.halfOpen]
      BY <2>1 DEF Breakers
    <2>5. RecordFailure(b) =
            [state |-> st, failures |-> b.failures + 1, successes |-> b.successes, halfOpen |-> b.halfOpen]
      BY <2>2 DEF Breakers
    <2> HIDE DEF st
    <2>6. RecordSuccess(b) \in Breakers
      BY <1>0, <1>1, <2>4 DEF Breakers
    <2>7. b.failures + 1 \in Nat
      BY <1>0
    <2>8. RecordFailure(b) \in Breakers
      BY <1>0, <2>3, <2>5, <2>7 DEF Breakers, st
    <2> QED BY <1>1, <2>4, <2>5, <2>6, <2>8
  <1>2. CASE b.state = "half"
    <2>0. b.halfOpen - 1 \in Nat
      BY <1>0, <1>2
    <2>1. RecordFailure(b) = [b EXCEPT !.state = "open", !.halfOpen = b.halfOpen - 1]
      BY <1>2 DEF RecordFailure
    <2>a. RecordFailure(b) =
            [state |-> "open", failures |-> b.failures, successes |-> b.successes, halfOpen |-> b.halfOpen - 1]
      BY <2>1 DEF Breakers
    <2>b. RecordFailure(b) \in Breakers /\ RecordFailure(b).halfOpen = b.halfOpen - 1
      BY <1>0, <2>0, <2>a DEF Breakers
    <2>2. CASE b.successes + 1 >= SuccessThreshold
      <3>1. RecordSuccess(b) =
              [state |-> "closed", failures |-> 0, successes |-> 0, halfOpen |-> b.halfOpen - 1]
        BY <1>2, <2>2 DEF RecordSuccess
      <3>2. RecordSuccess(b) \in Breakers /\ RecordSuccess(b).halfOpen = b.halfOpen - 1
        BY <2>0, <3>1 DEF Breakers
      <3> QED BY <1>2, <2>b, <3>2
    <2>3. CASE ~(b.successes + 1 >= SuccessThreshold)
      <3>1. RecordSuccess(b) = [b EXCEPT !.successes = b.successes + 1, !.halfOpen = b.halfOpen - 1]
        BY <1>2, <2>3 DEF RecordSuccess
      <3>2. RecordSuccess(b) =
              [state |-> b.state, failures |-> b.failures, successes |-> b.successes + 1,
               halfOpen |-> b.halfOpen - 1]
        BY <3>1 DEF Breakers
      <3>3. b.successes + 1 \in Nat
        BY <1>0
      <3>4. RecordSuccess(b) \in Breakers /\ RecordSuccess(b).halfOpen = b.halfOpen - 1
        BY <1>0, <1>2, <2>0, <3>2, <3>3 DEF Breakers
      <3> QED BY <1>2, <2>b, <3>4
    <2> QED BY <2>2, <2>3
  <1>3. CASE b.state = "open"
    BY <1>3 DEF RecordSuccess, RecordFailure
  <1>4. b.state \in {"closed", "open", "half"}
    BY DEF Breakers
  <1> QED BY <1>1, <1>2, <1>3, <1>4

-----------------------------------------------------------------------------
(* Calls.                                                                  *)

Calls == [brk: Breakers, srv: Sessions, faults: 0..MaxFaults, ok: BOOLEAN]

\* What is on the wire, counted.
Backlog(s) == Len(s.sent) + Len(s.answers)

LEMMA QuietBacklog ==
    ASSUME NEW s \in Sessions PROVE Backlog(s) \in Nat /\ (Quiet(s) <=> Backlog(s) = 0)
  <1>1. s.sent \in Seq(Reqs) /\ s.answers \in Seq({"ok", "error"})
    BY DEF Sessions
  <1>2. Len(s.sent) \in Nat /\ (s.sent = <<>> <=> Len(s.sent) = 0)
    BY <1>1
  <1>3. Len(s.answers) \in Nat /\ (s.answers = <<>> <=> Len(s.answers) = 0)
    BY <1>1
  <1>4. PICK m \in Nat, n \in Nat : m = Len(s.sent) /\ n = Len(s.answers)
    BY <1>2, <1>3
  <1>5. Backlog(s) = m + n
    BY <1>4 DEF Backlog
  <1>6. m + n \in Nat /\ (m + n = 0 <=> (m = 0 /\ n = 0))
    OBVIOUS
  <1>7. Quiet(s) <=> (m = 0 /\ n = 0)
    BY <1>2, <1>3, <1>4 DEF Quiet
  <1> QED BY <1>5, <1>6, <1>7

\* A session with one of its queues replaced.
LEMMA Requeued ==
    ASSUME NEW s \in Sessions, NEW q
    PROVE  /\ [s EXCEPT !.sent = q] = [up |-> s.up, auto |-> s.auto, pending |-> s.pending,
                                        durable |-> s.durable, sent |-> q, answers |-> s.answers]
           /\ [s EXCEPT !.answers = q] = [up |-> s.up, auto |-> s.auto, pending |-> s.pending,
                                           durable |-> s.durable, sent |-> s.sent, answers |-> q]
  <1>1. PICK A, B : s \in [up: BOOLEAN, auto: BOOLEAN, pending: SUBSET Rows, durable: SUBSET Rows,
                           sent: A, answers: B]
    BY DEF Sessions
  <1>2. [s EXCEPT !.sent = q] = [up |-> s.up, auto |-> s.auto, pending |-> s.pending,
                                 durable |-> s.durable, sent |-> q, answers |-> s.answers]
    BY <1>1
  <1>3. [s EXCEPT !.answers = q] = [up |-> s.up, auto |-> s.auto, pending |-> s.pending,
                                    durable |-> s.durable, sent |-> s.sent, answers |-> q]
    BY <1>1
  <1> QED BY <1>2, <1>3

\* A session from its parts.
LEMMA SessionMade ==
    ASSUME NEW up \in BOOLEAN, NEW auto \in BOOLEAN, NEW p \in SUBSET Rows, NEW d \in SUBSET Rows,
           NEW q \in Seq(Reqs), NEW w \in Seq({"ok", "error"})
    PROVE  [up |-> up, auto |-> auto, pending |-> p, durable |-> d, sent |-> q, answers |-> w] \in Sessions
  BY DEF Sessions

LEMMA SessionParts ==
    ASSUME NEW s \in Sessions
    PROVE  /\ s.up \in BOOLEAN /\ s.auto \in BOOLEAN /\ s.pending \in SUBSET Rows
           /\ s.durable \in SUBSET Rows /\ s.sent \in Seq(Reqs) /\ s.answers \in Seq({"ok", "error"})
  BY DEF Sessions

\* The session ends: what was pending is gone, what was durable stays.
LEMMA HangupSession ==
    ASSUME NEW s \in Sessions
    PROVE  /\ Hangup(s) \in Sessions /\ Hangup(s).durable = s.durable
           /\ Hangup(s).pending = {} /\ ~Hangup(s).up /\ Quiet(Hangup(s))
           /\ \A u : SessionOK(s, u) => SessionOK(Hangup(s), u)
  <1>1. Hangup(s) = [up |-> FALSE, auto |-> TRUE, pending |-> {}, durable |-> s.durable,
                     sent |-> <<>>, answers |-> <<>>]
    BY DEF Hangup
  <1>2. Hangup(s) \in Sessions
    <2>1. <<>> \in Seq(Reqs) /\ <<>> \in Seq({"ok", "error"}) /\ s.durable \in SUBSET Rows
      BY SessionParts
    <2>2. TRUE \in BOOLEAN /\ FALSE \in BOOLEAN /\ {} \in SUBSET Rows
      OBVIOUS
    <2> QED BY <1>1, <2>1, <2>2, SessionMade
  <1>3. /\ Hangup(s).durable = s.durable /\ Hangup(s).pending = {} /\ ~Hangup(s).up
        /\ Hangup(s).sent = <<>> /\ Hangup(s).answers = <<>>
    BY <1>1
  <1>4. ASSUME NEW u, SessionOK(s, u) PROVE SessionOK(Hangup(s), u)
    <2>1. s.durable \subseteq 1..u
      BY <1>4 DEF SessionOK
    <2>2. 1..Len(Hangup(s).sent) = {}
      BY <1>3
    <2> QED BY <1>3, <2>1, <2>2 DEF SessionOK, Quiet
  <1> QED BY <1>2, <1>3, <1>4 DEF Quiet

\* allowRequest, inside a call.
LEMMA AskOutcome ==
    ASSUME NEW x \in Calls, NEW a \in Ask(x)
    PROVE  /\ a \in Calls /\ a.srv = x.srv /\ a.faults = x.faults
           /\ ~a.ok => a.brk.halfOpen <= x.brk.halfOpen
           /\ a.ok /\ a.brk.state = "half" =>
                 a.brk.halfOpen \in Nat \ {0} /\ a.brk.halfOpen - 1 <= x.brk.halfOpen
           /\ a.ok /\ a.brk.state # "half" => a.brk.halfOpen <= x.brk.halfOpen
  <1>1. PICK b \in AllowRequest(x.brk) : a = [x EXCEPT !.brk = b.brk, !.ok = b.ok]
    BY DEF Ask
  <1>2. x.brk \in Breakers
    BY DEF Calls
  <1>3. /\ b \in Answers
        /\ ~b.ok => b.brk.halfOpen <= x.brk.halfOpen
        /\ b.ok /\ b.brk.state = "half" =>
              b.brk.halfOpen \in Nat \ {0} /\ b.brk.halfOpen - 1 <= x.brk.halfOpen
        /\ b.ok /\ b.brk.state # "half" => b.brk.halfOpen <= x.brk.halfOpen
    BY <1>2, AllowOutcome
  <1>4. b.brk \in Breakers /\ b.ok \in BOOLEAN
    BY <1>3 DEF Answers
  <1>5. a = [brk |-> b.brk, srv |-> x.srv, faults |-> x.faults, ok |-> b.ok]
    BY <1>1 DEF Calls
  <1>6. a \in Calls
    BY <1>4, <1>5 DEF Calls
  <1>7. a.srv = x.srv /\ a.brk = b.brk /\ (a.ok <=> b.ok) /\ a.faults = x.faults
    BY <1>5
  <1> QED BY <1>3, <1>6, <1>7

-----------------------------------------------------------------------------
(* What the server does with each request.                                 *)

\* An operation of the server that may change mode and rows, but neither the
\* queues nor whether the session lives.
SameWire(a, s) == a.sent = s.sent /\ a.answers = s.answers /\ (a.up <=> s.up)

\* A row is written.
LEMMA RowSession ==
    ASSUME NEW s \in Sessions, NEW r \in Rows
    PROVE  LET a == Apply(s, [op |-> "row", row |-> r])
           IN  /\ a \in Sessions /\ SameWire(a, s) /\ (a.auto <=> s.auto)
               /\ s.auto => a.durable = s.durable \cup {r} /\ a.pending = s.pending
               /\ ~s.auto => a.pending = s.pending \cup {r} /\ a.durable = s.durable
  <1> DEFINE a == Apply(s, [op |-> "row", row |-> r])
  <1>1. a = IF s.auto THEN [s EXCEPT !.durable = s.durable \cup {r}]
                      ELSE [s EXCEPT !.pending = s.pending \cup {r}]
    BY DEF Apply
  <1>2. /\ s.durable \cup {r} \in SUBSET Rows /\ s.pending \cup {r} \in SUBSET Rows
        /\ s.auto \in BOOLEAN
    BY DEF Sessions
  <1> HIDE DEF a
  <1>4. CASE s.auto
    <2>1. a = [up |-> s.up, auto |-> s.auto, pending |-> s.pending, durable |-> s.durable \cup {r},
               sent |-> s.sent, answers |-> s.answers]
      BY <1>1, <1>4 DEF Sessions
    <2>2. a \in Sessions
      BY <1>2, <2>1 DEF Sessions
    <2>3. a.pending = s.pending /\ a.durable = s.durable \cup {r}
      BY <2>1
    <2>4. SameWire(a, s) /\ (a.auto <=> s.auto)
      BY <2>1 DEF SameWire
    <2> QED BY <1>4, <2>2, <2>3, <2>4 DEF a
  <1>5. CASE ~s.auto
    <2>1. a = [up |-> s.up, auto |-> s.auto, pending |-> s.pending \cup {r}, durable |-> s.durable,
               sent |-> s.sent, answers |-> s.answers]
      BY <1>1, <1>5 DEF Sessions
    <2>2. a \in Sessions
      BY <1>2, <2>1 DEF Sessions
    <2>3. a.pending = s.pending \cup {r} /\ a.durable = s.durable
      BY <2>1
    <2>4. SameWire(a, s) /\ (a.auto <=> s.auto)
      BY <2>1 DEF SameWire
    <2> QED BY <1>5, <2>2, <2>3, <2>4 DEF a
  <1> QED BY <1>4, <1>5

\* The server commits: everything pending is durable.
LEMMA CommitSession ==
    ASSUME NEW s \in Sessions
    PROVE  /\ Commit(s) \in Sessions /\ SameWire(Commit(s), s) /\ (Commit(s).auto <=> s.auto)
           /\ Commit(s).durable = s.durable \cup s.pending /\ Commit(s).pending = {}
  <1> DEFINE d == s.durable \cup s.pending
  <1>0. Commit(s) = [s EXCEPT !.durable = d, !.pending = {}] /\ d \in SUBSET Rows
    BY DEF Commit, Sessions
  <1> HIDE DEF d
  <1>1. Commit(s) = [up |-> s.up, auto |-> s.auto, pending |-> {}, durable |-> d,
                     sent |-> s.sent, answers |-> s.answers]
    BY <1>0 DEF Sessions
  <1>2. Commit(s) \in Sessions
    BY <1>0, <1>1 DEF Sessions
  <1>3. Commit(s).durable = s.durable \cup s.pending /\ Commit(s).pending = {}
    BY <1>1 DEF d
  <1>4. SameWire(Commit(s), s) /\ (Commit(s).auto <=> s.auto)
    BY <1>1 DEF SameWire
  <1> QED BY <1>2, <1>3, <1>4

\* SET AUTOCOMMIT ON commits, OFF keeps the open transaction.
LEMMA AutoSession ==
    ASSUME NEW s \in Sessions, NEW on \in BOOLEAN
    PROVE  LET a == Apply(s, [op |-> "auto", on |-> on])
           IN  /\ a \in Sessions /\ SameWire(a, s) /\ (a.auto <=> on)
               /\ on => a.durable = s.durable \cup s.pending /\ a.pending = {}
               /\ ~on => a.durable = s.durable /\ a.pending = s.pending
  <1> DEFINE a == Apply(s, [op |-> "auto", on |-> on])
  <1>1. a = IF on THEN [Commit(s) EXCEPT !.auto = TRUE] ELSE [s EXCEPT !.auto = FALSE]
    BY DEF Apply
  <1> HIDE DEF a
  <1>2. CASE on
    <2>0. PICK k \in Sessions : k = Commit(s)
      BY CommitSession
    <2>1. a = [k EXCEPT !.auto = TRUE]
      BY <1>1, <1>2, <2>0
    <2>2. a = [up |-> k.up, auto |-> TRUE, pending |-> k.pending, durable |-> k.durable,
               sent |-> k.sent, answers |-> k.answers]
      BY <2>1 DEF Sessions
    <2>3. a \in Sessions
      BY <2>2 DEF Sessions
    <2>4. /\ a.pending = k.pending /\ a.durable = k.durable /\ SameWire(a, k) /\ (a.auto <=> TRUE)
      BY <2>2 DEF SameWire
    <2>5. SameWire(k, s) /\ k.durable = s.durable \cup s.pending /\ k.pending = {}
      BY <2>0, CommitSession
    <2>6. SameWire(a, s)
      BY <2>4, <2>5 DEF SameWire
    <2> QED BY <1>2, <2>3, <2>4, <2>5, <2>6 DEF a
  <1>3. CASE ~on
    <2>1. a = [up |-> s.up, auto |-> FALSE, pending |-> s.pending, durable |-> s.durable,
               sent |-> s.sent, answers |-> s.answers]
      BY <1>1, <1>3 DEF Sessions
    <2>2. a \in Sessions
      BY <2>1 DEF Sessions
    <2>3. a.pending = s.pending /\ a.durable = s.durable
      BY <2>1
    <2>4. SameWire(a, s) /\ ~a.auto
      BY <2>1 DEF SameWire
    <2> QED BY <1>3, <2>2, <2>3, <2>4 DEF a
  <1> QED BY <1>2, <1>3

\* COMMIT and ROLLBACK leave nothing pending.
LEMMA EndSession ==
    ASSUME NEW s \in Sessions, NEW kind \in Kinds
    PROVE  LET a == Apply(s, [op |-> kind])
           IN  /\ a \in Sessions /\ SameWire(a, s) /\ (a.auto <=> s.auto)
               /\ a.pending = {}
               /\ kind = "committed" => a.durable = s.durable \cup s.pending
               /\ kind = "rolledBack" => a.durable = s.durable
  <1> DEFINE a == Apply(s, [op |-> kind])
  <1>1. CASE kind = "committed"
    <2>1. a = Commit(s)
      BY <1>1 DEF Apply
    <2> QED BY <1>1, <2>1, CommitSession
  <1>2. CASE kind = "rolledBack"
    <2>1. a = [s EXCEPT !.pending = {}]
      BY <1>2 DEF Apply
    <2>2. a = [up |-> s.up, auto |-> s.auto, pending |-> {}, durable |-> s.durable,
               sent |-> s.sent, answers |-> s.answers]
      BY <2>1 DEF Sessions
    <2> HIDE DEF a
    <2>3. a \in Sessions
      BY <2>2 DEF Sessions
    <2>4. a.pending = {} /\ a.durable = s.durable
      BY <2>2
    <2>5. SameWire(a, s) /\ (a.auto <=> s.auto)
      BY <2>2 DEF SameWire
    <2> QED BY <1>2, <2>3, <2>4, <2>5 DEF a
  <1> QED BY <1>1, <1>2 DEF Kinds

\* The isolation statement changes no row.
LEMMA ApplyIsolation == \A s : Apply(s, [op |-> "isolation"]) = s
  BY DEF Apply

\* Whatever a request does, it loses nothing durable, leaves the wire alone
\* and writes no row that was not handed out.
LEMMA ApplyAny ==
    ASSUME NEW s \in Sessions, NEW u, s.pending \cup s.durable \subseteq 1..u,
           NEW req \in Upto(u), req \in Reqs
    PROVE  LET a == Apply(s, req)
           IN  /\ a \in Sessions /\ SameWire(a, s) /\ s.durable \subseteq a.durable
               /\ a.pending \cup a.durable \subseteq 1..u
  <1>1. CASE req \in [op: {"row"}, row: 1..u]
    <2>1. PICK r \in 1..u : req = [op |-> "row", row |-> r]
      BY <1>1
    <2>2. r \in Rows
      <3>1. req.op = "row" /\ req.row = r
        BY <2>1
      <3>2. req \notin [op: {"auto"}, on: BOOLEAN] /\ req \notin [op: {"isolation"} \cup Kinds]
        BY <3>1 DEF Kinds
      <3>3. req \in [op: {"row"}, row: Rows]
        BY <3>2 DEF Reqs
      <3> QED BY <3>1, <3>3
    <2>3. SameWire(Apply(s, req), s) /\ Apply(s, req) \in Sessions
      BY <2>1, <2>2, RowSession
    <2>4. /\ s.durable \subseteq Apply(s, req).durable
          /\ Apply(s, req).pending \cup Apply(s, req).durable \subseteq s.pending \cup s.durable \cup {r}
      BY <2>1, <2>2, RowSession
    <2> QED BY <2>3, <2>4
  <1>2. CASE req \in [op: {"auto"}, on: BOOLEAN]
    <2>1. PICK on \in BOOLEAN : req = [op |-> "auto", on |-> on]
      BY <1>2
    <2>2. SameWire(Apply(s, req), s) /\ Apply(s, req) \in Sessions
      BY <2>1, AutoSession
    <2>3. /\ s.durable \subseteq Apply(s, req).durable
          /\ Apply(s, req).pending \cup Apply(s, req).durable \subseteq s.pending \cup s.durable
      BY <2>1, AutoSession
    <2> QED BY <2>2, <2>3
  <1>3. CASE req \in [op: {"isolation"} \cup Kinds]
    <2>1. PICK k \in {"isolation"} \cup Kinds : req = [op |-> k]
      BY <1>3
    <2>2. CASE k = "isolation"
      <3>1. Apply(s, req) = s
        BY <2>1, <2>2, ApplyIsolation
      <3> QED BY <3>1 DEF SameWire
    <2>3. CASE k \in Kinds
      <3>1. SameWire(Apply(s, req), s) /\ Apply(s, req) \in Sessions
        BY <2>1, <2>3, EndSession
      <3>2. /\ s.durable \subseteq Apply(s, req).durable
            /\ Apply(s, req).pending \cup Apply(s, req).durable \subseteq s.pending \cup s.durable
        BY <2>1, <2>3, EndSession DEF Kinds
      <3> QED BY <3>1, <3>2
    <2> QED BY <2>1, <2>2, <2>3
  <1> QED BY <1>1, <1>2, <1>3 DEF Upto

-----------------------------------------------------------------------------
(* Requests and calls.                                                     *)

\* A queue of requests that loses its first one, or gains one.
LEMMA QueueRows ==
    ASSUME NEW q \in Seq(Reqs), NEW u, \A i \in 1..Len(q) : q[i] \in Upto(u)
    PROVE  /\ q # <<>> => /\ Head(q) \in Upto(u) /\ Head(q) \in Reqs /\ Tail(q) \in Seq(Reqs)
                          /\ Len(Tail(q)) = Len(q) - 1
                          /\ \A i \in 1..Len(Tail(q)) : Tail(q)[i] \in Upto(u)
           /\ \A req \in Reqs : req \in Upto(u) =>
                 /\ Append(q, req) \in Seq(Reqs) /\ Len(Append(q, req)) = Len(q) + 1
                 /\ \A i \in 1..Len(Append(q, req)) : Append(q, req)[i] \in Upto(u)
  <1>1. ASSUME q # <<>>
        PROVE  /\ Head(q) \in Upto(u) /\ Head(q) \in Reqs /\ Tail(q) \in Seq(Reqs)
               /\ Len(Tail(q)) = Len(q) - 1
               /\ \A i \in 1..Len(Tail(q)) : Tail(q)[i] \in Upto(u)
    <2>1. Len(q) \in Nat /\ Len(q) >= 1
      BY <1>1
    <2>2. Head(q) = q[1] /\ Tail(q) \in Seq(Reqs) /\ Len(Tail(q)) = Len(q) - 1
      BY <1>1
    <2>3. q[1] \in Upto(u) /\ q[1] \in Reqs
      BY <2>1
    <2>4. ASSUME NEW i \in 1..Len(Tail(q)) PROVE Tail(q)[i] \in Upto(u)
      <3>1. i + 1 \in 1..Len(q) /\ Tail(q)[i] = q[i + 1]
        BY <1>1, <2>1, <2>2
      <3> QED BY <3>1
    <2> QED BY <2>2, <2>3, <2>4
  <1>2. ASSUME NEW req \in Reqs, req \in Upto(u)
        PROVE  /\ Append(q, req) \in Seq(Reqs) /\ Len(Append(q, req)) = Len(q) + 1
               /\ \A i \in 1..Len(Append(q, req)) : Append(q, req)[i] \in Upto(u)
    <2>1. Append(q, req) \in Seq(Reqs) /\ Len(Append(q, req)) = Len(q) + 1 /\ Len(q) \in Nat
      OBVIOUS
    <2>2. ASSUME NEW i \in 1..Len(Append(q, req)) PROVE Append(q, req)[i] \in Upto(u)
      <3>1. CASE i \in 1..Len(q)
        <4>1. Append(q, req)[i] = q[i]
          BY <3>1
        <4> QED BY <3>1, <4>1
      <3>2. CASE i = Len(q) + 1
        <4>1. Append(q, req)[i] = req
          BY <3>2
        <4> QED BY <1>2, <4>1
      <3> QED BY <2>1, <3>1, <3>2
    <2> QED BY <2>1, <2>2
  <1> QED BY <1>1, <1>2

\* The session of a call after a request was sent and before it is taken, or
\* after the server took one: it lives on with something on the wire.
Busy(t, s, u) ==
    /\ t \in Sessions /\ SessionOK(t, u) /\ s.durable \subseteq t.durable /\ t.up

\* A request is put on the wire.
LEMMA RequestSent ==
    ASSUME NEW s \in Sessions, NEW u, SessionOK(s, u), s.up,
           NEW req \in Reqs, req \in Upto(u),
           NEW t, t = [s EXCEPT !.sent = Append(s.sent, req)]
    PROVE  /\ Busy(t, s, u) /\ Backlog(t) = Backlog(s) + 1
           /\ t.sent = Append(s.sent, req) /\ t.answers = s.answers
           /\ t.pending = s.pending /\ t.durable = s.durable /\ t.auto = s.auto /\ t.up = s.up
  <1> DEFINE q == Append(s.sent, req)
  <1>0. s.sent \in Seq(Reqs) /\ s.answers \in Seq({"ok", "error"}) /\ \A i \in 1..Len(s.sent) : s.sent[i] \in Upto(u)
    BY DEF Sessions, SessionOK
  <1>1. /\ q \in Seq(Reqs) /\ Len(q) = Len(s.sent) + 1
        /\ \A i \in 1..Len(q) : q[i] \in Upto(u)
    BY <1>0, QueueRows
  <1> HIDE DEF q
  <1>2. t = [up |-> s.up, auto |-> s.auto, pending |-> s.pending, durable |-> s.durable,
             sent |-> q, answers |-> s.answers]
    BY Requeued DEF q
  <1>3. t \in Sessions
    <2>1. /\ s.up \in BOOLEAN /\ s.auto \in BOOLEAN /\ s.pending \in SUBSET Rows
          /\ s.durable \in SUBSET Rows /\ s.answers \in Seq({"ok", "error"}) /\ q \in Seq(Reqs)
      BY <1>1, SessionParts
    <2>2. [up |-> s.up, auto |-> s.auto, pending |-> s.pending, durable |-> s.durable,
           sent |-> q, answers |-> s.answers] \in Sessions
      BY <2>1, SessionMade
    <2> QED BY <1>2, <2>2
  <1>4. t.sent = q /\ t.answers = s.answers
    BY <1>2
  <1>5. t.pending = s.pending /\ t.durable = s.durable /\ t.auto = s.auto /\ t.up = s.up
    BY <1>2
  <1>6. Len(s.sent) \in Nat /\ Len(s.answers) \in Nat
    BY <1>0
  <1>7. Backlog(t) = Backlog(s) + 1
    <2>1. PICK m \in Nat, n \in Nat : m = Len(s.sent) /\ n = Len(s.answers)
      BY <1>6
    <2>2. Backlog(s) = m + n /\ Backlog(t) = (m + 1) + n
      BY <1>1, <1>4, <2>1 DEF Backlog
    <2> QED BY <2>2
  <1>8. Backlog(s) \in Nat
    BY QuietBacklog
  <1>9. ~Quiet(t)
    BY <1>3, <1>7, <1>8, QuietBacklog
  <1>10. SessionOK(t, u)
    BY <1>1, <1>4, <1>5, <1>9 DEF SessionOK
  <1> QED BY <1>3, <1>4, <1>5, <1>7, <1>10 DEF Busy, q

\* The server takes a request: applied or refused, it is answered.
LEMMA ServeOutcome ==
    ASSUME NEW x \in Calls, NEW u, SessionOK(x.srv, u), NEW y \in Serve(x)
    PROVE  /\ y \in Calls /\ y.brk = x.brk /\ Busy(y.srv, x.srv, u)
           /\ x.srv.sent # <<>> /\ x.srv.up
           /\ Backlog(y.srv) = Backlog(x.srv) /\ y.srv.answers # <<>>
           /\ \E t \in Sessions, v \in {"ok", "error"} :
                 /\ t = [x.srv EXCEPT !.sent = Tail(x.srv.sent)]
                 /\ v = "ok" => y.srv = [Apply(t, Head(x.srv.sent)) EXCEPT !.answers = Append(x.srv.answers, "ok")]
                 /\ v = "error" => y.srv = [t EXCEPT !.answers = Append(x.srv.answers, "error")]
  <1>0. PICK s \in Sessions : s = x.srv
    BY DEF Calls
  <1> DEFINE t == [s EXCEPT !.sent = Tail(s.sent)]
             req == Head(s.sent)
             a == Apply(t, req)
             A(v) == Append(s.answers, v)
  <1>1. s.sent # <<>>
    BY <1>0 DEF Serve
  <1>2. /\ s.sent \in Seq(Reqs) /\ s.answers \in Seq({"ok", "error"})
        /\ \A i \in 1..Len(s.sent) : s.sent[i] \in Upto(u)
        /\ s.pending \cup s.durable \subseteq 1..u
    BY <1>0 DEF Sessions, SessionOK
  <1>3. /\ req \in Upto(u) /\ req \in Reqs /\ Tail(s.sent) \in Seq(Reqs)
        /\ Len(Tail(s.sent)) = Len(s.sent) - 1
        /\ \A i \in 1..Len(Tail(s.sent)) : Tail(s.sent)[i] \in Upto(u)
    BY <1>1, <1>2, QueueRows
  <1>4. s.up
    BY <1>0, <1>1 DEF SessionOK, Quiet
  <1>5. t = [up |-> s.up, auto |-> s.auto, pending |-> s.pending, durable |-> s.durable,
             sent |-> Tail(s.sent), answers |-> s.answers]
    BY Requeued
  <1>6. t \in Sessions
    <2>1. /\ s.up \in BOOLEAN /\ s.auto \in BOOLEAN /\ s.pending \in SUBSET Rows
          /\ s.durable \in SUBSET Rows /\ s.answers \in Seq({"ok", "error"})
          /\ Tail(s.sent) \in Seq(Reqs)
      BY <1>3, SessionParts
    <2>2. [up |-> s.up, auto |-> s.auto, pending |-> s.pending, durable |-> s.durable,
           sent |-> Tail(s.sent), answers |-> s.answers] \in Sessions
      BY <2>1, SessionMade
    <2> QED BY <1>5, <2>2
  <1>7. t.sent = Tail(s.sent) /\ t.answers = s.answers /\ t.pending = s.pending /\ t.durable = s.durable /\ t.up = s.up
    BY <1>5
  <1> HIDE DEF req
  <1>8. \/ y = [x EXCEPT !.srv = [a EXCEPT !.answers = Append(a.answers, "ok")]]
        \/ /\ x.faults # MaxFaults
           /\ y = [x EXCEPT !.srv = [t EXCEPT !.answers = Append(t.answers, "error")], !.faults = x.faults + 1]
    BY <1>0, <1>1 DEF Serve, req
  <1> HIDE DEF t
  <1>9. /\ a \in Sessions /\ SameWire(a, t) /\ t.durable \subseteq a.durable
        /\ a.pending \cup a.durable \subseteq 1..u
    BY <1>2, <1>3, <1>6, <1>7, ApplyAny
  <1> HIDE DEF a
  <1>10. ASSUME NEW k \in Sessions, SameWire(k, t), s.durable \subseteq k.durable,
                k.pending \cup k.durable \subseteq 1..u, NEW v \in {"ok", "error"},
                NEW w, w = [k EXCEPT !.answers = A(v)]
         PROVE  Busy(w, s, u) /\ Backlog(w) = Backlog(s) /\ w.answers # <<>>
    <2>1. /\ A(v) \in Seq({"ok", "error"}) /\ Len(A(v)) = Len(s.answers) + 1 /\ Len(s.answers) \in Nat
          /\ A(v) # <<>>
      <3>1. PICK z \in Seq({"ok", "error"}) : z = s.answers
        BY <1>2
      <3>2. Append(z, v) \in Seq({"ok", "error"}) /\ Len(Append(z, v)) = Len(z) + 1 /\ Len(z) \in Nat
        OBVIOUS
      <3>3. Append(z, v) # <<>>
        BY <3>2
      <3> QED BY <3>1, <3>2, <3>3
    <2> HIDE DEF A
    <2>2. w = [up |-> k.up, auto |-> k.auto, pending |-> k.pending, durable |-> k.durable,
               sent |-> k.sent, answers |-> A(v)]
      BY <1>10, Requeued
    <2>3. w \in Sessions
      BY <2>1, <2>2, SessionParts, SessionMade
    <2>4. w.sent = k.sent /\ w.answers = A(v) /\ w.pending = k.pending /\ w.durable = k.durable
      BY <2>2
    <2>5. w.up <=> k.up
      BY <2>2
    <2>6. w.up /\ w.sent = Tail(s.sent)
      BY <1>4, <1>7, <1>10, <2>4, <2>5 DEF SameWire
    <2>7. Backlog(w) = Backlog(s)
      <3>1. PICK m \in Nat, n \in Nat : m = Len(s.sent) /\ n = Len(s.answers)
        BY <1>2, <2>1
      <3>2. Backlog(s) = m + n /\ Backlog(w) = (m - 1) + (n + 1)
        BY <1>3, <2>1, <2>4, <2>6, <3>1 DEF Backlog
      <3> QED BY <3>2
    <2>8. ~Quiet(w)
      BY <2>1, <2>4 DEF Quiet
    <2>9. SessionOK(w, u)
      BY <1>3, <1>10, <2>4, <2>6, <2>8 DEF SessionOK
    <2> QED BY <1>10, <2>1, <2>3, <2>4, <2>6, <2>7, <2>9 DEF Busy
  <1>11. CASE y = [x EXCEPT !.srv = [a EXCEPT !.answers = Append(a.answers, "ok")]]
    <2> DEFINE w == [a EXCEPT !.answers = A("ok")]
    <2>1. Append(a.answers, "ok") = A("ok")
      BY <1>7, <1>9 DEF SameWire
    <2>2. Busy(w, s, u) /\ Backlog(w) = Backlog(s) /\ w.answers # <<>>
      BY <1>7, <1>9, <1>10
    <2>3. y = [x EXCEPT !.srv = w]
      BY <1>11, <2>1
    <2>4. w = [Apply(t, req) EXCEPT !.answers = A("ok")]
      BY DEF a
    <2> HIDE DEF w
    <2>5. y = [brk |-> x.brk, srv |-> w, faults |-> x.faults, ok |-> x.ok]
      BY <2>3 DEF Calls
    <2>6. y \in Calls
      BY <2>2, <2>5 DEF Calls, Busy
    <2>7. y.brk = x.brk /\ y.srv = w
      BY <2>5
    <2> QED BY <1>0, <1>1, <1>4, <1>6, <2>2, <2>4, <2>6, <2>7 DEF t, req
  <1>12. CASE /\ x.faults # MaxFaults
              /\ y = [x EXCEPT !.srv = [t EXCEPT !.answers = Append(t.answers, "error")],
                               !.faults = x.faults + 1]
    <2> DEFINE w == [t EXCEPT !.answers = A("error")]
    <2>1. Append(t.answers, "error") = A("error")
      BY <1>7
    <2>2. Busy(w, s, u) /\ Backlog(w) = Backlog(s) /\ w.answers # <<>>
      <3>1. SameWire(t, t) /\ s.durable \subseteq t.durable /\ t.pending \cup t.durable \subseteq 1..u
        BY <1>2, <1>7 DEF SameWire
      <3> QED BY <1>6, <1>10, <3>1
    <2>3. y = [x EXCEPT !.srv = w, !.faults = x.faults + 1]
      BY <1>12, <2>1
    <2> HIDE DEF w
    <2>4. x.faults + 1 \in 0..MaxFaults
      BY <1>12, OdbcAssumption DEF Calls
    <2>5. y = [brk |-> x.brk, srv |-> w, faults |-> x.faults + 1, ok |-> x.ok]
      BY <2>3 DEF Calls
    <2>6. y \in Calls
      BY <2>2, <2>4, <2>5 DEF Calls, Busy
    <2>7. y.brk = x.brk /\ y.srv = w
      BY <2>5
    <2> QED BY <1>0, <1>1, <1>4, <1>6, <2>2, <2>6, <2>7 DEF t, req, w
  <1> QED BY <1>8, <1>11, <1>12

\* The session while a call waits: its request is on the wire, and the server
\* may have taken one. If nothing was on the wire before, an answer to read
\* is the answer to this very request.
LEMMA SeenOutcome ==
    ASSUME NEW x \in Calls, NEW u, SessionOK(x.srv, u), x.srv.up, NEW req \in Reqs, req \in Upto(u),
           NEW y \in Waiting(x, req)
    PROVE  /\ y \in Calls /\ y.brk = x.brk /\ Busy(y.srv, x.srv, u)
           /\ Backlog(y.srv) = Backlog(x.srv) + 1
           /\ Quiet(x.srv) /\ y.srv.answers # <<>> =>
                 \/ y.srv = [Apply(x.srv, req) EXCEPT !.answers = <<"ok">>]
                 \/ y.srv = [x.srv EXCEPT !.answers = <<"error">>]
  <1>0. PICK s \in Sessions : s = x.srv
    BY DEF Calls
  <1> DEFINE t == [s EXCEPT !.sent = Append(s.sent, req)]
  <1>1. /\ Busy(t, s, u) /\ Backlog(t) = Backlog(s) + 1
        /\ t.sent = Append(s.sent, req) /\ t.answers = s.answers
        /\ t.pending = s.pending /\ t.durable = s.durable /\ t.auto = s.auto /\ t.up = s.up
    BY <1>0, RequestSent
  <1>2. t = [up |-> s.up, auto |-> s.auto, pending |-> s.pending, durable |-> s.durable,
             sent |-> Append(s.sent, req), answers |-> s.answers]
    BY Requeued
  <1> HIDE DEF t
  <1>3. PICK out : out = [x EXCEPT !.srv = t]
    OBVIOUS
  <1>4. out = [brk |-> x.brk, srv |-> t, faults |-> x.faults, ok |-> x.ok]
    BY <1>3 DEF Calls
  <1>5. out \in Calls
    BY <1>1, <1>4 DEF Calls, Busy
  <1>6. out.brk = x.brk /\ out.srv = t
    BY <1>4
  <1>a. y = out \/ y \in Serve(out)
    BY <1>0, <1>3 DEF Waiting, t
  <1>7. CASE y = out
    <2>1. Quiet(x.srv) => y.srv.answers = <<>>
      BY <1>0, <1>1, <1>6, <1>7 DEF Quiet
    <2> QED BY <1>0, <1>1, <1>5, <1>6, <1>7, <2>1
  <1>8. CASE y \in Serve(out)
    <2>1. SessionOK(out.srv, u)
      BY <1>1, <1>6 DEF Busy
    <2>2. /\ y \in Calls /\ y.brk = out.brk /\ Busy(y.srv, out.srv, u)
          /\ Backlog(y.srv) = Backlog(out.srv)
          /\ \E k \in Sessions, v \in {"ok", "error"} :
                /\ k = [out.srv EXCEPT !.sent = Tail(out.srv.sent)]
                /\ v = "ok" => y.srv = [Apply(k, Head(out.srv.sent)) EXCEPT
                                           !.answers = Append(out.srv.answers, "ok")]
                /\ v = "error" => y.srv = [k EXCEPT !.answers = Append(out.srv.answers, "error")]
      BY <1>5, <1>8, <2>1, ServeOutcome
    <2>3. PICK k \in Sessions, v \in {"ok", "error"} :
                /\ k = [t EXCEPT !.sent = Tail(t.sent)]
                /\ v = "ok" => y.srv = [Apply(k, Head(t.sent)) EXCEPT !.answers = Append(t.answers, "ok")]
                /\ v = "error" => y.srv = [k EXCEPT !.answers = Append(t.answers, "error")]
      BY <1>6, <2>2
    <2>4. Busy(y.srv, x.srv, u)
      BY <1>0, <1>1, <1>6, <2>2 DEF Busy
    <2>5. ASSUME Quiet(x.srv)
          PROVE  \/ y.srv = [Apply(x.srv, req) EXCEPT !.answers = <<"ok">>]
                 \/ y.srv = [x.srv EXCEPT !.answers = <<"error">>]
      <3>1. s.sent = <<>> /\ s.answers = <<>>
        BY <1>0, <2>5 DEF Quiet
      <3>2. Append(s.sent, req) = <<req>>
        BY <3>1
      <3>3. Head(<<req>>) = req /\ Tail(<<req>>) = <<>>
        OBVIOUS
      <3>4. Append(t.answers, "ok") = <<"ok">> /\ Append(t.answers, "error") = <<"error">>
        BY <1>1, <3>1
      <3>5. t \in Sessions
        BY <1>1 DEF Busy
      <3>6. k = [up |-> t.up, auto |-> t.auto, pending |-> t.pending, durable |-> t.durable,
                 sent |-> <<>>, answers |-> t.answers]
        <4>1. PICK q : q = Tail(t.sent)
          OBVIOUS
        <4>2. q = <<>>
          BY <1>1, <3>2, <3>3, <4>1
        <4>3. k = [t EXCEPT !.sent = q]
          BY <2>3, <4>1
        <4>4. k = [up |-> t.up, auto |-> t.auto, pending |-> t.pending, durable |-> t.durable,
                   sent |-> q, answers |-> t.answers]
          BY <3>5, <4>3, Requeued
        <4> QED BY <4>2, <4>4
      <3>7. s = [up |-> s.up, auto |-> s.auto, pending |-> s.pending, durable |-> s.durable,
                 sent |-> s.sent, answers |-> s.answers]
        <4>1. PICK A, B : s \in [up: BOOLEAN, auto: BOOLEAN, pending: SUBSET Rows, durable: SUBSET Rows,
                                 sent: A, answers: B]
          BY DEF Sessions
        <4> QED BY <4>1
      <3>8. k = s
        BY <1>1, <3>1, <3>6, <3>7
      <3>9. Head(t.sent) = req
        BY <1>1, <3>2, <3>3
      <3>10. v = "ok" => y.srv = [Apply(s, req) EXCEPT !.answers = <<"ok">>]
        BY <2>3, <3>4, <3>8, <3>9
      <3>11. v = "error" => y.srv = [s EXCEPT !.answers = <<"error">>]
        BY <2>3, <3>4, <3>8
      <3> QED BY <1>0, <3>10, <3>11
    <2> QED BY <1>0, <1>1, <1>6, <2>2, <2>4, <2>5
  <1> QED BY <1>7, <1>8, <1>a

\* The client reads an answer.
LEMMA AnswerRead ==
    ASSUME NEW t \in Sessions, NEW u, SessionOK(t, u), t.up, t.answers # <<>>,
           NEW w, w = [t EXCEPT !.answers = Tail(t.answers)]
    PROVE  /\ w \in Sessions /\ Backlog(w) = Backlog(t) - 1 /\ w.up /\ w.durable = t.durable
           /\ ~Quiet(w) => SessionOK(w, u)
  <1>1. PICK z \in Seq({"ok", "error"}) : z = t.answers
    BY SessionParts
  <1>2. Tail(z) \in Seq({"ok", "error"}) /\ Len(Tail(z)) = Len(z) - 1 /\ Len(z) \in Nat
    BY <1>1
  <1>3. w = [up |-> t.up, auto |-> t.auto, pending |-> t.pending, durable |-> t.durable,
             sent |-> t.sent, answers |-> Tail(z)]
    BY <1>1, Requeued
  <1>4. w \in Sessions
    <2>1. /\ t.up \in BOOLEAN /\ t.auto \in BOOLEAN /\ t.pending \in SUBSET Rows
          /\ t.durable \in SUBSET Rows /\ t.sent \in Seq(Reqs)
      BY SessionParts
    <2>2. [up |-> t.up, auto |-> t.auto, pending |-> t.pending, durable |-> t.durable,
           sent |-> t.sent, answers |-> Tail(z)] \in Sessions
      BY <1>2, <2>1, SessionMade
    <2> QED BY <1>3, <2>2
  <1>5. /\ w.pending = t.pending /\ w.durable = t.durable /\ w.sent = t.sent /\ w.answers = Tail(z)
        /\ (w.up <=> t.up)
    <2>1. PICK z2 : z2 = Tail(z)
      OBVIOUS
    <2>2. w = [up |-> t.up, auto |-> t.auto, pending |-> t.pending, durable |-> t.durable,
               sent |-> t.sent, answers |-> z2]
      BY <1>3, <2>1
    <2>3. /\ w.pending = t.pending /\ w.durable = t.durable /\ w.sent = t.sent /\ w.answers = z2
          /\ (w.up <=> t.up)
      BY <2>2
    <2> QED BY <2>1, <2>3
  <1>6. Backlog(w) = Backlog(t) - 1
    <2>1. Len(t.sent) \in Nat
      BY SessionParts
    <2>2. PICK m \in Nat, n \in Nat : m = Len(t.sent) /\ n = Len(z)
      BY <1>2, <2>1
    <2>3. Backlog(t) = m + n /\ Backlog(w) = m + (n - 1)
      BY <1>1, <1>2, <1>5, <2>2 DEF Backlog
    <2> QED BY <2>3
  <1>7. ~Quiet(w) => SessionOK(w, u)
    BY <1>5 DEF SessionOK
  <1> QED BY <1>4, <1>5, <1>6, <1>7

\* A call gives up: the session is broken, or lives on with a backlog.
LEMMA GivenUpOutcome ==
    ASSUME NEW t \in Sessions, NEW u, SessionOK(t, u), t.up, ~Quiet(t), NEW w \in GivenUp(t)
    PROVE  /\ w \in Sessions /\ SessionOK(w, u) /\ w.durable = t.durable
           /\ w.up => ~Quiet(w)
  <1>1. CASE w = Hangup(t)
    BY <1>1, HangupSession
  <1>2. CASE w = t
    BY <1>2
  <1>3. CASE t.answers # <<>> /\ w = [t EXCEPT !.answers[1] = "ok"]
    <2>1. PICK z \in Seq({"ok", "error"}) : z = t.answers
      BY SessionParts
    <2> DEFINE z1 == [z EXCEPT ![1] = "ok"]
    <2>2. z1 \in Seq({"ok", "error"}) /\ z1 # <<>>
      <3>1. Len(z) \in Nat \ {0} /\ DOMAIN z = 1..Len(z)
        BY <1>3, <2>1
      <3>2. z1 \in [1..Len(z) -> {"ok", "error"}]
        BY <3>1
      <3>3. z1 \in Seq({"ok", "error"}) /\ Len(z1) = Len(z)
        BY <3>1, <3>2
      <3> QED BY <3>1, <3>3
    <2>3. w = [t EXCEPT !.answers = z1]
      BY <1>3, <2>1
    <2> HIDE DEF z1
    <2>4. w = [up |-> t.up, auto |-> t.auto, pending |-> t.pending, durable |-> t.durable,
               sent |-> t.sent, answers |-> z1]
      BY <2>3, Requeued
    <2>5. w \in Sessions
      <3>1. /\ t.up \in BOOLEAN /\ t.auto \in BOOLEAN /\ t.pending \in SUBSET Rows
            /\ t.durable \in SUBSET Rows /\ t.sent \in Seq(Reqs)
        BY SessionParts
      <3>2. [up |-> t.up, auto |-> t.auto, pending |-> t.pending, durable |-> t.durable,
             sent |-> t.sent, answers |-> z1] \in Sessions
        BY <2>2, <3>1, SessionMade
      <3> QED BY <2>4, <3>2
    <2>6. /\ w.pending = t.pending /\ w.durable = t.durable /\ w.sent = t.sent /\ w.answers = z1
          /\ w.up = t.up
      BY <2>4
    <2>7. ~Quiet(w)
      BY <2>2, <2>6 DEF Quiet
    <2>8. SessionOK(w, u)
      BY <2>6, <2>7 DEF SessionOK
    <2> QED BY <2>5, <2>6, <2>7, <2>8
  <1> QED BY <1>1, <1>2, <1>3 DEF GivenUp

\* What a call may leave of a session x.srv that its request takes to a.
\* Nothing durable is lost. If nothing was on the wire, success means that
\* the request was applied, and after a failure the session is as before,
\* broken, or has a backlog; a backlog stays until the session breaks.
After(x, a, u, o) ==
    /\ SessionOK(o.srv, u) /\ x.srv.durable \subseteq o.srv.durable
    /\ Quiet(x.srv) => /\ o.ok => x.srv.up /\ o.srv = a
                       /\ ~o.ok /\ o.srv.up => o.srv = x.srv \/ ~Quiet(o.srv)
    /\ ~Quiet(x.srv) => (o.ok => o.srv.up) /\ (o.srv.up => ~Quiet(o.srv))

\* A request of which After can be shown.
Sendable(x, req, u) ==
    /\ SessionOK(x.srv, u) /\ req \in Reqs /\ req \in Upto(u)
    /\ Apply(x.srv, req) \in Sessions /\ SameWire(Apply(x.srv, req), x.srv)
    /\ x.srv.durable \subseteq Apply(x.srv, req).durable
    /\ Quiet(x.srv) /\ x.srv.up => SessionOK(Apply(x.srv, req), u)

\* One request on the wire.
LEMMA BridgeOutcome ==
    ASSUME NEW x \in Calls, NEW u, NEW req, Sendable(x, req, u), NEW r \in Bridge(x, req)
    PROVE  r \in Calls /\ r.brk = x.brk /\ After(x, Apply(x.srv, req), u, r)
  <1> DEFINE a == Apply(x.srv, req)
             seen == Waiting(x, req)
  <1>0. /\ x.srv \in Sessions /\ SessionOK(x.srv, u) /\ req \in Reqs /\ req \in Upto(u)
        /\ a \in Sessions /\ SameWire(a, x.srv) /\ x.srv.durable \subseteq a.durable
        /\ Quiet(x.srv) /\ x.srv.up => SessionOK(a, u)
    BY DEF Calls, Sendable
  <1>1. CASE ~x.srv.up
    <2>1. r = [x EXCEPT !.ok = FALSE]
      BY <1>1 DEF Bridge
    <2>2. r = [brk |-> x.brk, srv |-> x.srv, faults |-> x.faults, ok |-> FALSE]
      BY <2>1 DEF Calls
    <2>3. r \in Calls
      BY <2>2 DEF Calls
    <2>4. r.brk = x.brk /\ r.srv = x.srv /\ ~r.ok
      BY <2>2
    <2>5. Quiet(x.srv)
      BY <1>0, <1>1 DEF SessionOK
    <2> QED BY <1>0, <2>3, <2>4, <2>5 DEF After
  <1>2. CASE x.srv.up
    <2>1. \/ \E y \in seen : y.srv.answers # <<>> /\ r = TakeAnswer(y)
          \/ \E y \in seen : /\ y.faults < MaxFaults
                             /\ \E w \in GivenUp(y.srv) :
                                   r = [y EXCEPT !.srv = w, !.ok = FALSE, !.faults = y.faults + 1]
      BY <1>2 DEF Bridge
    <2>2. \A y \in seen :
            /\ y \in Calls /\ y.brk = x.brk /\ Busy(y.srv, x.srv, u)
            /\ Backlog(y.srv) = Backlog(x.srv) + 1
            /\ Quiet(x.srv) /\ y.srv.answers # <<>> =>
                  \/ y.srv = [a EXCEPT !.answers = <<"ok">>]
                  \/ y.srv = [x.srv EXCEPT !.answers = <<"error">>]
      BY <1>0, <1>2, SeenOutcome
    <2> HIDE DEF a, seen
    <2>3. Backlog(x.srv) \in Nat /\ (Quiet(x.srv) <=> Backlog(x.srv) = 0)
      BY <1>0, QuietBacklog
    <2>4. ASSUME NEW y \in seen, y.srv.answers # <<>>, r = TakeAnswer(y)
          PROVE  r \in Calls /\ r.brk = x.brk /\ After(x, a, u, r)
      <3> DEFINE w == [y.srv EXCEPT !.answers = Tail(y.srv.answers)]
                 b == Head(y.srv.answers) = "ok"
      <3>1. /\ y \in Calls /\ y.brk = x.brk /\ y.srv \in Sessions /\ SessionOK(y.srv, u) /\ y.srv.up
            /\ x.srv.durable \subseteq y.srv.durable
        BY <2>2 DEF Busy
      <3>2. /\ w \in Sessions /\ Backlog(w) = Backlog(y.srv) - 1 /\ w.up /\ w.durable = y.srv.durable
            /\ ~Quiet(w) => SessionOK(w, u)
        BY <2>4, <3>1, AnswerRead
      <3>3. b \in BOOLEAN
        OBVIOUS
      <3>4. Quiet(x.srv) => (b /\ w = a) \/ (~b /\ w = x.srv)
        <4> SUFFICES ASSUME Quiet(x.srv) PROVE (b /\ w = a) \/ (~b /\ w = x.srv)
          OBVIOUS
        <4>1. ASSUME NEW k \in Sessions, k.answers = <<>>, NEW v, y.srv = [k EXCEPT !.answers = <<v>>]
              PROVE  w = k /\ (b <=> v = "ok")
          <5>1. y.srv = [up |-> k.up, auto |-> k.auto, pending |-> k.pending, durable |-> k.durable,
                         sent |-> k.sent, answers |-> <<v>>]
            BY <4>1, Requeued
          <5>2. y.srv.answers = <<v>> /\ Tail(<<v>>) = <<>> /\ Head(<<v>>) = v
            BY <5>1
          <5>3. /\ y.srv.up = k.up /\ y.srv.auto = k.auto /\ y.srv.pending = k.pending
                /\ y.srv.durable = k.durable /\ y.srv.sent = k.sent
            BY <5>1
          <5>4. w = [up |-> y.srv.up, auto |-> y.srv.auto, pending |-> y.srv.pending,
                     durable |-> y.srv.durable, sent |-> y.srv.sent, answers |-> <<>>]
            <6>1. PICK q : q = Tail(y.srv.answers)
              OBVIOUS
            <6>2. q = <<>>
              BY <5>2, <6>1
            <6>3. w = [y.srv EXCEPT !.answers = q]
              BY <6>1
            <6>4. [y.srv EXCEPT !.answers = q] =
                    [up |-> y.srv.up, auto |-> y.srv.auto, pending |-> y.srv.pending,
                     durable |-> y.srv.durable, sent |-> y.srv.sent, answers |-> q]
              BY <3>1, Requeued
            <6> QED BY <6>2, <6>3, <6>4
          <5>5. k = [up |-> k.up, auto |-> k.auto, pending |-> k.pending, durable |-> k.durable,
                     sent |-> k.sent, answers |-> k.answers]
            <6>1. PICK A, B : k \in [up: BOOLEAN, auto: BOOLEAN, pending: SUBSET Rows,
                                     durable: SUBSET Rows, sent: A, answers: B]
              BY DEF Sessions
            <6> QED BY <6>1
          <5>6. w = k
            BY <4>1, <5>3, <5>4, <5>5
          <5> QED BY <5>2, <5>6
        <4>2. a.answers = <<>> /\ x.srv.answers = <<>>
          BY <1>0 DEF Quiet, SameWire
        <4>3. CASE y.srv = [a EXCEPT !.answers = <<"ok">>]
          BY <1>0, <4>1, <4>2, <4>3
        <4>4. CASE y.srv = [x.srv EXCEPT !.answers = <<"error">>]
          <5>1. w = x.srv /\ (b <=> "error" = "ok")
            BY <1>0, <4>1, <4>2, <4>4
          <5> QED BY <5>1
        <4> QED BY <2>2, <2>4, <4>3, <4>4
      <3> HIDE DEF w, b
      <3>5. r = [y EXCEPT !.srv = w, !.ok = b]
        BY <2>4 DEF TakeAnswer, w, b
      <3>6. r = [brk |-> y.brk, srv |-> w, faults |-> y.faults, ok |-> b]
        BY <3>1, <3>5 DEF Calls
      <3>7. r \in Calls
        BY <3>1, <3>2, <3>3, <3>6 DEF Calls
      <3>8. r.brk = x.brk /\ r.srv = w /\ (r.ok <=> b)
        BY <3>1, <3>6
      <3>9. Backlog(w) = Backlog(x.srv)
        BY <2>2, <2>3, <3>2
      <3>10. Quiet(w) <=> Quiet(x.srv)
        BY <2>3, <3>2, <3>9, QuietBacklog
      <3>11. SessionOK(w, u)
        BY <1>0, <1>2, <3>2, <3>4, <3>10
      <3>12. x.srv.durable \subseteq w.durable
        BY <3>1, <3>2
      <3> QED BY <1>2, <3>2, <3>4, <3>7, <3>8, <3>10, <3>11, <3>12 DEF After
    <2>5. ASSUME NEW y \in seen, y.faults < MaxFaults, NEW w \in GivenUp(y.srv),
                 r = [y EXCEPT !.srv = w, !.ok = FALSE, !.faults = y.faults + 1]
          PROVE  r \in Calls /\ r.brk = x.brk /\ After(x, a, u, r)
      <3>1. /\ y \in Calls /\ y.brk = x.brk /\ y.srv \in Sessions /\ SessionOK(y.srv, u) /\ y.srv.up
            /\ x.srv.durable \subseteq y.srv.durable
        BY <2>2 DEF Busy
      <3>2. ~Quiet(y.srv)
        BY <2>2, <2>3, <3>1, QuietBacklog
      <3>3. w \in Sessions /\ SessionOK(w, u) /\ w.durable = y.srv.durable /\ (w.up => ~Quiet(w))
        BY <3>1, <3>2, GivenUpOutcome
      <3>4. y.faults + 1 \in 0..MaxFaults
        BY <2>5, <3>1, OdbcAssumption DEF Calls
      <3>5. r = [brk |-> y.brk, srv |-> w, faults |-> y.faults + 1, ok |-> FALSE]
        BY <2>5, <3>1 DEF Calls
      <3>6. r \in Calls
        BY <3>1, <3>3, <3>4, <3>5 DEF Calls
      <3>7. r.brk = x.brk /\ r.srv = w /\ ~r.ok
        BY <3>1, <3>5
      <3> QED BY <3>1, <3>3, <3>6, <3>7 DEF After
    <2> QED BY <2>1, <2>4, <2>5 DEF a
  <1> QED BY <1>1, <1>2

\* What asking the breaker and one request leave, and the breaker's slot.
Outcome(x, a, u, o) == o \in Calls /\ After(x, a, u, o)

\* A call that the breaker refused, or whose type was refused, leaves the
\* session as it was.
LEMMA Refused ==
    ASSUME NEW x \in Calls, NEW u, SessionOK(x.srv, u), NEW a, NEW o \in Calls, o.srv = x.srv, ~o.ok
    PROVE  Outcome(x, a, u, o)
  BY DEF Outcome, After

\* Recording the result keeps the session and gives the slot back.
LEMMA RecordCall ==
    ASSUME NEW x \in Calls, NEW a \in Ask(x), a.ok, NEW r \in Calls, r.brk = a.brk
    PROVE  /\ Record(r) \in Calls /\ Record(r).srv = r.srv /\ (Record(r).ok <=> r.ok)
           /\ Record(r).brk.halfOpen <= x.brk.halfOpen
  <1>1. /\ a \in Calls
        /\ a.brk.state = "half" => a.brk.halfOpen \in Nat \ {0} /\ a.brk.halfOpen - 1 <= x.brk.halfOpen
        /\ a.brk.state # "half" => a.brk.halfOpen <= x.brk.halfOpen
    BY AskOutcome
  <1>2. PICK b \in Breakers : b = r.brk
    BY DEF Calls
  <1>3. b = a.brk
    BY <1>2
  <1>4. b.state = "half" => b.halfOpen # 0
    BY <1>1, <1>3
  <1>5. /\ RecordSuccess(b) \in Breakers /\ RecordFailure(b) \in Breakers
        /\ b.state = "half" => /\ RecordSuccess(b).halfOpen = b.halfOpen - 1
                               /\ RecordFailure(b).halfOpen = b.halfOpen - 1
        /\ b.state # "half" => /\ RecordSuccess(b).halfOpen = b.halfOpen
                               /\ RecordFailure(b).halfOpen = b.halfOpen
    BY <1>4, RecordOutcome
  <1> DEFINE k == IF r.ok THEN RecordSuccess(b) ELSE RecordFailure(b)
  <1>6. Record(r) = [r EXCEPT !.brk = k]
    BY <1>2 DEF Record
  <1>7. k \in Breakers /\ k.halfOpen <= x.brk.halfOpen
    <2>1. CASE b.state = "half"
      BY <1>1, <1>3, <1>5, <2>1
    <2>2. CASE b.state # "half"
      BY <1>1, <1>3, <1>5, <2>2
    <2> QED BY <2>1, <2>2
  <1> HIDE DEF k
  <1>8. Record(r) = [brk |-> k, srv |-> r.srv, faults |-> r.faults, ok |-> r.ok]
    BY <1>6 DEF Calls
  <1>9. Record(r) \in Calls
    BY <1>7, <1>8 DEF Calls
  <1>10. Record(r).srv = r.srv /\ (Record(r).ok <=> r.ok) /\ Record(r).brk = k
    BY <1>8
  <1> QED BY <1>7, <1>9, <1>10

\* executeSQL: ask, send, record.
LEMMA ExecuteOutcome ==
    ASSUME NEW x \in Calls, NEW u, NEW req, Sendable(x, req, u), NEW o \in ExecuteSQL(x, req)
    PROVE  Outcome(x, Apply(x.srv, req), u, o) /\ o.brk.halfOpen <= x.brk.halfOpen
  <1>1. CASE o \in Ask(x) /\ ~o.ok
    <2>1. o \in Calls /\ o.srv = x.srv /\ o.brk.halfOpen <= x.brk.halfOpen
      BY <1>1, AskOutcome
    <2>2. SessionOK(x.srv, u)
      BY DEF Sendable
    <2> QED BY <1>1, <2>1, <2>2, Refused
  <1>2. ASSUME NEW a \in Ask(x), a.ok, NEW r \in Bridge(a, req), o = Record(r)
        PROVE  Outcome(x, Apply(x.srv, req), u, o) /\ o.brk.halfOpen <= x.brk.halfOpen
    <2>1. a \in Calls /\ a.srv = x.srv
      BY AskOutcome
    <2>2. Sendable(a, req, u)
      BY <2>1 DEF Sendable
    <2>3. r \in Calls /\ r.brk = a.brk /\ After(a, Apply(a.srv, req), u, r)
      BY <1>2, <2>1, <2>2, BridgeOutcome
    <2>4. o \in Calls /\ o.srv = r.srv /\ (o.ok <=> r.ok) /\ o.brk.halfOpen <= x.brk.halfOpen
      BY <1>2, <2>3, RecordCall
    <2>5. After(x, Apply(x.srv, req), u, o)
      BY <2>1, <2>3, <2>4 DEF After
    <2> QED BY <2>4, <2>5 DEF Outcome
  <1> QED BY <1>1, <1>2 DEF ExecuteSQL

\* A request whose effect keeps pending and durable apart can be sent.
LEMMA MaySend ==
    ASSUME NEW x \in Calls, NEW u, SessionOK(x.srv, u), NEW req \in Reqs, req \in Upto(u),
           NEW a, a = Apply(x.srv, req),
           Quiet(x.srv) => a.pending \cap a.durable = {} /\ (a.auto => a.pending = {})
    PROVE  Sendable(x, req, u)
  <1>1. PICK s \in Sessions : s = x.srv
    BY DEF Calls
  <1>2. s.pending \cup s.durable \subseteq 1..u /\ \A i \in 1..Len(s.sent) : s.sent[i] \in Upto(u)
    BY <1>1 DEF SessionOK
  <1>3. a \in Sessions /\ SameWire(a, s) /\ s.durable \subseteq a.durable /\ a.pending \cup a.durable \subseteq 1..u
    BY <1>1, <1>2, ApplyAny
  <1>4. ASSUME Quiet(s), s.up PROVE SessionOK(a, u)
    <2>1. a.sent = s.sent /\ a.answers = s.answers /\ a.up
      BY <1>3, <1>4 DEF SameWire
    <2> QED BY <1>1, <1>2, <1>3, <1>4, <2>1 DEF SessionOK
  <1> QED BY <1>1, <1>3, <1>4 DEF Sendable

\* applyIsolationSetting alone.
LEMMA IsolationOutcome ==
    ASSUME NEW x \in Calls, NEW u \in Nat, SessionOK(x.srv, u),
           NEW o \in ExecuteSQL(x, [op |-> "isolation"])
    PROVE  Outcome(x, x.srv, u, o) /\ o.brk.halfOpen <= x.brk.halfOpen
  <1> DEFINE req == [op |-> "isolation"]
  <1>1. Apply(x.srv, req) = x.srv
    BY ApplyIsolation
  <1>2. req \in Reqs /\ req \in Upto(u)
    BY DEF Reqs, Upto
  <1> HIDE DEF req
  <1>3. Sendable(x, req, u)
    BY <1>1, <1>2, MaySend DEF SessionOK
  <1>4. Outcome(x, Apply(x.srv, req), u, o) /\ o.brk.halfOpen <= x.brk.halfOpen
    BY <1>3, ExecuteOutcome DEF req
  <1> QED BY <1>1, <1>4

\* An autocommit statement.
LEMMA AutoOutcome ==
    ASSUME NEW x \in Calls, NEW u \in Nat, SessionOK(x.srv, u), NEW on \in BOOLEAN,
           NEW o \in ExecuteSQL(x, [op |-> "auto", on |-> on])
    PROVE  /\ Outcome(x, Apply(x.srv, [op |-> "auto", on |-> on]), u, o)
           /\ o.brk.halfOpen <= x.brk.halfOpen
  <1> DEFINE req == [op |-> "auto", on |-> on]
             a == Apply(x.srv, req)
  <1>1. x.srv \in Sessions
    BY DEF Calls
  <1>2. req \in Reqs /\ req \in Upto(u)
    BY DEF Reqs, Upto
  <1>3. /\ on => a.durable = x.srv.durable \cup x.srv.pending /\ a.pending = {}
        /\ ~on => a.durable = x.srv.durable /\ a.pending = x.srv.pending
        /\ a.auto <=> on
    BY <1>1, AutoSession
  <1>4. Quiet(x.srv) => a.pending \cap a.durable = {} /\ (a.auto => a.pending = {})
    BY <1>3 DEF SessionOK
  <1> HIDE DEF req
  <1>5. Sendable(x, req, u)
    BY <1>2, <1>4, MaySend
  <1>6. Outcome(x, a, u, o) /\ o.brk.halfOpen <= x.brk.halfOpen
    BY <1>5, ExecuteOutcome DEF req
  <1> QED BY <1>6 DEF req

\* Both settings in turn look like the autocommit statement alone.
LEMMA SettingsOutcome ==
    ASSUME NEW x \in Calls, NEW u \in Nat, SessionOK(x.srv, u), NEW on \in BOOLEAN,
           NEW o \in IsolationThenAutocommit(x, on)
    PROVE  /\ Outcome(x, Apply(x.srv, [op |-> "auto", on |-> on]), u, o)
           /\ o.brk.halfOpen <= x.brk.halfOpen
  <1> DEFINE first == ExecuteSQL(x, [op |-> "isolation"])
             a == Apply(x.srv, [op |-> "auto", on |-> on])
  <1>1. \/ o \in first /\ ~o.ok
        \/ \E y \in first : y.ok /\ o \in ExecuteSQL(y, [op |-> "auto", on |-> on])
    BY DEF IsolationThenAutocommit
  <1> HIDE DEF a
  <1>2. CASE o \in first /\ ~o.ok
    <2>1. Outcome(x, x.srv, u, o) /\ o.brk.halfOpen <= x.brk.halfOpen
      BY <1>2, IsolationOutcome
    <2> QED BY <1>2, <2>1 DEF Outcome, After
  <1>3. ASSUME NEW y \in first, y.ok, o \in ExecuteSQL(y, [op |-> "auto", on |-> on])
        PROVE  Outcome(x, a, u, o) /\ o.brk.halfOpen <= x.brk.halfOpen
    <2>1. Outcome(x, x.srv, u, y) /\ y.brk.halfOpen <= x.brk.halfOpen
      BY IsolationOutcome
    <2>2. /\ y \in Calls /\ SessionOK(y.srv, u) /\ x.srv.durable \subseteq y.srv.durable
          /\ Quiet(x.srv) => y.srv = x.srv /\ x.srv.up
          /\ ~Quiet(x.srv) => ~Quiet(y.srv)
      BY <1>3, <2>1 DEF Outcome, After
    <2>3. /\ Outcome(y, Apply(y.srv, [op |-> "auto", on |-> on]), u, o)
          /\ o.brk.halfOpen <= y.brk.halfOpen
      BY <1>3, <2>2, AutoOutcome
    <2>4. Quiet(x.srv) => Apply(y.srv, [op |-> "auto", on |-> on]) = a
      BY <2>2 DEF a
    <2>5. Outcome(x, a, u, o)
      <3>1. CASE Quiet(x.srv)
        BY <2>2, <2>3, <2>4, <3>1 DEF Outcome, After
      <3>2. CASE ~Quiet(x.srv)
        <4>1. /\ o \in Calls /\ SessionOK(o.srv, u) /\ y.srv.durable \subseteq o.srv.durable
              /\ (o.ok => o.srv.up) /\ (o.srv.up => ~Quiet(o.srv))
          BY <2>2, <2>3, <3>2 DEF Outcome, After
        <4> QED BY <2>2, <3>2, <4>1 DEF Outcome, After
      <3> QED BY <3>1, <3>2
    <2>6. x.brk.halfOpen \in Nat /\ y.brk.halfOpen \in Nat /\ o.brk.halfOpen \in Nat
      BY <2>2, <2>5 DEF Calls, Breakers, Outcome
    <2> QED BY <2>1, <2>3, <2>5, <2>6
  <1> QED BY <1>1, <1>2, <1>3 DEF a

\* A statement that writes the next row.
LEMMA RowOutcome ==
    ASSUME NEW x \in Calls, NEW u \in Nat, SessionOK(x.srv, u), u + 1 \in Rows,
           NEW o \in ExecuteSQL(x, [op |-> "row", row |-> u + 1])
    PROVE  /\ Outcome(x, Apply(x.srv, [op |-> "row", row |-> u + 1]), u + 1, o)
           /\ o.brk.halfOpen <= x.brk.halfOpen
  <1> DEFINE req == [op |-> "row", row |-> u + 1]
             a == Apply(x.srv, req)
  <1>1. x.srv \in Sessions
    BY DEF Calls
  <1>2. u + 1 \in 1..(u + 1) /\ 1..u \subseteq 1..(u + 1) /\ u + 1 \notin 1..u
    OBVIOUS
  <1>3. req \in Reqs /\ req \in Upto(u + 1)
    BY <1>2 DEF Reqs, Upto
  <1>4. Upto(u) \subseteq Upto(u + 1)
    BY <1>2 DEF Upto
  <1>5. SessionOK(x.srv, u + 1)
    BY <1>2, <1>4 DEF SessionOK
  <1>6. /\ a.auto <=> x.srv.auto
        /\ x.srv.auto => a.durable = x.srv.durable \cup {u + 1} /\ a.pending = x.srv.pending
        /\ ~x.srv.auto => a.pending = x.srv.pending \cup {u + 1} /\ a.durable = x.srv.durable
    BY <1>1, RowSession
  <1>7. Quiet(x.srv) => a.pending \cap a.durable = {} /\ (a.auto => a.pending = {})
    <2>1. x.srv.pending \cup x.srv.durable \subseteq 1..u
      BY DEF SessionOK
    <2> HIDE DEF a
    <2> QED BY <1>2, <1>6, <2>1 DEF SessionOK
  <1> HIDE DEF req
  <1>8. Sendable(x, req, u + 1)
    BY <1>3, <1>5, <1>7, MaySend
  <1>9. Outcome(x, a, u + 1, o) /\ o.brk.halfOpen <= x.brk.halfOpen
    BY <1>8, ExecuteOutcome DEF req
  <1> QED BY <1>9 DEF req

\* OdbcConnection::endTransaction: nothing is sent in autocommit mode
\* without a transaction, and only then a slot may be kept; a type that is
\* neither of the two fails.
LEMMA EndOutcome ==
    ASSUME NEW x \in Calls, NEW u \in Nat, SessionOK(x.srv, u), NEW d \in Handles,
           NEW kind \in Kinds \cup {"invalid"}, kind = "invalid" => x.faults < MaxFaults,
           NEW e \in EndTransaction(d, x, kind)
    PROVE  /\ e.brk \in Breakers /\ e.srv \in Sessions /\ e.faults \in 0..MaxFaults
           /\ e.ok \in BOOLEAN /\ e.inTxn \in BOOLEAN
           /\ e.inTxn <=> IF e.ok THEN ~d.auto ELSE d.inTxn
           /\ SessionOK(e.srv, u) /\ x.srv.durable \subseteq e.srv.durable
           /\ d.auto /\ ~d.inTxn => e.srv = x.srv
           /\ ~(d.auto /\ ~d.inTxn) => /\ After(x, Apply(x.srv, [op |-> kind]), u, e)
                                       /\ e.ok => kind \in Kinds
           /\ e.brk.halfOpen <= x.brk.halfOpen \/ (d.auto /\ e.ok)
  <1> DEFINE void == {IF a.ok THEN Record([a EXCEPT !.ok = FALSE, !.faults = @ + 1]) ELSE a : a \in Ask(x)}
             outs == IF d.auto /\ ~d.inTxn THEN Ask(x)
                     ELSE IF kind \in Kinds THEN ExecuteSQL(x, [op |-> kind]) ELSE void
             a == Apply(x.srv, [op |-> kind])
  <1>1. PICK o \in outs : e = [brk |-> o.brk, srv |-> o.srv, faults |-> o.faults, ok |-> o.ok,
                               inTxn |-> IF o.ok THEN ~d.auto ELSE d.inTxn]
    BY DEF EndTransaction
  <1>2. e.brk = o.brk /\ e.srv = o.srv /\ e.faults = o.faults
    BY <1>1
  <1>3. (e.ok <=> o.ok) /\ e.ok = o.ok
    BY <1>1
  <1>4. e.inTxn = IF o.ok THEN ~d.auto ELSE d.inTxn
    BY <1>1
  <1>5. d.auto \in BOOLEAN /\ d.inTxn \in BOOLEAN
    BY DEF Handles
  <1>6. e.inTxn \in BOOLEAN
    BY <1>4, <1>5
  <1>7. e.inTxn <=> IF e.ok THEN ~d.auto ELSE d.inTxn
    BY <1>3, <1>4
  <1> HIDE DEF a, void
  <1>8. CASE d.auto /\ ~d.inTxn
    <2>1. o \in Calls /\ o.srv = x.srv /\ (~o.ok => o.brk.halfOpen <= x.brk.halfOpen)
      BY <1>8, AskOutcome
    <2>2. o.brk \in Breakers /\ o.srv \in Sessions /\ o.faults \in 0..MaxFaults /\ o.ok \in BOOLEAN
      BY <2>1 DEF Calls
    <2>3. SessionOK(e.srv, u) /\ x.srv.durable \subseteq e.srv.durable /\ e.srv = x.srv
      BY <1>2, <2>1
    <2>4. e.brk.halfOpen <= x.brk.halfOpen \/ (d.auto /\ e.ok)
      BY <1>2, <1>3, <1>8, <2>1
    <2> QED BY <1>2, <1>3, <1>6, <1>7, <1>8, <2>2, <2>3, <2>4
  <1>9. ASSUME ~(d.auto /\ ~d.inTxn), Outcome(x, a, u, o), o.brk.halfOpen <= x.brk.halfOpen,
               o.ok => kind \in Kinds
        PROVE  /\ o.brk \in Breakers /\ o.srv \in Sessions /\ o.faults \in 0..MaxFaults
               /\ o.ok \in BOOLEAN
               /\ SessionOK(e.srv, u) /\ x.srv.durable \subseteq e.srv.durable
               /\ After(x, a, u, e) /\ (e.ok => kind \in Kinds)
               /\ e.brk.halfOpen <= x.brk.halfOpen
    <2>1. o \in Calls /\ After(x, a, u, o)
      BY <1>9 DEF Outcome
    <2>2. o.brk \in Breakers /\ o.srv \in Sessions /\ o.faults \in 0..MaxFaults /\ o.ok \in BOOLEAN
      BY <2>1 DEF Calls
    <2>3. After(x, a, u, e)
      BY <1>2, <1>3, <2>1 DEF After
    <2>4. SessionOK(e.srv, u) /\ x.srv.durable \subseteq e.srv.durable
      BY <2>3 DEF After
    <2> QED BY <1>2, <1>3, <1>9, <2>2, <2>3, <2>4
  <1>10. CASE ~(d.auto /\ ~d.inTxn) /\ kind \in Kinds
    <2> DEFINE req == [op |-> kind]
    <2>0. x.srv \in Sessions /\ Apply(x.srv, req) = a
      BY DEF Calls, a
    <2>1. a.pending = {}
      BY <1>10, <2>0, EndSession DEF a
    <2>2. req \in Reqs /\ req \in Upto(u)
      BY <1>10 DEF Reqs, Upto
    <2>3. o \in ExecuteSQL(x, req)
      BY <1>10
    <2> HIDE DEF req
    <2>4. Sendable(x, req, u)
      BY <2>0, <2>1, <2>2, MaySend
    <2>5. Outcome(x, a, u, o) /\ o.brk.halfOpen <= x.brk.halfOpen
      BY <2>0, <2>3, <2>4, ExecuteOutcome
    <2> QED BY <1>2, <1>3, <1>6, <1>7, <1>9, <1>10, <2>5 DEF a
  <1>11. CASE ~(d.auto /\ ~d.inTxn) /\ kind \notin Kinds
    <2>1. PICK b \in Ask(x) : o = IF b.ok THEN Record([b EXCEPT !.ok = FALSE, !.faults = @ + 1]) ELSE b
      BY <1>11 DEF void
    <2>2. /\ b \in Calls /\ b.srv = x.srv /\ b.faults = x.faults
          /\ ~b.ok => b.brk.halfOpen <= x.brk.halfOpen
      BY AskOutcome
    <2>3. o \in Calls /\ o.srv = x.srv /\ ~o.ok /\ o.brk.halfOpen <= x.brk.halfOpen
      <3>1. CASE ~b.ok
        BY <2>1, <2>2, <3>1
      <3>2. CASE b.ok
        <4>1. PICK r : r = [b EXCEPT !.ok = FALSE, !.faults = b.faults + 1]
          OBVIOUS
        <4>2. b.faults + 1 \in 0..MaxFaults
          BY <1>11, <2>2, OdbcAssumption DEF Calls
        <4>3. r = [brk |-> b.brk, srv |-> b.srv, faults |-> b.faults + 1, ok |-> FALSE]
          BY <2>2, <4>1 DEF Calls
        <4>4. r \in Calls
          BY <2>2, <4>2, <4>3 DEF Calls
        <4>5. r.brk = b.brk /\ r.srv = x.srv /\ ~r.ok
          BY <2>2, <4>3
        <4>6. o = Record(r)
          BY <2>1, <3>2, <4>1
        <4> QED BY <3>2, <4>4, <4>5, <4>6, RecordCall
      <3> QED BY <3>1, <3>2
    <2>4. Outcome(x, a, u, o)
      BY <2>3, Refused
    <2> QED BY <1>2, <1>3, <1>6, <1>7, <1>9, <1>11, <2>3, <2>4 DEF a
  <1> QED BY <1>8, <1>10, <1>11

-----------------------------------------------------------------------------
(* What a step does to the connections it is not about.                    *)

SameAt(d) ==
    /\ conn'[d] = conn[d] /\ srv'[d] = srv[d] /\ used'[d] = used[d] /\ unit'[d] = unit[d]
    /\ report'[d] = report[d] /\ unsure'[d] = unsure[d] /\ bulk'[d] = bulk[d]

\* The environment's call ends, or treats d as before.
EnvKeeps(d) ==
    \/ env' = NoEnvCall
    \/ /\ env'.kind = env.kind /\ (env'.running => env.running) /\ env'.owed[d] = env.owed[d]
       /\ d < env'.next => d < env.next

\* The part of the invariant that does not mention the environment.
OwnInv(c) ==
    /\ used[c] <= MaxRows[c]
    /\ SessionOK(srv[c], used[c])
    /\ FlagsAgree(c) /\ AckedKept(c) /\ Settled(c) /\ BatchKept(c)

\* A connection the step is not about keeps its part of the invariant.
LEMMA OwnFrame ==
    ASSUME NEW d \in Conns, OwnInv(d), SameAt(d)
    PROVE  OwnInv(d)'
  <1> USE DEF OwnInv, SameAt
  <1>1. (used[d] <= MaxRows[d])' /\ SessionOK(srv[d], used[d])'
    BY DEF SessionOK
  <1>2. FlagsAgree(d)'
    BY DEF FlagsAgree
  <1>3. AckedKept(d)'
    BY DEF AckedKept
  <1>4. Settled(d)'
    BY DEF Settled
  <1>5. BatchKept(d)'
    BY DEF BatchKept
  <1> QED BY <1>1, <1>2, <1>3, <1>4, <1>5

\* Nothing durable is lost and the flags stay: what is owed stays kept.
LEMMA OwedFrame ==
    ASSUME NEW d \in Conns, OwedKept(d), EnvKeeps(d),
           conn'[d] = conn[d], srv'[d] = srv[d], unsure'[d] = unsure[d]
    PROVE  OwedKept(d)'
  <1>1. CASE env' = NoEnvCall
    <2>1. env'.owed[d] = {}
      BY <1>1 DEF NoEnvCall
    <2> QED BY <2>1 DEF OwedKept
  <1>2. CASE /\ env'.kind = env.kind /\ (env'.running => env.running) /\ env'.owed[d] = env.owed[d]
             /\ d < env'.next => d < env.next
    BY <1>2 DEF OwedKept
  <1> QED BY <1>1, <1>2 DEF EnvKeeps

\* A step about connection c: only the invariant of c is left to show.
LEMMA StepAt ==
    ASSUME OdbcInv, NEW c \in Conns, Types', OwnInv(c)', OwedKept(c)',
           \A d \in Conns : d # c => SameAt(d) /\ EnvKeeps(d)
    PROVE  OdbcInv'
  <1> SUFFICES ASSUME NEW d \in Conns PROVE ConnInv(d)'
    BY DEF OdbcInv
  <1>1. CASE d = c
    BY <1>1 DEF ConnInv, OwnInv
  <1>2. CASE d # c
    <2>1. OwnInv(d) /\ OwedKept(d) /\ SameAt(d) /\ EnvKeeps(d)
      BY <1>2 DEF OdbcInv, ConnInv, OwnInv
    <2>2. OwnInv(d)'
      BY <2>1, OwnFrame
    <2>3. OwedKept(d)'
      BY <2>1, OwedFrame DEF SameAt
    <2> QED BY <2>2, <2>3 DEF ConnInv, OwnInv
  <1> QED BY <1>1, <1>2

\* A call that leaves no batch behind.
LEMMA NoBatch ==
    ASSUME NEW c \in Conns, bulk'[c] = NoBulk PROVE BatchKept(c)'
  BY DEF BatchKept, NoBulk

\* Environments, batches and the rows of a connection.
Envs == [running: BOOLEAN, kind: Kinds, next: 1..(N + 1), owed: [Conns -> SUBSET Rows]]
Bulks == [at: {"idle", "running", "done", "failed", "undone", "stuck"},
          rows: SUBSET Rows, left: 0..BatchSize, auto: BOOLEAN]

\* What the assumptions say of the constants.
LEMMA Constants ==
    /\ NoBulk \in Bulks /\ NoEnvCall \in Envs /\ N \in Nat
    /\ \A c \in Conns : MaxRows[c] \in Nat
    /\ \A c \in Conns, r \in Nat \ {0} : r <= MaxRows[c] => r \in Rows
  <1>0. N \in Nat /\ \A c \in Conns : MaxRows[c] \in Nat
    BY OdbcAssumption DEF Conns
  <1>1. NoBulk \in Bulks
    BY OdbcAssumption DEF NoBulk, Bulks
  <1>2. NoEnvCall \in Envs
    <2>1. [c \in Conns |-> {}] \in [Conns -> SUBSET Rows]
      OBVIOUS
    <2>2. 1 \in 1..(N + 1) /\ "committed" \in Kinds
      BY <1>0 DEF Kinds
    <2> QED BY <2>1, <2>2 DEF NoEnvCall, Envs
  <1>3. ASSUME NEW c \in Conns, NEW r \in Nat \ {0}, r <= MaxRows[c] PROVE r \in Rows
    <2>1. r \in 1..MaxRows[c]
      BY <1>0, <1>3
    <2> QED BY <2>1 DEF Rows
  <1> QED BY <1>0, <1>1, <1>2, <1>3

\* A call begins from the connection's breaker and session.
LEMMA CallStart ==
    ASSUME OdbcInv, NEW c \in Conns
    PROVE  /\ Call(c) \in Calls /\ Call(c).srv = srv[c] /\ Call(c).brk = conn[c].brk
           /\ used[c] \in Nat /\ SessionOK(srv[c], used[c]) /\ srv[c] \in Sessions
           /\ conn[c] \in Handles /\ Open(c) \subseteq Rows /\ unit[c] \subseteq Rows
           /\ bulk[c] \in Bulks /\ env \in Envs /\ OwnInv(c) /\ OwedKept(c)
  <1>1. Types /\ ConnInv(c)
    BY DEF OdbcInv
  <1>2. conn[c] \in Handles /\ srv[c] \in Sessions /\ used[c] \in Nat /\ unit[c] \subseteq Rows
    BY <1>1 DEF Types
  <1>3. bulk[c] \in Bulks /\ env \in Envs /\ faults \in 0..MaxFaults
    BY <1>1 DEF Types, Bulks, Envs
  <1>4. conn[c].brk \in Breakers
    BY <1>2 DEF Handles
  <1>5. Call(c) \in Calls /\ Call(c).srv = srv[c] /\ Call(c).brk = conn[c].brk
    BY <1>2, <1>3, <1>4 DEF Call, Calls
  <1>6. Open(c) \subseteq Rows
    BY <1>2 DEF Open
  <1> QED BY <1>1, <1>2, <1>3, <1>5, <1>6 DEF ConnInv, OwnInv

\* A step that changes the state of one connection only.
OnlyAt(c) ==
    /\ conn' = [conn EXCEPT ![c] = conn'[c]] /\ srv' = [srv EXCEPT ![c] = srv'[c]]
    /\ used' = [used EXCEPT ![c] = used'[c]] /\ unit' = [unit EXCEPT ![c] = unit'[c]]
    /\ report' = [report EXCEPT ![c] = report'[c]] /\ unsure' = [unsure EXCEPT ![c] = unsure'[c]]
    /\ bulk' = [bulk EXCEPT ![c] = bulk'[c]]

TypedAt(c) ==
    /\ conn[c] \in Handles /\ srv[c] \in Sessions /\ used[c] \in Nat /\ unit[c] \subseteq Rows
    /\ report[c] \in Kinds \cup {"none", "invalid"} /\ unsure[c] \in BOOLEAN /\ bulk[c] \in Bulks

\* Such a step keeps the types, and the other connections as they are.
LEMMA ChangeAt ==
    ASSUME Types, NEW c \in Conns, OnlyAt(c), TypedAt(c)', faults' \in 0..MaxFaults, env' \in Envs
    PROVE  Types' /\ \A d \in Conns : d # c => SameAt(d)
  <1> USE DEF Types, OnlyAt, TypedAt
  <1>1. conn' \in [Conns -> Handles] /\ \A d \in Conns : d # c => conn'[d] = conn[d]
    OBVIOUS
  <1>2. srv' \in [Conns -> Sessions] /\ \A d \in Conns : d # c => srv'[d] = srv[d]
    OBVIOUS
  <1>3. used' \in [Conns -> Nat] /\ \A d \in Conns : d # c => used'[d] = used[d]
    OBVIOUS
  <1>4. unit' \in [Conns -> SUBSET Rows] /\ \A d \in Conns : d # c => unit'[d] = unit[d]
    OBVIOUS
  <1>5. report' \in [Conns -> Kinds \cup {"none", "invalid"}] /\ \A d \in Conns : d # c => report'[d] = report[d]
    OBVIOUS
  <1>6. unsure' \in [Conns -> BOOLEAN]
    OBVIOUS
  <1>7. \A d \in Conns : d # c => unsure'[d] = unsure[d]
    OBVIOUS
  <1>8. bulk' \in [Conns -> Bulks] /\ \A d \in Conns : d # c => bulk'[d] = bulk[d]
    BY DEF Bulks
  <1>9. Types'
    BY <1>1, <1>2, <1>3, <1>4, <1>5, <1>6, <1>8 DEF Bulks, Envs
  <1> QED BY <1>1, <1>2, <1>3, <1>4, <1>5, <1>7, <1>8, <1>9 DEF SameAt

\* What a call leaves of the wire: from then on the connection is unsure if
\* something is left on it.
LEMMA LeavesUnsure ==
    ASSUME Types, NEW c \in Conns, NEW x, Leaves(c, x)
    PROVE  /\ srv' = [srv EXCEPT ![c] = x.srv] /\ faults' = x.faults
           /\ unsure' = [unsure EXCEPT ![c] = unsure'[c]] /\ unsure'[c] \in BOOLEAN
           /\ unsure'[c] <=> unsure[c] \/ ~Quiet(x.srv)
  <1> DEFINE b == unsure[c] \/ x.srv.sent # <<>> \/ x.srv.answers # <<>>
  <1>1. unsure' = [unsure EXCEPT ![c] = b] /\ srv' = [srv EXCEPT ![c] = x.srv] /\ faults' = x.faults
    BY DEF Leaves
  <1>2. b \in BOOLEAN /\ (b <=> unsure[c] \/ ~Quiet(x.srv))
    BY DEF Quiet
  <1> HIDE DEF b
  <1>3. unsure'[c] = b
    BY <1>1 DEF Types
  <1> QED BY <1>1, <1>2, <1>3

\* A step the environment's call has no part in.
LEMMA EnvUnchanged ==
    ASSUME env \in Envs, env' = env
    PROVE  env' \in Envs /\ \A d \in Conns : EnvKeeps(d)
  BY DEF EnvKeeps

\* A call that rolls c back or closes it: nothing is owed to c any more.
LEMMA EnvWaived ==
    ASSUME env \in Envs, NEW c \in Conns, Waive(c)
    PROVE  env' \in Envs /\ env'.owed[c] = {} /\ \A d \in Conns : d # c => EnvKeeps(d)
  <1> DEFINE ow == [env.owed EXCEPT ![c] = {}]
  <1>1. env' = [env EXCEPT !.owed = ow]
    BY DEF Waive
  <1>2. ow \in [Conns -> SUBSET Rows] /\ ow[c] = {} /\ \A d \in Conns : d # c => ow[d] = env.owed[d]
    BY DEF Envs
  <1> HIDE DEF ow
  <1>3. env' = [running |-> env.running, kind |-> env.kind, next |-> env.next, owed |-> ow]
    BY <1>1 DEF Envs
  <1>4. env' \in Envs
    BY <1>2, <1>3 DEF Envs
  <1>5. env'.owed = ow /\ env'.kind = env.kind /\ env'.next = env.next
    BY <1>3
  <1>6. env'.running => env.running
    BY <1>3
  <1> QED BY <1>2, <1>4, <1>5, <1>6 DEF EnvKeeps

\* The rows acknowledged since the last boundary.
LEMMA OpenKept ==
    ASSUME NEW c \in Conns, OwnInv(c), conn[c].connected, ~unsure[c]
    PROVE  /\ conn[c].auto => Open(c) \subseteq srv[c].durable
           /\ ~conn[c].auto /\ srv[c].up => Open(c) \subseteq srv[c].pending
  BY DEF OwnInv, AckedKept, Open

\* A call that keeps the commit mode and loses no row keeps what is owed.
LEMMA OwedStays ==
    ASSUME NEW c \in Conns, OwedKept(c), env' = env,
           conn'[c].connected <=> conn[c].connected, conn'[c].auto <=> conn[c].auto,
           ~unsure'[c] => ~unsure[c],
           srv[c].durable \subseteq srv'[c].durable,
           ~unsure'[c] /\ ~conn[c].auto /\ srv'[c].up =>
               srv[c].up /\ srv[c].pending \subseteq srv'[c].pending \cup srv'[c].durable
    PROVE  OwedKept(c)'
  BY DEF OwedKept

\* A call that supersedes what the application was told before.
LEMMA Superseded ==
    ASSUME NEW c \in Conns, report'[c] = "none", bulk'[c] = NoBulk, used'[c] <= MaxRows[c],
           SessionOK(srv'[c], used'[c]), FlagsAgree(c)', AckedKept(c)'
    PROVE  OwnInv(c)'
  <1>1. BatchKept(c)'
    BY NoBatch
  <1>2. Settled(c)'
    BY DEF Settled
  <1>3. SessionOK(srv[c], used[c])'
    BY DEF SessionOK
  <1> QED BY <1>1, <1>2, <1>3 DEF OwnInv

\* A handle with another mode and transaction flag.
LEMMA HandleAutoTxn ==
    ASSUME NEW h \in Handles, NEW v \in BOOLEAN, NEW w \in BOOLEAN
    PROVE  LET g == [h EXCEPT !.auto = v, !.inTxn = w]
           IN  g \in Handles /\ g.brk = h.brk /\ (g.connected <=> h.connected)
               /\ (g.auto <=> v) /\ (g.inTxn <=> w)
  BY DEF Handles

\* The same, with another breaker too.
LEMMA HandleAutoBrkTxn ==
    ASSUME NEW h \in Handles, NEW v \in BOOLEAN, NEW w \in BOOLEAN, NEW b \in Breakers
    PROVE  LET g == [h EXCEPT !.auto = v, !.brk = b, !.inTxn = w]
           IN  g \in Handles /\ g.brk = b /\ (g.connected <=> h.connected)
               /\ (g.auto <=> v) /\ (g.inTxn <=> w)
  BY DEF Handles

\* A handle with another breaker and transaction flag.
LEMMA HandleBrkTxn ==
    ASSUME NEW h \in Handles, NEW w \in BOOLEAN, NEW b \in Breakers
    PROVE  LET g == [h EXCEPT !.brk = b, !.inTxn = w]
           IN  g \in Handles /\ g.brk = b /\ (g.connected <=> h.connected)
               /\ (g.auto <=> h.auto) /\ (g.inTxn <=> w)
  BY DEF Handles

\* A handle with another breaker.
LEMMA HandleBrk ==
    ASSUME NEW h \in Handles, NEW b \in Breakers
    PROVE  LET g == [h EXCEPT !.brk = b]
           IN  g \in Handles /\ g.brk = b /\ (g.connected <=> h.connected)
               /\ (g.auto <=> h.auto) /\ (g.inTxn <=> h.inTxn)
  BY DEF Handles

\* A session that is up again.
LEMMA SessionReopened ==
    ASSUME NEW s \in Sessions
    PROVE  /\ [s EXCEPT !.up = TRUE] \in Sessions /\ [s EXCEPT !.up = TRUE].up
           /\ [s EXCEPT !.up = TRUE].pending = s.pending /\ [s EXCEPT !.up = TRUE].durable = s.durable
           /\ [s EXCEPT !.up = TRUE].sent = s.sent /\ [s EXCEPT !.up = TRUE].answers = s.answers
  <1>1. PICK A, B : s \in [up: BOOLEAN, auto: BOOLEAN, pending: SUBSET Rows, durable: SUBSET Rows,
                           sent: A, answers: B] /\ A = Seq(Reqs) /\ B = Seq({"ok", "error"})
    BY DEF Sessions
  <1>2. [s EXCEPT !.up = TRUE] \in Sessions
    BY <1>1 DEF Sessions
  <1>3. /\ [s EXCEPT !.up = TRUE].up
        /\ [s EXCEPT !.up = TRUE].pending = s.pending /\ [s EXCEPT !.up = TRUE].durable = s.durable
        /\ [s EXCEPT !.up = TRUE].sent = s.sent /\ [s EXCEPT !.up = TRUE].answers = s.answers
    BY <1>1
  <1> QED BY <1>2, <1>3

\* A call that goes on with another session.
LEMMA CallInSession ==
    ASSUME NEW s \in Sessions, NEW x \in Calls
    PROVE  [x EXCEPT !.srv = s] \in Calls /\ [x EXCEPT !.srv = s].srv = s
  BY DEF Calls

-----------------------------------------------------------------------------
(* The calls, one by one.                                                  *)

\* SQLDisconnect: the session is gone with its open transaction.
LEMMA DisconnectStep ==
    ASSUME OdbcInv, NEW c \in Conns, Disconnect(c) PROVE OdbcInv'
  <1> DEFINE h == [conn[c] EXCEPT !.connected = FALSE, !.inTxn = FALSE]
             s == Hangup(srv[c])
  <1>0. /\ used[c] \in Nat /\ SessionOK(srv[c], used[c]) /\ srv[c] \in Sessions /\ conn[c] \in Handles
        /\ env \in Envs /\ OwnInv(c) /\ Types
    BY CallStart DEF OdbcInv
  <1>1. h \in Handles
    BY <1>0 DEF Handles
  <1>2. ~h.connected
    BY <1>0 DEF Handles
  <1>3. s \in Sessions /\ s.durable = srv[c].durable /\ s.pending = {} /\ ~s.up /\ Quiet(s)
        /\ SessionOK(s, used[c])
    BY <1>0, HangupSession
  <1>4. env' \in Envs /\ env'.owed[c] = {} /\ \A d \in Conns : d # c => EnvKeeps(d)
    BY <1>0, EnvWaived DEF Disconnect
  <1>5. /\ conn' = [conn EXCEPT ![c] = h] /\ srv' = [srv EXCEPT ![c] = s]
        /\ unit' = [unit EXCEPT ![c] = {}] /\ report' = [report EXCEPT ![c] = "none"]
        /\ unsure' = [unsure EXCEPT ![c] = FALSE] /\ bulk' = [bulk EXCEPT ![c] = NoBulk]
        /\ used' = used /\ faults' = faults
    BY <1>0 DEF Disconnect, Supersede, Types
  <1>6. /\ conn'[c] = h /\ srv'[c] = s /\ used'[c] = used[c] /\ unit'[c] = {}
        /\ report'[c] = "none" /\ unsure'[c] = FALSE /\ bulk'[c] = NoBulk
    BY <1>0, <1>5 DEF Types
  <1>7. OnlyAt(c) /\ TypedAt(c)' /\ faults' \in 0..MaxFaults
    BY <1>0, <1>1, <1>3, <1>5, <1>6, Constants DEF OnlyAt, TypedAt, Types
  <1> HIDE DEF h, s
  <1>8. SessionOK(srv'[c], used'[c])
    BY <1>3, <1>6
  <1>9. FlagsAgree(c)' /\ AckedKept(c)'
    BY <1>2, <1>3, <1>6 DEF FlagsAgree, AckedKept
  <1>10. used'[c] <= MaxRows[c]
    BY <1>0, <1>6 DEF OwnInv
  <1>11. OwnInv(c)'
    BY <1>6, <1>8, <1>9, <1>10, Superseded
  <1>12. OwedKept(c)'
    BY <1>4 DEF OwedKept
  <1>13. Types' /\ \A d \in Conns : d # c => SameAt(d)
    BY <1>0, <1>4, <1>7, ChangeAt
  <1> QED BY <1>4, <1>11, <1>12, <1>13, StepAt

\* A connection string sets both flags before either setting is sent.
LEMMA EstablishStep ==
    ASSUME OdbcInv, NEW c \in Conns, NEW auto \in BOOLEAN, EstablishConnection(c, auto) PROVE OdbcInv'
  <1> DEFINE x == [Call(c) EXCEPT !.srv.up = TRUE]
             a == Apply(x.srv, [op |-> "auto", on |-> auto])
  <1>0. /\ Call(c) \in Calls /\ Call(c).srv = srv[c] /\ Call(c).brk = conn[c].brk
        /\ used[c] \in Nat /\ SessionOK(srv[c], used[c]) /\ srv[c] \in Sessions /\ conn[c] \in Handles
        /\ env \in Envs /\ OwnInv(c) /\ OwedKept(c) /\ Types
    BY CallStart DEF OdbcInv
  <1>1. ~conn[c].connected /\ ~srv[c].up /\ env.owed[c] = {}
    BY <1>0 DEF EstablishConnection, OwnInv, FlagsAgree, OwedKept
  <1>2. PICK o \in IsolationThenAutocommit(x, auto) :
          /\ conn' = [conn EXCEPT ![c] = [connected |-> o.ok, auto |-> auto, inTxn |-> ~auto,
                                          brk |-> o.brk]]
          /\ Leaves(c, IF o.ok THEN o ELSE [o EXCEPT !.srv = Hangup(@)])
    BY DEF EstablishConnection
  <1>3. x \in Calls /\ x.srv \in Sessions /\ SessionOK(x.srv, used[c]) /\ x.srv.up /\ Quiet(x.srv)
    <2> DEFINE y == [srv[c] EXCEPT !.up = TRUE]
    <2>1. x = [Call(c) EXCEPT !.srv = y]
      BY <1>0
    <2>2. y \in Sessions /\ y.up /\ y.pending = srv[c].pending /\ y.durable = srv[c].durable
          /\ y.sent = srv[c].sent /\ y.answers = srv[c].answers
      BY <1>0, SessionReopened
    <2> HIDE DEF y
    <2>3. x \in Calls /\ x.srv = y
      BY <1>0, <2>1, <2>2, CallInSession
    <2> HIDE DEF x
    <2>4. x.srv \in Sessions /\ x.srv.up /\ x.srv.pending = srv[c].pending /\ x.srv.durable = srv[c].durable
          /\ x.srv.sent = srv[c].sent /\ x.srv.answers = srv[c].answers
      BY <2>2, <2>3
    <2>5. Quiet(x.srv) /\ SessionOK(x.srv, used[c])
      BY <1>0, <1>1, <2>4 DEF SessionOK, Quiet
    <2> QED BY <2>3, <2>4, <2>5
  <1> HIDE DEF x
  <1>4. Outcome(x, a, used[c], o)
    BY <1>0, <1>3, SettingsOutcome
  <1>5. a \in Sessions /\ SameWire(a, x.srv) /\ (a.auto <=> auto)
    BY <1>0, <1>3, AutoSession
  <1> HIDE DEF a
  <1>6. o \in Calls /\ SessionOK(o.srv, used[c]) /\ (o.ok => o.srv = a)
    BY <1>3, <1>4 DEF Outcome, After
  <1> DEFINE h == [connected |-> o.ok, auto |-> auto, inTxn |-> ~auto, brk |-> o.brk]
             s == IF o.ok THEN o.srv ELSE Hangup(o.srv)
  <1>7. o.srv \in Sessions /\ o.faults \in 0..MaxFaults /\ o.brk \in Breakers /\ o.ok \in BOOLEAN
    BY <1>6 DEF Calls
  <1>8. h \in Handles
    BY <1>7 DEF Handles
  <1>9. (h.connected <=> o.ok) /\ (h.auto <=> auto) /\ (h.inTxn <=> ~auto)
    OBVIOUS
  <1>10. s \in Sessions /\ SessionOK(s, used[c]) /\ (~o.ok => ~s.up)
    BY <1>6, <1>7, HangupSession
  <1>a. Quiet(s)
    <2>1. o.ok => Quiet(a)
      BY <1>3, <1>5 DEF Quiet, SameWire
    <2> QED BY <1>6, <1>7, <2>1, HangupSession
  <1>11. /\ srv' = [srv EXCEPT ![c] = s] /\ faults' = o.faults
         /\ unsure' = [unsure EXCEPT ![c] = unsure'[c]] /\ unsure'[c] \in BOOLEAN
         /\ unsure'[c] <=> unsure[c]
    <2> DEFINE g == IF o.ok THEN o ELSE [o EXCEPT !.srv = Hangup(o.srv)]
    <2>1. g.srv = s /\ g.faults = o.faults
      BY <1>6 DEF Calls
    <2>2. Leaves(c, g)
      BY <1>2
    <2> HIDE DEF g
    <2>3. /\ srv' = [srv EXCEPT ![c] = g.srv] /\ faults' = g.faults
          /\ unsure' = [unsure EXCEPT ![c] = unsure'[c]] /\ unsure'[c] \in BOOLEAN
          /\ unsure'[c] <=> unsure[c] \/ ~Quiet(g.srv)
      BY <1>0, <2>2, LeavesUnsure
    <2> QED BY <1>a, <2>1, <2>3
  <1>12. /\ conn' = [conn EXCEPT ![c] = h] /\ unit' = [unit EXCEPT ![c] = {}]
         /\ report' = [report EXCEPT ![c] = "none"] /\ bulk' = [bulk EXCEPT ![c] = NoBulk]
         /\ used' = used /\ env' = env
    BY <1>2 DEF EstablishConnection, Supersede
  <1> HIDE DEF h, s
  <1>13. /\ conn'[c] = h /\ srv'[c] = s /\ used'[c] = used[c] /\ unit'[c] = {}
         /\ report'[c] = "none" /\ bulk'[c] = NoBulk
    BY <1>0, <1>11, <1>12 DEF Types
  <1>14. OnlyAt(c) /\ TypedAt(c)' /\ faults' \in 0..MaxFaults
    BY <1>0, <1>7, <1>8, <1>10, <1>11, <1>12, <1>13, Constants DEF OnlyAt, TypedAt, Types
  <1>15. FlagsAgree(c)'
    <2>1. o.ok => (s.auto <=> auto)
      BY <1>5, <1>6 DEF s
    <2> QED BY <1>9, <1>10, <1>13, <1>a, <2>1 DEF FlagsAgree
  <1>16. AckedKept(c)'
    BY <1>13 DEF AckedKept
  <1>17. used'[c] <= MaxRows[c] /\ SessionOK(srv'[c], used'[c])
    BY <1>0, <1>10, <1>13 DEF OwnInv
  <1>18. OwnInv(c)'
    BY <1>13, <1>15, <1>16, <1>17, Superseded
  <1>19. OwedKept(c)'
    BY <1>1, <1>12 DEF OwedKept
  <1>20. env' \in Envs /\ \A d \in Conns : EnvKeeps(d)
    BY <1>0, <1>12, EnvUnchanged
  <1>21. Types' /\ \A d \in Conns : d # c => SameAt(d)
    BY <1>0, <1>14, <1>20, ChangeAt
  <1> QED BY <1>18, <1>19, <1>20, <1>21, StepAt

\* SQL_ATTR_AUTOCOMMIT: when the server refuses, the flags are unsure.
LEMMA SetAutocommitStep ==
    ASSUME OdbcInv, NEW c \in Conns, NEW on \in BOOLEAN, SetAutocommit(c, on) PROVE OdbcInv'
  <1> DEFINE x == Call(c)
             a == Apply(x.srv, [op |-> "auto", on |-> on])
             n == IF on \/ conn[c].auto THEN {} ELSE Open(c)
  <1>0. /\ x \in Calls /\ x.srv = srv[c]
        /\ used[c] \in Nat /\ SessionOK(srv[c], used[c]) /\ srv[c] \in Sessions /\ conn[c] \in Handles
        /\ env \in Envs /\ OwnInv(c) /\ OwedKept(c) /\ Types /\ Open(c) \subseteq Rows
    BY CallStart DEF OdbcInv
  <1>1. conn[c].connected
    BY DEF SetAutocommit
  <1>2. PICK o \in ExecuteSQL(x, [op |-> "auto", on |-> on]) :
          /\ conn' = [conn EXCEPT ![c] = [@ EXCEPT !.auto = on, !.brk = o.brk,
                                                   !.inTxn = IF o.ok THEN ~on ELSE conn[c].inTxn]]
          /\ srv' = [srv EXCEPT ![c] = o.srv] /\ faults' = o.faults
          /\ unsure' = [unsure EXCEPT ![c] = @ \/ ~o.ok \/ o.srv.sent # <<>> \/ o.srv.answers # <<>>]
    BY DEF SetAutocommit
  <1> HIDE DEF x
  <1>3. Outcome(x, a, used[c], o)
    BY <1>0, AutoOutcome
  <1>4. /\ a \in Sessions /\ srv[c].durable \subseteq a.durable /\ (a.auto <=> on)
        /\ on => srv[c].pending \subseteq a.durable
        /\ ~on => a.durable = srv[c].durable /\ a.pending = srv[c].pending
    BY <1>0, AutoSession
  <1> HIDE DEF a
  <1>5. /\ o \in Calls /\ SessionOK(o.srv, used[c]) /\ (Quiet(srv[c]) /\ o.ok => srv[c].up /\ o.srv = a)
        /\ srv[c].durable \subseteq o.srv.durable
    BY <1>0, <1>3 DEF Outcome, After
  <1>6. o.srv \in Sessions /\ o.faults \in 0..MaxFaults /\ o.brk \in Breakers /\ o.ok \in BOOLEAN
    BY <1>5 DEF Calls
  <1> DEFINE t == IF o.ok THEN ~on ELSE conn[c].inTxn
             h == [conn[c] EXCEPT !.auto = on, !.brk = o.brk, !.inTxn = t]
  <1>7. t \in BOOLEAN /\ (o.ok => (t <=> ~on))
    BY <1>0, <1>6 DEF Handles
  <1>8. conn' = [conn EXCEPT ![c] = h]
    BY <1>2
  <1> HIDE DEF t
  <1>10. h \in Handles
    BY <1>0, <1>6, <1>7, HandleAutoBrkTxn
  <1>11. (h.connected <=> conn[c].connected) /\ (h.auto <=> on) /\ (h.inTxn <=> t)
    BY <1>0, <1>6, <1>7, HandleAutoBrkTxn
  <1> HIDE DEF h
  <1>12. /\ conn' = [conn EXCEPT ![c] = h] /\ srv' = [srv EXCEPT ![c] = o.srv] /\ faults' = o.faults
         /\ unit' = [unit EXCEPT ![c] = n] /\ report' = [report EXCEPT ![c] = "none"]
         /\ bulk' = [bulk EXCEPT ![c] = NoBulk] /\ used' = used /\ env' = env
    BY <1>2, <1>8 DEF SetAutocommit, Supersede
  <1>13. n \subseteq Rows
    BY <1>0
  <1> HIDE DEF n
  <1>14. /\ conn'[c] = h /\ srv'[c] = o.srv /\ used'[c] = used[c] /\ unit'[c] = n
         /\ report'[c] = "none" /\ bulk'[c] = NoBulk
    BY <1>0, <1>12 DEF Types
  <1> DEFINE b == unsure[c] \/ ~o.ok \/ o.srv.sent # <<>> \/ o.srv.answers # <<>>
  <1>b. unsure' = [unsure EXCEPT ![c] = b] /\ b \in BOOLEAN /\ (b <=> unsure[c] \/ ~o.ok \/ ~Quiet(o.srv))
    BY <1>2 DEF Quiet
  <1> HIDE DEF b
  <1>16. unsure' \in [Conns -> BOOLEAN] /\ unsure' = [unsure EXCEPT ![c] = unsure'[c]] /\ unsure'[c] = b
    BY <1>0, <1>b DEF Types
  <1>15. ~unsure'[c] => ~unsure[c] /\ Quiet(o.srv) /\ o.ok /\ srv[c].up /\ o.srv = a
    <2>1. ~unsure[c] => Quiet(srv[c])
      BY <1>0 DEF OwnInv, FlagsAgree
    <2> QED BY <1>5, <1>16, <1>b, <2>1
  <1>17. TypedAt(c)'
    BY <1>6, <1>0, <1>10, <1>13, <1>14, <1>16, Constants DEF TypedAt
  <1>18. OnlyAt(c) /\ faults' \in 0..MaxFaults
    BY <1>0, <1>6, <1>12, <1>14, <1>16 DEF OnlyAt, Types
  <1>19. FlagsAgree(c)'
    BY <1>1, <1>4, <1>7, <1>11, <1>14, <1>15 DEF FlagsAgree
  <1>20. AckedKept(c)'
    <2> SUFFICES ASSUME ~unsure'[c] PROVE IF on THEN n \subseteq a.durable ELSE n \subseteq a.pending
      BY <1>5, <1>11, <1>14, <1>15 DEF AckedKept
    <2>1. ~unsure[c] /\ srv[c].up
      BY <1>5, <1>15
    <2>2. ~conn[c].auto => Open(c) \subseteq srv[c].pending
      BY <1>0, <1>1, <2>1, OpenKept
    <2> QED BY <1>4, <2>2 DEF n
  <1>21. used'[c] <= MaxRows[c] /\ SessionOK(srv'[c], used'[c])
    BY <1>0, <1>5, <1>14 DEF OwnInv
  <1>22. OwnInv(c)'
    BY <1>14, <1>19, <1>20, <1>21, Superseded
  <1>23. OwedKept(c)'
    <2>1. ASSUME env.kind = "committed", ~unsure'[c]
          PROVE  /\ on => env.owed[c] \subseteq a.durable
                 /\ env.owed[c] \subseteq a.pending \cup a.durable
                 /\ env.running /\ c < env.next => env.owed[c] \subseteq a.durable
      <3>1. ~unsure[c] /\ srv[c].up
        BY <1>5, <1>15, <2>1
      <3>2. env.owed[c] \subseteq srv[c].pending \cup srv[c].durable
        BY <1>0, <2>1, <3>1 DEF OwedKept
      <3> QED BY <1>0, <1>4, <2>1, <3>1, <3>2 DEF OwedKept
    <2>2. ~unsure'[c] => o.srv = a
      BY <1>15
    <2> QED BY <1>1, <1>11, <1>12, <1>14, <2>1, <2>2 DEF OwedKept
  <1>24. env' \in Envs /\ \A d \in Conns : EnvKeeps(d)
    BY <1>0, <1>12, EnvUnchanged
  <1>25. Types' /\ \A d \in Conns : d # c => SameAt(d)
    BY <1>0, <1>17, <1>18, <1>24, ChangeAt
  <1> QED BY <1>22, <1>23, <1>24, <1>25, StepAt

\* SQL_ATTR_AUTOCOMMIT without a connection: both flags, nothing sent.
LEMMA SetAutocommitUnconnectedStep ==
    ASSUME OdbcInv, NEW c \in Conns, NEW on \in BOOLEAN, SetAutocommitUnconnected(c, on) PROVE OdbcInv'
  <1> DEFINE t == ~on
             h == [conn[c] EXCEPT !.auto = on, !.inTxn = t]
  <1>0. /\ used[c] \in Nat /\ SessionOK(srv[c], used[c]) /\ srv[c] \in Sessions /\ conn[c] \in Handles
        /\ env \in Envs /\ OwnInv(c) /\ OwedKept(c) /\ Types
    BY CallStart DEF OdbcInv
  <1>1. ~conn[c].connected /\ ~srv[c].up /\ env.owed[c] = {}
    BY <1>0 DEF SetAutocommitUnconnected, OwnInv, FlagsAgree, OwedKept
  <1>2. conn' = [conn EXCEPT ![c] = h]
    BY DEF SetAutocommitUnconnected
  <1>a. t \in BOOLEAN /\ conn[c].brk \in Breakers
    BY <1>0 DEF Handles
  <1> HIDE DEF t
  <1>3. h \in Handles
    BY <1>0, <1>a, HandleAutoTxn
  <1>4. h.connected <=> conn[c].connected
    BY <1>0, <1>a, HandleAutoTxn
  <1>5. /\ conn' = [conn EXCEPT ![c] = h] /\ unit' = [unit EXCEPT ![c] = {}]
        /\ report' = [report EXCEPT ![c] = "none"] /\ bulk' = [bulk EXCEPT ![c] = NoBulk]
        /\ UNCHANGED <<srv, faults, used, unsure, env>>
    BY <1>0, <1>2 DEF SetAutocommitUnconnected, Supersede, Types
  <1> HIDE DEF h
  <1>6. /\ conn'[c] = h /\ srv'[c] = srv[c] /\ used'[c] = used[c] /\ unit'[c] = {}
        /\ report'[c] = "none" /\ bulk'[c] = NoBulk
    BY <1>0, <1>5 DEF Types
  <1>7. OnlyAt(c) /\ TypedAt(c)' /\ faults' \in 0..MaxFaults
    BY <1>0, <1>3, <1>5, <1>6, Constants DEF OnlyAt, TypedAt, Types
  <1>8. FlagsAgree(c)' /\ AckedKept(c)'
    <2>1. Quiet(srv[c])
      BY <1>0, <1>1 DEF SessionOK
    <2> QED BY <1>1, <1>4, <1>6, <2>1 DEF FlagsAgree, AckedKept
  <1>9. used'[c] <= MaxRows[c] /\ SessionOK(srv'[c], used'[c])
    BY <1>0, <1>6 DEF OwnInv
  <1>10. OwnInv(c)'
    BY <1>6, <1>8, <1>9, Superseded
  <1>11. OwedKept(c)'
    BY <1>1, <1>5 DEF OwedKept
  <1>12. env' \in Envs /\ \A d \in Conns : EnvKeeps(d)
    BY <1>0, <1>5, EnvUnchanged
  <1>13. Types' /\ \A d \in Conns : d # c => SameAt(d)
    BY <1>0, <1>7, <1>12, ChangeAt
  <1> QED BY <1>10, <1>11, <1>12, <1>13, StepAt

\* SQL_ATTR_TXN_ISOLATION may send the autocommit statement again.
LEMMA SetIsolationStep ==
    ASSUME OdbcInv, NEW c \in Conns, SetIsolation(c) PROVE OdbcInv'
  <1> DEFINE x == Call(c)
  <1>0. /\ x \in Calls /\ x.srv = srv[c]
        /\ used[c] \in Nat /\ SessionOK(srv[c], used[c]) /\ srv[c] \in Sessions /\ conn[c] \in Handles
        /\ env \in Envs /\ OwnInv(c) /\ OwedKept(c) /\ Types /\ Open(c) \subseteq Rows
    BY CallStart DEF OdbcInv
  <1>1. conn[c].connected
    BY DEF SetIsolation
  <1>2. PICK o \in (IF conn[c].auto THEN IsolationThenAutocommit(x, TRUE)
                                    ELSE ExecuteSQL(x, [op |-> "isolation"])) :
          conn' = [conn EXCEPT ![c].brk = o.brk] /\ Leaves(c, o)
    BY DEF SetIsolation
  <1> HIDE DEF x
  <1>3. /\ o \in Calls /\ SessionOK(o.srv, used[c]) /\ srv[c].durable \subseteq o.srv.durable
        /\ Quiet(srv[c]) /\ Quiet(o.srv) =>
              /\ conn[c].auto /\ o.srv.up => o.srv.auto \/ o.srv = srv[c]
              /\ ~conn[c].auto /\ o.srv.up => o.srv = srv[c]
    <2>1. CASE conn[c].auto
      <3>1. Outcome(x, Apply(x.srv, [op |-> "auto", on |-> TRUE]), used[c], o)
        BY <1>0, <1>2, <2>1, SettingsOutcome
      <3>2. Apply(x.srv, [op |-> "auto", on |-> TRUE]).auto
        BY <1>0, AutoSession
      <3> QED BY <1>0, <2>1, <3>1, <3>2 DEF Outcome, After
    <2>2. CASE ~conn[c].auto
      <3>1. Outcome(x, x.srv, used[c], o)
        BY <1>0, <1>2, <2>2, IsolationOutcome
      <3> QED BY <1>0, <2>2, <3>1 DEF Outcome, After
    <2> QED BY <2>1, <2>2
  <1>4. o.srv \in Sessions /\ o.faults \in 0..MaxFaults /\ o.brk \in Breakers
    BY <1>3 DEF Calls
  <1> DEFINE h == [conn[c] EXCEPT !.brk = o.brk]
  <1>5. /\ conn' = [conn EXCEPT ![c] = h] /\ srv' = [srv EXCEPT ![c] = o.srv] /\ faults' = o.faults
        /\ unit' = [unit EXCEPT ![c] = Open(c)] /\ report' = [report EXCEPT ![c] = "none"]
        /\ bulk' = [bulk EXCEPT ![c] = NoBulk] /\ used' = used /\ env' = env
    BY <1>2 DEF SetIsolation, Supersede, Leaves
  <1>6. h \in Handles /\ (h.connected <=> conn[c].connected) /\ (h.auto <=> conn[c].auto)
        /\ (h.inTxn <=> conn[c].inTxn)
    BY <1>0, <1>4, HandleBrk
  <1> HIDE DEF h
  <1>7. /\ conn'[c] = h /\ srv'[c] = o.srv /\ used'[c] = used[c] /\ unit'[c] = Open(c)
        /\ report'[c] = "none" /\ bulk'[c] = NoBulk
    BY <1>0, <1>5 DEF Types
  <1>u. /\ unsure' = [unsure EXCEPT ![c] = unsure'[c]] /\ unsure'[c] \in BOOLEAN
        /\ unsure'[c] <=> unsure[c] \/ ~Quiet(o.srv)
    BY <1>0, <1>2, LeavesUnsure
  <1>v. ~unsure'[c] => ~unsure[c] /\ Quiet(srv[c]) /\ Quiet(o.srv)
    BY <1>0, <1>u DEF OwnInv, FlagsAgree
  <1>8. TypedAt(c)'
    BY <1>0, <1>4, <1>6, <1>7, <1>u, Constants DEF TypedAt, Types
  <1>9. OnlyAt(c) /\ faults' \in 0..MaxFaults
    BY <1>0, <1>4, <1>5, <1>7, <1>u DEF OnlyAt, Types
  <1>11. FlagsAgree(c)'
    <2>1. FlagsAgree(c)
      BY <1>0 DEF OwnInv
    <2>2. ASSUME ~unsure'[c], o.srv.up PROVE o.srv.auto <=> conn[c].auto
      BY <1>1, <1>3, <1>v, <2>1, <2>2 DEF FlagsAgree
    <2> QED BY <1>1, <1>6, <1>7, <1>v, <2>1, <2>2 DEF FlagsAgree
  <1>12. AckedKept(c)'
    <2> SUFFICES ASSUME ~unsure'[c]
                 PROVE  IF conn[c].auto THEN Open(c) \subseteq o.srv.durable
                                        ELSE o.srv.up => Open(c) \subseteq o.srv.pending
      BY <1>6, <1>7 DEF AckedKept
    <2>1. /\ conn[c].auto => Open(c) \subseteq srv[c].durable
          /\ ~conn[c].auto /\ srv[c].up => Open(c) \subseteq srv[c].pending
      BY <1>0, <1>1, <1>v, OpenKept
    <2> QED BY <1>3, <1>v, <2>1
  <1>13. used'[c] <= MaxRows[c] /\ SessionOK(srv'[c], used'[c])
    BY <1>0, <1>3, <1>7 DEF OwnInv
  <1>14. OwnInv(c)'
    BY <1>7, <1>11, <1>12, <1>13, Superseded
  <1>15. OwedKept(c)'
    <2>1. ~unsure'[c] /\ ~conn[c].auto /\ srv'[c].up =>
              srv[c].up /\ srv[c].pending \subseteq srv'[c].pending \cup srv'[c].durable
      BY <1>3, <1>7, <1>v
    <2> QED BY <1>0, <1>3, <1>5, <1>6, <1>7, <1>v, <2>1, OwedStays
  <1>16. env' \in Envs /\ \A d \in Conns : EnvKeeps(d)
    BY <1>0, <1>5, EnvUnchanged
  <1>17. Types' /\ \A d \in Conns : d # c => SameAt(d)
    BY <1>0, <1>8, <1>9, <1>16, ChangeAt
  <1> QED BY <1>14, <1>15, <1>16, <1>17, StepAt

\* A row written by a statement or by a batch: what the outcome says about
\* the rows acknowledged before it, n, and the new one.
LEMMA RowWritten ==
    ASSUME OdbcInv, NEW c \in Conns, conn[c].connected, used[c] < MaxRows[c],
           NEW o \in ExecuteSQL(Call(c), [op |-> "row", row |-> used[c] + 1])
    PROVE  /\ o \in Calls /\ SessionOK(o.srv, used[c] + 1) /\ srv[c].durable \subseteq o.srv.durable
           /\ o.brk.halfOpen <= conn[c].brk.halfOpen
           /\ Quiet(srv[c]) /\ o.ok => Quiet(o.srv)
           /\ Quiet(srv[c]) /\ Quiet(o.srv) =>
                 /\ o.srv.up => srv[c].up /\ (o.srv.auto <=> srv[c].auto) /\ srv[c].pending \subseteq o.srv.pending
                 /\ ~o.ok /\ o.srv.up => o.srv = srv[c]
                 /\ o.ok => srv[c].up
                 /\ o.ok /\ srv[c].auto => used[c] + 1 \in o.srv.durable
                 /\ o.ok /\ ~srv[c].auto => used[c] + 1 \in o.srv.pending
           /\ used[c] + 1 \in Rows
  <1> DEFINE x == Call(c)
             a == Apply(x.srv, [op |-> "row", row |-> used[c] + 1])
  <1>0. /\ x \in Calls /\ x.srv = srv[c] /\ x.brk = conn[c].brk
        /\ used[c] \in Nat /\ SessionOK(srv[c], used[c]) /\ srv[c] \in Sessions
    BY CallStart
  <1>1. used[c] + 1 \in Rows
    <2>1. MaxRows[c] \in Nat
      BY Constants
    <2>2. used[c] + 1 \in Nat \ {0} /\ used[c] + 1 <= MaxRows[c]
      BY <1>0, <2>1
    <2> QED BY <2>2, Constants
  <1> HIDE DEF x
  <1>2. Outcome(x, a, used[c] + 1, o) /\ o.brk.halfOpen <= x.brk.halfOpen
    BY <1>0, <1>1, RowOutcome DEF x
  <1>3. /\ SameWire(a, srv[c]) /\ (a.auto <=> srv[c].auto)
        /\ srv[c].auto => used[c] + 1 \in a.durable /\ a.pending = srv[c].pending
        /\ ~srv[c].auto => used[c] + 1 \in a.pending /\ srv[c].pending \subseteq a.pending
    BY <1>0, <1>1, RowSession
  <1> HIDE DEF a
  <1>4. /\ o \in Calls /\ SessionOK(o.srv, used[c] + 1) /\ srv[c].durable \subseteq o.srv.durable
        /\ Quiet(srv[c]) => /\ o.ok => srv[c].up /\ o.srv = a
                            /\ ~o.ok /\ o.srv.up => o.srv = srv[c] \/ ~Quiet(o.srv)
    BY <1>0, <1>2 DEF Outcome, After
  <1>5. Quiet(srv[c]) => Quiet(a) /\ (a.up <=> srv[c].up)
    BY <1>3 DEF SameWire, Quiet
  <1> QED BY <1>0, <1>1, <1>2, <1>3, <1>4, <1>5

\* A statement that writes one row.
LEMMA ExecuteStep ==
    ASSUME OdbcInv, NEW c \in Conns, Execute(c) PROVE OdbcInv'
  <1>0. /\ used[c] \in Nat /\ srv[c] \in Sessions /\ conn[c] \in Handles
        /\ env \in Envs /\ OwnInv(c) /\ OwedKept(c) /\ Types /\ Open(c) \subseteq Rows
    BY CallStart DEF OdbcInv
  <1>1. conn[c].connected /\ used[c] < MaxRows[c]
    BY DEF Execute
  <1>2. PICK o \in ExecuteSQL(Call(c), [op |-> "row", row |-> used[c] + 1]) :
          /\ conn' = [conn EXCEPT ![c].brk = o.brk] /\ Leaves(c, o)
          /\ used' = [used EXCEPT ![c] = used[c] + 1]
          /\ Supersede(c, Open(c) \cup (IF o.ok THEN {used[c] + 1} ELSE {}))
    BY DEF Execute
  <1>3. /\ o \in Calls /\ SessionOK(o.srv, used[c] + 1) /\ srv[c].durable \subseteq o.srv.durable
        /\ Quiet(srv[c]) /\ Quiet(o.srv) =>
              /\ o.srv.up => srv[c].up /\ (o.srv.auto <=> srv[c].auto) /\ srv[c].pending \subseteq o.srv.pending
              /\ o.ok => srv[c].up
              /\ o.ok /\ srv[c].auto => used[c] + 1 \in o.srv.durable
              /\ o.ok /\ ~srv[c].auto => used[c] + 1 \in o.srv.pending
        /\ used[c] + 1 \in Rows
    BY <1>1, RowWritten
  <1>4. o.srv \in Sessions /\ o.faults \in 0..MaxFaults /\ o.brk \in Breakers
    BY <1>3 DEF Calls
  <1> DEFINE h == [conn[c] EXCEPT !.brk = o.brk]
             n == Open(c) \cup (IF o.ok THEN {used[c] + 1} ELSE {})
  <1>5. /\ conn' = [conn EXCEPT ![c] = h] /\ srv' = [srv EXCEPT ![c] = o.srv] /\ faults' = o.faults
        /\ unit' = [unit EXCEPT ![c] = n] /\ report' = [report EXCEPT ![c] = "none"]
        /\ bulk' = [bulk EXCEPT ![c] = NoBulk] /\ env' = env
    BY <1>2 DEF Execute, Supersede, Leaves
  <1>6. h \in Handles /\ (h.connected <=> conn[c].connected) /\ (h.auto <=> conn[c].auto)
        /\ (h.inTxn <=> conn[c].inTxn)
    BY <1>0, <1>4, HandleBrk
  <1>7. n \subseteq Rows
    BY <1>0, <1>3
  <1> HIDE DEF h, n
  <1>8. /\ conn'[c] = h /\ srv'[c] = o.srv /\ used'[c] = used[c] + 1 /\ unit'[c] = n
        /\ report'[c] = "none" /\ bulk'[c] = NoBulk
    BY <1>0, <1>2, <1>5 DEF Types
  <1>u. /\ unsure' = [unsure EXCEPT ![c] = unsure'[c]] /\ unsure'[c] \in BOOLEAN
        /\ unsure'[c] <=> unsure[c] \/ ~Quiet(o.srv)
    BY <1>0, <1>2, LeavesUnsure
  <1>v. ~unsure'[c] => ~unsure[c] /\ Quiet(srv[c]) /\ Quiet(o.srv)
    BY <1>0, <1>u DEF OwnInv, FlagsAgree
  <1>9. TypedAt(c)'
    BY <1>0, <1>4, <1>6, <1>7, <1>8, <1>u, Constants DEF TypedAt, Types
  <1>10. OnlyAt(c) /\ faults' \in 0..MaxFaults
    BY <1>0, <1>2, <1>4, <1>5, <1>8, <1>u DEF OnlyAt, Types
  <1>11. FlagsAgree(c)'
    <2>1. FlagsAgree(c)
      BY <1>0 DEF OwnInv
    <2> QED BY <1>1, <1>3, <1>6, <1>8, <1>v, <2>1 DEF FlagsAgree
  <1>12. AckedKept(c)'
    <2> SUFFICES ASSUME ~unsure'[c]
                 PROVE  IF conn[c].auto THEN n \subseteq o.srv.durable
                                        ELSE o.srv.up => n \subseteq o.srv.pending
      BY <1>6, <1>8 DEF AckedKept
    <2>1. /\ conn[c].auto => Open(c) \subseteq srv[c].durable
          /\ ~conn[c].auto /\ srv[c].up => Open(c) \subseteq srv[c].pending
      BY <1>0, <1>1, <1>v, OpenKept
    <2>2. srv[c].up => (srv[c].auto <=> conn[c].auto)
      BY <1>0, <1>1, <1>v DEF OwnInv, FlagsAgree
    <2> QED BY <1>3, <1>v, <2>1, <2>2 DEF n
  <1>13. used'[c] <= MaxRows[c] /\ SessionOK(srv'[c], used'[c])
    <2>1. MaxRows[c] \in Nat
      BY Constants
    <2> QED BY <1>0, <1>1, <1>3, <1>8, <2>1
  <1>14. OwnInv(c)'
    BY <1>8, <1>11, <1>12, <1>13, Superseded
  <1>15. OwedKept(c)'
    <2>1. ~unsure'[c] /\ srv'[c].up =>
              srv[c].up /\ srv[c].pending \subseteq srv'[c].pending \cup srv'[c].durable
      BY <1>3, <1>8, <1>v
    <2> QED BY <1>0, <1>3, <1>5, <1>6, <1>8, <1>v, <2>1, OwedStays
  <1>16. env' \in Envs /\ \A d \in Conns : EnvKeeps(d)
    BY <1>0, <1>5, EnvUnchanged
  <1>17. Types' /\ \A d \in Conns : d # c => SameAt(d)
    BY <1>0, <1>9, <1>10, <1>16, ChangeAt
  <1> QED BY <1>14, <1>15, <1>16, <1>17, StepAt

\* OdbcConnection::endTransaction on a connection, for SQLEndTran on it and
\* on its environment: everything but what it does to env.
LEMMA EndsAt ==
    ASSUME OdbcInv, NEW c \in Conns, conn[c].connected, NEW kind \in Kinds \cup {"invalid"},
           kind = "invalid" => faults < MaxFaults,
           NEW e \in EndTransaction(conn[c], Call(c), kind),
           conn' = [conn EXCEPT ![c].brk = e.brk, ![c].inTxn = e.inTxn], Leaves(c, e),
           report' = [report EXCEPT ![c] = IF e.ok THEN kind ELSE "none"],
           unit' = [unit EXCEPT ![c] = Open(c)], bulk' = [bulk EXCEPT ![c] = NoBulk],
           UNCHANGED used
    PROVE  /\ OnlyAt(c) /\ TypedAt(c)' /\ faults' \in 0..MaxFaults /\ OwnInv(c)'
           /\ (conn'[c].connected <=> conn[c].connected) /\ (conn'[c].auto <=> conn[c].auto)
           /\ (~unsure'[c] => ~unsure[c])
           /\ srv[c].durable \subseteq srv'[c].durable
           /\ ~unsure'[c] /\ kind = "committed" =>
                 /\ ~conn[c].auto /\ srv'[c].up =>
                       srv[c].up /\ srv[c].pending \subseteq srv'[c].pending \cup srv'[c].durable
                 /\ ~conn[c].auto /\ e.ok => srv[c].up /\ srv[c].pending \subseteq srv'[c].durable
           /\ ~unsure'[c] /\ kind = "invalid" => (srv'[c].up => srv'[c] = srv[c])
  <1> DEFINE x == Call(c)
             a == Apply(x.srv, [op |-> kind])
             h == [conn[c] EXCEPT !.brk = e.brk, !.inTxn = e.inTxn]
             r == IF e.ok THEN kind ELSE "none"
  <1>0. /\ x \in Calls /\ x.srv = srv[c] /\ x.faults = faults
        /\ used[c] \in Nat /\ SessionOK(srv[c], used[c]) /\ srv[c] \in Sessions /\ conn[c] \in Handles
        /\ OwnInv(c) /\ Types /\ Open(c) \subseteq Rows
    <2>1. x.faults = faults
      BY DEF Call
    <2> HIDE DEF x
    <2> QED BY <2>1, CallStart DEF OdbcInv, x
  <1> HIDE DEF x
  <1>1. /\ e.brk \in Breakers /\ e.srv \in Sessions /\ e.faults \in 0..MaxFaults
        /\ e.ok \in BOOLEAN /\ e.inTxn \in BOOLEAN
        /\ e.inTxn <=> IF e.ok THEN ~conn[c].auto ELSE conn[c].inTxn
        /\ SessionOK(e.srv, used[c]) /\ srv[c].durable \subseteq e.srv.durable
        /\ conn[c].auto /\ ~conn[c].inTxn => e.srv = srv[c]
        /\ ~(conn[c].auto /\ ~conn[c].inTxn) => After(x, a, used[c], e) /\ (e.ok => kind \in Kinds)
    BY <1>0, EndOutcome DEF x
  <1>u. /\ srv' = [srv EXCEPT ![c] = e.srv] /\ faults' = e.faults
        /\ unsure' = [unsure EXCEPT ![c] = unsure'[c]] /\ unsure'[c] \in BOOLEAN
        /\ unsure'[c] <=> unsure[c] \/ ~Quiet(e.srv)
    BY <1>0, LeavesUnsure
  <1>v. ~unsure'[c] => ~unsure[c] /\ Quiet(srv[c]) /\ Quiet(e.srv)
    BY <1>0, <1>u DEF OwnInv, FlagsAgree
  <1>w. ~unsure'[c] /\ ~(conn[c].auto /\ ~conn[c].inTxn) =>
            /\ e.ok => srv[c].up /\ e.srv = a /\ kind \in Kinds
            /\ ~e.ok /\ e.srv.up => e.srv = srv[c]
    BY <1>0, <1>1, <1>v DEF After
  <1>2. kind \in Kinds =>
        /\ (a.up <=> srv[c].up) /\ (a.auto <=> srv[c].auto) /\ a.pending = {}
        /\ kind = "committed" => a.durable = srv[c].durable \cup srv[c].pending
        /\ kind = "rolledBack" => a.durable = srv[c].durable
    BY <1>0, EndSession DEF SameWire
  <1> HIDE DEF a
  <1>3. /\ h \in Handles /\ (h.connected <=> conn[c].connected) /\ (h.auto <=> conn[c].auto)
        /\ (h.inTxn <=> e.inTxn)
    BY <1>0, <1>1, HandleBrkTxn
  <1>4. conn' = [conn EXCEPT ![c] = h]
    BY <1>0 DEF Types
  <1>5. srv' = [srv EXCEPT ![c] = e.srv] /\ faults' = e.faults
    BY <1>u
  <1>6. r \in Kinds \cup {"none", "invalid"} /\ report' = [report EXCEPT ![c] = r]
    OBVIOUS
  <1> HIDE DEF h, r
  <1>7. /\ conn'[c] = h /\ srv'[c] = e.srv /\ used'[c] = used[c] /\ unit'[c] = Open(c)
        /\ report'[c] = r /\ bulk'[c] = NoBulk
    BY <1>0, <1>4, <1>5, <1>6 DEF Types
  <1>8. TypedAt(c)'
    BY <1>0, <1>1, <1>3, <1>6, <1>7, <1>u, Constants DEF TypedAt, Types
  <1>9. OnlyAt(c) /\ faults' \in 0..MaxFaults
    BY <1>0, <1>1, <1>4, <1>5, <1>6, <1>7, <1>u DEF OnlyAt, Types
  <1>10. ~unsure[c] => /\ conn[c].inTxn <=> ~conn[c].auto
                       /\ srv[c].up => (srv[c].auto <=> conn[c].auto)
    BY <1>0 DEF OwnInv, FlagsAgree
  <1>11. ~unsure[c] => /\ conn[c].auto => Open(c) \subseteq srv[c].durable
                       /\ ~conn[c].auto /\ srv[c].up => Open(c) \subseteq srv[c].pending
    BY <1>0, OpenKept
  <1>12. FlagsAgree(c)'
    <2> SUFFICES ASSUME ~unsure'[c]
                 PROVE  /\ e.inTxn <=> ~conn[c].auto
                        /\ e.srv.up => (e.srv.auto <=> conn[c].auto)
      BY <1>3, <1>7, <1>v DEF FlagsAgree
    <2>1. e.inTxn <=> ~conn[c].auto
      BY <1>1, <1>10, <1>v
    <2>2. e.srv.up => (e.srv.auto <=> conn[c].auto)
      BY <1>1, <1>2, <1>10, <1>v, <1>w
    <2> QED BY <2>1, <2>2
  <1>13. AckedKept(c)'
    <2> SUFFICES ASSUME ~unsure'[c], ~e.ok
                 PROVE  IF conn[c].auto THEN Open(c) \subseteq e.srv.durable
                                        ELSE e.srv.up => Open(c) \subseteq e.srv.pending
      BY <1>3, <1>7 DEF AckedKept, r, Kinds
    <2> QED BY <1>1, <1>10, <1>11, <1>v, <1>w
  <1>14. Settled(c)'
    <2> SUFFICES ASSUME ~unsure'[c], e.ok
                 PROVE  /\ e.srv.pending = {}
                        /\ kind = "committed" => Open(c) \subseteq e.srv.durable
                        /\ kind = "rolledBack" /\ ~conn[c].auto => Open(c) \cap e.srv.durable = {}
      BY <1>3, <1>7 DEF Settled, r
    <2>1. CASE conn[c].auto
      <3>1. e.srv = srv[c]
        BY <1>1, <1>10, <1>v, <2>1
      <3>2. srv[c].pending = {}
        BY <1>0, <1>10, <1>v, <2>1 DEF SessionOK
      <3> QED BY <1>11, <1>v, <2>1, <3>1, <3>2
    <2>2. CASE ~conn[c].auto
      <3>1. srv[c].up /\ e.srv = a /\ kind \in Kinds
        BY <1>w, <2>2
      <3>2. srv[c].pending \cap srv[c].durable = {}
        BY <1>0, <1>v DEF SessionOK
      <3> QED BY <1>2, <1>11, <1>v, <2>2, <3>1, <3>2
    <2> QED BY <2>1, <2>2
  <1>15. BatchKept(c)'
    BY <1>7, NoBatch
  <1>16. (used[c] <= MaxRows[c])' /\ SessionOK(srv[c], used[c])'
    BY <1>0, <1>1, <1>7 DEF OwnInv, SessionOK
  <1>17. OwnInv(c)'
    BY <1>12, <1>13, <1>14, <1>15, <1>16 DEF OwnInv
  <1>18. ASSUME ~unsure'[c], kind = "committed", ~conn[c].auto
         PROVE  /\ e.srv.up => srv[c].up /\ srv[c].pending \subseteq e.srv.pending \cup e.srv.durable
                /\ e.ok => srv[c].up /\ srv[c].pending \subseteq e.srv.durable
    BY <1>1, <1>2, <1>18, <1>w
  <1>19. ~unsure'[c] /\ kind = "invalid" => (e.srv.up => e.srv = srv[c])
    <2>1. "invalid" \notin Kinds
      BY DEF Kinds
    <2> QED BY <1>1, <1>w, <2>1
  <1> QED BY <1>1, <1>3, <1>7, <1>8, <1>9, <1>17, <1>18, <1>19, <1>v

\* SQLEndTran on a connection.
LEMMA EndTranStep ==
    ASSUME OdbcInv, NEW c \in Conns, NEW kind \in Kinds \cup {"invalid"}, EndTran(c, kind) PROVE OdbcInv'
  <1>0. env \in Envs /\ OwedKept(c) /\ Types
    BY CallStart DEF OdbcInv
  <1>1. PICK e \in EndTransaction(conn[c], Call(c), kind) :
          /\ conn' = [conn EXCEPT ![c].brk = e.brk, ![c].inTxn = e.inTxn]
          /\ Leaves(c, e)
          /\ report' = [report EXCEPT ![c] = IF e.ok THEN kind ELSE "none"]
          /\ unit' = [unit EXCEPT ![c] = Open(c)]
    BY DEF EndTran
  <1>2. conn[c].connected /\ bulk' = [bulk EXCEPT ![c] = NoBulk] /\ UNCHANGED used
        /\ (kind = "invalid" => faults < MaxFaults)
    BY DEF EndTran
  <1>3. /\ OnlyAt(c) /\ TypedAt(c)' /\ faults' \in 0..MaxFaults /\ OwnInv(c)'
        /\ (conn'[c].connected <=> conn[c].connected) /\ (conn'[c].auto <=> conn[c].auto)
        /\ (~unsure'[c] => ~unsure[c])
        /\ srv[c].durable \subseteq srv'[c].durable
        /\ (~unsure'[c] /\ kind = "committed") =>
              ((~conn[c].auto /\ srv'[c].up) =>
                  (srv[c].up /\ srv[c].pending \subseteq srv'[c].pending \cup srv'[c].durable))
        /\ (~unsure'[c] /\ kind = "invalid") => (srv'[c].up => srv'[c] = srv[c])
    BY <1>1, <1>2, EndsAt
  <1>4. OwedKept(c)' /\ env' \in Envs /\ \A d \in Conns : d # c => EnvKeeps(d)
    <2>1. CASE kind = "rolledBack"
      <3>1. Waive(c)
        BY <2>1 DEF EndTran
      <3>2. env' \in Envs /\ env'.owed[c] = {} /\ \A d \in Conns : d # c => EnvKeeps(d)
        BY <1>0, <3>1, EnvWaived
      <3>3. OwedKept(c)'
        BY <3>2 DEF OwedKept
      <3> QED BY <3>2, <3>3
    <2>2. CASE kind # "rolledBack"
      <3>1. env' = env
        BY <2>2 DEF EndTran
      <3>a. ~unsure'[c] /\ ~conn[c].auto /\ srv'[c].up =>
               srv[c].up /\ srv[c].pending \subseteq srv'[c].pending \cup srv'[c].durable
        <4>1. CASE kind = "committed"
          BY <1>3, <4>1
        <4>2. CASE kind = "invalid"
          BY <1>3, <4>2
        <4> QED BY <2>2, <4>1, <4>2 DEF Kinds
      <3>2. OwedKept(c)'
        BY <1>0, <1>3, <2>2, <3>1, <3>a, OwedStays
      <3> QED BY <1>0, <3>1, <3>2, EnvUnchanged
    <2> QED BY <2>1, <2>2
  <1>5. Types' /\ \A d \in Conns : d # c => SameAt(d)
    BY <1>0, <1>3, <1>4, ChangeAt
  <1> QED BY <1>3, <1>4, <1>5, StepAt

-----------------------------------------------------------------------------
(* SQLEndTran on the environment.                                          *)

\* The loop goes on to the next connection.
LEMMA EnvAdvanced ==
    ASSUME env \in Envs, env.next \in Conns, env' = [env EXCEPT !.next = env.next + 1]
    PROVE  /\ env' \in Envs /\ env'.kind = env.kind /\ env'.owed = env.owed
           /\ env'.next = env.next + 1 /\ (env'.running <=> env.running)
           /\ \A d \in Conns : d # env.next => EnvKeeps(d)
  <1>0. N \in Nat
    BY Constants
  <1>1. env.next + 1 \in 1..(N + 1)
    BY <1>0 DEF Conns
  <1>2. env' \in Envs
    BY <1>1 DEF Envs
  <1>3. env'.kind = env.kind /\ env'.owed = env.owed /\ env'.next = env.next + 1
    BY DEF Envs
  <1>4. env'.running <=> env.running
    BY DEF Envs
  <1>5. ASSUME NEW d \in Conns, d # env.next PROVE d < env'.next => d < env.next
    BY <1>0, <1>3, <1>5 DEF Conns
  <1>6. \A d \in Conns : d # env.next => EnvKeeps(d)
    BY <1>3, <1>4, <1>5 DEF EnvKeeps
  <1> QED BY <1>2, <1>3, <1>4, <1>6

\* The loop ends the transaction of its connection.
LEMMA EnvEndTranStepStep ==
    ASSUME OdbcInv, EnvEndTranStep PROVE OdbcInv'
  <1>a. PICK c \in Conns : c = env.next
    BY DEF EnvEndTranStep
  <1>1. conn[c].connected /\ env.running
    BY <1>a DEF EnvEndTranStep
  <1>0. env \in Envs /\ OwedKept(c) /\ Types /\ env.kind \in Kinds
    <2>1. env \in Envs /\ OwedKept(c)
      BY <1>1, CallStart
    <2> QED BY <2>1 DEF OdbcInv, Envs
  <1>2. PICK e \in EndTransaction(conn[c], Call(c), env.kind) :
          /\ conn' = [conn EXCEPT ![c].brk = e.brk, ![c].inTxn = e.inTxn]
          /\ Leaves(c, e)
          /\ report' = [report EXCEPT ![c] = IF e.ok THEN env.kind ELSE "none"]
          /\ env' = IF e.ok THEN [env EXCEPT !.next = c + 1] ELSE NoEnvCall
    BY <1>a DEF EnvEndTranStep
  <1>3. /\ unit' = [unit EXCEPT ![c] = Open(c)] /\ bulk' = [bulk EXCEPT ![c] = NoBulk]
        /\ UNCHANGED used
    BY <1>a DEF EnvEndTranStep
  <1>4. /\ OnlyAt(c) /\ TypedAt(c)' /\ faults' \in 0..MaxFaults /\ OwnInv(c)'
        /\ (conn'[c].connected <=> conn[c].connected) /\ (conn'[c].auto <=> conn[c].auto)
        /\ (~unsure'[c] => ~unsure[c])
        /\ srv[c].durable \subseteq srv'[c].durable
        /\ ~unsure'[c] /\ env.kind = "committed" =>
              /\ ~conn[c].auto /\ srv'[c].up =>
                    srv[c].up /\ srv[c].pending \subseteq srv'[c].pending \cup srv'[c].durable
              /\ ~conn[c].auto /\ e.ok => srv[c].up /\ srv[c].pending \subseteq srv'[c].durable
    <2>1. env.kind # "invalid"
      BY <1>0 DEF Kinds
    <2> QED BY <1>0, <1>1, <1>2, <1>3, <2>1, EndsAt
  <1>5. OwedKept(c)' /\ env' \in Envs /\ \A d \in Conns : d # c => EnvKeeps(d)
    <2>1. CASE e.ok
      <3>1. /\ env' \in Envs /\ env'.kind = env.kind /\ env'.owed = env.owed
            /\ \A d \in Conns : d # c => EnvKeeps(d)
        BY <1>0, <1>a, <1>2, <2>1, EnvAdvanced
      <3>2. ~conn'[c].connected => env'.owed[c] = {}
        BY <1>1, <1>4
      <3>3. ASSUME env'.kind = "committed", ~unsure'[c] PROVE env'.owed[c] \subseteq srv'[c].durable
        <4>1. /\ conn[c].auto => env.owed[c] \subseteq srv[c].durable
              /\ ~conn[c].auto /\ srv[c].up => env.owed[c] \subseteq srv[c].pending \cup srv[c].durable
          BY <1>0, <1>4, <3>1, <3>3 DEF OwedKept
        <4> QED BY <1>4, <2>1, <3>1, <3>3, <4>1
      <3>4. OwedKept(c)'
        BY <3>2, <3>3 DEF OwedKept
      <3> QED BY <3>1, <3>4
    <2>2. CASE ~e.ok
      <3>1. env' = NoEnvCall
        BY <1>2, <2>2
      <3>2. env'.owed[c] = {} /\ env' \in Envs
        BY <1>1, <3>1, Constants DEF NoEnvCall
      <3>3. OwedKept(c)'
        BY <3>2 DEF OwedKept
      <3> QED BY <3>1, <3>2, <3>3 DEF EnvKeeps
    <2> QED BY <2>1, <2>2
  <1>6. Types' /\ \A d \in Conns : d # c => SameAt(d)
    BY <1>0, <1>1, <1>4, <1>5, ChangeAt
  <1> QED BY <1>1, <1>4, <1>5, <1>6, StepAt

\* Steps that only move the environment's call.
LEMMA EnvOnly ==
    ASSUME OdbcInv, UNCHANGED <<conn, srv, faults, used, unit, report, unsure, bulk>>,
           env' \in Envs, \A d \in Conns : OwedKept(d)'
    PROVE  OdbcInv'
  <1>1. Types'
    BY DEF OdbcInv, Types, Envs
  <1>2. ASSUME NEW d \in Conns PROVE ConnInv(d)'
    <2>1. OwnInv(d) /\ SameAt(d)
      BY DEF OdbcInv, ConnInv, OwnInv, SameAt
    <2>2. OwnInv(d)'
      BY <2>1, OwnFrame
    <2> QED BY <2>2 DEF ConnInv, OwnInv
  <1> QED BY <1>1, <1>2 DEF OdbcInv

\* The loop's call begins, skips a closed connection, and returns.
LEMMA EnvEndTranStartStep ==
    ASSUME OdbcInv, NEW kind \in Kinds, EnvEndTranStart(kind) PROVE OdbcInv'
  <1> DEFINE ow == [c \in Conns |-> IF conn[c].connected THEN Open(c) ELSE {}]
  <1>1. env' = [running |-> TRUE, kind |-> kind, next |-> 1, owed |-> ow]
    BY DEF EnvEndTranStart
  <1>2. UNCHANGED <<conn, srv, faults, used, unit, report, unsure, bulk>>
    BY DEF EnvEndTranStart
  <1>3. \A d \in Conns : Open(d) \subseteq Rows /\ OwnInv(d)
    BY CallStart
  <1>4. ow \in [Conns -> SUBSET Rows] /\ N \in Nat
    BY <1>3, Constants
  <1>5. env' \in Envs
    BY <1>1, <1>4 DEF Envs
  <1>6. ASSUME NEW d \in Conns PROVE OwedKept(d)'
    <2>1. env'.owed[d] = IF conn[d].connected THEN Open(d) ELSE {}
      BY <1>1
    <2>2. env'.next = 1
      BY <1>1
    <2>3. ~(d < env'.next)
      BY <1>4, <2>2 DEF Conns
    <2>4. conn[d].connected /\ ~unsure[d] =>
            /\ conn[d].auto => Open(d) \subseteq srv[d].durable
            /\ ~conn[d].auto /\ srv[d].up => Open(d) \subseteq srv[d].pending
      BY <1>3, OpenKept
    <2> QED BY <1>2, <2>1, <2>3, <2>4 DEF OwedKept
  <1> QED BY <1>2, <1>5, <1>6, EnvOnly

\* A closed connection is owed nothing.
LEMMA EnvEndTranSkipStep ==
    ASSUME OdbcInv, EnvEndTranSkip PROVE OdbcInv'
  <1>1. /\ env.next \in Conns /\ ~conn[env.next].connected
        /\ UNCHANGED <<conn, srv, faults, used, unit, report, unsure, bulk>>
    BY DEF EnvEndTranSkip
  <1>2. env' = [env EXCEPT !.next = env.next + 1]
    BY DEF EnvEndTranSkip
  <1>3. env \in Envs /\ \A d \in Conns : OwedKept(d)
    BY <1>1, CallStart
  <1>4. /\ env' \in Envs /\ env'.owed = env.owed
        /\ \A d \in Conns : d # env.next => EnvKeeps(d)
    BY <1>1, <1>2, <1>3, EnvAdvanced
  <1>5. ASSUME NEW d \in Conns PROVE OwedKept(d)'
    <2>1. CASE d = env.next
      <3>1. env'.owed[d] = {}
        BY <1>1, <1>3, <1>4, <2>1 DEF OwedKept
      <3> QED BY <3>1 DEF OwedKept
    <2>2. CASE d # env.next
      BY <1>1, <1>3, <1>4, <2>2, OwedFrame
    <2> QED BY <2>1, <2>2
  <1> QED BY <1>1, <1>4, <1>5, EnvOnly

\* The call returns.
LEMMA EnvEndTranReturnStep ==
    ASSUME OdbcInv, EnvEndTranReturn PROVE OdbcInv'
  <1>1. env' = NoEnvCall /\ UNCHANGED <<conn, srv, faults, used, unit, report, unsure, bulk>>
    BY DEF EnvEndTranReturn
  <1>2. env' \in Envs
    BY <1>1, Constants
  <1>3. ASSUME NEW d \in Conns PROVE OwedKept(d)'
    <2>1. env'.owed[d] = {}
      BY <1>1 DEF NoEnvCall
    <2> QED BY <2>1 DEF OwedKept
  <1> QED BY <1>1, <1>2, <1>3, EnvOnly

-----------------------------------------------------------------------------
(* SQLBulkOperations.                                                      *)

\* A batch that ended keeps its rows and its commit mode.
LEMMA BulkEnds ==
    ASSUME NEW b \in Bulks, NEW t \in {"failed", "undone", "stuck"},
           NEW g, g = [b EXCEPT !.at = t]
    PROVE  g \in Bulks /\ g.rows = b.rows /\ g.at = t /\ (g.auto <=> b.auto)
  BY DEF Bulks

\* A batch begins with no row of its own.
LEMMA BulkStartStep ==
    ASSUME OdbcInv, NEW c \in Conns, BulkStart(c) PROVE OdbcInv'
  <1> DEFINE g == [at |-> "running", rows |-> {}, left |-> BatchSize, auto |-> conn[c].auto]
  <1>0. /\ used[c] \in Nat /\ srv[c] \in Sessions /\ conn[c] \in Handles
        /\ env \in Envs /\ OwnInv(c) /\ OwedKept(c) /\ Types /\ Open(c) \subseteq Rows
    BY CallStart DEF OdbcInv
  <1>1. conn[c].connected /\ used[c] + BatchSize <= MaxRows[c]
    BY DEF BulkStart
  <1>2. /\ bulk' = [bulk EXCEPT ![c] = g] /\ report' = [report EXCEPT ![c] = "none"]
        /\ unit' = [unit EXCEPT ![c] = Open(c)]
        /\ UNCHANGED <<conn, srv, faults, used, unsure, env>>
    BY DEF BulkStart
  <1>3. BatchSize \in Nat \ {0}
    BY OdbcAssumption
  <1>4. conn[c].auto \in BOOLEAN
    BY <1>0 DEF Handles
  <1>5. g \in Bulks
    BY <1>3, <1>4 DEF Bulks
  <1>6. g.at = "running" /\ g.rows = {} /\ g.left = BatchSize /\ (g.auto <=> conn[c].auto)
    OBVIOUS
  <1> HIDE DEF g
  <1>7. bulk'[c] = g /\ report'[c] = "none" /\ unit'[c] = Open(c)
    BY <1>0, <1>2 DEF Types
  <1>8. TypedAt(c)'
    BY <1>0, <1>2, <1>5, <1>7 DEF TypedAt, Types
  <1>9. OnlyAt(c) /\ faults' \in 0..MaxFaults
    BY <1>0, <1>2, <1>7 DEF OnlyAt, Types
  <1>10. FlagsAgree(c)'
    BY <1>0, <1>2 DEF OwnInv, FlagsAgree
  <1>11. AckedKept(c)'
    <2>1. ~unsure[c] => /\ conn[c].auto => Open(c) \subseteq srv[c].durable
                        /\ ~conn[c].auto /\ srv[c].up => Open(c) \subseteq srv[c].pending
      BY <1>0, <1>1, OpenKept
    <2> QED BY <1>2, <1>7, <2>1 DEF AckedKept
  <1>12. Settled(c)'
    BY <1>7 DEF Settled
  <1>13. BatchKept(c)'
    <2>1. Cardinality(g.rows) = 0
      BY <1>6, FS_EmptySet
    <2>2. Cardinality(g.rows) + g.left = BatchSize /\ g.left >= 1
      BY <1>3, <1>6, <2>1
    <2> QED BY <1>1, <1>2, <1>6, <1>7, <2>2 DEF BatchKept
  <1>14. (used[c] <= MaxRows[c])' /\ SessionOK(srv[c], used[c])'
    BY <1>0, <1>2 DEF OwnInv, SessionOK
  <1>15. OwnInv(c)'
    BY <1>10, <1>11, <1>12, <1>13, <1>14 DEF OwnInv
  <1>16. env' \in Envs /\ \A d \in Conns : EnvKeeps(d)
    BY <1>0, <1>2, EnvUnchanged
  <1>17. OwedKept(c)'
    BY <1>0, <1>2, <1>16, OwedFrame
  <1>18. Types' /\ \A d \in Conns : d # c => SameAt(d)
    BY <1>0, <1>8, <1>9, <1>16, ChangeAt
  <1> QED BY <1>15, <1>16, <1>17, <1>18, StepAt

\* A batch under way has a row left to write, on a connected handle.
LEMMA BatchUnderWay ==
    ASSUME OdbcInv, NEW c \in Conns, bulk[c].at = "running"
    PROVE  /\ conn[c].connected /\ report[c] = "none" /\ bulk[c].left \in 1..BatchSize
           /\ used[c] + bulk[c].left <= MaxRows[c] /\ used[c] < MaxRows[c]
           /\ Cardinality(bulk[c].rows) + bulk[c].left = BatchSize
           /\ bulk[c].rows \subseteq 1..used[c]
           /\ (bulk[c].auto <=> conn[c].auto)
           /\ ~conn[c].auto /\ ~unsure[c] /\ srv[c].up => bulk[c].rows \subseteq srv[c].pending
           /\ ~unsure[c] => IF conn[c].auto THEN unit[c] \subseteq srv[c].durable
                                            ELSE srv[c].up => unit[c] \subseteq srv[c].pending
  <1>1. OwnInv(c) /\ bulk[c] \in Bulks /\ used[c] \in Nat
    BY CallStart
  <1>2. BatchKept(c) /\ AckedKept(c)
    BY <1>1 DEF OwnInv
  <1>3. bulk[c].left \in 0..BatchSize
    BY <1>1 DEF Bulks
  <1>4. /\ conn[c].connected /\ report[c] = "none" /\ bulk[c].left >= 1
        /\ used[c] + bulk[c].left <= MaxRows[c]
        /\ Cardinality(bulk[c].rows) + bulk[c].left = BatchSize
        /\ ~bulk[c].auto /\ ~unsure[c] /\ srv[c].up => bulk[c].rows \subseteq srv[c].pending
        /\ bulk[c].rows \subseteq 1..used[c]
        /\ (bulk[c].auto <=> conn[c].auto)
    BY <1>2 DEF BatchKept
  <1>5. MaxRows[c] \in Nat /\ BatchSize \in Nat
    BY Constants, OdbcAssumption
  <1>6. bulk[c].left \in 1..BatchSize /\ used[c] < MaxRows[c]
    BY <1>1, <1>3, <1>4, <1>5
  <1>7. ~unsure[c] => IF conn[c].auto THEN unit[c] \subseteq srv[c].durable
                                      ELSE srv[c].up => unit[c] \subseteq srv[c].pending
    BY <1>2, <1>4 DEF AckedKept
  <1> QED BY <1>4, <1>6, <1>7

\* A row of the batch succeeds.
LEMMA BulkRowStep ==
    ASSUME OdbcInv, NEW c \in Conns, BulkRow(c) PROVE OdbcInv'
  <1> DEFINE row == used[c] + 1
             t == IF bulk[c].left = 1 THEN "done" ELSE "running"
             rows == bulk[c].rows \cup {row}
             g == [bulk[c] EXCEPT !.rows = rows, !.left = bulk[c].left - 1, !.at = t]
  <1>0. /\ used[c] \in Nat /\ srv[c] \in Sessions /\ conn[c] \in Handles /\ unit[c] \subseteq Rows
        /\ env \in Envs /\ OwnInv(c) /\ OwedKept(c) /\ Types /\ bulk[c] \in Bulks
    BY CallStart DEF OdbcInv
  <1>1. bulk[c].at = "running"
    BY DEF BulkRow
  <1>2. /\ conn[c].connected /\ report[c] = "none" /\ bulk[c].left \in 1..BatchSize
        /\ used[c] + bulk[c].left <= MaxRows[c] /\ used[c] < MaxRows[c]
        /\ Cardinality(bulk[c].rows) + bulk[c].left = BatchSize
        /\ bulk[c].rows \subseteq 1..used[c]
        /\ (bulk[c].auto <=> conn[c].auto)
        /\ ~conn[c].auto /\ ~unsure[c] /\ srv[c].up => bulk[c].rows \subseteq srv[c].pending
        /\ ~unsure[c] => IF conn[c].auto THEN unit[c] \subseteq srv[c].durable
                                         ELSE srv[c].up => unit[c] \subseteq srv[c].pending
    BY <1>1, BatchUnderWay
  <1>3. PICK o \in ExecuteSQL(Call(c), [op |-> "row", row |-> used[c] + 1]) :
          o.ok /\ conn' = [conn EXCEPT ![c].brk = o.brk] /\ Leaves(c, o)
    BY DEF BulkRow
  <1>4. /\ o \in Calls /\ SessionOK(o.srv, row) /\ srv[c].durable \subseteq o.srv.durable
        /\ Quiet(srv[c]) /\ Quiet(o.srv) =>
              /\ o.srv.up => srv[c].up /\ (o.srv.auto <=> srv[c].auto) /\ srv[c].pending \subseteq o.srv.pending
              /\ srv[c].up
              /\ srv[c].auto => row \in o.srv.durable
              /\ ~srv[c].auto => row \in o.srv.pending
        /\ row \in Rows
    BY <1>2, <1>3, RowWritten
  <1>5. o.srv \in Sessions /\ o.faults \in 0..MaxFaults /\ o.brk \in Breakers
    BY <1>4 DEF Calls
  <1> DEFINE h == [conn[c] EXCEPT !.brk = o.brk]
  <1>6. /\ conn' = [conn EXCEPT ![c] = h] /\ srv' = [srv EXCEPT ![c] = o.srv] /\ faults' = o.faults
        /\ used' = [used EXCEPT ![c] = row] /\ unit' = [unit EXCEPT ![c] = unit[c] \cup {row}]
        /\ UNCHANGED <<report, env>>
    BY <1>3 DEF BulkRow, Leaves
  <1>7. bulk' = [bulk EXCEPT ![c] = g]
    BY <1>0, <1>1 DEF BulkRow, Types, Bulks
  <1>8. h \in Handles /\ (h.connected <=> conn[c].connected) /\ (h.auto <=> conn[c].auto)
        /\ (h.inTxn <=> conn[c].inTxn)
    BY <1>0, <1>5, HandleBrk
  <1>9. BatchSize \in Nat \ {0} /\ MaxRows[c] \in Nat
    BY OdbcAssumption, Constants
  <1>10. g \in Bulks /\ g.rows = rows /\ g.left = bulk[c].left - 1 /\ g.at = t
         /\ (g.auto <=> bulk[c].auto)
    <2>1. bulk[c].left - 1 \in 0..BatchSize
      BY <1>2, <1>9
    <2>2. rows \in SUBSET Rows
      BY <1>0, <1>4 DEF Bulks
    <2>3. t \in {"idle", "running", "done", "failed", "undone", "stuck"}
      OBVIOUS
    <2> HIDE DEF rows, t
    <2>4. PICK b \in Bulks, r \in SUBSET Rows, l \in 0..BatchSize,
               q \in {"idle", "running", "done", "failed", "undone", "stuck"} :
            b = bulk[c] /\ r = rows /\ l = bulk[c].left - 1 /\ q = t
      BY <1>0, <2>1, <2>2, <2>3
    <2>5. g = [b EXCEPT !.rows = r, !.left = l, !.at = q]
      BY <2>4
    <2> HIDE DEF g
    <2>6. g \in Bulks /\ g.rows = r /\ g.left = l /\ g.at = q /\ (g.auto <=> b.auto)
      BY <2>5 DEF Bulks
    <2> QED BY <2>4, <2>6
  <1>11. rows \subseteq 1..row
    BY <1>0, <1>2
  <1>12. Cardinality(rows) = Cardinality(bulk[c].rows) + 1 /\ Cardinality(bulk[c].rows) \in Nat
    <2>1. IsFiniteSet(bulk[c].rows)
      <3>1. bulk[c].rows \subseteq 1..(row - 1)
        BY <1>0, <1>2
      <3>2. IsFiniteSet(1..(row - 1))
        BY <1>0, <1>2, FS_Interval
      <3> QED
        BY <3>1, <3>2, FS_Subset
    <2>3. Cardinality(bulk[c].rows) \in Nat
      BY <2>1, FS_CardinalityType
    <2>2. row \notin bulk[c].rows
      BY <1>0, <1>2
    <2> QED BY <2>1, <2>2, <2>3, FS_AddElement
  <1>14. (t = "running" => bulk[c].left # 1) /\ (t = "done" => bulk[c].left = 1)
         /\ t \in {"running", "done"}
    OBVIOUS
  <1>15. unit[c] \cup {row} \subseteq Rows /\ row \in Nat
    BY <1>0, <1>4
  <1> HIDE DEF g, h, t
  <1>16. /\ conn'[c] = h /\ srv'[c] = o.srv /\ used'[c] = row /\ unit'[c] = unit[c] \cup {row}
         /\ report'[c] = "none" /\ bulk'[c] = g
    BY <1>0, <1>2, <1>6, <1>7 DEF Types
  <1>u. /\ unsure' = [unsure EXCEPT ![c] = unsure'[c]] /\ unsure'[c] \in BOOLEAN
        /\ unsure'[c] <=> unsure[c] \/ ~Quiet(o.srv)
    BY <1>0, <1>3, LeavesUnsure
  <1>v. ~unsure'[c] => ~unsure[c] /\ Quiet(srv[c]) /\ Quiet(o.srv)
    BY <1>0, <1>u DEF OwnInv, FlagsAgree
  <1>17. TypedAt(c)'
    BY <1>0, <1>5, <1>8, <1>10, <1>15, <1>16, <1>u DEF TypedAt, Types
  <1>18. OnlyAt(c) /\ faults' \in 0..MaxFaults
    BY <1>0, <1>5, <1>6, <1>7, <1>16, <1>u DEF OnlyAt, Types
  <1>19. FlagsAgree(c)
    BY <1>0 DEF OwnInv
  <1>20. FlagsAgree(c)'
    BY <1>2, <1>4, <1>8, <1>16, <1>19, <1>v DEF FlagsAgree
  <1>21. AckedKept(c)'
    <2> SUFFICES ASSUME ~unsure'[c]
                 PROVE  IF conn[c].auto THEN unit[c] \cup {row} \subseteq o.srv.durable
                                        ELSE o.srv.up => unit[c] \cup {row} \subseteq o.srv.pending
      BY <1>8, <1>16 DEF AckedKept
    <2>1. srv[c].auto <=> conn[c].auto
      BY <1>2, <1>4, <1>19, <1>v DEF FlagsAgree
    <2> HIDE DEF row
    <2> QED BY <1>2, <1>4, <1>v, <2>1
  <1>22. Settled(c)'
    BY <1>16 DEF Settled
  <1>23. BatchKept(c)'
    <2>1. t = "running" => g.left >= 1 /\ row + g.left <= MaxRows[c] /\ Cardinality(rows) + g.left = BatchSize
      BY <1>0, <1>2, <1>9, <1>10, <1>12, <1>14
    <2>2. t = "done" => Cardinality(rows) = BatchSize
      BY <1>2, <1>9, <1>12, <1>14
    <2>3. ~conn[c].auto /\ ~unsure'[c] /\ o.srv.up => rows \subseteq o.srv.pending
      <3>1. ~unsure'[c] => (srv[c].auto <=> conn[c].auto)
        BY <1>2, <1>4, <1>19, <1>v DEF FlagsAgree
      <3> HIDE DEF row
      <3> QED BY <1>2, <1>4, <1>v, <3>1
    <2> HIDE DEF row, rows
    <2>4. g.auto <=> conn'[c].auto
      BY <1>2, <1>8, <1>10, <1>16
    <2>5. conn'[c].connected
      BY <1>2, <1>8, <1>16
    <2>6. ~g.auto /\ ~unsure'[c] /\ srv'[c].up => rows \subseteq srv'[c].pending
      BY <1>2, <1>10, <1>16, <2>3
    <2>7. g.at \in {"running", "done"} /\ g.at = t /\ g.rows = rows
      BY <1>10, <1>14
    <2> QED BY <1>11, <1>16, <2>1, <2>2, <2>4, <2>5, <2>6, <2>7 DEF BatchKept
  <1>24. (used[c] <= MaxRows[c])' /\ SessionOK(srv[c], used[c])'
    <2>1. row <= MaxRows[c]
      BY <1>0, <1>2, <1>9
    <2>2. SessionOK(srv'[c], used'[c])
      BY <1>4, <1>16
    <2> QED BY <1>16, <2>1, <2>2 DEF SessionOK
  <1>25. OwnInv(c)'
    BY <1>20, <1>21, <1>22, <1>23, <1>24 DEF OwnInv
  <1>26. OwedKept(c)'
    <2>1. ~unsure'[c] /\ srv'[c].up =>
              srv[c].up /\ srv[c].pending \subseteq srv'[c].pending \cup srv'[c].durable
      BY <1>4, <1>16, <1>v
    <2> QED BY <1>0, <1>4, <1>6, <1>8, <1>16, <1>v, <2>1, OwedStays
  <1>27. env' \in Envs /\ \A d \in Conns : EnvKeeps(d)
    BY <1>0, <1>6, EnvUnchanged
  <1>28. Types' /\ \A d \in Conns : d # c => SameAt(d)
    BY <1>0, <1>17, <1>18, <1>27, ChangeAt
  <1> QED BY <1>25, <1>26, <1>27, <1>28, StepAt

\* A row fails: the first one, or a later one, after which the batch is
\* rolled back through the connection's endTransaction.
LEMMA BulkRowFailsStep ==
    ASSUME OdbcInv, NEW c \in Conns, BulkRowFails(c) PROVE OdbcInv'
  <1> DEFINE row == used[c] + 1
  <1>0. /\ used[c] \in Nat /\ srv[c] \in Sessions /\ conn[c] \in Handles /\ unit[c] \subseteq Rows
        /\ env \in Envs /\ OwnInv(c) /\ OwedKept(c) /\ Types /\ bulk[c] \in Bulks
    BY CallStart DEF OdbcInv
  <1>1. bulk[c].at = "running" /\ report' = report /\ used' = [used EXCEPT ![c] = row]
    BY DEF BulkRowFails
  <1>2. /\ conn[c].connected /\ report[c] = "none" /\ used[c] < MaxRows[c]
        /\ bulk[c].rows \subseteq 1..used[c]
        /\ (bulk[c].auto <=> conn[c].auto)
        /\ ~conn[c].auto /\ ~unsure[c] /\ srv[c].up => bulk[c].rows \subseteq srv[c].pending
        /\ ~unsure[c] => IF conn[c].auto THEN unit[c] \subseteq srv[c].durable
                                         ELSE srv[c].up => unit[c] \subseteq srv[c].pending
    BY <1>1, BatchUnderWay
  <1>3. PICK o \in ExecuteSQL(Call(c), [op |-> "row", row |-> used[c] + 1]) :
          /\ ~o.ok
          /\ \/ /\ bulk[c].rows = {}
                /\ conn' = [conn EXCEPT ![c].brk = o.brk]
                /\ Leaves(c, o)
                /\ bulk' = [bulk EXCEPT ![c].at = "failed"]
                /\ UNCHANGED <<unit, env>>
             \/ /\ bulk[c].rows # {}
                /\ \E e \in EndTransaction(conn[c], o, "rolledBack") :
                      /\ conn' = [conn EXCEPT ![c].brk = e.brk, ![c].inTxn = e.inTxn]
                      /\ Leaves(c, e)
                      /\ bulk' = [bulk EXCEPT ![c].at = IF e.ok THEN "undone" ELSE "stuck"]
                      /\ unit' = [unit EXCEPT ![c] = IF e.ok THEN {} ELSE unit[c]]
                /\ Waive(c)
    BY DEF BulkRowFails
  <1>4. /\ o \in Calls /\ SessionOK(o.srv, row) /\ srv[c].durable \subseteq o.srv.durable
        /\ Quiet(srv[c]) /\ Quiet(o.srv) => (o.srv.up => o.srv = srv[c])
    BY <1>2, <1>3, RowWritten
  <1>5. o.srv \in Sessions /\ o.faults \in 0..MaxFaults /\ o.brk \in Breakers
    BY <1>4 DEF Calls
  <1>6. row \in Nat /\ row <= MaxRows[c] /\ bulk[c].rows \subseteq 1..row
    <2>1. MaxRows[c] \in Nat
      BY Constants
    <2> QED BY <1>0, <1>2, <2>1
  <1> HIDE DEF row
  <1>7. FlagsAgree(c) /\ SessionOK(srv[c], used[c])
    BY <1>0 DEF OwnInv
  <1>8. used'[c] = row /\ report'[c] = "none"
    BY <1>0, <1>1, <1>2 DEF Types
  <1>9. Settled(c)'
    BY <1>8 DEF Settled
  <1>10. CASE /\ bulk[c].rows = {}
              /\ conn' = [conn EXCEPT ![c].brk = o.brk]
              /\ Leaves(c, o)
              /\ bulk' = [bulk EXCEPT ![c].at = "failed"]
              /\ UNCHANGED <<unit, env>>
    <2> DEFINE h == [conn[c] EXCEPT !.brk = o.brk]
               g == [bulk[c] EXCEPT !.at = "failed"]
    <2>1. /\ conn' = [conn EXCEPT ![c] = h] /\ srv' = [srv EXCEPT ![c] = o.srv] /\ faults' = o.faults
          /\ bulk' = [bulk EXCEPT ![c] = g]
      BY <1>10 DEF Leaves
    <2>2. h \in Handles /\ (h.connected <=> conn[c].connected) /\ (h.auto <=> conn[c].auto)
          /\ (h.inTxn <=> conn[c].inTxn)
      BY <1>0, <1>5, HandleBrk
    <2>3. g \in Bulks /\ g.rows = bulk[c].rows /\ g.at = "failed" /\ (g.auto <=> bulk[c].auto)
      BY <1>0, BulkEnds
    <2> HIDE DEF h, g
    <2>u. /\ unsure' = [unsure EXCEPT ![c] = unsure'[c]] /\ unsure'[c] \in BOOLEAN
          /\ unsure'[c] <=> unsure[c] \/ ~Quiet(o.srv)
      BY <1>0, <1>10, LeavesUnsure
    <2>v. ~unsure'[c] => ~unsure[c] /\ Quiet(srv[c]) /\ Quiet(o.srv)
      BY <1>7, <2>u DEF FlagsAgree
    <2>4. conn'[c] = h /\ srv'[c] = o.srv /\ unit'[c] = unit[c] /\ bulk'[c] = g
      BY <1>0, <1>10, <2>1 DEF Types
    <2>5. TypedAt(c)'
      BY <1>0, <1>5, <1>6, <1>8, <2>2, <2>3, <2>4, <2>u DEF TypedAt, Types
    <2>6. OnlyAt(c) /\ faults' \in 0..MaxFaults
      BY <1>0, <1>1, <1>5, <1>8, <1>10, <2>1, <2>4, <2>u DEF OnlyAt, Types
    <2>7. FlagsAgree(c)'
      BY <1>2, <1>4, <1>7, <1>8, <2>2, <2>4, <2>v DEF FlagsAgree
    <2>8. AckedKept(c)'
      BY <1>2, <1>4, <1>8, <2>2, <2>4, <2>v DEF AckedKept
    <2>9. BatchKept(c)'
      <3>1. g.auto <=> conn'[c].auto
        BY <1>2, <2>2, <2>3, <2>4
      <3> QED BY <1>6, <1>8, <2>3, <2>4, <3>1 DEF BatchKept
    <2>10. (used[c] <= MaxRows[c])' /\ SessionOK(srv[c], used[c])'
      BY <1>4, <1>6, <1>8, <2>4 DEF SessionOK
    <2>11. OwnInv(c)'
      BY <1>9, <2>7, <2>8, <2>9, <2>10 DEF OwnInv
    <2>12. OwedKept(c)'
      <3>1. ~unsure'[c] /\ srv'[c].up =>
                srv[c].up /\ srv[c].pending \subseteq srv'[c].pending \cup srv'[c].durable
        BY <1>4, <2>4, <2>v
      <3> QED BY <1>0, <1>4, <1>8, <1>10, <2>2, <2>4, <2>v, <3>1, OwedStays
    <2>13. env' \in Envs /\ \A d \in Conns : EnvKeeps(d)
      BY <1>0, <1>10, EnvUnchanged
    <2>14. Types' /\ \A d \in Conns : d # c => SameAt(d)
      BY <1>0, <2>5, <2>6, <2>13, ChangeAt
    <2> QED BY <2>11, <2>12, <2>13, <2>14, StepAt
  <1>11. CASE /\ bulk[c].rows # {}
              /\ \E e \in EndTransaction(conn[c], o, "rolledBack") :
                    /\ conn' = [conn EXCEPT ![c].brk = e.brk, ![c].inTxn = e.inTxn]
                    /\ Leaves(c, e)
                    /\ bulk' = [bulk EXCEPT ![c].at = IF e.ok THEN "undone" ELSE "stuck"]
                    /\ unit' = [unit EXCEPT ![c] = IF e.ok THEN {} ELSE unit[c]]
              /\ Waive(c)
    <2>1. PICK e \in EndTransaction(conn[c], o, "rolledBack") :
            /\ conn' = [conn EXCEPT ![c].brk = e.brk, ![c].inTxn = e.inTxn]
            /\ Leaves(c, e)
            /\ bulk' = [bulk EXCEPT ![c].at = IF e.ok THEN "undone" ELSE "stuck"]
            /\ unit' = [unit EXCEPT ![c] = IF e.ok THEN {} ELSE unit[c]]
      BY <1>11
    <2> DEFINE a == Apply(o.srv, [op |-> "rolledBack"])
               h == [conn[c] EXCEPT !.brk = e.brk, !.inTxn = e.inTxn]
               t == IF e.ok THEN "undone" ELSE "stuck"
               g == [bulk[c] EXCEPT !.at = t]
               n == IF e.ok THEN {} ELSE unit[c]
    <2>2. "rolledBack" \in Kinds
      BY DEF Kinds
    <2>3. /\ e.brk \in Breakers /\ e.srv \in Sessions /\ e.faults \in 0..MaxFaults
          /\ e.ok \in BOOLEAN /\ e.inTxn \in BOOLEAN
          /\ e.inTxn <=> IF e.ok THEN ~conn[c].auto ELSE conn[c].inTxn
          /\ SessionOK(e.srv, row) /\ o.srv.durable \subseteq e.srv.durable
          /\ conn[c].auto /\ ~conn[c].inTxn => e.srv = o.srv
          /\ ~(conn[c].auto /\ ~conn[c].inTxn) => After(o, a, row, e)
      <3>1. PICK kind \in Kinds \cup {"invalid"} : kind = "rolledBack"
        BY <2>2
      <3> QED BY <1>0, <1>4, <1>6, <3>1, EndOutcome
    <2>4. (a.up <=> o.srv.up) /\ (a.auto <=> o.srv.auto) /\ a.pending = {} /\ a.durable = o.srv.durable
      BY <1>5, <2>2, EndSession DEF SameWire
    <2>5. h \in Handles /\ (h.connected <=> conn[c].connected) /\ (h.auto <=> conn[c].auto)
          /\ (h.inTxn <=> e.inTxn)
      <3>1. conn[c] \in Handles /\ e.inTxn \in BOOLEAN /\ e.brk \in Breakers
        BY <1>0, <2>3
      <3> QED BY <3>1, HandleBrkTxn
    <2>6. t \in {"failed", "undone", "stuck"} /\ (t = "undone" <=> e.ok) /\ t # "done" /\ t # "running"
      OBVIOUS
    <2>7. /\ conn' = [conn EXCEPT ![c] = h] /\ srv' = [srv EXCEPT ![c] = e.srv] /\ faults' = e.faults
          /\ bulk' = [bulk EXCEPT ![c] = g] /\ unit' = [unit EXCEPT ![c] = n]
      BY <1>0, <2>1 DEF Leaves, Types
    <2> HIDE DEF a, h, t
    <2>8. g \in Bulks /\ g.rows = bulk[c].rows /\ g.at = t /\ (g.auto <=> bulk[c].auto)
      <3>1. PICK b \in Bulks, q \in {"failed", "undone", "stuck"} : b = bulk[c] /\ q = t
        BY <1>0, <2>6
      <3>2. g = [b EXCEPT !.at = q]
        BY <3>1
      <3> HIDE DEF g
      <3>3. g \in Bulks /\ g.rows = b.rows /\ g.at = q /\ (g.auto <=> b.auto)
        BY <3>2, BulkEnds
      <3> QED BY <3>1, <3>3
    <2>9. n \subseteq Rows
      BY <1>0
    <2> HIDE DEF g, n
    <2>u. /\ unsure' = [unsure EXCEPT ![c] = unsure'[c]] /\ unsure'[c] \in BOOLEAN
          /\ unsure'[c] <=> unsure[c] \/ ~Quiet(e.srv)
      BY <1>0, <2>1, LeavesUnsure
    <2>v. ~unsure'[c] => ~unsure[c] /\ Quiet(srv[c]) /\ Quiet(e.srv)
      BY <1>7, <2>u DEF FlagsAgree
    <2>10. conn'[c] = h /\ srv'[c] = e.srv /\ unit'[c] = n /\ bulk'[c] = g
      BY <1>0, <2>7 DEF Types
    <2>11. TypedAt(c)'
      BY <1>0, <1>6, <1>8, <2>3, <2>5, <2>8, <2>9, <2>10, <2>u DEF TypedAt, Types
    <2>12. OnlyAt(c) /\ faults' \in 0..MaxFaults
      BY <1>0, <1>1, <1>8, <2>3, <2>7, <2>10, <2>u DEF OnlyAt, Types
    <2>13. ~unsure[c] => /\ conn[c].inTxn <=> ~conn[c].auto
                         /\ srv[c].up => (srv[c].auto <=> conn[c].auto)
      BY <1>2, <1>7 DEF FlagsAgree
    <2>w. ~unsure'[c] /\ conn[c].auto => e.srv = o.srv /\ (o.srv.up => o.srv = srv[c])
      BY <1>4, <2>3, <2>13, <2>v
    <2>x. ASSUME ~unsure'[c], ~conn[c].auto
          PROVE  /\ e.ok => srv[c].up /\ o.srv = srv[c] /\ e.srv = a
                 /\ ~e.ok /\ e.srv.up => e.srv = srv[c]
      <3>0. After(o, a, row, e) /\ Quiet(e.srv) /\ Quiet(srv[c])
        BY <2>3, <2>v, <2>x
      <3>1. CASE Quiet(o.srv)
        <4>1. /\ e.ok => o.srv.up /\ e.srv = a
              /\ ~e.ok /\ e.srv.up => e.srv = o.srv
          BY <3>0, <3>1 DEF After
        <4>2. o.srv.up => o.srv = srv[c]
          BY <1>4, <3>0, <3>1
        <4> QED BY <4>1, <4>2
      <3>2. CASE ~Quiet(o.srv)
        BY <3>0, <3>2 DEF After
      <3> QED BY <3>1, <3>2
    <2>14. FlagsAgree(c)'
      <3> SUFFICES ASSUME ~unsure'[c]
                   PROVE  /\ e.inTxn <=> ~conn[c].auto
                          /\ e.srv.up => (e.srv.auto <=> conn[c].auto)
        BY <1>2, <1>8, <2>5, <2>10, <2>v DEF FlagsAgree
      <3>1. e.inTxn <=> ~conn[c].auto
        BY <2>3, <2>13, <2>v
      <3>2. e.srv.up => (e.srv.auto <=> conn[c].auto)
        BY <2>4, <2>13, <2>v, <2>w, <2>x
      <3> QED BY <3>1, <3>2
    <2>15. AckedKept(c)'
      <3> SUFFICES ASSUME ~unsure'[c]
                   PROVE  IF conn[c].auto THEN n \subseteq e.srv.durable
                                          ELSE e.srv.up => n \subseteq e.srv.pending
        BY <1>8, <2>5, <2>10 DEF AckedKept
      <3>1. CASE e.ok
        BY <3>1 DEF n
      <3>2. CASE ~e.ok
        <4>1. n = unit[c] /\ (e.srv.up => e.srv = srv[c])
          BY <2>w, <2>x, <3>2 DEF n
        <4> QED BY <1>2, <1>4, <2>3, <2>v, <4>1
      <3> QED BY <3>1, <3>2
    <2>16. BatchKept(c)'
      <3>1. ASSUME ~conn[c].auto, ~unsure'[c], e.ok
            PROVE  bulk[c].rows \cap (e.srv.pending \cup e.srv.durable) = {}
        <4>1. e.srv = a /\ o.srv = srv[c] /\ srv[c].up
          BY <2>x, <3>1
        <4>2. e.srv.pending = {} /\ e.srv.durable = srv[c].durable
          BY <2>4, <4>1
        <4>3. bulk[c].rows \subseteq srv[c].pending /\ srv[c].pending \cap srv[c].durable = {}
          BY <1>2, <1>7, <2>v, <3>1, <4>1 DEF SessionOK
        <4> QED BY <4>2, <4>3
      <3>2. g.auto <=> conn'[c].auto
        BY <1>2, <2>5, <2>8, <2>10
      <3>3. ~g.auto /\ ~unsure'[c] /\ g.at = "undone" =>
              g.rows \cap (srv'[c].pending \cup srv'[c].durable) = {}
        BY <1>2, <1>8, <2>6, <2>8, <2>10, <3>1
      <3>4. g.at # "running" /\ g.at # "done" /\ g.rows \subseteq 1..used'[c]
        BY <1>6, <1>8, <2>6, <2>8
      <3> QED BY <2>10, <3>2, <3>3, <3>4 DEF BatchKept
    <2>17. (used[c] <= MaxRows[c])' /\ SessionOK(srv[c], used[c])'
      BY <1>6, <1>8, <2>3, <2>10 DEF SessionOK
    <2>18. OwnInv(c)'
      BY <1>9, <2>14, <2>15, <2>16, <2>17 DEF OwnInv
    <2>19. env' \in Envs /\ env'.owed[c] = {} /\ \A d \in Conns : d # c => EnvKeeps(d)
      BY <1>0, <1>11, EnvWaived
    <2>20. OwedKept(c)'
      BY <2>19 DEF OwedKept
    <2>21. Types' /\ \A d \in Conns : d # c => SameAt(d)
      BY <1>0, <2>11, <2>12, <2>19, ChangeAt
    <2> QED BY <2>18, <2>19, <2>20, <2>21, StepAt
  <1> QED BY <1>3, <1>10, <1>11

\* The server takes a request whose call has returned: the connection has
\* been unsure since then.
LEMMA ServerCatchesUpStep ==
    ASSUME OdbcInv, NEW c \in Conns, ServerCatchesUp(c) PROVE OdbcInv'
  <1>0. /\ Call(c) \in Calls /\ Call(c).srv = srv[c] /\ used[c] \in Nat /\ SessionOK(srv[c], used[c])
        /\ env \in Envs /\ OwnInv(c) /\ OwedKept(c) /\ Types
    BY CallStart DEF OdbcInv
  <1>1. PICK x \in Serve(Call(c)) : srv' = [srv EXCEPT ![c] = x.srv] /\ faults' = x.faults
    BY DEF ServerCatchesUp
  <1>2. UNCHANGED <<conn, used, unit, report, unsure, bulk, env>>
    BY DEF ServerCatchesUp
  <1>3. /\ x \in Calls /\ Busy(x.srv, srv[c], used[c]) /\ srv[c].sent # <<>> /\ srv[c].up
    BY <1>0, ServeOutcome
  <1>4. x.srv \in Sessions /\ SessionOK(x.srv, used[c]) /\ x.faults \in 0..MaxFaults
    BY <1>3 DEF Busy, Calls
  <1>5. unsure[c] /\ conn[c].connected
    BY <1>0, <1>3 DEF OwnInv, FlagsAgree, Quiet
  <1>6. srv'[c] = x.srv
    BY <1>0, <1>1 DEF Types
  <1>7. OnlyAt(c) /\ TypedAt(c)' /\ faults' \in 0..MaxFaults
    BY <1>0, <1>1, <1>2, <1>4, <1>6 DEF OnlyAt, TypedAt, Types, Bulks
  <1>8. (used[c] <= MaxRows[c])' /\ SessionOK(srv[c], used[c])'
    BY <1>0, <1>2, <1>4, <1>6 DEF OwnInv, SessionOK
  <1>9. FlagsAgree(c)' /\ AckedKept(c)' /\ Settled(c)'
    BY <1>2, <1>5 DEF FlagsAgree, AckedKept, Settled
  <1>10. BatchKept(c)'
    <2>1. BatchKept(c)
      BY <1>0 DEF OwnInv
    <2> QED BY <1>2, <1>5, <2>1 DEF BatchKept
  <1>11. OwnInv(c)'
    BY <1>8, <1>9, <1>10 DEF OwnInv
  <1>12. OwedKept(c)'
    BY <1>2, <1>5 DEF OwedKept
  <1>13. env' \in Envs /\ \A d \in Conns : EnvKeeps(d)
    BY <1>0, <1>2, EnvUnchanged
  <1>14. Types' /\ \A d \in Conns : d # c => SameAt(d)
    BY <1>0, <1>7, <1>13, ChangeAt
  <1> QED BY <1>11, <1>12, <1>13, <1>14, StepAt

-----------------------------------------------------------------------------
(* The theorems.                                                           *)

\* No connection is open and nothing has been written.
LEMMA OdbcStart == Init => OdbcInv
  <1> SUFFICES ASSUME Init PROVE OdbcInv
    OBVIOUS
  <1> DEFINE b0 == [state |-> "closed", failures |-> 0, successes |-> 0, halfOpen |-> 0]
             h0 == [connected |-> FALSE, auto |-> TRUE, inTxn |-> FALSE, brk |-> b0]
             s0 == [up |-> FALSE, auto |-> TRUE, pending |-> {}, durable |-> {},
                    sent |-> <<>>, answers |-> <<>>]
  <1>1. /\ conn = [c \in Conns |-> h0] /\ srv = [c \in Conns |-> s0] /\ faults = 0
        /\ used = [c \in Conns |-> 0] /\ unit = [c \in Conns |-> {}]
        /\ report = [c \in Conns |-> "none"] /\ unsure = [c \in Conns |-> FALSE]
        /\ bulk = [c \in Conns |-> NoBulk] /\ env = NoEnvCall
    BY DEF Init
  <1>2. b0 \in Breakers
    BY DEF Breakers
  <1>3. h0 \in Handles /\ ~h0.connected
    <2> HIDE DEF b0
    <2> QED BY <1>2 DEF Handles
  <1>4. s0 \in Sessions /\ ~s0.up /\ s0.pending = {} /\ s0.durable = {} /\ Quiet(s0) /\ Len(s0.sent) = 0
    <2>1. s0 \in Sessions
      BY DEF Sessions
    <2> QED BY <2>1 DEF Quiet
  <1>5. faults \in 0..MaxFaults
    BY <1>1, OdbcAssumption
  <1> HIDE DEF h0, s0
  <1>6. conn \in [Conns -> Handles] /\ srv \in [Conns -> Sessions] /\ used \in [Conns -> Nat]
    BY <1>1, <1>3, <1>4
  <1>7. unit \in [Conns -> SUBSET Rows] /\ report \in [Conns -> Kinds \cup {"none", "invalid"}]
    BY <1>1
  <1>8. unsure \in [Conns -> BOOLEAN]
    BY <1>1
  <1>9. bulk \in [Conns -> Bulks] /\ env \in Envs
    BY <1>1, Constants
  <1>10. Types
    BY <1>5, <1>6, <1>7, <1>8, <1>9 DEF Types, Bulks, Envs
  <1>11. ASSUME NEW c \in Conns PROVE ConnInv(c)
    <2>1. /\ conn[c] = h0 /\ srv[c] = s0 /\ used[c] = 0 /\ unit[c] = {} /\ report[c] = "none"
          /\ bulk[c] = NoBulk
      BY <1>1
    <2>2. env.owed[c] = {}
      BY <1>1 DEF NoEnvCall
    <2>3. used[c] <= MaxRows[c]
      BY <2>1, Constants
    <2>4. SessionOK(srv[c], used[c])
      BY <1>4, <2>1 DEF SessionOK
    <2>5. FlagsAgree(c) /\ AckedKept(c)
      BY <1>3, <1>4, <2>1 DEF FlagsAgree, AckedKept
    <2>6. Settled(c)
      BY <2>1 DEF Settled
    <2>7. BatchKept(c)
      BY <2>1 DEF BatchKept, NoBulk
    <2>8. OwedKept(c)
      BY <2>2 DEF OwedKept
    <2> QED BY <2>3, <2>4, <2>5, <2>6, <2>7, <2>8 DEF ConnInv
  <1> QED BY <1>10, <1>11 DEF OdbcInv

\* Every call keeps the invariant, and so does a step that changes nothing.
LEMMA OdbcStep == OdbcInv /\ [Next]_vars => OdbcInv'
  <1> SUFFICES ASSUME OdbcInv, [Next]_vars PROVE OdbcInv'
    OBVIOUS
  <1>1. CASE UNCHANGED vars
    <2>1. UNCHANGED <<conn, srv, faults, used, unit, report, unsure, bulk>> /\ env' = env
      BY <1>1 DEF vars
    <2>2. env \in Envs
      BY DEF OdbcInv, Types, Envs
    <2>3. env' \in Envs /\ \A d \in Conns : EnvKeeps(d)
      BY <2>1, <2>2, EnvUnchanged
    <2>4. ASSUME NEW d \in Conns PROVE OwedKept(d)'
      <3>1. OwedKept(d)
        BY DEF OdbcInv, ConnInv
      <3> QED BY <2>1, <2>3, <3>1, OwedFrame
    <2> QED BY <2>1, <2>3, <2>4, EnvOnly
  <1>2. ASSUME NEW c \in Conns, Disconnect(c) PROVE OdbcInv'
    BY <1>2, DisconnectStep
  <1>3. ASSUME NEW c \in Conns, SetIsolation(c) PROVE OdbcInv'
    BY <1>3, SetIsolationStep
  <1>4. ASSUME NEW c \in Conns, Execute(c) PROVE OdbcInv'
    BY <1>4, ExecuteStep
  <1>5. ASSUME NEW c \in Conns, BulkStart(c) PROVE OdbcInv'
    BY <1>5, BulkStartStep
  <1>6. ASSUME NEW c \in Conns, BulkRow(c) PROVE OdbcInv'
    BY <1>6, BulkRowStep
  <1>7. ASSUME NEW c \in Conns, BulkRowFails(c) PROVE OdbcInv'
    BY <1>7, BulkRowFailsStep
  <1>8. ASSUME NEW c \in Conns, NEW on \in BOOLEAN, EstablishConnection(c, on) PROVE OdbcInv'
    BY <1>8, EstablishStep
  <1>9. ASSUME NEW c \in Conns, NEW on \in BOOLEAN, SetAutocommit(c, on) PROVE OdbcInv'
    BY <1>9, SetAutocommitStep
  <1>10. ASSUME NEW c \in Conns, NEW on \in BOOLEAN, SetAutocommitUnconnected(c, on) PROVE OdbcInv'
    BY <1>10, SetAutocommitUnconnectedStep
  <1>11. ASSUME NEW c \in Conns, NEW kind \in Kinds \cup {"invalid"}, EndTran(c, kind) PROVE OdbcInv'
    BY <1>11, EndTranStep
  <1>12. ASSUME NEW kind \in Kinds, EnvEndTranStart(kind) PROVE OdbcInv'
    BY <1>12, EnvEndTranStartStep
  <1>13. CASE EnvEndTranStep
    BY <1>13, EnvEndTranStepStep
  <1>14. CASE EnvEndTranSkip
    BY <1>14, EnvEndTranSkipStep
  <1>15. CASE EnvEndTranReturn
    BY <1>15, EnvEndTranReturnStep
  <1>16. ASSUME NEW c \in Conns, ServerCatchesUp(c) PROVE OdbcInv'
    BY <1>16, ServerCatchesUpStep
  <1> QED BY <1>1, <1>2, <1>3, <1>4, <1>5, <1>6, <1>7, <1>8, <1>9, <1>10, <1>11, <1>12, <1>13,
             <1>14, <1>15, <1>16 DEF Next

\* The inductive invariant holds in every reachable state: handle, session
\* and acknowledged rows of each connection agree.
THEOREM OdbcInductive == Spec => []OdbcInv
  BY OdbcStart, OdbcStep, PTL DEF Spec

\* The state is well typed: no counter of a breaker goes below zero, the
\* rows handed out stay within bounds and a broken session has an empty wire.
THEOREM OdbcTypeCorrect == Spec => []TypeOK
  <1>1. OdbcInv => TypeOK
    <2> SUFFICES ASSUME OdbcInv PROVE TypeOK
      OBVIOUS
    <2>1. \A c \in Conns :
             /\ used[c] <= MaxRows[c]
             /\ ~srv[c].up => srv[c].sent = <<>> /\ srv[c].answers = <<>>
      BY DEF OdbcInv, ConnInv, SessionOK, Quiet
    <2>2. Types
      BY DEF OdbcInv
    <2> QED BY <2>1, <2>2 DEF TypeOK, Types
  <1> QED BY <1>1, OdbcInductive, PTL

\* What SQLEndTran reports is true of the server, on every connection that
\* has failed no SQL_ATTR_AUTOCOMMIT call and given up on no answer since it
\* was opened.
THEOREM EndTranTellsTheTruth == Spec => []EndTranSettles
  <1>1. OdbcInv => EndTranSettles
    BY DEF OdbcInv, ConnInv, Settled, EndTranSettles
  <1> QED BY <1>1, OdbcInductive, PTL

\* A bulk operation in manual-commit mode is all or nothing, on such a
\* connection.
THEOREM BatchesAreAtomic == Spec => []BatchAllOrNothing
  <1>1. OdbcInv => BatchAllOrNothing
    BY DEF OdbcInv, ConnInv, BatchKept, BatchAllOrNothing
  <1> QED BY <1>1, OdbcInductive, PTL

\* A successful SQLEndTran on the environment has made durable what was
\* acknowledged on every such connection before it.
THEOREM EnvCommitKeepsItsWord == Spec => []EnvCommitDurable
  <1>1. OdbcInv => EnvCommitDurable
    <2> SUFFICES ASSUME OdbcInv, env.running, env.next = N + 1, env.kind = "committed",
                        NEW c \in Conns, ~unsure[c]
                 PROVE  env.owed[c] \subseteq srv[c].durable
      BY DEF EnvCommitDurable
    <2>1. c < env.next
      BY Constants DEF Conns
    <2> QED BY <2>1 DEF OdbcInv, ConnInv, OwedKept
  <1> QED BY <1>1, OdbcInductive, PTL

-----------------------------------------------------------------------------
(* The slots of a half-open breaker.                                       *)

SlotKept(c) ==
    conn'[c].brk.halfOpen > conn[c].brk.halfOpen =>
        conn[c].auto /\ (report'[c] # "none" \/ bulk'[c].at = "undone")

\* A step that sets the handle of one connection and takes no slot.
LEMMA NoSlotTaken ==
    ASSUME OdbcInv, NEW c \in Conns, NEW v, conn' = [conn EXCEPT ![c] = v], NEW b \in Breakers,
           v.brk = b, b.halfOpen <= conn[c].brk.halfOpen
    PROVE  \A d \in Conns : SlotKept(d)
  <1>1. \A d \in Conns : conn[d].brk.halfOpen \in Nat
    BY DEF OdbcInv, Types, Handles, Breakers
  <1>2. b.halfOpen \in Nat
    BY DEF Breakers
  <1>3. ASSUME NEW d \in Conns PROVE ~(conn'[d].brk.halfOpen > conn[d].brk.halfOpen)
    <2>1. CASE d = c
      <3>1. conn'[d] = v
        BY <2>1 DEF OdbcInv, Types
      <3> QED BY <1>1, <1>2, <2>1, <3>1
    <2>2. CASE d # c
      <3>1. conn'[d] = conn[d]
        BY <2>2 DEF OdbcInv, Types
      <3> QED BY <1>1, <3>1
    <2> QED BY <2>1, <2>2
  <1> QED BY <1>3 DEF SlotKept

\* A step that ends a transaction: a slot is kept in autocommit mode only,
\* by an endTransaction that succeeds.
LEMMA SlotAtEnd ==
    ASSUME OdbcInv, NEW c \in Conns, NEW e, e.brk \in Breakers, e.inTxn \in BOOLEAN,
           conn' = [conn EXCEPT ![c].brk = e.brk, ![c].inTxn = e.inTxn],
           e.brk.halfOpen <= conn[c].brk.halfOpen \/ (conn[c].auto /\ e.ok),
           e.ok => report'[c] # "none" \/ bulk'[c].at = "undone"
    PROVE  \A d \in Conns : SlotKept(d)
  <1> DEFINE h == [conn[c] EXCEPT !.brk = e.brk, !.inTxn = e.inTxn]
  <1>1. conn[c] \in Handles /\ conn \in [Conns -> Handles]
    BY DEF OdbcInv, Types
  <1>2. h.brk = e.brk
    <2>1. PICK g \in Handles, b \in Breakers, w \in BOOLEAN : g = conn[c] /\ b = e.brk /\ w = e.inTxn
      BY <1>1
    <2>2. [g EXCEPT !.brk = b, !.inTxn = w].brk = b
      BY DEF Handles
    <2> QED BY <2>1, <2>2
  <1>3. conn' = [conn EXCEPT ![c] = h]
    BY <1>1
  <1> HIDE DEF h
  <1>4. CASE e.brk.halfOpen <= conn[c].brk.halfOpen
    BY <1>2, <1>3, <1>4, NoSlotTaken
  <1>5. CASE conn[c].auto /\ e.ok
    <2>1. ASSUME NEW d \in Conns, d # c PROVE SlotKept(d)
      <3>1. conn'[d] = conn[d] /\ conn[d].brk.halfOpen \in Nat
        BY <1>1, <1>3, <2>1 DEF Handles, Breakers
      <3>2. PICK n \in Nat : n = conn[d].brk.halfOpen
        BY <3>1
      <3>3. n = conn'[d].brk.halfOpen
        BY <3>1, <3>2, Zenon
      <3>4. ~(n > n)
        OBVIOUS
      <3> QED BY <3>2, <3>3, <3>4, Zenon DEF SlotKept
    <2>2. SlotKept(c)
      BY <1>5 DEF SlotKept
    <2> QED BY <2>1, <2>2
  <1> QED BY <1>4, <1>5

\* Only what executeSQL and endTransaction do to the breaker matters.
LEMMA SlotStep ==
    ASSUME OdbcInv, Next PROVE \A d \in Conns : SlotKept(d)
  <1> USE DEF OdbcInv, Types
  <1>0. ASSUME NEW c \in Conns
        PROVE  /\ Call(c) \in Calls /\ Call(c).srv = srv[c] /\ Call(c).brk = conn[c].brk
               /\ used[c] \in Nat /\ SessionOK(srv[c], used[c]) /\ conn[c] \in Handles
               /\ conn[c].brk \in Breakers /\ conn[c].brk.halfOpen \in Nat
    <2>1. /\ Call(c) \in Calls /\ Call(c).srv = srv[c] /\ Call(c).brk = conn[c].brk
          /\ used[c] \in Nat /\ SessionOK(srv[c], used[c]) /\ conn[c] \in Handles
      BY CallStart
    <2> QED BY <2>1 DEF Handles, Breakers
  <1>1. ASSUME NEW c \in Conns, Disconnect(c) PROVE \A d \in Conns : SlotKept(d)
    <2> DEFINE h == [conn[c] EXCEPT !.connected = FALSE, !.inTxn = FALSE]
    <2>1. conn' = [conn EXCEPT ![c] = h]
      BY <1>1 DEF Disconnect
    <2>2. h.brk = conn[c].brk /\ conn[c].brk.halfOpen <= conn[c].brk.halfOpen /\ conn[c].brk \in Breakers
      BY <1>0 DEF Handles
    <2> HIDE DEF h
    <2> QED BY <2>1, <2>2, NoSlotTaken
  <1>2. ASSUME NEW c \in Conns, NEW o \in Calls, conn' = [conn EXCEPT ![c].brk = o.brk],
               o.brk.halfOpen <= conn[c].brk.halfOpen
        PROVE  \A d \in Conns : SlotKept(d)
    <2> DEFINE h == [conn[c] EXCEPT !.brk = o.brk]
    <2>1. conn' = [conn EXCEPT ![c] = h]
      BY <1>2
    <2>2. h.brk = o.brk /\ o.brk \in Breakers
      BY <1>0 DEF Handles, Calls
    <2> HIDE DEF h
    <2> QED BY <1>2, <2>1, <2>2, NoSlotTaken
  <1>3. ASSUME NEW c \in Conns, SetIsolation(c) PROVE \A d \in Conns : SlotKept(d)
    <2>1. PICK o \in (IF conn[c].auto THEN IsolationThenAutocommit(Call(c), TRUE)
                                      ELSE ExecuteSQL(Call(c), [op |-> "isolation"])) :
            conn' = [conn EXCEPT ![c].brk = o.brk]
      BY <1>3 DEF SetIsolation
    <2>2. o \in Calls /\ o.brk.halfOpen <= conn[c].brk.halfOpen
      <3>1. CASE conn[c].auto
        BY <1>0, <2>1, <3>1, SettingsOutcome, ZenonT(30) DEF Outcome
      <3>2. CASE ~conn[c].auto
        BY <1>0, <2>1, <3>2, IsolationOutcome DEF Outcome
      <3> QED BY <3>1, <3>2
    <2> QED BY <1>2, <2>1, <2>2
  <1>4. ASSUME NEW c \in Conns, Execute(c) PROVE \A d \in Conns : SlotKept(d)
    <2>1. conn[c].connected /\ used[c] < MaxRows[c]
      BY <1>4 DEF Execute
    <2>2. PICK o \in ExecuteSQL(Call(c), [op |-> "row", row |-> used[c] + 1]) :
            conn' = [conn EXCEPT ![c].brk = o.brk]
      BY <1>4 DEF Execute
    <2>3. o \in Calls /\ o.brk.halfOpen <= conn[c].brk.halfOpen
      BY <2>1, <2>2, RowWritten
    <2> QED BY <1>2, <2>2, <2>3
  <1>5. ASSUME NEW c \in Conns, BulkRow(c) PROVE \A d \in Conns : SlotKept(d)
    <2>1. conn[c].connected /\ used[c] < MaxRows[c]
      BY <1>5, BatchUnderWay DEF BulkRow
    <2>2. PICK o \in ExecuteSQL(Call(c), [op |-> "row", row |-> used[c] + 1]) :
            conn' = [conn EXCEPT ![c].brk = o.brk]
      BY <1>5 DEF BulkRow
    <2>3. o \in Calls /\ o.brk.halfOpen <= conn[c].brk.halfOpen
      BY <2>1, <2>2, RowWritten
    <2> QED BY <1>2, <2>2, <2>3
  <1>6. ASSUME NEW c \in Conns, BulkRowFails(c) PROVE \A d \in Conns : SlotKept(d)
    <2>1. bulk[c].at = "running" /\ conn[c].connected /\ used[c] < MaxRows[c]
      BY <1>6, BatchUnderWay DEF BulkRowFails
    <2>2. PICK o \in ExecuteSQL(Call(c), [op |-> "row", row |-> used[c] + 1]) :
            \/ conn' = [conn EXCEPT ![c].brk = o.brk]
            \/ \E e \in EndTransaction(conn[c], o, "rolledBack") :
                  /\ conn' = [conn EXCEPT ![c].brk = e.brk, ![c].inTxn = e.inTxn]
                  /\ bulk' = [bulk EXCEPT ![c].at = IF e.ok THEN "undone" ELSE "stuck"]
      BY <1>6 DEF BulkRowFails
    <2>3. o \in Calls /\ o.brk.halfOpen <= conn[c].brk.halfOpen /\ SessionOK(o.srv, used[c] + 1)
      BY <2>1, <2>2, RowWritten
    <2>4. ASSUME NEW e \in EndTransaction(conn[c], o, "rolledBack"),
                 conn' = [conn EXCEPT ![c].brk = e.brk, ![c].inTxn = e.inTxn],
                 bulk' = [bulk EXCEPT ![c].at = IF e.ok THEN "undone" ELSE "stuck"]
          PROVE  \A d \in Conns : SlotKept(d)
      <3>1. used[c] + 1 \in Nat
        BY <1>0
      <3>a. PICK kind \in Kinds \cup {"invalid"} : kind = "rolledBack"
        BY DEF Kinds
      <3>2. /\ e.brk \in Breakers /\ e.inTxn \in BOOLEAN
            /\ e.brk.halfOpen <= o.brk.halfOpen \/ (conn[c].auto /\ e.ok)
        BY <1>0, <2>3, <2>4, <3>1, <3>a, EndOutcome
      <3>3. e.brk.halfOpen \in Nat /\ o.brk.halfOpen \in Nat /\ conn[c].brk.halfOpen \in Nat
        BY <1>0, <2>3, <3>2 DEF Breakers, Calls
      <3>4. e.brk.halfOpen <= conn[c].brk.halfOpen \/ (conn[c].auto /\ e.ok)
        BY <2>3, <3>2, <3>3
      <3>5. bulk[c] \in Bulks
        BY CallStart
      <3>6. e.ok => bulk'[c].at = "undone"
        BY <2>4, <3>5 DEF Bulks
      <3> QED BY <2>4, <3>2, <3>4, <3>6, SlotAtEnd
    <2> QED BY <1>2, <2>2, <2>3, <2>4
  <1>7. ASSUME NEW c \in Conns, NEW auto \in BOOLEAN, EstablishConnection(c, auto)
        PROVE  \A d \in Conns : SlotKept(d)
    <2> DEFINE s == [srv[c] EXCEPT !.up = TRUE]
               x == [Call(c) EXCEPT !.srv.up = TRUE]
    <2>1. PICK o \in IsolationThenAutocommit(x, auto) :
            conn' = [conn EXCEPT ![c] = [connected |-> o.ok, auto |-> auto, inTxn |-> ~auto,
                                         brk |-> o.brk]]
      BY <1>7 DEF EstablishConnection
    <2>2. x = [Call(c) EXCEPT !.srv = s]
      BY <1>0
    <2>3. /\ s \in Sessions /\ s.up /\ s.pending = srv[c].pending /\ s.durable = srv[c].durable
          /\ s.sent = srv[c].sent /\ s.answers = srv[c].answers
      <3>1. srv[c] \in Sessions /\ Call(c) \in Calls
        BY <1>0
      <3> QED BY <3>1, SessionReopened
    <2> HIDE DEF s, x
    <2>4. x \in Calls /\ x.srv = s /\ x.brk = conn[c].brk
      <3>1. x \in Calls /\ x.srv = s
        BY <1>0, <2>2, <2>3, CallInSession
      <3>2. x.brk = Call(c).brk
        BY <1>0, <2>2 DEF Calls
      <3> QED BY <1>0, <3>1, <3>2
    <2>5. SessionOK(x.srv, used[c])
      <3>1. ~srv[c].up
        <4>1. OwnInv(c)
          BY CallStart
        <4> QED BY <1>7, <4>1 DEF EstablishConnection, OwnInv, FlagsAgree
      <3> QED BY <1>0, <2>3, <2>4, <3>1 DEF SessionOK, Quiet
    <2>6. o \in Calls /\ o.brk.halfOpen <= conn[c].brk.halfOpen
      BY <1>0, <2>1, <2>4, <2>5, SettingsOutcome DEF Outcome
    <2>7. o.brk \in Breakers
      BY <2>6 DEF Calls
    <2> DEFINE h == [connected |-> o.ok, auto |-> auto, inTxn |-> ~auto, brk |-> o.brk]
    <2>8. h.brk = o.brk
      OBVIOUS
    <2> HIDE DEF h
    <2>9. conn' = [conn EXCEPT ![c] = h]
      BY <2>1 DEF h
    <2> QED BY <2>6, <2>7, <2>8, <2>9, NoSlotTaken
  <1>8. ASSUME NEW c \in Conns, NEW on \in BOOLEAN, SetAutocommit(c, on) PROVE \A d \in Conns : SlotKept(d)
    <2>1. PICK o \in ExecuteSQL(Call(c), [op |-> "auto", on |-> on]) :
            conn' = [conn EXCEPT ![c] = [conn[c] EXCEPT !.auto = on, !.brk = o.brk,
                                                        !.inTxn = IF o.ok THEN ~on ELSE conn[c].inTxn]]
      BY <1>8 DEF SetAutocommit
    <2>2. o \in Calls /\ o.brk.halfOpen <= conn[c].brk.halfOpen
      <3>1. Outcome(Call(c), Apply(Call(c).srv, [op |-> "auto", on |-> on]), used[c], o)
            /\ o.brk.halfOpen <= Call(c).brk.halfOpen
        BY <1>0, <2>1, AutoOutcome
      <3> QED BY <1>0, <3>1 DEF Outcome
    <2> DEFINE w == IF o.ok THEN ~on ELSE conn[c].inTxn
               h == [conn[c] EXCEPT !.auto = on, !.brk = o.brk, !.inTxn = w]
    <2>3. conn' = [conn EXCEPT ![c] = h]
      BY <2>1
    <2>4. w \in BOOLEAN /\ o.brk \in Breakers
      BY <1>0, <2>2 DEF Handles, Calls
    <2> HIDE DEF w
    <2>5. h.brk = o.brk
      <3>1. PICK g \in Handles, b \in Breakers, v \in BOOLEAN : g = conn[c] /\ b = o.brk /\ v = w
        BY <1>0, <2>4
      <3>2. [g EXCEPT !.auto = on, !.brk = b, !.inTxn = v].brk = b
        BY DEF Handles
      <3> QED BY <3>1, <3>2
    <2> HIDE DEF h
    <2> QED BY <2>2, <2>3, <2>4, <2>5, NoSlotTaken
  <1>9. ASSUME NEW c \in Conns, NEW on \in BOOLEAN, SetAutocommitUnconnected(c, on)
        PROVE  \A d \in Conns : SlotKept(d)
    <2> DEFINE h == [conn[c] EXCEPT !.auto = on, !.inTxn = ~on]
    <2>1. conn' = [conn EXCEPT ![c] = h]
      BY <1>9 DEF SetAutocommitUnconnected
    <2>2. h.brk = conn[c].brk /\ conn[c].brk.halfOpen <= conn[c].brk.halfOpen /\ conn[c].brk \in Breakers
      BY <1>0 DEF Handles
    <2> HIDE DEF h
    <2> QED BY <2>1, <2>2, NoSlotTaken
  <1>10. ASSUME NEW c \in Conns, NEW kind \in Kinds \cup {"invalid"}, kind = "invalid" => faults < MaxFaults,
                NEW e \in EndTransaction(conn[c], Call(c), kind),
                conn' = [conn EXCEPT ![c].brk = e.brk, ![c].inTxn = e.inTxn],
                report' = [report EXCEPT ![c] = IF e.ok THEN kind ELSE "none"]
         PROVE  \A d \in Conns : SlotKept(d)
    <2>1. /\ e.brk \in Breakers /\ e.inTxn \in BOOLEAN
          /\ e.brk.halfOpen <= conn[c].brk.halfOpen \/ (conn[c].auto /\ e.ok)
      <3>1. Call(c).faults = faults
        BY DEF Call
      <3> QED BY <1>0, <1>10, <3>1, EndOutcome
    <2>2. e.ok => report'[c] # "none"
      BY <1>10 DEF Kinds
    <2> QED BY <1>10, <2>1, <2>2, SlotAtEnd
  <1>11. ASSUME NEW c \in Conns, NEW kind \in Kinds \cup {"invalid"}, EndTran(c, kind)
         PROVE \A d \in Conns : SlotKept(d)
    <2>1. \E e \in EndTransaction(conn[c], Call(c), kind) :
            /\ conn' = [conn EXCEPT ![c].brk = e.brk, ![c].inTxn = e.inTxn]
            /\ report' = [report EXCEPT ![c] = IF e.ok THEN kind ELSE "none"]
      BY <1>11 DEF EndTran
    <2>2. kind = "invalid" => faults < MaxFaults
      BY <1>11 DEF EndTran
    <2> QED BY <1>10, <2>1, <2>2
  <1>12. CASE EnvEndTranStep
    <2>1. PICK c \in Conns : c = env.next
      BY <1>12 DEF EnvEndTranStep
    <2>2. env.kind \in Kinds \cup {"invalid"} /\ env.kind # "invalid"
      BY DEF Kinds
    <2>3. \E e \in EndTransaction(conn[c], Call(c), env.kind) :
            /\ conn' = [conn EXCEPT ![c].brk = e.brk, ![c].inTxn = e.inTxn]
            /\ report' = [report EXCEPT ![c] = IF e.ok THEN env.kind ELSE "none"]
      BY <1>12, <2>1 DEF EnvEndTranStep
    <2> QED BY <1>10, <2>2, <2>3
  <1>13. CASE conn' = conn
    BY <1>0, <1>13 DEF SlotKept
  <1>14. ASSUME NEW c \in Conns, BulkStart(c) PROVE conn' = conn
    BY <1>14 DEF BulkStart
  <1>15. ASSUME NEW kind \in Kinds, EnvEndTranStart(kind) PROVE conn' = conn
    BY <1>15 DEF EnvEndTranStart
  <1>16. EnvEndTranSkip \/ EnvEndTranReturn => conn' = conn
    BY DEF EnvEndTranSkip, EnvEndTranReturn
  <1>17. ASSUME NEW c \in Conns, ServerCatchesUp(c) PROVE conn' = conn
    BY <1>17 DEF ServerCatchesUp
  <1> QED BY <1>1, <1>3, <1>4, <1>5, <1>6, <1>7, <1>8, <1>9, <1>11, <1>12, <1>13, <1>14, <1>15, <1>16,
             <1>17
          DEF Next

\* A half-open slot is given back by the call that took it, except by an
\* SQLEndTran in autocommit mode that reports success.
THEOREM SlotsComeBack == Spec => SlotsReturned
  <1>1. OdbcInv /\ [Next]_vars =>
          [\A c \in Conns :
             conn'[c].brk.halfOpen > conn[c].brk.halfOpen =>
                 conn[c].auto /\ (report'[c] # "none" \/ bulk'[c].at = "undone")]_vars
    <2> SUFFICES ASSUME OdbcInv, Next
                 PROVE  \A c \in Conns : SlotKept(c)
      BY DEF SlotKept
    <2> QED BY SlotStep
  <1> QED BY <1>1, OdbcInductive, PTL DEF Spec, SlotsReturned

=============================================================================

---------------------------- MODULE OdbcConnection ----------------------------
(***************************************************************************)
(* The transaction side of the ODBC driver: the environment, its           *)
(* connections, the circuit breaker each connection owns, the batch loop   *)
(* of SQLBulkOperations and the server session behind each connection      *)
(* (odbc_handles.cpp, odbc_client_bridge.cpp, circuit_breaker.cpp).        *)
(*                                                                         *)
(* A unit of work is a row a statement writes. A row number is used once   *)
(* per connection, so that "which rows are on the server" can be compared  *)
(* with "what the application was told".                                   *)
(*                                                                         *)
(* One thread drives each connection, so a call on a connection is one     *)
(* step; the two loops that span several connections or several rows       *)
(* (SQLEndTran on the environment, SQLBulkOperations) take one step per    *)
(* iteration and interleave with the calls on other connections.           *)
(***************************************************************************)
EXTENDS Naturals, FiniteSets, Sequences

CONSTANTS
    N,                  \* connections of the environment, in allocation order
    MaxRows,            \* bound: rows written on each connection
    BatchSize,          \* paramset_size_ of a bulk operation
    MaxFaults,          \* bound: what goes wrong, over all connections: requests a working
                        \* session fails, and SQLEndTran with an invalid completion type
    FailureThreshold, SuccessThreshold, HalfOpenMax   \* CircuitBreakerConfig

ASSUME OdbcAssumption ==
    /\ N \in Nat /\ MaxRows \in [1..N -> Nat] /\ MaxFaults \in Nat /\ BatchSize \in Nat \ {0}
    /\ FailureThreshold \in Nat \ {0} /\ SuccessThreshold \in Nat \ {0}
    /\ HalfOpenMax \in Nat \ {0}

Conns == 1..N
Rows == UNION {1..MaxRows[c] : c \in Conns}
NoBulk == [at |-> "idle", rows |-> {}, left |-> 0, auto |-> TRUE]
NoEnvCall == [running |-> FALSE, kind |-> "committed", next |-> 1, owed |-> [c \in Conns |-> {}]]
Kinds == {"committed", "rolledBack"}

(* The requests a connection sends: a statement that writes a row, SET     *)
(* AUTOCOMMIT, the isolation statement, COMMIT and ROLLBACK.               *)
Reqs == [op: {"row"}, row: Rows] \cup [op: {"auto"}, on: BOOLEAN]
        \cup [op: {"isolation"} \cup Kinds]

VARIABLES
    conn,     \* OdbcConnection: connected_, auto_commit_, in_transaction_, circuit_breaker_
    srv,      \* the server session of each connection, and what it made durable
    faults,   \* what has gone wrong so far
    used,     \* rows handed out so far, per connection
    unit,     \* rows whose statement reported success since the last boundary
    report,   \* what the last SQLEndTran on the connection reported
    unsure,   \* since it was opened, the connection failed an SQL_ATTR_AUTOCOMMIT call
              \* or gave up waiting for an answer
    bulk,     \* SQLBulkOperations on the connection: its progress or its outcome
    env       \* SQLEndTran on the environment: its progress

vars == <<conn, srv, faults, used, unit, report, unsure, bulk, env>>

Breakers == [state: {"closed", "open", "half"}, failures: Nat, successes: Nat, halfOpen: Nat]
Handles == [connected: BOOLEAN, auto: BOOLEAN, inTxn: BOOLEAN, brk: Breakers]
Sessions == [up: BOOLEAN, auto: BOOLEAN, pending: SUBSET Rows, durable: SUBSET Rows,
             sent: Seq(Reqs),               \* requests the server has not taken
             answers: Seq({"ok", "error"})] \* answers the client has not read, up to READY

(* Types; in particular a breaker's counters never go below zero, and a    *)
(* broken session has nothing on the wire.                                 *)
TypeOK ==
    /\ conn \in [Conns -> Handles]
    /\ srv \in [Conns -> Sessions]
    /\ faults \in 0..MaxFaults
    /\ used \in [Conns -> Nat]
    /\ unit \in [Conns -> SUBSET Rows]
    /\ report \in [Conns -> Kinds \cup {"none", "invalid"}]
    /\ unsure \in [Conns -> BOOLEAN]
    /\ bulk \in [Conns -> [at: {"idle", "running", "done", "failed", "undone", "stuck"},
                           rows: SUBSET Rows, left: 0..BatchSize, auto: BOOLEAN]]
    /\ env \in [running: BOOLEAN, kind: Kinds, next: 1..(N + 1), owed: [Conns -> SUBSET Rows]]
    /\ \A c \in Conns :
          /\ used[c] <= MaxRows[c]
          /\ ~srv[c].up => srv[c].sent = <<>> /\ srv[c].answers = <<>>

(***************************************************************************)
(* The circuit breaker as one thread meets it. Each operator yields the    *)
(* outcomes of the call: the breaker after it and what it returned. A      *)
(* request refused while OPEN may find the recovery timeout elapsed or     *)
(* not.                                                                    *)
(***************************************************************************)

(* A gate that compares and does not count. *)
AllowHalfOpenRequest_Uncounted(b) == [brk |-> b, ok |-> b.halfOpen < HalfOpenMax]

AllowHalfOpenRequest(b) ==
    IF b.halfOpen >= HalfOpenMax
    THEN [brk |-> b, ok |-> FALSE]
    ELSE [brk |-> [b EXCEPT !.halfOpen = @ + 1], ok |-> TRUE]

AllowRequest(b) ==
    CASE b.state = "closed" -> {[brk |-> b, ok |-> TRUE]}
      [] b.state = "open"   ->
            {[brk |-> b, ok |-> FALSE],
             AllowHalfOpenRequest([state |-> "half", failures |-> 0, successes |-> 0, halfOpen |-> 0])}
      [] b.state = "half"   -> {AllowHalfOpenRequest(b)}

(* A success that does not give its half-open slot back. *)
RecordSuccess_KeepsSlot(b) ==
    CASE b.state = "half" /\ b.successes + 1 < SuccessThreshold -> [b EXCEPT !.successes = @ + 1]
      [] b.state = "half" /\ b.successes + 1 >= SuccessThreshold ->
            [b EXCEPT !.state = "closed", !.failures = 0, !.successes = 0]
      [] b.state # "half" -> [b EXCEPT !.failures = IF b.state = "closed" THEN 0 ELSE @]

RecordSuccess(b) ==
    CASE b.state = "closed" -> [b EXCEPT !.failures = 0]
      [] b.state = "half"   ->
            IF b.successes + 1 >= SuccessThreshold
            THEN [state |-> "closed", failures |-> 0, successes |-> 0, halfOpen |-> b.halfOpen - 1]
            ELSE [b EXCEPT !.successes = @ + 1, !.halfOpen = @ - 1]
      [] b.state = "open"   -> b

RecordFailure(b) ==
    CASE b.state = "closed" ->
            [b EXCEPT !.failures = @ + 1,
                      !.state = IF b.failures + 1 >= FailureThreshold THEN "open" ELSE @]
      [] b.state = "half"   -> [b EXCEPT !.state = "open", !.halfOpen = @ - 1]
      [] b.state = "open"   -> b

(***************************************************************************)
(* The server, known from how the driver uses it. In autocommit mode a     *)
(* statement commits by itself; "SET AUTOCOMMIT ON ON CONFLICT COMMIT"     *)
(* commits the open transaction and "OFF ON CONFLICT KEEP" keeps it.       *)
(***************************************************************************)

Commit(s) == [s EXCEPT !.durable = @ \cup s.pending, !.pending = {}]

Apply(s, req) ==
    CASE req.op = "row"       -> IF s.auto THEN [s EXCEPT !.durable = @ \cup {req.row}]
                                           ELSE [s EXCEPT !.pending = @ \cup {req.row}]
      [] req.op = "auto"      -> IF req.on THEN [Commit(s) EXCEPT !.auto = TRUE]
                                           ELSE [s EXCEPT !.auto = FALSE]
      [] req.op = "isolation" -> s
      [] req.op = "committed" -> Commit(s)
      [] req.op = "rolledBack" -> [s EXCEPT !.pending = {}]

(* The session ends: the server rolls the open transaction back. *)
Hangup(s) ==
    [up |-> FALSE, auto |-> TRUE, pending |-> {}, durable |-> s.durable,
     sent |-> <<>>, answers |-> <<>>]

(***************************************************************************)
(* A call in progress is a record: the breaker, the session, the faults    *)
(* injected so far and whether the last request of the call succeeded.     *)
(* The operators below yield the outcomes a call x may have.               *)
(***************************************************************************)

(* The server takes the first request of the session and answers it: it is *)
(* applied or refused.                                                     *)
Serve(x) ==
    IF x.srv.sent = <<>> THEN {}
    ELSE LET taken  == [x.srv EXCEPT !.sent = Tail(@)]
             done   == Apply(taken, Head(x.srv.sent))
         IN  {[x EXCEPT !.srv = [done EXCEPT !.answers = Append(@, "ok")]]} \cup
             IF x.faults = MaxFaults THEN {}
             ELSE {[x EXCEPT !.srv = [taken EXCEPT !.answers = Append(@, "error")],
                             !.faults = @ + 1]}

(* What a call that gives up without its answer may leave of session s: it *)
(* breaks; or the read times out, or a message does not decode, and it     *)
(* stays up with the request, the answer or the READY that ends it still   *)
(* to come.                                                                *)
GivenUp(s) ==
    {Hangup(s), s} \cup (IF s.answers = <<>> THEN {} ELSE {[s EXCEPT !.answers[1] = "ok"]})

(* A request has been sent, and the server may have taken one. *)
Waiting(x, req) ==
    LET out == [x EXCEPT !.srv = [x.srv EXCEPT !.sent = Append(x.srv.sent, req)]]
    IN  {out} \cup Serve(out)

(* The client takes the first answer that has come, up to READY, whichever *)
(* request it belongs to: no loop compares sequence numbers.               *)
TakeAnswer(y) ==
    [y EXCEPT !.srv = [y.srv EXCEPT !.answers = Tail(y.srv.answers)],
              !.ok = Head(y.srv.answers) = "ok"]

(* One request on the wire and the wait for its answer, which may come to  *)
(* nothing. On a broken session every request fails.                       *)
Bridge(x, req) ==
    IF ~x.srv.up THEN {[x EXCEPT !.ok = FALSE]}
    ELSE {TakeAnswer(y) : y \in {z \in Waiting(x, req) : z.srv.answers # <<>>}} \cup
         UNION {{[y EXCEPT !.srv = s, !.ok = FALSE, !.faults = y.faults + 1] : s \in GivenUp(y.srv)}
                   : y \in {z \in Waiting(x, req) : z.faults < MaxFaults}}

(* allowRequest: the outcomes of asking the breaker. *)
Ask(x) == {[x EXCEPT !.brk = a.brk, !.ok = a.ok] : a \in AllowRequest(x.brk)}

(* recordSuccess or recordFailure after the bridge call. *)
Record(x) == [x EXCEPT !.brk = IF x.ok THEN RecordSuccess(@) ELSE RecordFailure(@)]

(* OdbcConnection::executeSQL; commit() and rollback() inside              *)
(* endTransaction follow the same pattern.                                 *)
ExecuteSQL(x, req) ==
    {a \in Ask(x) : ~a.ok} \cup
    UNION {{Record(r) : r \in Bridge(a, req)} : a \in {y \in Ask(x) : y.ok}}

(* applyIsolationSetting and then applyAutocommitSetting, which runs only  *)
(* after the first succeeded.                                              *)
IsolationThenAutocommit(x, on) ==
    LET first == ExecuteSQL(x, [op |-> "isolation"])
    IN  {o \in first : ~o.ok} \cup
        UNION {ExecuteSQL(o, [op |-> "auto", on |-> on]) : o \in {y \in first : y.ok}}

(***************************************************************************)
(* Actions. The connection is free for a new call when no bulk loop runs   *)
(* on it.                                                                  *)
(***************************************************************************)

Free(c) == bulk[c].at # "running"

(* A call that begins on c, and what it leaves of the session. *)
Call(c) == [brk |-> conn[c].brk, srv |-> srv[c], faults |-> faults, ok |-> TRUE]

Leaves(c, x) ==
    /\ srv' = [srv EXCEPT ![c] = x.srv]
    /\ faults' = x.faults
    /\ unsure' = [unsure EXCEPT ![c] = @ \/ x.srv.sent # <<>> \/ x.srv.answers # <<>>]

(* The rows acknowledged since the last boundary: a reported SQLEndTran    *)
(* closed the unit of work before it.                                      *)
Open(c) == IF report[c] = "none" THEN unit[c] ELSE {}

(* What the application has been told about a connection is superseded by  *)
(* its next call, which leaves the unit of work at rows.                   *)
Supersede(c, rows) ==
    /\ report' = [report EXCEPT ![c] = "none"]
    /\ bulk' = [bulk EXCEPT ![c] = NoBulk]
    /\ unit' = [unit EXCEPT ![c] = rows]

(* The rows the environment's SQLEndTran found acknowledged on c stop      *)
(* being owed once another call rolls them back or closes the connection.  *)
Waive(c) == env' = [env EXCEPT !.owed[c] = {}]

Init ==
    /\ conn = [c \in Conns |-> [connected |-> FALSE, auto |-> TRUE, inTxn |-> FALSE,
                                brk |-> [state |-> "closed", failures |-> 0, successes |-> 0,
                                         halfOpen |-> 0]]]
    /\ srv = [c \in Conns |-> [up |-> FALSE, auto |-> TRUE, pending |-> {}, durable |-> {},
                               sent |-> <<>>, answers |-> <<>>]]
    /\ faults = 0
    /\ used = [c \in Conns |-> 0]
    /\ unit = [c \in Conns |-> {}]
    /\ report = [c \in Conns |-> "none"]
    /\ unsure = [c \in Conns |-> FALSE]
    /\ bulk = [c \in Conns |-> NoBulk]
    /\ env = NoEnvCall

(* establishConnection: auto_commit_ and in_transaction_ come from the     *)
(* connection string, then both settings are sent; when one of them fails  *)
(* the bridge is disconnected and connected_ goes back to false, while     *)
(* auto_commit_ and in_transaction_ stay. (A server that cannot be reached *)
(* changes nothing.)                                                       *)
EstablishConnection(c, auto) ==
    /\ Free(c) /\ ~conn[c].connected
    /\ \E o \in IsolationThenAutocommit([Call(c) EXCEPT !.srv.up = TRUE], auto) :
          /\ conn' = [conn EXCEPT ![c] = [connected |-> o.ok, auto |-> auto, inTxn |-> ~auto,
                                          brk |-> o.brk]]
          /\ Leaves(c, IF o.ok THEN o ELSE [o EXCEPT !.srv = Hangup(@)])
    /\ Supersede(c, {})
    /\ UNCHANGED <<used, env>>

(* SQLDisconnect, and SQLFreeHandle on a connected handle: in_transaction_ *)
(* is not looked at, the session is closed with its open transaction. The  *)
(* circuit breaker keeps its state.                                        *)
Disconnect(c) ==
    /\ Free(c) /\ conn[c].connected
    /\ conn' = [conn EXCEPT ![c] = [@ EXCEPT !.connected = FALSE, !.inTxn = FALSE]]
    /\ srv' = [srv EXCEPT ![c] = Hangup(@)]
    /\ Supersede(c, {})
    /\ unsure' = [unsure EXCEPT ![c] = FALSE]
    /\ Waive(c)
    /\ UNCHANGED <<faults, used>>

(* SQLSetConnectAttr(SQL_ATTR_AUTOCOMMIT): auto_commit_ is assigned before *)
(* the server is asked, and in_transaction_ only when the server agreed.   *)
(* Without a connection both are assigned and nothing is sent.             *)
SetAutocommit_SendsOldValue(c, on) ==
    /\ Free(c) /\ conn[c].connected
    /\ \E o \in ExecuteSQL(Call(c), [op |-> "auto", on |-> conn[c].auto]) :
          /\ conn' = [conn EXCEPT ![c] = [@ EXCEPT !.auto = on, !.brk = o.brk,
                                                   !.inTxn = IF o.ok THEN ~on ELSE conn[c].inTxn]]
          /\ srv' = [srv EXCEPT ![c] = o.srv]
          /\ faults' = o.faults
          /\ unsure' = [unsure EXCEPT ![c] = @ \/ ~o.ok \/ o.srv.sent # <<>> \/ o.srv.answers # <<>>]
    /\ Supersede(c, {})
    /\ UNCHANGED <<used, env>>

SetAutocommit(c, on) ==
    /\ Free(c) /\ conn[c].connected
    /\ \E o \in ExecuteSQL(Call(c), [op |-> "auto", on |-> on]) :
          /\ conn' = [conn EXCEPT ![c] = [@ EXCEPT !.auto = on, !.brk = o.brk,
                                                   !.inTxn = IF o.ok THEN ~on ELSE conn[c].inTxn]]
          /\ srv' = [srv EXCEPT ![c] = o.srv]
          /\ faults' = o.faults
          /\ unsure' = [unsure EXCEPT ![c] = @ \/ ~o.ok \/ o.srv.sent # <<>> \/ o.srv.answers # <<>>]
    /\ Supersede(c, IF on \/ conn[c].auto THEN {} ELSE Open(c))
    /\ UNCHANGED <<used, env>>

SetAutocommitUnconnected(c, on) ==
    /\ Free(c) /\ ~conn[c].connected
    /\ conn' = [conn EXCEPT ![c] = [@ EXCEPT !.auto = on, !.inTxn = ~on]]
    /\ Supersede(c, {})
    /\ UNCHANGED <<srv, faults, used, unsure, env>>

(* SQLSetConnectAttr(SQL_ATTR_TXN_ISOLATION) on a connection: the          *)
(* isolation statement, and in autocommit mode the autocommit statement    *)
(* again.                                                                  *)
SetIsolation(c) ==
    /\ Free(c) /\ conn[c].connected
    /\ \E o \in IF conn[c].auto
                THEN IsolationThenAutocommit(Call(c), TRUE)
                ELSE ExecuteSQL(Call(c), [op |-> "isolation"]) :
          /\ conn' = [conn EXCEPT ![c].brk = o.brk]
          /\ Leaves(c, o)
    /\ Supersede(c, Open(c))
    /\ UNCHANGED <<used, env>>

(* SQLExecDirect of a statement that writes one row. *)
Execute(c) ==
    /\ Free(c) /\ conn[c].connected /\ used[c] < MaxRows[c]
    /\ LET row == used[c] + 1
       IN  \E o \in ExecuteSQL(Call(c), [op |-> "row", row |-> row]) :
              /\ conn' = [conn EXCEPT ![c].brk = o.brk]
              /\ Leaves(c, o)
              /\ used' = [used EXCEPT ![c] = row]
              /\ Supersede(c, Open(c) \cup (IF o.ok THEN {row} ELSE {}))
    /\ UNCHANGED env

(***************************************************************************)
(* OdbcConnection::endTransaction. The outcomes of the call x on handle d: *)
(* the breaker is asked first; in autocommit mode without a transaction    *)
(* the call succeeds with nothing sent and nothing recorded, whatever the  *)
(* completion type; otherwise a type that is neither SQL_COMMIT nor        *)
(* SQL_ROLLBACK is a recorded failure with nothing sent.                   *)
(***************************************************************************)

EndTransaction(d, x, kind) ==
    {[brk |-> o.brk, srv |-> o.srv, faults |-> o.faults, ok |-> o.ok,
      inTxn |-> IF o.ok THEN ~d.auto ELSE d.inTxn]
        : o \in IF d.auto /\ ~d.inTxn THEN Ask(x)
                ELSE IF kind \in Kinds THEN ExecuteSQL(x, [op |-> kind])
                ELSE {IF a.ok THEN Record([a EXCEPT !.ok = FALSE, !.faults = @ + 1]) ELSE a
                        : a \in Ask(x)}}

(* SQLEndTran on a connection. *)
EndTran(c, kind) ==
    /\ Free(c) /\ conn[c].connected /\ (kind = "invalid" => faults < MaxFaults)
    /\ \E o \in EndTransaction(conn[c], Call(c), kind) :
          /\ conn' = [conn EXCEPT ![c].brk = o.brk, ![c].inTxn = o.inTxn]
          /\ Leaves(c, o)
          /\ report' = [report EXCEPT ![c] = IF o.ok THEN kind ELSE "none"]
          /\ unit' = [unit EXCEPT ![c] = Open(c)]
    /\ bulk' = [bulk EXCEPT ![c] = NoBulk]
    /\ IF kind = "rolledBack" THEN Waive(c) ELSE UNCHANGED env
    /\ UNCHANGED used

(***************************************************************************)
(* OdbcEnvironment::endTransaction: the connections in order, the          *)
(* unconnected ones skipped, up to the first that fails.                   *)
(***************************************************************************)

EnvEndTranStart(kind) ==
    /\ ~env.running
    /\ env' = [running |-> TRUE, kind |-> kind, next |-> 1,
               owed |-> [c \in Conns |-> IF conn[c].connected THEN Open(c) ELSE {}]]
    /\ UNCHANGED <<conn, srv, faults, used, unit, report, unsure, bulk>>

(* A loop that does not stop at a failure and reports the last status. *)
EnvEndTranStep_KeepsGoing ==
    /\ env.running /\ env.next \in Conns
    /\ LET c == env.next
       IN  /\ Free(c) /\ conn[c].connected
           /\ \E o \in EndTransaction(conn[c], Call(c), env.kind) :
                 /\ conn' = [conn EXCEPT ![c].brk = o.brk, ![c].inTxn = o.inTxn]
                 /\ Leaves(c, o)
                 /\ report' = [report EXCEPT ![c] = IF o.ok THEN env.kind ELSE "none"]
                 /\ env' = [env EXCEPT !.next = c + 1]
           /\ unit' = [unit EXCEPT ![c] = Open(c)]
           /\ bulk' = [bulk EXCEPT ![c] = NoBulk]
    /\ UNCHANGED used

EnvEndTranStep ==
    /\ env.running /\ env.next \in Conns
    /\ LET c == env.next
       IN  /\ Free(c) /\ conn[c].connected
           /\ \E o \in EndTransaction(conn[c], Call(c), env.kind) :
                 /\ conn' = [conn EXCEPT ![c].brk = o.brk, ![c].inTxn = o.inTxn]
                 /\ Leaves(c, o)
                 /\ report' = [report EXCEPT ![c] = IF o.ok THEN env.kind ELSE "none"]
                 /\ env' = IF o.ok THEN [env EXCEPT !.next = c + 1] ELSE NoEnvCall
           /\ unit' = [unit EXCEPT ![c] = Open(c)]
           /\ bulk' = [bulk EXCEPT ![c] = NoBulk]
    /\ UNCHANGED used

EnvEndTranSkip ==
    /\ env.running /\ env.next \in Conns
    /\ ~conn[env.next].connected
    /\ env' = [env EXCEPT !.next = @ + 1]
    /\ UNCHANGED <<conn, srv, faults, used, unit, report, unsure, bulk>>

EnvEndTranReturn ==
    /\ env.running /\ env.next = N + 1
    /\ env' = NoEnvCall
    /\ UNCHANGED <<conn, srv, faults, used, unit, report, unsure, bulk>>

(***************************************************************************)
(* OdbcStatement::bulkOperations after its preflight: the rows one by one; *)
(* when one fails after others were processed, the connection's            *)
(* endTransaction(SQL_ROLLBACK) and a diagnostic that depends on what it   *)
(* returned: "Partially applied batch was rolled back" (undone) or         *)
(* "Rollback after partial batch failure failed" (stuck).                  *)
(***************************************************************************)

BulkStart(c) ==
    /\ Free(c) /\ conn[c].connected /\ used[c] + BatchSize <= MaxRows[c]
    /\ bulk' = [bulk EXCEPT ![c] = [at |-> "running", rows |-> {}, left |-> BatchSize,
                                    auto |-> conn[c].auto]]
    /\ report' = [report EXCEPT ![c] = "none"]
    /\ unit' = [unit EXCEPT ![c] = Open(c)]
    /\ UNCHANGED <<conn, srv, faults, used, unsure, env>>

BulkRow(c) ==
    /\ bulk[c].at = "running"
    /\ LET row == used[c] + 1
       IN  /\ \E o \in ExecuteSQL(Call(c), [op |-> "row", row |-> row]) :
                 /\ o.ok
                 /\ conn' = [conn EXCEPT ![c].brk = o.brk]
                 /\ Leaves(c, o)
           /\ used' = [used EXCEPT ![c] = row]
           /\ unit' = [unit EXCEPT ![c] = @ \cup {row}]
           /\ bulk' = [bulk EXCEPT ![c].rows = @ \cup {row}, ![c].left = @ - 1,
                                   ![c].at = IF bulk[c].left = 1 THEN "done" ELSE @]
    /\ UNCHANGED <<report, env>>

(* A batch that reports the rollback without asking for it. *)
BulkRowFails_NoRollback(c) ==
    /\ bulk[c].at = "running"
    /\ \E o \in ExecuteSQL(Call(c), [op |-> "row", row |-> used[c] + 1]) :
          /\ ~o.ok
          /\ conn' = [conn EXCEPT ![c].brk = o.brk]
          /\ Leaves(c, o)
    /\ bulk' = [bulk EXCEPT ![c].at = IF bulk[c].rows = {} THEN "failed" ELSE "undone"]
    /\ used' = [used EXCEPT ![c] = @ + 1]
    /\ UNCHANGED <<unit, report, env>>

BulkRowFails(c) ==
    /\ bulk[c].at = "running"
    /\ \E o \in ExecuteSQL(Call(c), [op |-> "row", row |-> used[c] + 1]) :
          /\ ~o.ok
          /\ \/ /\ bulk[c].rows = {}
                /\ conn' = [conn EXCEPT ![c].brk = o.brk]
                /\ Leaves(c, o)
                /\ bulk' = [bulk EXCEPT ![c].at = "failed"]
                /\ UNCHANGED <<unit, env>>
             \/ /\ bulk[c].rows # {}
                /\ \E e \in EndTransaction(conn[c], o, "rolledBack") :
                      /\ conn' = [conn EXCEPT ![c].brk = e.brk, ![c].inTxn = e.inTxn]
                      /\ Leaves(c, e)
                      /\ bulk' = [bulk EXCEPT ![c].at = IF e.ok THEN "undone" ELSE "stuck"]
                      /\ unit' = [unit EXCEPT ![c] = IF e.ok THEN {} ELSE @]
                /\ Waive(c)
    /\ used' = [used EXCEPT ![c] = @ + 1]
    /\ UNCHANGED report

(* The server takes a request whose call has already returned. *)
ServerCatchesUp(c) ==
    /\ \E x \in Serve(Call(c)) : srv' = [srv EXCEPT ![c] = x.srv] /\ faults' = x.faults
    /\ UNCHANGED <<conn, used, unit, report, unsure, bulk, env>>

Next ==
    \/ \E c \in Conns :
          \/ Disconnect(c) \/ SetIsolation(c) \/ Execute(c)
          \/ BulkStart(c) \/ BulkRow(c) \/ BulkRowFails(c)
          \/ \E on \in BOOLEAN :
                EstablishConnection(c, on) \/ SetAutocommit(c, on) \/ SetAutocommitUnconnected(c, on)
          \/ \E kind \in Kinds \cup {"invalid"} : EndTran(c, kind)
          \/ ServerCatchesUp(c)
    \/ \E kind \in Kinds : EnvEndTranStart(kind)
    \/ EnvEndTranStep \/ EnvEndTranSkip \/ EnvEndTranReturn

Spec == Init /\ [][Next]_vars

-----------------------------------------------------------------------------
(***************************************************************************)
(* Properties.                                                             *)
(***************************************************************************)

(* SQLEndTran tells the truth on a connection that has failed no           *)
(* SQL_ATTR_AUTOCOMMIT call and has given up on no answer since it was     *)
(* opened: when it reports a commit, every row whose statement succeeded   *)
(* in the unit of work is durable; when it reports a rollback in           *)
(* manual-commit mode, none of them is; and nothing is left pending.       *)
(* endTransaction decides from auto_commit_ and in_transaction_ alone, so  *)
(* this relates the driver's flags to the server's mode along connects,    *)
(* attribute calls, refusals, broken sessions and reconnects. After a read *)
(* that timed out it is false of the code: commit takes the late READY of  *)
(* the earlier request as its own answer.                                  *)
EndTranSettles ==
    \A c \in Conns : report[c] # "none" /\ ~unsure[c] =>
        /\ srv[c].pending = {}
        /\ report[c] = "committed" => unit[c] \subseteq srv[c].durable
        /\ report[c] = "rolledBack" /\ ~conn[c].auto => unit[c] \cap srv[c].durable = {}

(* A half-open slot is given back by the call that took it: only an        *)
(* SQLEndTran in autocommit mode, which returns between AllowRequest and   *)
(* the recording, leaves halfOpenRequests_ higher than it found it.        *)
SlotsReturned ==
    [][\A c \in Conns :
          conn'[c].brk.halfOpen > conn[c].brk.halfOpen =>
              conn[c].auto /\ (report'[c] # "none" \/ bulk'[c].at = "undone")]_vars

(* A batch is all or nothing in manual-commit mode, again on a connection  *)
(* that has given up on no answer: a bulk operation that succeeded has all *)
(* its rows in the transaction, and one whose diagnostic says it was       *)
(* rolled back has none of them on the server. (When a row times out, the  *)
(* rollback that follows takes that row's late answer as its own, and the  *)
(* diagnostic comes before the server has decided.)                        *)
BatchAllOrNothing ==
    \A c \in Conns : ~bulk[c].auto /\ ~unsure[c] =>
        /\ bulk[c].at = "done" =>
              /\ Cardinality(bulk[c].rows) = BatchSize
              /\ srv[c].up => bulk[c].rows \subseteq srv[c].pending \cup srv[c].durable
        /\ bulk[c].at = "undone" =>
              bulk[c].rows \cap (srv[c].pending \cup srv[c].durable) = {}

(* The diagnostic of a failed batch, in every commit mode: "Partially      *)
(* applied batch was rolled back" means that none of its rows stayed.      *)
RolledBackMeansGone ==
    \A c \in Conns : bulk[c].at = "undone" => bulk[c].rows \cap srv[c].durable = {}

(* SQLEndTran(SQL_HANDLE_ENV, SQL_COMMIT) that reports success has made    *)
(* durable every row acknowledged on any connection before it began,       *)
(* except where another thread rolled that connection back or closed it    *)
(* in the meantime, or the connection has given up on an answer or failed  *)
(* an SQL_ATTR_AUTOCOMMIT call since it was opened.                        *)
EnvCommitDurable ==
    env.running /\ env.next = N + 1 /\ env.kind = "committed" =>
        \A c \in Conns : ~unsure[c] => env.owed[c] \subseteq srv[c].durable
=============================================================================

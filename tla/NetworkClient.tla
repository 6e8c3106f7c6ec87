---------------------------- MODULE NetworkClient ----------------------------
(***************************************************************************)
(* One SBWP session of the C/C++ driver: the request/response loops of     *)
(* NetworkClient (cpp/src/network_client.cpp), the transaction state it    *)
(* tracks, the copy of that state kept by Connection (cpp/src/             *)
(* connection.cpp), and the keepalive thread that pings over the same      *)
(* socket (cpp/src/keepalive.cpp).                                         *)
(*                                                                         *)
(* A request stands for all the messages a call sends before it reads      *)
(* (PARSE, DESCRIBE and SYNC for a prepare, BIND and EXECUTE for           *)
(* executePrepared) and takes one sequence number.  A query is answered by *)
(* at most one row, and is not paged (max_rows and PORTAL_SUSPENDED are    *)
(* left out).  The server is external: it answers requests in order, each  *)
(* with READY at the end, as every loop expects (also executePrepared,     *)
(* which sends no SYNC), sends asynchronous messages whenever it likes and *)
(* may close the socket.  On a plain socket a read may time out at any     *)
(* moment, also half-way through a message; over TLS, the default, it      *)
(* waits for as long as the server is silent.                              *)
(***************************************************************************)
EXTENDS Naturals, Sequences

CONSTANTS
    KeepaliveOn,   \* is the keepalive thread pinging?
    Faults,        \* may reads time out, writes stop short, payloads not decode?
    MaxRequests,   \* bound on the requests of one session
    MaxLate,       \* bound on them once the session was disturbed, until it
                   \* loses its framing
    MaxAsync       \* bound on the asynchronous messages of one session

ASSUME ClientAssumption ==
    /\ KeepaliveOn \in BOOLEAN
    /\ Faults \in BOOLEAN
    /\ MaxRequests \in Nat /\ MaxAsync \in Nat
    /\ MaxLate \in 0..MaxRequests

VARIABLES
    connected,   \* connected_
    nextSeq,     \* next_sequence_
    lastQuery,   \* last_query_sequence_, 0 for none in flight
    inTxn,       \* in_transaction_
    txnId,       \* current_txn_id_, 0 or 1 for not exposed and exposed
    notes,       \* notifications_
    delivered,   \* the notifications the owner has drained
    rowsOf,      \* the requests whose rows are in the owner's result set
    mirror,      \* ConnectionImpl::in_transaction
    call,        \* each thread's call of the client
    toServer,    \* requests on their way
    toClient,    \* responses on their way
    reply,       \* what the server has yet to write of its current answer
    framed,      \* does the next unread byte start a message?
    up,          \* is the server's end of the socket open?
    srvTxn,      \* the server's transaction of this session
    succeeded,   \* requests the server answered without an error
    asyncs,      \* asynchronous messages sent in this session
    sent,        \* the notifications among them, numbered as they were sent
    disturbed    \* did a read of this session time out, a write stop half-way
                 \* or a payload not decode?

clientVars == <<connected, nextSeq, lastQuery, inTxn, txnId, notes, rowsOf,
                delivered>>
serverVars == <<reply, srvTxn, succeeded, asyncs, sent>>
vars == <<connected, nextSeq, lastQuery, inTxn, txnId, notes, rowsOf, mirror,
          delivered, call, toServer, toClient, reply, framed, up, srvTxn, succeeded,
          asyncs, sent, disturbed>>

Threads == {"owner", "keepalive"}

\* What the calls differ in: "query" collects rows and sets
\* last_query_sequence_ (executeQuery, executePrepared, executeSblr,
\* executeServerStatement); "list" (attachList) only collects rows; "begin",
\* "end" (commit, rollback) and "control" (options, subscriptions,
\* attachments, savepoints) run drainUntilReady; "prepare" and "ping" have
\* loops of their own.
Ops == {"query", "list", "begin", "end", "control", "prepare", "ping"}
Fetching == {"query", "list"}

\* The loops that reset last_query_sequence_ at READY.
ClearsAtReady == {"query", "begin", "end", "control"}

\* The operations of Connection that copy the client's transaction state
\* after a success; savepoint, releaseSavepoint and rollbackTo do not.
Mirrored == {"query", "begin", "end", "prepare"}

IdleCall == [op |-> "ping", seq |-> 0, phase |-> "idle", status |-> "none"]

Message(type, r, id, active) ==
    [type |-> type, of |-> r, id |-> id, active |-> active]

\* READY reports whether a transaction is active and its id; a fresh native
\* boundary is active with id 0.
IdOf(txn) == IF txn = "open" THEN 1 ELSE 0
Ready(r, txn) == Message("ready", r, IdOf(txn), txn # "none")

Init ==
    /\ connected = FALSE /\ nextSeq = 0 /\ lastQuery = 0
    /\ inTxn = FALSE /\ txnId = 0 /\ notes = <<>> /\ rowsOf = {}
    /\ delivered = <<>>
    /\ mirror = FALSE
    /\ call = [t \in Threads |-> IdleCall]
    /\ toServer = <<>> /\ toClient = <<>> /\ reply = <<>> /\ framed = TRUE /\ up = FALSE
    /\ srvTxn = "none" /\ succeeded = {} /\ asyncs = 0
    /\ sent = {}
    /\ disturbed = FALSE

-----------------------------------------------------------------------------
(***************************************************************************)
(* Opening and closing.  A connect that fails ends in disconnect() and     *)
(* leaves the disconnected state as it is.                                 *)
(***************************************************************************)
Connect ==
    /\ ~connected
    /\ connected' = TRUE
    /\ nextSeq' = 1
    /\ up' = TRUE
    /\ \E txn \in {"none", "fresh"} :
          /\ srvTxn' = txn
          /\ inTxn' = (txn # "none")
          /\ txnId' = IdOf(txn)
          /\ mirror' = inTxn'
    /\ UNCHANGED <<lastQuery, notes, rowsOf, delivered, call, toServer, toClient, reply,
                   framed, succeeded, asyncs, sent, disturbed>>

\* Connection::disconnect.  The caller does not disconnect under its own
\* call, and sb_disconnect joins the keepalive thread first.  The session's
\* history variables start again with the next session.
Disconnect ==
    /\ connected
    /\ \A t \in Threads : call[t].phase = "idle"
    /\ connected' = FALSE /\ nextSeq' = 0 /\ lastQuery' = 0
    /\ inTxn' = FALSE /\ txnId' = 0 /\ notes' = <<>> /\ mirror' = FALSE
    /\ toServer' = <<>> /\ toClient' = <<>> /\ reply' = <<>>
    /\ framed' = TRUE /\ up' = FALSE
    /\ srvTxn' = "none" /\ succeeded' = {} /\ asyncs' = 0
    /\ sent' = {} /\ delivered' = <<>>
    /\ disturbed' = FALSE /\ rowsOf' = {}
    /\ call' = [t \in Threads |-> IdleCall]

-----------------------------------------------------------------------------
(***************************************************************************)
(* Sending.                                                                *)
(***************************************************************************)
InBound == nextSeq <= IF disturbed /\ framed THEN MaxLate ELSE MaxRequests

MayCall(t) ==
    /\ connected
    /\ call[t].phase = "idle"
    /\ InBound

\* beginTransaction refuses, or adopts the boundary, without a message when
\* the client believes a transaction is active.
BeginLocally(t) ==
    /\ MayCall(t)
    /\ inTxn
    /\ \E defaults \in BOOLEAN :
          LET adopts == txnId = 0 /\ defaults
          IN /\ call' = [call EXCEPT ![t] =
                   [op |-> "begin", seq |-> 0, phase |-> "idle",
                    status |-> IF adopts THEN "adopted" ELSE "refused"]]
             /\ mirror' = IF adopts THEN inTxn ELSE mirror
    /\ rowsOf' = {}
    /\ UNCHANGED <<connected, nextSeq, lastQuery, inTxn, txnId, notes, delivered,
                   toServer, toClient, framed, up, serverVars, disturbed>>

\* (mutant: the result set is not emptied first)
Send_KeepsRows(t, op) ==
    /\ MayCall(t)
    /\ op = "begin" => ~inTxn
    /\ nextSeq' = nextSeq + 1
    /\ lastQuery' = IF op = "query" THEN nextSeq ELSE lastQuery
    /\ call' = [call EXCEPT ![t] = [op |-> op, seq |-> nextSeq,
                                    phase |-> "recv", status |-> "none"]]
    /\ toServer' = IF up THEN Append(toServer, [op |-> op, seq |-> nextSeq])
                   ELSE toServer
    /\ UNCHANGED <<connected, inTxn, txnId, notes, rowsOf, delivered, mirror, toClient,
                   framed, up, serverVars, disturbed>>

\* (mutant: the sequence number is noted after it was advanced)
Send_LateSequence(t, op) ==
    /\ MayCall(t)
    /\ op = "begin" => ~inTxn
    /\ nextSeq' = nextSeq + 1
    /\ lastQuery' = IF op = "query" THEN nextSeq' ELSE lastQuery
    /\ rowsOf' = IF t = "owner" THEN {} ELSE rowsOf
    /\ call' = [call EXCEPT ![t] = [op |-> op, seq |-> nextSeq,
                                    phase |-> "recv", status |-> "none"]]
    /\ toServer' = IF up THEN Append(toServer, [op |-> op, seq |-> nextSeq])
                   ELSE toServer
    /\ UNCHANGED <<connected, inTxn, txnId, notes, delivered, mirror, toClient,
                   framed, up, serverVars, disturbed>>

\* The request is written; after the server has closed its end the write may
\* still succeed, and the request is lost.
Send(t, op) ==
    /\ MayCall(t)
    /\ op = "begin" => ~inTxn
    /\ nextSeq' = nextSeq + 1
    /\ lastQuery' = IF op = "query" THEN nextSeq ELSE lastQuery
    /\ rowsOf' = IF t = "owner" THEN {} ELSE rowsOf
    /\ call' = [call EXCEPT ![t] = [op |-> op, seq |-> nextSeq,
                                    phase |-> "recv", status |-> "none"]]
    /\ toServer' = IF up THEN Append(toServer, [op |-> op, seq |-> nextSeq])
                   ELSE toServer
    /\ UNCHANGED <<connected, inTxn, txnId, notes, delivered, mirror, toClient,
                   framed, up, serverVars, disturbed>>

\* The write fails, before anything of the request is out or half-way: a
\* plain socket was not writable for a second, the peer has closed, or TLS gave
\* up.  Half a request is not answered.
SendFails(t, op) ==
    /\ MayCall(t)
    /\ op = "begin" => ~inTxn
    /\ nextSeq' = nextSeq + 1
    /\ rowsOf' = IF t = "owner" THEN {} ELSE rowsOf
    /\ call' = [call EXCEPT ![t] = [op |-> op, seq |-> nextSeq,
                                    phase |-> "idle", status |-> "closed"]]
    /\ disturbed' \in {disturbed, disturbed \/ Faults}
    /\ UNCHANGED <<connected, lastQuery, inTxn, txnId, notes, delivered, mirror,
                   toServer, toClient, framed, up, serverVars>>

\* The calls of the owner, and the ping that is also the keepalive thread's
\* sb_is_healthy.
Call(t, op) == Send(t, op) \/ SendFails(t, op)

ExecuteQuery == Call("owner", "query")
AttachList == Call("owner", "list")
Prepare == Call("owner", "prepare")
Control == Call("owner", "control")
BeginTransaction == Call("owner", "begin")
EndTransaction == Call("owner", "end")
Ping(t) == Call(t, "ping")

\* drainNotifications: the owner takes what is buffered, between calls.
DrainNotifications ==
    /\ connected /\ call["owner"].phase = "idle"
    /\ notes # <<>>
    /\ delivered' = delivered \o notes
    /\ notes' = <<>>
    /\ UNCHANGED <<connected, nextSeq, lastQuery, inTxn, txnId, rowsOf, mirror,
                   call, toServer, toClient, framed, up, serverVars, disturbed>>

\* A message that no answer is read to takes a sequence number and leaves the
\* rest as it was, unless its write stops half-way.
WriteOnly ==
    /\ connected /\ InBound
    /\ nextSeq' = nextSeq + 1
    /\ disturbed' \in {disturbed, disturbed \/ Faults}
    /\ UNCHANGED <<connected, lastQuery, inTxn, txnId, notes, rowsOf, delivered,
                   mirror, call, toServer, toClient, framed, up, serverVars>>

\* sendQueryCancel, from whatever thread calls sb_cancel.  It names
\* last_query_sequence_ and reads nothing.  When the CANCEL gets to the server
\* is open: the request it names fails, or has succeeded before.
SendQueryCancel == lastQuery # 0 /\ WriteOnly

\* streamControl, between the owner's calls.
StreamControl == call["owner"].phase = "idle" /\ WriteOnly

-----------------------------------------------------------------------------
(***************************************************************************)
(* Receiving.                                                              *)
(***************************************************************************)
Returns(t, status) ==
    /\ call' = [call EXCEPT ![t].phase = "idle", ![t].status = status]
    /\ mirror' = IF t = "owner" /\ status = "ok" /\ call[t].op \in Mirrored
                 THEN inTxn' ELSE mirror

Stays(t, phase) ==
    /\ call' = [call EXCEPT ![t].phase = phase]
    /\ mirror' = mirror

Reading(t) == call[t].phase \in {"recv", "drain"}

\* The head of toClient is taken off the socket and has type in `types`.
Pops(t, types) ==
    /\ Reading(t) /\ framed
    /\ toClient # <<>> /\ Head(toClient).type \in types
    /\ toClient' = Tail(toClient)
    /\ UNCHANGED <<connected, nextSeq, delivered, toServer, framed, up, serverVars>>

\* ... and its payload decodes.
Takes(t, types) == Pops(t, types) /\ UNCHANGED disturbed

\* parseReadyAndTrackTransaction
TrackTransaction(m) == inTxn' = m.active /\ txnId' = m.id

\* handleAsyncMessage, in every loop.  (One that does not decode is skipped,
\* like a message of an unknown type.)
Async == {"notification", "param"}

\* (mutant: the error drain throws notifications away)
HandleAsyncMessage_DrainDrops(t) ==
    /\ Takes(t, Async)
    /\ LET m == Head(toClient)
       IN /\ notes' = IF m.type = "notification" /\ call[t].phase = "recv"
                      THEN Append(notes, m.of) ELSE notes
          /\ txnId' = IF m.type = "param" THEN m.id ELSE txnId
    /\ Stays(t, call[t].phase)
    /\ UNCHANGED <<lastQuery, inTxn, rowsOf>>

HandleAsyncMessage(t) ==
    /\ Takes(t, Async)
    /\ LET m == Head(toClient)
       IN /\ notes' = IF m.type = "notification" THEN Append(notes, m.of)
                      ELSE notes
          /\ txnId' = IF m.type = "param" THEN m.id ELSE txnId
    /\ Stays(t, call[t].phase)
    /\ UNCHANGED <<lastQuery, inTxn, rowsOf>>

\* A row goes into the result set in a fetching loop and is skipped by the
\* default branch of the others; COMMAND_COMPLETE changes nothing kept here.
HandleRow(t) ==
    /\ Takes(t, {"row", "complete"})
    /\ rowsOf' = IF /\ call[t].op \in Fetching /\ call[t].phase = "recv"
                    /\ Head(toClient).type = "row"
                 THEN rowsOf \cup {Head(toClient).of} ELSE rowsOf
    /\ Stays(t, call[t].phase)
    /\ UNCHANGED <<lastQuery, inTxn, txnId, notes>>

\* PONG ends a ping and is skipped elsewhere.
HandlePong(t) ==
    /\ Takes(t, {"pong"})
    /\ inTxn' = inTxn
    /\ IF call[t].op = "ping" /\ call[t].phase = "recv"
         THEN Returns(t, "ok") ELSE Stays(t, call[t].phase)
    /\ UNCHANGED <<lastQuery, txnId, notes, rowsOf>>

\* (mutant: the READY after an error is left unread)
HandleError_NoDrain(t) ==
    /\ Takes(t, {"error"})
    /\ inTxn' = inTxn
    /\ Returns(t, "error")
    /\ UNCHANGED <<lastQuery, txnId, notes, rowsOf>>

\* ERROR: the rest up to READY is drained by handleErrorResponse.
HandleError(t) ==
    /\ Takes(t, {"error"})
    /\ Stays(t, "drain")
    /\ UNCHANGED <<lastQuery, inTxn, txnId, notes, rowsOf>>

\* (mutant: READY does not reset last_query_sequence_)
HandleReady_KeepsSequence(t) ==
    /\ Takes(t, {"ready"})
    /\ call[t].phase = "recv"
    /\ TrackTransaction(Head(toClient))
    /\ Returns(t, "ok")
    /\ UNCHANGED <<lastQuery, notes, rowsOf>>

HandleReady(t) ==
    /\ Takes(t, {"ready"})
    /\ call[t].phase = "recv"
    /\ TrackTransaction(Head(toClient))
    /\ lastQuery' = IF call[t].op \in ClearsAtReady THEN 0 ELSE lastQuery
    /\ Returns(t, "ok")
    /\ UNCHANGED <<notes, rowsOf>>

\* (mutant: the transaction state of the draining READY is not tracked)
DrainedReady_Untracked(t) ==
    /\ Takes(t, {"ready"})
    /\ call[t].phase = "drain"
    /\ inTxn' = inTxn /\ txnId' = txnId
    /\ lastQuery' = 0
    /\ Returns(t, "error")
    /\ UNCHANGED <<notes, rowsOf>>

\* (mutant: the status of the draining READY is returned, not the error)
DrainedReady_Ok(t) ==
    /\ Takes(t, {"ready"})
    /\ call[t].phase = "drain"
    /\ TrackTransaction(Head(toClient))
    /\ lastQuery' = 0
    /\ Returns(t, "ok")
    /\ UNCHANGED <<notes, rowsOf>>

DrainedReady(t) ==
    /\ Takes(t, {"ready"})
    /\ call[t].phase = "drain"
    /\ TrackTransaction(Head(toClient))
    /\ lastQuery' = 0
    /\ Returns(t, "error")
    /\ UNCHANGED <<notes, rowsOf>>

\* The payload of a message the loop looks into does not decode: the call
\* returns at once, and what follows up to READY stays on the wire of a
\* connection that stays open.  (The "complete" of a prepare stands for its
\* PARAMETER_DESCRIPTION.)  A READY that does not decode leaves the tracked
\* transaction as it was; the queries' loops and the drain have reset
\* last_query_sequence_ by then, drainUntilReady has not.
ParseFails(t) ==
    /\ Faults
    /\ \/ /\ Pops(t, {"row"})
          /\ call[t].op \in Fetching /\ call[t].phase = "recv"
       \/ /\ Pops(t, {"complete"})
          /\ call[t].op # "ping" /\ call[t].phase = "recv"
       \/ Pops(t, {"ready"})
    /\ disturbed' = TRUE
    /\ lastQuery' = IF /\ Head(toClient).type = "ready"
                       /\ call[t].op = "query" \/ call[t].phase = "drain"
                    THEN 0 ELSE lastQuery
    /\ inTxn' = inTxn
    /\ Returns(t, "protocol")
    /\ UNCHANGED <<txnId, notes, rowsOf>>

\* receiveMessage fails: the read timed out, the peer has closed, or the
\* header does not decode because the stream lost its framing.  In the drain
\* the mapped error is returned all the same.
ReceiveFails(t, status) ==
    /\ inTxn' = inTxn
    /\ Returns(t, IF call[t].phase = "drain" THEN "error" ELSE status)
    /\ lastQuery' = IF call[t].phase = "drain" THEN 0 ELSE lastQuery
    /\ UNCHANGED <<connected, nextSeq, txnId, notes, rowsOf, delivered, toServer, up,
                   serverVars>>

\* What was read of a message when the timeout strikes is gone.
ReadTimesOut(t) ==
    /\ Faults
    /\ Reading(t) /\ framed
    /\ disturbed' = TRUE
    /\ \/ UNCHANGED <<toClient, framed>>
       \/ toClient # <<>> /\ toClient' = Tail(toClient) /\ framed' = FALSE
    /\ ReceiveFails(t, "timeout")

\* (mutant: the drain after an error goes on reading at the end of the stream)
PeerClosed_DrainsOn(t) ==
    /\ Reading(t) /\ framed
    /\ ~up /\ toClient = <<>>
    /\ call[t].phase = "recv"
    /\ ReceiveFails(t, "closed")
    /\ UNCHANGED <<toClient, framed, disturbed>>

PeerClosed(t) ==
    /\ Reading(t) /\ framed
    /\ ~up /\ toClient = <<>>
    /\ ReceiveFails(t, "closed")
    /\ UNCHANGED <<toClient, framed, disturbed>>

BadHeader(t) ==
    /\ Reading(t) /\ ~framed
    /\ ReceiveFails(t, "protocol")
    /\ UNCHANGED <<toClient, framed, disturbed>>

\* What a read that ends leads to ...
Progress(t) ==
    \/ HandleAsyncMessage(t) \/ HandleRow(t) \/ HandlePong(t) \/ HandleError(t)
    \/ HandleReady(t) \/ DrainedReady(t) \/ ParseFails(t) \/ PeerClosed(t)
    \/ BadHeader(t)

\* ... and one that is given up.
Receive(t) == Progress(t) \/ ReadTimesOut(t)

-----------------------------------------------------------------------------
(***************************************************************************)
(* The server, external: what the loops above expect of it.                *)
(***************************************************************************)
\* The outcomes of a request in transaction state srvTxn, as <<ok, txn'>>.
Outcomes(op) ==
    CASE op = "query"   -> BOOLEAN \X {"none", "fresh", "open"}
      [] op = "begin"   -> IF srvTxn = "open" THEN {<<FALSE, "open">>}
                           ELSE {<<TRUE, "open">>, <<FALSE, srvTxn>>}
      [] op = "end"     -> IF srvTxn = "none" THEN {<<FALSE, "none">>}
                           ELSE BOOLEAN \X {"none", "fresh"}
      [] op \in {"list", "control", "prepare"} -> BOOLEAN \X {srvTxn}
      [] op = "ping"    -> {<<TRUE, srvTxn>>}

Reply(r, ok, txn) ==
    IF ~ok
      THEN <<Message("error", r.seq, 0, FALSE), Ready(r.seq, txn)>>
      ELSE CASE r.op \in Fetching -> <<Message("row", r.seq, 0, FALSE),
                                    Message("complete", r.seq, 0, FALSE),
                                    Ready(r.seq, txn)>>
             [] r.op = "ping"  -> <<Message("pong", r.seq, 0, FALSE)>>
             [] OTHER          -> <<Message("complete", r.seq, 0, FALSE),
                                    Ready(r.seq, txn)>>

Serve ==
    /\ up /\ reply = <<>> /\ toServer # <<>>
    /\ LET r == Head(toServer)
       IN \E o \in Outcomes(r.op) :
             /\ srvTxn' = o[2]
             /\ succeeded' = IF o[1] THEN succeeded \cup {r.seq} ELSE succeeded
             /\ reply' = Reply(r, o[1], o[2])
    /\ toServer' = Tail(toServer)
    /\ UNCHANGED <<clientVars, mirror, call, toClient, framed, up,
                   asyncs, sent, disturbed>>

\* Answers are written message by message, and asynchronous ones may come in
\* between.
Emit ==
    /\ up /\ reply # <<>>
    /\ toClient' = Append(toClient, Head(reply))
    /\ reply' = Tail(reply)
    /\ UNCHANGED <<clientVars, mirror, call, toServer, framed, up, srvTxn,
                   succeeded, asyncs, sent, disturbed>>

SendAsync ==
    /\ up
    /\ asyncs < MaxAsync
    /\ asyncs' = asyncs + 1
    /\ \E type \in Async :
          /\ toClient' = Append(toClient,
                              Message(type, asyncs', IdOf(srvTxn), FALSE))
          /\ sent' = IF type = "notification" THEN sent \cup {asyncs'} ELSE sent
    /\ UNCHANGED <<clientVars, mirror, call, toServer, reply, framed, up,
                   srvTxn, succeeded, disturbed>>

ServerCloses ==
    /\ up
    /\ up' = FALSE
    /\ toServer' = <<>> /\ reply' = <<>>
    /\ UNCHANGED <<clientVars, mirror, call, toClient, framed, srvTxn,
                   succeeded, asyncs, sent, disturbed>>

Callers == IF KeepaliveOn THEN Threads ELSE {"owner"}

Next ==
    \/ Connect \/ Disconnect \/ SendQueryCancel
    \/ Serve \/ Emit \/ SendAsync \/ ServerCloses
    \/ ExecuteQuery \/ AttachList \/ Prepare \/ Control \/ StreamControl
    \/ BeginTransaction \/ EndTransaction
    \/ BeginLocally("owner") \/ DrainNotifications
    \/ \E t \in Callers : Ping(t) \/ Receive(t)

Spec == Init /\ [][Next]_vars

\* A thread inside a call goes on with what its read brought.  No read has to
\* end by itself: over TLS there is no timeout.
FairSpec == Spec /\ \A t \in Threads : WF_vars(t \in Callers /\ Progress(t))

-----------------------------------------------------------------------------
Calls == [op : Ops, seq : Nat, phase : {"idle", "recv", "drain"},
          status : {"none", "ok", "error", "adopted", "refused", "timeout",
                    "closed", "protocol"}]
Messages == [type : {"row", "complete", "error", "ready", "pong",
                     "notification", "param"},
             of : Nat, id : {0, 1}, active : BOOLEAN]

\* Every variable has its type.
TypeOK ==
    /\ connected \in BOOLEAN /\ inTxn \in BOOLEAN /\ mirror \in BOOLEAN
    /\ nextSeq \in 0..(MaxRequests + 1) /\ lastQuery \in 0..MaxRequests
    /\ txnId \in {0, 1}
    /\ notes \in Seq(Nat) /\ delivered \in Seq(Nat)
    /\ rowsOf \subseteq Nat
    /\ call \in [Threads -> Calls]
    /\ toServer \in Seq([op : Ops, seq : Nat])
    /\ toClient \in Seq(Messages) /\ reply \in Seq(Messages)
    /\ framed \in BOOLEAN /\ up \in BOOLEAN /\ disturbed \in BOOLEAN
    /\ srvTxn \in {"none", "fresh", "open"}
    /\ succeeded \subseteq Nat
    /\ sent \subseteq Nat
    /\ asyncs \in 0..MaxAsync

OwnerIdle == call["owner"].phase = "idle"
Answers == {i \in 1..Len(toClient) : toClient[i].type \notin Async}

\* Until a read of the session times out, a write stops half-way or a payload
\* does not decode, request and response stay in step: between calls there is
\* no request and no answer on the wire that a later call could take for its
\* own, on success, error and cancel alike.  After one of the three the session
\* stays open and nothing brings it back in step.
InStep ==
    ~disturbed /\ OwnerIdle => toServer = <<>> /\ reply = <<>> /\ Answers = {}

\* Under the same proviso a call reports what the server did with that very
\* request: success only when it succeeded, and an error only when it did not.
TruthfulStatus ==
    ~disturbed /\ OwnerIdle =>
        /\ call["owner"].status = "ok" => call["owner"].seq \in succeeded
        /\ call["owner"].status = "error" => call["owner"].seq \notin succeeded

\* Under the same proviso a query, or a list of attachments, that returns
\* success has the rows of its own request, all of them and no others.
RowsComplete ==
    ~disturbed /\ OwnerIdle /\ call["owner"].op \in Fetching
               /\ call["owner"].status = "ok"
        => rowsOf = {call["owner"].seq}

\* "READY status is authoritative for transaction activity": between calls
\* the client's in_transaction_ and current_txn_id_ are the server's, after
\* successes, errors, cancels and reconnects, under the same proviso.
\* Connection::inTransaction, its copy, follows after successful calls only:
\* the READY after an error leaves it as it was.
TxnInStep ==
    ~disturbed /\ OwnerIdle /\ up =>
        /\ inTxn = (srvTxn # "none") /\ txnId = IdOf(srvTxn)
        /\ call["owner"].status \in {"ok", "adopted"} /\ call["owner"].op \in Mirrored
              => mirror = inTxn

\* The request a CANCEL names is the one the owner is waiting for:
\* last_query_sequence_ never names a finished query or one of an earlier
\* session, under the same proviso and unless the peer closed.
CancelsInFlight ==
    ~disturbed /\ up /\ lastQuery # 0
        => call["owner"].phase # "idle" /\ call["owner"].seq = lastQuery

\* Notifications that arrive in the middle of any exchange are buffered: those
\* the owner drained, those kept and those on the wire are all that were sent
\* (one that does not decode is skipped and does not count), and they follow
\* each other as they were sent: their numbers grow, so none comes twice.  This
\* holds also after timeouts and payloads that did not decode, as long as the
\* stream keeps its framing.
NotificationsKept ==
    LET got  == delivered \o notes
        wire == {i \in 1..Len(toClient) : toClient[i].type = "notification"}
    IN framed =>
        /\ sent = {got[i] : i \in 1..Len(got)} \cup {toClient[i].of : i \in wire}
        /\ \A i, j \in 1..Len(got) : i < j => got[i] < got[j]
        /\ \A i, j \in wire : i < j => toClient[i].of < toClient[j].of
        /\ \A i \in 1..Len(got), j \in wire : got[i] < toClient[j].of

\* A read of thread t has nothing to bring: the server is silent.
Waiting(t) == Reading(t) /\ framed /\ up /\ toClient = <<>>

\* A call returns unless the server leaves one of its reads waiting for ever:
\* no loop spins on errors, on a closed or an unframed stream or on messages it
\* does not know.  (A read over TLS has no timeout, so a silent server keeps
\* its caller; on a plain socket such a read ends in a timeout.)
CallReturns ==
    \A t \in Threads :
        []<>~Waiting(t) => (call[t].phase # "idle" ~> call[t].phase = "idle")

(***************************************************************************)
(* What the driver's own documents say of a session.                       *)
(***************************************************************************)
\* "result resume is valid only for explicit suspended protocol states"
\* (cpp/README.md): a successful query has rows of its own request only, and
\* not what is left of an earlier statement.
NoResultResume ==
    OwnerIdle /\ call["owner"].op \in Fetching /\ call["owner"].status = "ok"
        => rowsOf \subseteq {call["owner"].seq}

=============================================================================

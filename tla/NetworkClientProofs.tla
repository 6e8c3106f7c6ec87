------------------------- MODULE NetworkClientProofs -------------------------
(***************************************************************************)
(* Theorems about NetworkClient.  A session without the keepalive thread   *)
(* keeps request and answer in step until a read times out, a write stops  *)
(* half-way or a payload does not decode; what was sent as a notification  *)
(* is kept whatever happens, as long as the stream keeps its framing.      *)
(*                                                                         *)
(* The answers on their way, in the socket or not yet written, are seen as *)
(* one set, Coming.  How an exchange goes on depends on that set alone;    *)
(* what the lemmas on the wire add is that the answer read first is the    *)
(* one of the lowest rank.                                                 *)
(***************************************************************************)
EXTENDS NetworkClient, SequenceTheorems, TLAPS

-----------------------------------------------------------------------------
(* The inductive invariant.                                                *)

Own == call["owner"]

\* Nothing is left of a session that is closed.
Fresh ==
    ~connected =>
        /\ ~up /\ ~disturbed /\ framed /\ lastQuery = 0 /\ succeeded = {}
        /\ toServer = <<>> /\ toClient = <<>> /\ reply = <<>>
        /\ Own = IdleCall

\* A server that closed its end writes nothing more.
Closed == ~up => toServer = <<>> /\ reply = <<>>

\* Rows come first, READY and PONG last.
Rank(type) == CASE type = "row" -> 1
                [] type \in {"complete", "error"} -> 2
                [] OTHER -> 3

AnswersOf(tc) == {i \in 1..Len(tc) : tc[i].type \notin Async}

\* The answers on their way come in the order of their ranks: those in the
\* socket tc, then those the server has yet to write, rp.
OrderedAs(tc, rp) ==
    /\ \A i, j \in AnswersOf(tc) : i < j => Rank(tc[i].type) < Rank(tc[j].type)
    /\ \A i, j \in 1..Len(rp) : i < j => Rank(rp[i].type) < Rank(rp[j].type)
    /\ \A j \in 1..Len(rp) : rp[j].type \notin Async
    /\ \A i \in AnswersOf(tc), j \in 1..Len(rp) : Rank(tc[i].type) < Rank(rp[j].type)

\* A parameter status that the transaction has outrun is followed by a READY.
FollowedAs(tc, rp, id) ==
    \A i \in 1..Len(tc) :
        tc[i].type = "param" /\ tc[i].id # id =>
            \/ \E j \in 1..Len(tc) : i < j /\ tc[j].type = "ready"
            \/ \E j \in 1..Len(rp) : rp[j].type = "ready"

ComingIn(tc, rp) == {tc[i] : i \in AnswersOf(tc)} \cup {rp[j] : j \in 1..Len(rp)}

Ordered == OrderedAs(toClient, reply)
ParamsFollowed == up => FollowedAs(toClient, reply, IdOf(srvTxn))
Coming == ComingIn(toClient, reply)
IsComing(type) == \E m \in Coming : m.type = type

\* Sequence numbers are given out in order.
Numbered ==
    connected => nextSeq > 0 /\ Own.seq < nextSeq /\ \A s \in succeeded : s < nextSeq

\* The request of a call that waits is on its way, and the server has done
\* nothing for it.
Asked ==
    /\ toServer = <<[op |-> Own.op, seq |-> Own.seq]>>
    /\ Coming = {} /\ Own.phase = "recv"
    /\ Own.seq \notin succeeded /\ rowsOf = {}

\* Between calls the wire is quiet; in a call at most its own request is.
OneExchange ==
    IF Own.phase = "idle" THEN toServer = <<>> /\ Coming = {}
                           ELSE toServer = <<>> \/ Asked

\* What is on its way is the answer to the call that reads, and tells what
\* became of it.
AnswersOwn ==
    \A m \in Coming :
        /\ m.type \notin Async /\ m.of = Own.seq
        /\ m.type \in {"row", "complete", "pong"} => Own.seq \in succeeded
        /\ m.type = "error" => Own.seq \notin succeeded
        /\ m.type = "pong" => Own.op = "ping"
        /\ m.type = "row" => Own.op \in Fetching

\* READY stands for a success unless an ERROR went before it.
ReadyMeans ==
    IsComing("ready") =>
        Own.phase = "drain" \/ Own.seq \in succeeded \/ IsComing("error")

\* After an ERROR only READY is left.
Draining ==
    Own.phase = "drain" => Own.seq \notin succeeded /\ \A m \in Coming : m.type = "ready"

\* A query's rows are in the result set or on their way.
RowsKept ==
    Own.phase = "recv" /\ Own.op \in Fetching =>
        /\ rowsOf \subseteq {Own.seq}
        /\ IsComing("ready") /\ Own.seq \in succeeded => Own.seq \in rowsOf \/ IsComing("row")

\* What the last call reported is so.
Reported ==
    Own.phase = "idle" =>
        /\ Own.status = "ok" => Own.seq \in succeeded
        /\ Own.status = "error" => Own.seq \notin succeeded
        /\ Own.status = "ok" /\ Own.op \in Fetching => rowsOf = {Own.seq}

\* last_query_sequence_ is the query that reads.
QueryNoted ==
    up /\ lastQuery # 0 => Own.phase # "idle" /\ Own.seq = lastQuery /\ Own.op = "query"

\* The client's transaction state is the server's, or READY will bring it.
TxnFollows ==
    up =>
        /\ \A m \in Coming : m.type = "ready" =>
              m.id = IdOf(srvTxn) /\ (m.active <=> srvTxn # "none")
        /\ \/ (inTxn <=> srvTxn # "none") /\ txnId = IdOf(srvTxn)
           \/ IsComing("ready")

\* Connection's copy of the transaction flag, after a success.
MirrorFollows ==
    Own.phase = "idle" /\ Own.status \in {"ok", "adopted"} /\ Own.op \in Mirrored
        => (mirror <=> inTxn)

Exchange ==
    /\ Numbered /\ OneExchange /\ AnswersOwn /\ ReadyMeans /\ Draining /\ RowsKept
    /\ Reported /\ QueryNoted /\ TxnFollows /\ MirrorFollows

WireInv == framed /\ Ordered /\ ParamsFollowed /\ Exchange

SessionInv == TypeOK /\ Fresh /\ Closed /\ (~disturbed => WireInv)

\* Notifications are numbered up to the counter, and no answer is one.
NotesInv ==
    /\ sent \subseteq 1..asyncs
    /\ \A j \in 1..Len(reply) : reply[j].type \notin Async
    /\ NotificationsKept
-----------------------------------------------------------------------------
(* Types.                                                                  *)

Statuses == {"none", "ok", "error", "adopted", "refused", "timeout", "closed", "protocol"}

\* A call that returns, and one that goes on in another phase.
LEMMA CallTypes ==
    ASSUME TypeOK, NEW t \in Threads
    PROVE  /\ \A status \in Statuses :
                Returns(t, status) /\ inTxn' \in BOOLEAN =>
                    call' \in [Threads -> Calls] /\ mirror' \in BOOLEAN
           /\ \A phase \in {"idle", "recv", "drain"} :
                Stays(t, phase) => call' \in [Threads -> Calls] /\ mirror' \in BOOLEAN
  <1>1. call \in [Threads -> Calls] /\ mirror \in BOOLEAN /\ call[t] \in Calls
    BY DEF TypeOK
  <1>2. ASSUME NEW status \in Statuses, Returns(t, status), inTxn' \in BOOLEAN
        PROVE  call' \in [Threads -> Calls] /\ mirror' \in BOOLEAN
    <2>1. mirror' \in BOOLEAN
      BY <1>1, <1>2 DEF Returns
    <2>2. call' \in [Threads -> Calls]
      BY <1>1, <1>2 DEF Returns, Calls, Statuses
    <2> QED BY <2>1, <2>2
  <1>3. ASSUME NEW phase \in {"idle", "recv", "drain"}, Stays(t, phase)
        PROVE  call' \in [Threads -> Calls] /\ mirror' \in BOOLEAN
    BY <1>1, <1>3 DEF Stays, Calls
  <1> QED BY <1>2, <1>3

\* What is taken off the socket is a message, and the rest are messages.
LEMMA PopsTypes ==
    ASSUME TypeOK, NEW t, NEW types, Pops(t, types)
    PROVE  /\ Head(toClient) \in Messages /\ toClient' \in Seq(Messages)
           /\ Head(toClient).id \in {0, 1} /\ Head(toClient).active \in BOOLEAN
           /\ Head(toClient).of \in Nat
  <1>1. toClient \in Seq(Messages) /\ toClient # <<>>
    BY DEF TypeOK, Pops
  <1>2. Head(toClient) \in Messages /\ Tail(toClient) \in Seq(Messages)
    BY <1>1, HeadTailProperties
  <1> QED BY <1>2 DEF Pops, Messages

\* So is what decodes.
LEMMA TakesTypes ==
    ASSUME TypeOK, NEW t, NEW types, Takes(t, types)
    PROVE  /\ Head(toClient) \in Messages /\ toClient' \in Seq(Messages)
           /\ Head(toClient).id \in {0, 1} /\ Head(toClient).active \in BOOLEAN
           /\ Head(toClient).of \in Nat
  BY PopsTypes DEF Takes

\* What a step of Takes leaves alone has its type still.
LEMMA TakesRest ==
    ASSUME TypeOK, NEW t \in Threads, NEW types, Takes(t, types),
           call' \in [Threads -> Calls], mirror' \in BOOLEAN, inTxn' \in BOOLEAN,
           txnId' \in {0, 1}, notes' \in Seq(Nat), rowsOf' \subseteq Nat,
           lastQuery' \in 0..MaxRequests
    PROVE  TypeOK'
  <1>1. toClient' \in Seq(Messages)
    BY TakesTypes
  <1> QED BY <1>1 DEF Takes, Pops, TypeOK, serverVars

\* A read that fails leaves the types.
LEMMA FailsTypes ==
    ASSUME TypeOK, NEW t \in Threads, NEW status \in Statuses, ReceiveFails(t, status),
           toClient' \in Seq(Messages), framed' \in BOOLEAN, disturbed' \in BOOLEAN
    PROVE  TypeOK'
  <1> DEFINE s == IF call[t].phase = "drain" THEN "error" ELSE status
  <1>1. s \in Statuses /\ Returns(t, s) /\ inTxn' \in BOOLEAN
    BY DEF ReceiveFails, Statuses, TypeOK
  <1> HIDE DEF s
  <1>2. call' \in [Threads -> Calls] /\ mirror' \in BOOLEAN
    BY <1>1, CallTypes
  <1>3. lastQuery' \in 0..MaxRequests
    BY ClientAssumption DEF ReceiveFails, TypeOK
  <1> QED BY <1>1, <1>2, <1>3 DEF ReceiveFails, TypeOK, serverVars

\* Every step of a reading loop keeps the types.
LEMMA ReceiveTypes ==
    ASSUME TypeOK, NEW t \in Threads, Receive(t)
    PROVE  TypeOK'
  <1>0. /\ inTxn \in BOOLEAN /\ mirror \in BOOLEAN /\ txnId \in {0, 1} /\ notes \in Seq(Nat)
        /\ rowsOf \subseteq Nat /\ lastQuery \in 0..MaxRequests /\ call[t].phase \in {"idle", "recv", "drain"}
        /\ 0 \in 0..MaxRequests /\ "ok" \in Statuses /\ "error" \in Statuses
    BY ClientAssumption DEF TypeOK, Calls, Statuses
  <1>1. CASE HandleAsyncMessage(t)
    <2>1. /\ Takes(t, Async) /\ Stays(t, call[t].phase)
          /\ UNCHANGED <<lastQuery, inTxn, rowsOf>>
          /\ notes' = notes \/ notes' = Append(notes, Head(toClient).of)
          /\ txnId' = txnId \/ txnId' = Head(toClient).id
      <3>1. /\ notes' = (IF Head(toClient).type = "notification" THEN Append(notes, Head(toClient).of)
                         ELSE notes)
            /\ txnId' = IF Head(toClient).type = "param" THEN Head(toClient).id ELSE txnId
        BY <1>1 DEF HandleAsyncMessage
      <3>2. /\ Takes(t, Async) /\ Stays(t, call[t].phase)
            /\ UNCHANGED <<lastQuery, inTxn, rowsOf>>
        BY <1>1 DEF HandleAsyncMessage
      <3> QED BY <3>1, <3>2
    <2>2. notes' \in Seq(Nat) /\ txnId' \in {0, 1}
      <3>1. Head(toClient).of \in Nat /\ Head(toClient).id \in {0, 1}
        BY <2>1, TakesTypes
      <3>2. Append(notes, Head(toClient).of) \in Seq(Nat)
        BY <1>0, <3>1
      <3> QED BY <1>0, <2>1, <3>1, <3>2
    <2>3. call' \in [Threads -> Calls] /\ mirror' \in BOOLEAN
      BY <1>0, <2>1, CallTypes
    <2> QED BY <1>0, <2>1, <2>2, <2>3, TakesRest
  <1>2. CASE HandleRow(t)
    <2>1. Takes(t, {"row", "complete"}) /\ Stays(t, call[t].phase)
          /\ UNCHANGED <<lastQuery, inTxn, txnId, notes>>
          /\ rowsOf' \in {rowsOf, rowsOf \cup {Head(toClient).of}}
      BY <1>2 DEF HandleRow
    <2>2. rowsOf' \subseteq Nat
      BY <1>0, <2>1, TakesTypes
    <2>3. call' \in [Threads -> Calls] /\ mirror' \in BOOLEAN
      BY <1>0, <2>1, CallTypes
    <2> QED BY <1>0, <2>1, <2>2, <2>3, TakesRest
  <1>3. CASE HandlePong(t)
    <2>1. Takes(t, {"pong"}) /\ UNCHANGED <<inTxn, lastQuery, txnId, notes, rowsOf>>
          /\ (Returns(t, "ok") \/ Stays(t, call[t].phase))
      BY <1>3 DEF HandlePong
    <2>2. call' \in [Threads -> Calls] /\ mirror' \in BOOLEAN
      BY <1>0, <2>1, CallTypes
    <2> QED BY <1>0, <2>1, <2>2, TakesRest
  <1>4. CASE HandleError(t)
    <2>1. Takes(t, {"error"}) /\ UNCHANGED <<inTxn, lastQuery, txnId, notes, rowsOf>>
          /\ Stays(t, "drain")
      BY <1>4 DEF HandleError
    <2>2. call' \in [Threads -> Calls] /\ mirror' \in BOOLEAN
      BY <2>1, CallTypes
    <2> QED BY <1>0, <2>1, <2>2, TakesRest
  <1>5. CASE HandleReady(t) \/ DrainedReady(t)
    <2>1. /\ Takes(t, {"ready"}) /\ inTxn' = Head(toClient).active /\ txnId' = Head(toClient).id
          /\ lastQuery' \in {0, lastQuery} /\ UNCHANGED <<notes, rowsOf>>
          /\ Returns(t, "ok") \/ Returns(t, "error")
      BY <1>5 DEF HandleReady, DrainedReady, TrackTransaction
    <2>2. inTxn' \in BOOLEAN /\ txnId' \in {0, 1}
      BY <2>1, TakesTypes
    <2>3. call' \in [Threads -> Calls] /\ mirror' \in BOOLEAN
      BY <1>0, <2>1, <2>2, CallTypes
    <2> QED BY <1>0, <2>1, <2>2, <2>3, TakesRest
  <1>6. CASE ReadTimesOut(t)
    <2>1. ReceiveFails(t, "timeout") /\ disturbed' = TRUE /\ framed' \in {framed, FALSE}
      BY <1>6 DEF ReadTimesOut
    <2>2. toClient' = toClient \/ (toClient # <<>> /\ toClient' = Tail(toClient))
      BY <1>6 DEF ReadTimesOut
    <2>3. toClient' \in Seq(Messages)
      BY <2>2, HeadTailProperties DEF TypeOK
    <2>4. framed' \in BOOLEAN /\ "timeout" \in Statuses
      BY <2>1 DEF TypeOK, Statuses
    <2> QED BY <2>1, <2>3, <2>4, FailsTypes
  <1>7. CASE PeerClosed(t)
    <2>1. ReceiveFails(t, "closed") /\ UNCHANGED <<toClient, framed, disturbed>>
      BY <1>7 DEF PeerClosed
    <2>2. toClient' \in Seq(Messages) /\ framed' \in BOOLEAN /\ disturbed' \in BOOLEAN
          /\ "closed" \in Statuses
      BY <2>1 DEF TypeOK, Statuses
    <2> QED BY <2>1, <2>2, FailsTypes
  <1>8. CASE BadHeader(t)
    <2>1. ReceiveFails(t, "protocol") /\ UNCHANGED <<toClient, framed, disturbed>>
      BY <1>8 DEF BadHeader
    <2>2. toClient' \in Seq(Messages) /\ framed' \in BOOLEAN /\ disturbed' \in BOOLEAN
          /\ "protocol" \in Statuses
      BY <2>1 DEF TypeOK, Statuses
    <2> QED BY <2>1, <2>2, FailsTypes
  <1>9. CASE ParseFails(t)
    <2>1. /\ toClient # <<>> /\ toClient' = Tail(toClient) /\ disturbed' = TRUE
          /\ lastQuery' \in {0, lastQuery}
          /\ UNCHANGED <<connected, nextSeq, delivered, toServer, framed, up, serverVars>>
          /\ UNCHANGED <<inTxn, txnId, notes, rowsOf>> /\ Returns(t, "protocol")
      BY <1>9 DEF ParseFails, Pops
    <2>2. toClient' \in Seq(Messages)
      BY <2>1, HeadTailProperties DEF TypeOK
    <2>3. "protocol" \in Statuses /\ inTxn' \in BOOLEAN
      BY <1>0, <2>1 DEF Statuses
    <2>4. call' \in [Threads -> Calls] /\ mirror' \in BOOLEAN
      BY <2>1, <2>3, CallTypes
    <2> QED BY <1>0, <2>1, <2>2, <2>3, <2>4 DEF TypeOK, serverVars
  <1> QED BY <1>1, <1>2, <1>3, <1>4, <1>5, <1>6, <1>7, <1>8, <1>9 DEF Receive, Progress

\* The answers of the server, one by one.
LEMMA Replies ==
    ASSUME NEW r \in [op : Ops, seq : Nat], NEW ok \in BOOLEAN, NEW txn
    PROVE  /\ ~ok => Reply(r, ok, txn) = <<Message("error", r.seq, 0, FALSE), Ready(r.seq, txn)>>
           /\ ok /\ r.op \in Fetching =>
                Reply(r, ok, txn) = <<Message("row", r.seq, 0, FALSE),
                                      Message("complete", r.seq, 0, FALSE), Ready(r.seq, txn)>>
           /\ ok /\ r.op = "ping" => Reply(r, ok, txn) = <<Message("pong", r.seq, 0, FALSE)>>
           /\ ok /\ r.op \notin Fetching \cup {"ping"} =>
                Reply(r, ok, txn) = <<Message("complete", r.seq, 0, FALSE), Ready(r.seq, txn)>>
  <1> DEFINE e == <<Message("error", r.seq, 0, FALSE), Ready(r.seq, txn)>>
             q == <<Message("row", r.seq, 0, FALSE), Message("complete", r.seq, 0, FALSE), Ready(r.seq, txn)>>
             p == <<Message("pong", r.seq, 0, FALSE)>>
             d == <<Message("complete", r.seq, 0, FALSE), Ready(r.seq, txn)>>
  <1>1. Reply(r, ok, txn) = IF ~ok THEN e ELSE CASE r.op \in Fetching -> q [] r.op = "ping" -> p [] OTHER -> d
    BY DEF Reply
  <1> HIDE DEF e, q, p, d
  <1>2. /\ ~ok => Reply(r, ok, txn) = e
        /\ ok /\ r.op \in Fetching => Reply(r, ok, txn) = q
        /\ ok /\ r.op = "ping" => Reply(r, ok, txn) = p
        /\ ok /\ r.op \notin Fetching \cup {"ping"} => Reply(r, ok, txn) = d
    BY <1>1 DEF Fetching
  <1> QED BY <1>2 DEF e, q, p, d

\* They are sequences of messages.
LEMMA ReplyTypes ==
    ASSUME NEW r \in [op : Ops, seq : Nat], NEW ok \in BOOLEAN, NEW txn \in {"none", "fresh", "open"}
    PROVE  Reply(r, ok, txn) \in Seq(Messages)
  <1>1. r.seq \in Nat /\ IdOf(txn) \in {0, 1}
    BY DEF IdOf
  <1>2. Message("error", r.seq, 0, FALSE) \in Messages /\ Message("row", r.seq, 0, FALSE) \in Messages
        /\ Message("complete", r.seq, 0, FALSE) \in Messages /\ Message("pong", r.seq, 0, FALSE) \in Messages
        /\ Ready(r.seq, txn) \in Messages
    BY <1>1 DEF Message, Messages, Ready
  <1>3. \A a, b, c \in Messages : /\ <<a>> \in Seq(Messages) /\ <<a, b>> \in Seq(Messages)
                                  /\ <<a, b, c>> \in Seq(Messages)
    OBVIOUS
  <1>4. CASE ~ok
    <2>1. Reply(r, ok, txn) = <<Message("error", r.seq, 0, FALSE), Ready(r.seq, txn)>>
      BY <1>4, Replies
    <2>2. <<Message("error", r.seq, 0, FALSE), Ready(r.seq, txn)>> \in Seq(Messages)
      BY <1>2, <1>3
    <2> QED BY <2>1, <2>2
  <1>5. CASE ok /\ r.op \in Fetching
    <2>1. Reply(r, ok, txn) = <<Message("row", r.seq, 0, FALSE), Message("complete", r.seq, 0, FALSE), Ready(r.seq, txn)>>
      BY <1>5, Replies
    <2>2. <<Message("row", r.seq, 0, FALSE), Message("complete", r.seq, 0, FALSE), Ready(r.seq, txn)>> \in Seq(Messages)
      BY <1>2, <1>3
    <2> QED BY <2>1, <2>2
  <1>6. CASE ok /\ r.op = "ping"
    <2>1. Reply(r, ok, txn) = <<Message("pong", r.seq, 0, FALSE)>>
      BY <1>6, Replies
    <2>2. <<Message("pong", r.seq, 0, FALSE)>> \in Seq(Messages)
      BY <1>2, <1>3
    <2> QED BY <2>1, <2>2
  <1>7. CASE ok /\ r.op \notin Fetching \cup {"ping"}
    <2>1. Reply(r, ok, txn) = <<Message("complete", r.seq, 0, FALSE), Ready(r.seq, txn)>>
      BY <1>7, Replies
    <2>2. <<Message("complete", r.seq, 0, FALSE), Ready(r.seq, txn)>> \in Seq(Messages)
      BY <1>2, <1>3
    <2> QED BY <2>1, <2>2
  <1> QED BY <1>4, <1>5, <1>6, <1>7

\* What the server decides is a success or not, and a transaction state; it
\* pings without a change of it.
LEMMA OutcomeTypes ==
    ASSUME TypeOK, NEW op \in Ops, NEW o \in Outcomes(op)
    PROVE  /\ o[1] \in BOOLEAN /\ o[2] \in {"none", "fresh", "open"}
           /\ op = "ping" => o[1] = TRUE /\ o[2] = srvTxn
  <1>1. srvTxn \in {"none", "fresh", "open"}
    BY DEF TypeOK
  <1>2. CASE op = "query"
    BY <1>2 DEF Outcomes
  <1>3. CASE op = "begin"
    <2>1. o \in (IF srvTxn = "open" THEN {<<FALSE, "open">>} ELSE {<<TRUE, "open">>, <<FALSE, srvTxn>>})
      BY <1>3 DEF Outcomes
    <2>2. o = <<FALSE, "open">> \/ o = <<TRUE, "open">> \/ o = <<FALSE, srvTxn>>
      BY <2>1
    <2>3. CASE o = <<FALSE, "open">>
      BY <1>3, <2>3
    <2>4. CASE o = <<TRUE, "open">>
      BY <1>3, <2>4
    <2>5. CASE o = <<FALSE, srvTxn>>
      BY <1>1, <1>3, <2>5
    <2> QED BY <2>2, <2>3, <2>4, <2>5
  <1>4. CASE op = "end"
    <2>1. o \in (IF srvTxn = "none" THEN {<<FALSE, "none">>} ELSE BOOLEAN \X {"none", "fresh"})
      BY <1>4 DEF Outcomes
    <2>2. o = <<FALSE, "none">> \/ o \in BOOLEAN \X {"none", "fresh"}
      BY <2>1
    <2>3. CASE o = <<FALSE, "none">>
      BY <1>4, <2>3
    <2>4. CASE o \in BOOLEAN \X {"none", "fresh"}
      BY <1>4, <2>4
    <2> QED BY <2>2, <2>3, <2>4
  <1>5. CASE op \in {"list", "control", "prepare"}
    <2>1. o \in BOOLEAN \X {srvTxn}
      BY <1>5 DEF Outcomes
    <2> QED BY <1>1, <1>5, <2>1
  <1>6. CASE op = "ping"
    <2>1. o = <<TRUE, srvTxn>>
      BY <1>6 DEF Outcomes
    <2> QED BY <1>1, <2>1
  <1> QED BY <1>2, <1>3, <1>4, <1>5, <1>6 DEF Ops

\* Every step keeps the types.
LEMMA TypeStep ==
    ASSUME TypeOK, [Next]_vars
    PROVE  TypeOK'
  <1>0. MaxRequests \in Nat /\ MaxAsync \in Nat /\ "owner" \in Threads
    BY ClientAssumption DEF Threads
  <1>a. /\ <<>> \in Seq(Nat) /\ <<>> \in Seq(Messages) /\ <<>> \in Seq([op : Ops, seq : Nat])
        /\ 0 \in 0..(MaxRequests + 1) /\ 0 \in 0..MaxRequests /\ 0 \in 0..MaxAsync
    BY <1>0
  <1>1. CASE Connect
    <2>1. PICK txn \in {"none", "fresh"} : srvTxn' = txn /\ inTxn' = (txn # "none") /\ txnId' = IdOf(txn)
                                           /\ mirror' = inTxn'
      BY <1>1 DEF Connect
    <2> QED BY <1>0, <1>1, <2>1 DEF Connect, TypeOK, IdOf
  <1>2. CASE Disconnect
    <2>1. IdleCall \in Calls
      BY DEF IdleCall, Calls, Ops
    <2>2. call' \in [Threads -> Calls]
      BY <1>2, <2>1 DEF Disconnect
    <2> QED BY <1>a, <1>2, <2>2 DEF Disconnect, TypeOK
  <1>3. CASE SendQueryCancel \/ StreamControl
    <2>1. WriteOnly
      BY <1>3 DEF SendQueryCancel, StreamControl
    <2>2. nextSeq' \in 0..(MaxRequests + 1) /\ disturbed' \in BOOLEAN
      BY <1>0, <2>1, ClientAssumption DEF WriteOnly, InBound, TypeOK
    <2> QED BY <2>1, <2>2 DEF WriteOnly, TypeOK, serverVars
  <1>4. CASE Serve
    <2> DEFINE r == Head(toServer)
    <2>1. r \in [op : Ops, seq : Nat] /\ Tail(toServer) \in Seq([op : Ops, seq : Nat])
      BY <1>4, HeadTailProperties DEF Serve, TypeOK
    <2>2. r.op \in Ops /\ r.seq \in Nat
      BY <2>1
    <2>3. PICK o \in Outcomes(r.op) : /\ srvTxn' = o[2] /\ reply' = Reply(r, o[1], o[2])
                                      /\ succeeded' = IF o[1] THEN succeeded \cup {r.seq} ELSE succeeded
      BY <1>4 DEF Serve
    <2>4. toServer' = Tail(toServer) /\ UNCHANGED <<clientVars, mirror, call, toClient, framed, up,
                                                    asyncs, sent, disturbed>>
      BY <1>4 DEF Serve
    <2> HIDE DEF r
    <2>5. o[1] \in BOOLEAN /\ o[2] \in {"none", "fresh", "open"}
      BY <2>2, OutcomeTypes
    <2>6. reply' \in Seq(Messages)
      BY <2>1, <2>3, <2>5, ReplyTypes
    <2>7. succeeded' \subseteq Nat
      BY <2>2, <2>3 DEF TypeOK
    <2> QED BY <2>1, <2>3, <2>4, <2>5, <2>6, <2>7 DEF TypeOK, clientVars
  <1>5. CASE Emit
    <2>1. Head(reply) \in Messages /\ Tail(reply) \in Seq(Messages)
      BY <1>5, HeadTailProperties DEF Emit, TypeOK
    <2>2. Append(toClient, Head(reply)) \in Seq(Messages)
      BY <2>1, AppendProperties DEF TypeOK
    <2> QED BY <1>5, <2>1, <2>2 DEF Emit, TypeOK, clientVars
  <1>6. CASE SendAsync
    <2>1. asyncs' = asyncs + 1 /\ asyncs' \in 0..MaxAsync /\ asyncs' \in Nat
      BY <1>0, <1>6 DEF SendAsync, TypeOK
    <2>2. PICK type \in {"notification", "param"} :
            /\ toClient' = Append(toClient, Message(type, asyncs', IdOf(srvTxn), FALSE))
            /\ sent' = IF type = "notification" THEN sent \cup {asyncs'} ELSE sent
      BY <1>6 DEF SendAsync, Async
    <2>3. Message(type, asyncs', IdOf(srvTxn), FALSE) \in Messages
      BY <2>1 DEF Message, Messages, IdOf
    <2>4. toClient' \in Seq(Messages) /\ sent' \subseteq Nat
      BY <2>1, <2>2, <2>3, AppendProperties DEF TypeOK
    <2> QED BY <1>6, <2>1, <2>4 DEF SendAsync, TypeOK, clientVars
  <1>7. CASE ServerCloses
    BY <1>a, <1>7 DEF ServerCloses, TypeOK, clientVars
  <1>8. ASSUME NEW t \in Threads, NEW op \in Ops, Call(t, op)
        PROVE  TypeOK'
    <2>1. nextSeq \in 0..MaxRequests /\ nextSeq' = nextSeq + 1 /\ nextSeq' \in 0..(MaxRequests + 1)
          /\ nextSeq \in Nat
      BY <1>0, <1>8, ClientAssumption DEF Call, Send, SendFails, MayCall, InBound, TypeOK
    <2>2. PICK phase \in {"recv", "idle"}, status \in {"none", "closed"} :
             call' = [call EXCEPT ![t] = [op |-> op, seq |-> nextSeq, phase |-> phase, status |-> status]]
      BY <1>8 DEF Call, Send, SendFails
    <2>3. [op |-> op, seq |-> nextSeq, phase |-> phase, status |-> status] \in Calls
      BY <2>1 DEF Calls
    <2>4. call' \in [Threads -> Calls]
      BY <2>2, <2>3 DEF TypeOK
    <2>5. lastQuery' \in 0..MaxRequests
      BY <1>8, <2>1 DEF Call, Send, SendFails, TypeOK
    <2>6. rowsOf' \subseteq Nat
      BY <1>8 DEF Call, Send, SendFails, TypeOK
    <2>7. toServer' \in Seq([op : Ops, seq : Nat])
      <3>1. toServer' = toServer \/ toServer' = Append(toServer, [op |-> op, seq |-> nextSeq])
        BY <1>8 DEF Call, Send, SendFails
      <3>2. [op |-> op, seq |-> nextSeq] \in [op : Ops, seq : Nat]
        BY <2>1
      <3>3. toServer \in Seq([op : Ops, seq : Nat])
        BY DEF TypeOK
      <3>4. PICK R, m : R = [op : Ops, seq : Nat] /\ m = [op |-> op, seq |-> nextSeq]
        OBVIOUS
      <3>5. m \in R /\ toServer \in Seq(R) /\ (toServer' = toServer \/ toServer' = Append(toServer, m))
        BY <3>1, <3>2, <3>3, <3>4
      <3>6. toServer' \in Seq(R)
        BY <3>5, AppendProperties
      <3> QED BY <3>4, <3>6
    <2>8. /\ UNCHANGED <<connected, inTxn, txnId, notes, delivered, mirror, toClient, framed, up, serverVars>>
          /\ disturbed' \in BOOLEAN
      BY <1>8, ClientAssumption DEF Call, Send, SendFails, TypeOK
    <2> QED BY <2>1, <2>4, <2>5, <2>6, <2>7, <2>8 DEF TypeOK, serverVars
  <1>9. CASE ExecuteQuery \/ AttachList \/ Prepare \/ Control \/ BeginTransaction \/ EndTransaction
    BY <1>0, <1>8, <1>9 DEF ExecuteQuery, AttachList, Prepare, Control, BeginTransaction, EndTransaction, Ops
  <1>10. CASE BeginLocally("owner")
    <2>1. PICK defaults \in BOOLEAN :
            LET adopts == txnId = 0 /\ defaults
            IN /\ call' = [call EXCEPT !["owner"] =
                             [op |-> "begin", seq |-> 0, phase |-> "idle",
                              status |-> IF adopts THEN "adopted" ELSE "refused"]]
               /\ mirror' = IF adopts THEN inTxn ELSE mirror
      BY <1>10 DEF BeginLocally
    <2>2. call' \in [Threads -> Calls] /\ mirror' \in BOOLEAN
      BY <1>0, <2>1 DEF TypeOK, Calls, Ops
    <2> QED BY <1>10, <2>2 DEF BeginLocally, TypeOK, serverVars
  <1>11. CASE DrainNotifications
    <2>1. delivered \o notes \in Seq(Nat)
      BY ConcatProperties DEF TypeOK
    <2> QED BY <1>11, <2>1 DEF DrainNotifications, TypeOK, serverVars
  <1>12. CASE \E t \in Callers : Ping(t) \/ Receive(t)
    <2>1. PICK t \in Threads : Ping(t) \/ Receive(t)
      BY <1>12 DEF Callers, Threads
    <2> QED BY <1>8, <2>1, ReceiveTypes DEF Ping, Ops
  <1>13. CASE UNCHANGED vars
    BY <1>13 DEF vars, TypeOK
  <1> QED BY <1>1, <1>2, <1>3, <1>4, <1>5, <1>6, <1>7, <1>9, <1>10, <1>11, <1>12, <1>13 DEF Next

\* The initial state has its types.
LEMMA InitTypes == Init => TypeOK
  <1>1. IdleCall \in Calls
    BY DEF IdleCall, Calls, Ops
  <1>2. /\ <<>> \in Seq(Nat) /\ <<>> \in Seq(Messages) /\ <<>> \in Seq([op : Ops, seq : Nat])
        /\ 0 \in 0..(MaxRequests + 1) /\ 0 \in 0..MaxRequests /\ 0 \in 0..MaxAsync
    BY ClientAssumption
  <1>3. [t \in Threads |-> IdleCall] \in [Threads -> Calls]
    BY <1>1
  <1> QED BY <1>2, <1>3 DEF Init, TypeOK

\* Every variable keeps its type, with the keepalive thread and without.
THEOREM ClientTypeCorrect == Spec => []TypeOK
  BY InitTypes, TypeStep, PTL DEF Spec

-----------------------------------------------------------------------------
(* Notifications.                                                          *)

Notes(w) == {i \in 1..Len(w) : w[i].type = "notification"}

\* What was got and what is on the wire w are the notifications in all.
KeptAs(g, w, all) ==
    /\ all = {g[i] : i \in 1..Len(g)} \cup {w[i].of : i \in Notes(w)}
    /\ \A i, j \in 1..Len(g) : i < j => g[i] < g[j]
    /\ \A i, j \in Notes(w) : i < j => w[i].of < w[j].of
    /\ \A i \in 1..Len(g), j \in Notes(w) : g[i] < w[j].of

\* NotificationsKept, in terms of the sequences alone.
LEMMA KeptIsKept == NotificationsKept <=> (framed => KeptAs(delivered \o notes, toClient, sent))
  BY DEF NotificationsKept, KeptAs, Notes

\* The indices of a tail are those of the sequence, one less.
LEMMA TailIndex ==
    ASSUME NEW S, NEW w \in Seq(S), w # <<>>
    PROVE  /\ Tail(w) \in Seq(S) /\ Head(w) = w[1] /\ Len(w) \in Nat /\ Len(w) > 0
           /\ Len(Tail(w)) = Len(w) - 1
           /\ \A i \in 1..Len(Tail(w)) : Tail(w)[i] = w[i + 1] /\ i + 1 \in 1..Len(w)
           /\ \A i \in 1..Len(w) : i # 1 => i - 1 \in 1..Len(Tail(w)) /\ w[i] = Tail(w)[i - 1]
  <1>1. Len(w) \in Nat /\ Len(w) > 0 /\ Tail(w) \in Seq(S) /\ Len(Tail(w)) = Len(w) - 1
        /\ Head(w) = w[1]
    OBVIOUS
  <1>2. \A i \in 1..Len(Tail(w)) : Tail(w)[i] = w[i + 1] /\ i + 1 \in 1..Len(w)
    BY <1>1
  <1>3. \A i \in 1..Len(w) : i # 1 => i - 1 \in 1..Len(Tail(w)) /\ w[i] = Tail(w)[i - 1]
    BY <1>1, <1>2
  <1> QED BY <1>1, <1>2, <1>3

\* The indices of a sequence with one more element.
LEMMA AppendIndex ==
    ASSUME NEW S, NEW w \in Seq(S), NEW m \in S
    PROVE  /\ Append(w, m) \in Seq(S) /\ Len(w) \in Nat /\ Len(Append(w, m)) = Len(w) + 1
           /\ \A i \in 1..Len(w) : Append(w, m)[i] = w[i] /\ i \in 1..(Len(w) + 1)
           /\ Append(w, m)[Len(w) + 1] = m
           /\ \A i \in 1..(Len(w) + 1) : i \in 1..Len(w) \/ i = Len(w) + 1
  OBVIOUS

\* A message that is no notification goes off the wire.
LEMMA KeptTail ==
    ASSUME NEW g \in Seq(Nat), NEW w \in Seq(Messages), NEW all, KeptAs(g, w, all),
           w # <<>>, Head(w).type # "notification"
    PROVE  KeptAs(g, Tail(w), all)
  <1> DEFINE v == Tail(w)
  <1>1. /\ Head(w) = w[1] /\ Len(w) \in Nat /\ Len(v) = Len(w) - 1
        /\ \A i \in 1..Len(v) : v[i] = w[i + 1] /\ i + 1 \in 1..Len(w)
        /\ \A i \in 1..Len(w) : i # 1 => i - 1 \in 1..Len(v) /\ w[i] = v[i - 1]
    BY TailIndex
  <1> HIDE DEF v
  <1>2. \A i \in Notes(v) : i + 1 \in Notes(w) /\ v[i].of = w[i + 1].of /\ i \in Nat
    BY <1>1 DEF Notes
  <1>3. \A i \in Notes(w) : i - 1 \in Notes(v) /\ w[i].of = v[i - 1].of
    BY <1>1 DEF Notes
  <1>4. {w[i].of : i \in Notes(w)} = {v[i].of : i \in Notes(v)}
    <2>1. \A i \in Notes(w) : w[i].of \in {v[j].of : j \in Notes(v)}
      BY <1>3
    <2>2. \A i \in Notes(v) : v[i].of \in {w[j].of : j \in Notes(w)}
      BY <1>2
    <2> QED BY <2>1, <2>2
  <1>5. \A i, j \in Notes(v) : i < j => v[i].of < v[j].of
    <2> SUFFICES ASSUME NEW i \in Notes(v), NEW j \in Notes(v), i < j
                 PROVE  v[i].of < v[j].of
      OBVIOUS
    <2>1. i + 1 < j + 1 /\ i + 1 \in Notes(w) /\ j + 1 \in Notes(w)
      BY <1>2
    <2>2. w[i + 1].of < w[j + 1].of
      BY <2>1 DEF KeptAs
    <2> QED BY <1>2, <2>2
  <1>6. \A i \in 1..Len(g), j \in Notes(v) : g[i] < v[j].of
    BY <1>2 DEF KeptAs
  <1> QED BY <1>4, <1>5, <1>6 DEF KeptAs, v

\* A notification goes from the wire to the end of the buffer.
LEMMA KeptMove ==
    ASSUME NEW g \in Seq(Nat), NEW w \in Seq(Messages), NEW all, KeptAs(g, w, all),
           w # <<>>, Head(w).type = "notification"
    PROVE  KeptAs(Append(g, Head(w).of), Tail(w), all)
  <1> DEFINE v == Tail(w)
             f == Append(g, Head(w).of)
             n == Len(g) + 1
  <1>1. /\ Head(w) = w[1] /\ Len(w) \in Nat /\ Len(w) > 0 /\ Len(v) = Len(w) - 1
        /\ \A i \in 1..Len(v) : v[i] = w[i + 1] /\ i + 1 \in 1..Len(w)
        /\ \A i \in 1..Len(w) : i # 1 => i - 1 \in 1..Len(v) /\ w[i] = v[i - 1]
    BY TailIndex
  <1>a. Head(w).of \in Nat
    <2>1. w[1] \in Messages
      BY <1>1, ElementOfSeq
    <2> QED BY <1>1, <2>1 DEF Messages
  <1>2. /\ Len(g) \in Nat /\ Len(f) = n
        /\ \A i \in 1..Len(g) : f[i] = g[i] /\ i \in 1..n
        /\ f[n] = w[1].of
        /\ \A i \in 1..n : i \in 1..Len(g) \/ i = n
    BY <1>1, <1>a, AppendIndex
  <1>b. n \in 1..n /\ n \in Nat
    BY <1>2
  <1> HIDE DEF v, f
  <1>3. 1 \in Notes(w)
    BY <1>1 DEF Notes
  <1>4. \A i \in Notes(v) : i + 1 \in Notes(w) /\ v[i].of = w[i + 1].of /\ i \in Nat /\ i + 1 > 1
    BY <1>1 DEF Notes
  <1>5. \A i \in Notes(w) : i # 1 => i - 1 \in Notes(v) /\ w[i].of = v[i - 1].of
    BY <1>1 DEF Notes
  <1>6. all = {f[i] : i \in 1..Len(f)} \cup {v[i].of : i \in Notes(v)}
    <2>1. ASSUME NEW x \in all PROVE x \in {f[i] : i \in 1..Len(f)} \cup {v[i].of : i \in Notes(v)}
      <3>1. CASE \E i \in 1..Len(g) : x = g[i]
        BY <1>2, <3>1
      <3>2. CASE \E i \in Notes(w) : x = w[i].of
        <4>1. PICK i \in Notes(w) : x = w[i].of
          BY <3>2
        <4>2. CASE i = 1
          BY <1>2, <1>b, <4>1, <4>2
        <4>3. CASE i # 1
          BY <1>5, <4>1, <4>3
        <4> QED BY <4>2, <4>3
      <3> QED BY <2>1, <3>1, <3>2 DEF KeptAs
    <2>2. ASSUME NEW i \in 1..Len(f) PROVE f[i] \in all
      BY <1>2, <1>3 DEF KeptAs
    <2>3. ASSUME NEW i \in Notes(v) PROVE v[i].of \in all
      BY <1>4 DEF KeptAs
    <2> QED BY <2>1, <2>2, <2>3
  <1>7. \A i, j \in 1..Len(f) : i < j => f[i] < f[j]
    <2> SUFFICES ASSUME NEW i \in 1..Len(f), NEW j \in 1..Len(f), i < j
                 PROVE  f[i] < f[j]
      OBVIOUS
    <2>1. i \in 1..Len(g)
      BY <1>2
    <2>2. CASE j \in 1..Len(g)
      BY <1>2, <2>1, <2>2 DEF KeptAs
    <2>3. CASE j = n
      BY <1>2, <1>3, <2>1, <2>3 DEF KeptAs
    <2> QED BY <1>2, <2>2, <2>3
  <1>8. \A i, j \in Notes(v) : i < j => v[i].of < v[j].of
    <2> SUFFICES ASSUME NEW i \in Notes(v), NEW j \in Notes(v), i < j
                 PROVE  v[i].of < v[j].of
      OBVIOUS
    <2>1. i + 1 < j + 1 /\ i + 1 \in Notes(w) /\ j + 1 \in Notes(w)
      BY <1>4
    <2>2. w[i + 1].of < w[j + 1].of
      BY <2>1 DEF KeptAs
    <2> QED BY <1>4, <2>2
  <1>9. ASSUME NEW i \in 1..Len(f), NEW j \in Notes(v) PROVE f[i] < v[j].of
    <2>1. j + 1 \in Notes(w) /\ v[j].of = w[j + 1].of /\ j + 1 > 1
      BY <1>4
    <2>2. CASE i \in 1..Len(g)
      BY <1>2, <2>1, <2>2 DEF KeptAs
    <2>3. CASE i = n
      BY <1>2, <1>3, <2>1, <2>3 DEF KeptAs
    <2> QED BY <1>2, <2>2, <2>3
  <1> QED BY <1>6, <1>7, <1>8, <1>9 DEF KeptAs, v, f

\* A message that is no notification is written.
LEMMA KeptAppend ==
    ASSUME NEW g \in Seq(Nat), NEW w \in Seq(Messages), NEW all, KeptAs(g, w, all),
           NEW m \in Messages, m.type # "notification"
    PROVE  KeptAs(g, Append(w, m), all)
  <1> DEFINE v == Append(w, m)
  <1>1. /\ Len(w) \in Nat /\ Len(v) = Len(w) + 1 /\ v[Len(w) + 1] = m
        /\ \A i \in 1..Len(w) : v[i] = w[i] /\ i \in 1..(Len(w) + 1)
        /\ \A i \in 1..(Len(w) + 1) : i \in 1..Len(w) \/ i = Len(w) + 1
    BY AppendIndex
  <1> HIDE DEF v
  <1>2. Notes(v) = Notes(w) /\ \A i \in Notes(v) : v[i] = w[i]
    BY <1>1 DEF Notes
  <1> QED BY <1>2 DEF KeptAs, v

\* The next notification is written.
LEMMA KeptNew ==
    ASSUME NEW g \in Seq(Nat), NEW w \in Seq(Messages), NEW all, KeptAs(g, w, all),
           NEW m \in Messages, m.type = "notification", \A x \in all : x < m.of
    PROVE  KeptAs(g, Append(w, m), all \cup {m.of})
  <1> DEFINE v == Append(w, m)
             n == Len(w) + 1
  <1>1. /\ Len(w) \in Nat /\ Len(v) = n /\ v[n] = m
        /\ \A i \in 1..Len(w) : v[i] = w[i] /\ i \in 1..n
        /\ \A i \in 1..n : i \in 1..Len(w) \/ i = n
    BY AppendIndex
  <1> HIDE DEF v
  <1>2. Notes(v) = Notes(w) \cup {n} /\ \A i \in Notes(w) : v[i] = w[i] /\ i < n
    BY <1>1 DEF Notes
  <1>3. \A i \in Notes(w) : w[i].of < m.of
    BY DEF KeptAs
  <1>4. \A i \in 1..Len(g) : g[i] < m.of
    BY DEF KeptAs
  <1>5. {v[i].of : i \in Notes(v)} = {w[i].of : i \in Notes(w)} \cup {m.of}
    BY <1>1, <1>2
  <1>6. \A i, j \in Notes(v) : i < j => v[i].of < v[j].of
    <2> SUFFICES ASSUME NEW i \in Notes(v), NEW j \in Notes(v), i < j
                 PROVE  v[i].of < v[j].of
      OBVIOUS
    <2>1. i \in Notes(w)
      BY <1>1, <1>2 DEF Notes
    <2>2. CASE j = n
      BY <1>1, <1>2, <1>3, <2>1, <2>2
    <2>3. CASE j \in Notes(w)
      BY <1>2, <2>1, <2>3 DEF KeptAs
    <2> QED BY <1>2, <2>2, <2>3
  <1>7. \A i \in 1..Len(g), j \in Notes(v) : g[i] < v[j].of
    BY <1>1, <1>2, <1>4 DEF KeptAs
  <1> QED BY <1>5, <1>6, <1>7 DEF KeptAs, v

\* No answer of the server is a notification.
LEMMA ReplyAnswers ==
    ASSUME NEW r \in [op : Ops, seq : Nat], NEW ok \in BOOLEAN, NEW txn
    PROVE  \A j \in 1..Len(Reply(r, ok, txn)) : Reply(r, ok, txn)[j].type \notin Async
  <1>1. CASE ~ok
    <2>1. Reply(r, ok, txn) = <<Message("error", r.seq, 0, FALSE), Ready(r.seq, txn)>>
      BY <1>1, Replies
    <2> QED BY <2>1 DEF Message, Ready, Async
  <1>2. CASE ok /\ r.op \in Fetching
    <2>1. Reply(r, ok, txn) = <<Message("row", r.seq, 0, FALSE), Message("complete", r.seq, 0, FALSE),
                                Ready(r.seq, txn)>>
      BY <1>2, Replies
    <2> QED BY <2>1 DEF Message, Ready, Async
  <1>3. CASE ok /\ r.op = "ping"
    <2>1. Reply(r, ok, txn) = <<Message("pong", r.seq, 0, FALSE)>>
      BY <1>3, Replies
    <2> QED BY <2>1 DEF Message, Async
  <1>4. CASE ok /\ r.op \notin Fetching \cup {"ping"}
    <2>1. Reply(r, ok, txn) = <<Message("complete", r.seq, 0, FALSE), Ready(r.seq, txn)>>
      BY <1>4, Replies
    <2> QED BY <2>1 DEF Message, Ready, Async
  <1> QED BY <1>1, <1>2, <1>3, <1>4

\* A step that touches neither the notifications nor the wire.
LEMMA NotesUntouched ==
    ASSUME NotesInv, UNCHANGED <<sent, asyncs, delivered, notes, toClient, framed>>,
           \A j \in 1..Len(reply') : reply'[j].type \notin Async
    PROVE  NotesInv'
  <1>1. NotificationsKept'
    BY DEF NotesInv, NotificationsKept
  <1> QED BY <1>1 DEF NotesInv

\* Reading a message keeps the notifications.
LEMMA NotesTaken ==
    ASSUME TypeOK, NotesInv, NEW t, NEW types, Pops(t, types),
           notes' = IF Head(toClient).type = "notification" THEN Append(notes, Head(toClient).of)
                    ELSE notes
    PROVE  NotesInv'
  <1>1. /\ framed /\ framed' /\ toClient # <<>> /\ toClient' = Tail(toClient)
        /\ UNCHANGED <<delivered, reply, asyncs, sent>>
    BY DEF Pops, serverVars
  <1>2. /\ toClient \in Seq(Messages) /\ delivered \in Seq(Nat) /\ notes \in Seq(Nat)
        /\ delivered \o notes \in Seq(Nat) /\ Head(toClient).of \in Nat
    BY PopsTypes, ConcatProperties DEF TypeOK
  <1>3. KeptAs(delivered \o notes, toClient, sent)
    BY <1>1, KeptIsKept DEF NotesInv
  <1>4. KeptAs(delivered' \o notes', toClient', sent')
    <2>1. CASE Head(toClient).type = "notification"
      <3>1. delivered' = delivered /\ notes' = Append(notes, Head(toClient).of)
        BY <1>1, <2>1
      <3>2. \A f, g \in Seq(Nat), n \in Nat : f \o Append(g, n) = Append(f \o g, n)
        OBVIOUS
      <3>3. delivered' \o notes' = Append(delivered \o notes, Head(toClient).of)
        BY <1>2, <3>1, <3>2
      <3>4. KeptAs(Append(delivered \o notes, Head(toClient).of), Tail(toClient), sent)
        BY <1>1, <1>2, <1>3, <2>1, KeptMove
      <3> QED BY <1>1, <3>3, <3>4
    <2>2. CASE Head(toClient).type # "notification"
      <3>1. KeptAs(delivered \o notes, Tail(toClient), sent)
        BY <1>1, <1>2, <1>3, <2>2, KeptTail
      <3> QED BY <1>1, <2>2, <3>1
    <2> QED BY <2>1, <2>2
  <1>5. NotificationsKept'
    BY <1>4 DEF NotificationsKept, KeptAs, Notes
  <1> QED BY <1>1, <1>5 DEF NotesInv

\* Every step keeps the notifications.
LEMMA NotesStep ==
    ASSUME TypeOK, NotesInv, [Next]_vars
    PROVE  NotesInv'
  <1>0. /\ toClient \in Seq(Messages) /\ delivered \in Seq(Nat) /\ notes \in Seq(Nat)
        /\ delivered \o notes \in Seq(Nat) /\ reply \in Seq(Messages) /\ asyncs \in Nat
        /\ \A j \in 1..Len(reply) : reply[j].type \notin Async
    BY ClientAssumption, ConcatProperties DEF TypeOK, NotesInv
  <1>1. CASE Connect \/ SendQueryCancel \/ StreamControl \/ BeginLocally("owner") \/ UNCHANGED vars
    BY <1>0, <1>1, NotesUntouched
       DEF Connect, SendQueryCancel, StreamControl, WriteOnly, BeginLocally, vars, clientVars, serverVars
  <1>2. CASE Disconnect
    <2>1. sent' = {} /\ asyncs' = 0 /\ delivered' = <<>> /\ notes' = <<>> /\ toClient' = <<>> /\ reply' = <<>>
      BY <1>2 DEF Disconnect
    <2>2. NotificationsKept'
      <3>1. Len(<<>> \o <<>>) = 0 /\ Len(<<>>) = 0
        OBVIOUS
      <3> QED BY <2>1, <3>1 DEF NotificationsKept
    <2> QED BY <2>1, <2>2 DEF NotesInv
  <1>3. CASE Serve
    <2>1. Head(toServer) \in [op : Ops, seq : Nat]
      BY <1>3, HeadTailProperties DEF Serve, TypeOK
    <2>2. PICK o \in Outcomes(Head(toServer).op) : reply' = Reply(Head(toServer), o[1], o[2])
      BY <1>3 DEF Serve
    <2>3. Head(toServer).op \in Ops
      BY <2>1
    <2>4. o[1] \in BOOLEAN
      BY <2>2, <2>3, OutcomeTypes
    <2>5. \A j \in 1..Len(reply') : reply'[j].type \notin Async
      BY <2>1, <2>2, <2>4, ReplyAnswers
    <2> QED BY <1>3, <2>5, NotesUntouched DEF Serve, clientVars
  <1>4. CASE Emit
    <2>1. reply # <<>> /\ toClient' = Append(toClient, Head(reply)) /\ reply' = Tail(reply)
          /\ UNCHANGED <<delivered, notes, framed, asyncs, sent>>
      BY <1>4 DEF Emit, clientVars
    <2>2. /\ Head(reply) = reply[1] /\ 1 \in 1..Len(reply)
          /\ \A i \in 1..Len(Tail(reply)) : Tail(reply)[i] = reply[i + 1] /\ i + 1 \in 1..Len(reply)
      BY <1>0, <2>1, TailIndex
    <2>3. Head(reply) \in Messages /\ Head(reply).type # "notification"
      BY <1>0, <2>1, <2>2, HeadTailProperties DEF Async
    <2>4. framed => KeptAs(delivered \o notes, toClient, sent)
      BY KeptIsKept DEF NotesInv
    <2>5. framed => KeptAs(delivered \o notes, Append(toClient, Head(reply)), sent)
      BY <1>0, <2>3, <2>4, KeptAppend
    <2>6. framed' => KeptAs(delivered' \o notes', toClient', sent')
      BY <2>1, <2>5
    <2>7. NotificationsKept'
      BY <2>6 DEF NotificationsKept, KeptAs, Notes
    <2>8. \A j \in 1..Len(reply') : reply'[j].type \notin Async
      BY <1>0, <2>1, <2>2
    <2> QED BY <2>1, <2>7, <2>8 DEF NotesInv
  <1>5. CASE SendAsync
    <2>1. asyncs' = asyncs + 1 /\ UNCHANGED <<delivered, notes, framed, reply>>
      BY <1>5 DEF SendAsync, clientVars
    <2>2. PICK type \in {"notification", "param"} :
            /\ toClient' = Append(toClient, Message(type, asyncs', IdOf(srvTxn), FALSE))
            /\ sent' = IF type = "notification" THEN sent \cup {asyncs'} ELSE sent
      BY <1>5 DEF SendAsync, Async
    <2>3. PICK m : m = Message(type, asyncs', IdOf(srvTxn), FALSE)
      OBVIOUS
    <2>4. m \in Messages /\ m.type = type /\ m.of = asyncs + 1
      BY <1>0, <2>1, <2>2, <2>3 DEF Message, Messages, IdOf
    <2>5. \A x \in sent : x < m.of
      BY <1>0, <2>4 DEF NotesInv
    <2>6. framed => KeptAs(delivered \o notes, toClient, sent)
      BY KeptIsKept DEF NotesInv
    <2>7. framed => KeptAs(delivered \o notes, Append(toClient, m), sent')
      <3>1. CASE type = "notification"
        BY <1>0, <2>1, <2>2, <2>4, <2>5, <2>6, <3>1, KeptNew
      <3>2. CASE type # "notification"
        BY <1>0, <2>2, <2>4, <2>6, <3>2, KeptAppend
      <3> QED BY <3>1, <3>2
    <2>8. framed' => KeptAs(delivered' \o notes', toClient', sent')
      BY <2>1, <2>2, <2>3, <2>7
    <2>9. NotificationsKept'
      BY <2>8 DEF NotificationsKept, KeptAs, Notes
    <2>10. sent' \subseteq 1..asyncs'
      BY <1>0, <2>1, <2>2 DEF NotesInv
    <2> QED BY <1>0, <2>1, <2>9, <2>10 DEF NotesInv
  <1>6. CASE ServerCloses
    <2>1. reply' = <<>> /\ Len(<<>>) = 0
      BY <1>6 DEF ServerCloses
    <2>2. \A j \in 1..Len(reply') : reply'[j].type \notin Async
      BY <2>1
    <2> QED BY <1>6, <2>2, NotesUntouched DEF ServerCloses, clientVars
  <1>7. ASSUME NEW t, NEW op, Call(t, op)
        PROVE  NotesInv'
    BY <1>0, <1>7, NotesUntouched DEF Call, Send, SendFails, serverVars
  <1>8. CASE ExecuteQuery \/ AttachList \/ Prepare \/ Control \/ BeginTransaction \/ EndTransaction
    BY <1>7, <1>8 DEF ExecuteQuery, AttachList, Prepare, Control, BeginTransaction, EndTransaction
  <1>9. CASE DrainNotifications
    <2>1. delivered' = delivered \o notes /\ notes' = <<>>
          /\ UNCHANGED <<toClient, framed, sent, asyncs, reply>>
      BY <1>9 DEF DrainNotifications, serverVars
    <2>2. delivered' \o notes' = delivered \o notes
      BY <1>0, <2>1
    <2>3. NotificationsKept'
      BY <2>1, <2>2 DEF NotesInv, NotificationsKept
    <2> QED BY <1>0, <2>1, <2>3 DEF NotesInv
  <1>10. ASSUME NEW t \in Callers, Receive(t)
         PROVE  NotesInv'
    <2>1. CASE HandleAsyncMessage(t)
      <3>1. /\ Pops(t, Async)
            /\ notes' = IF Head(toClient).type = "notification" THEN Append(notes, Head(toClient).of)
                        ELSE notes
        BY <2>1 DEF HandleAsyncMessage, Takes
      <3> QED BY <3>1, NotesTaken
    <2>2. ASSUME NEW types, types \subseteq {"row", "complete", "pong", "error", "ready"}, Pops(t, types),
                 notes' = notes
          PROVE  NotesInv'
      <3>1. Head(toClient).type # "notification"
        BY <2>2 DEF Pops
      <3>2. notes' = IF Head(toClient).type = "notification" THEN Append(notes, Head(toClient).of)
                     ELSE notes
        BY <2>2, <3>1
      <3> QED BY <2>2, <3>2, NotesTaken
    <2>3. CASE HandleRow(t)
      BY <2>2, <2>3 DEF HandleRow, Takes
    <2>4. CASE HandlePong(t)
      BY <2>2, <2>4 DEF HandlePong, Takes
    <2>5. CASE HandleError(t)
      BY <2>2, <2>5 DEF HandleError, Takes
    <2>6. CASE HandleReady(t) \/ DrainedReady(t)
      BY <2>2, <2>6 DEF HandleReady, DrainedReady, Takes
    <2>7. CASE PeerClosed(t) \/ BadHeader(t)
      BY <1>0, <2>7, NotesUntouched DEF PeerClosed, BadHeader, ReceiveFails, serverVars
    <2>8. CASE ReadTimesOut(t)
      <3>1. UNCHANGED <<sent, asyncs, reply, delivered, notes>>
        BY <2>8 DEF ReadTimesOut, ReceiveFails, serverVars
      <3>2. CASE UNCHANGED <<toClient, framed>>
        BY <1>0, <3>1, <3>2, NotesUntouched
      <3>3. CASE framed' = FALSE
        BY <1>0, <3>1, <3>3 DEF NotesInv, NotificationsKept
      <3> QED BY <2>8, <3>2, <3>3 DEF ReadTimesOut
    <2>9. CASE ParseFails(t)
      <3>1. notes' = notes /\ (Pops(t, {"row"}) \/ Pops(t, {"complete"}) \/ Pops(t, {"ready"}))
        BY <2>9 DEF ParseFails
      <3>2. /\ {"row"} \subseteq {"row", "complete", "pong", "error", "ready"}
            /\ {"complete"} \subseteq {"row", "complete", "pong", "error", "ready"}
            /\ {"ready"} \subseteq {"row", "complete", "pong", "error", "ready"}
        OBVIOUS
      <3> QED BY <2>2, <3>1, <3>2
    <2> QED BY <1>10, <2>1, <2>3, <2>4, <2>5, <2>6, <2>7, <2>8, <2>9 DEF Receive, Progress
  <1> QED BY <1>1, <1>2, <1>3, <1>4, <1>5, <1>6, <1>7, <1>8, <1>9, <1>10 DEF Next, Ping

\* Notifications are kept whatever the calls, the server and the timeouts do,
\* with the keepalive thread and without: handleAsyncMessage buffers them in
\* every loop, the drain after an error included.
THEOREM NotificationsAreKept == Spec => []NotificationsKept
  <1>1. Init => NotesInv
    <2>1. Len(<<>> \o <<>>) = 0 /\ Len(<<>>) = 0
      OBVIOUS
    <2> QED BY <2>1 DEF Init, NotesInv, NotificationsKept
  <1>2. NotesInv => NotificationsKept
    BY DEF NotesInv
  <1> QED BY <1>1, <1>2, NotesStep, ClientTypeCorrect, PTL DEF Spec

-----------------------------------------------------------------------------
(* The wire.                                                               *)

\* There are three ranks.
LEMMA Ranks == \A type : Rank(type) \in 1..3
  BY DEF Rank

\* An asynchronous message is read.
LEMMA TakeAsync ==
    ASSUME NEW tc \in Seq(Messages), NEW rp \in Seq(Messages), NEW id,
           tc # <<>>, Head(tc).type \in Async, OrderedAs(tc, rp)
    PROVE  /\ OrderedAs(Tail(tc), rp) /\ ComingIn(Tail(tc), rp) = ComingIn(tc, rp)
           /\ FollowedAs(tc, rp, id) =>
                /\ FollowedAs(Tail(tc), rp, id)
                /\ Head(tc).type = "param" /\ Head(tc).id # id =>
                      \E m \in ComingIn(tc, rp) : m.type = "ready"
  <1> DEFINE v == Tail(tc)
  <1>1. /\ Head(tc) = tc[1] /\ Len(tc) \in Nat /\ Len(tc) > 0 /\ Len(v) = Len(tc) - 1
        /\ \A i \in 1..Len(v) : v[i] = tc[i + 1] /\ i + 1 \in 1..Len(tc)
        /\ \A i \in 1..Len(tc) : i # 1 => i - 1 \in 1..Len(v) /\ tc[i] = v[i - 1]
    BY TailIndex
  <1> HIDE DEF v
  <1>2. \A i \in AnswersOf(v) : i + 1 \in AnswersOf(tc) /\ v[i] = tc[i + 1] /\ i \in Nat
    BY <1>1 DEF AnswersOf
  <1>3. \A i \in AnswersOf(tc) : i - 1 \in AnswersOf(v) /\ tc[i] = v[i - 1]
    BY <1>1 DEF AnswersOf
  <1>4. OrderedAs(v, rp)
    <2>1. \A i, j \in AnswersOf(v) : i < j => Rank(v[i].type) < Rank(v[j].type)
      <3> SUFFICES ASSUME NEW i \in AnswersOf(v), NEW j \in AnswersOf(v), i < j
                   PROVE  Rank(v[i].type) < Rank(v[j].type)
        OBVIOUS
      <3>1. i + 1 < j + 1 /\ i + 1 \in AnswersOf(tc) /\ j + 1 \in AnswersOf(tc)
        BY <1>2
      <3>2. Rank(tc[i + 1].type) < Rank(tc[j + 1].type)
        BY <3>1 DEF OrderedAs
      <3> QED BY <1>2, <3>2
    <2> QED BY <1>2, <2>1 DEF OrderedAs
  <1>5. ComingIn(v, rp) = ComingIn(tc, rp)
    <2>1. \A i \in AnswersOf(tc) : tc[i] \in ComingIn(v, rp)
      BY <1>3 DEF ComingIn
    <2>2. \A i \in AnswersOf(v) : v[i] \in ComingIn(tc, rp)
      BY <1>2 DEF ComingIn
    <2> QED BY <2>1, <2>2 DEF ComingIn
  <1>6. ASSUME FollowedAs(tc, rp, id) PROVE FollowedAs(v, rp, id)
    <2> SUFFICES ASSUME NEW i \in 1..Len(v), v[i].type = "param", v[i].id # id
                 PROVE  \/ \E j \in 1..Len(v) : i < j /\ v[j].type = "ready"
                        \/ \E j \in 1..Len(rp) : rp[j].type = "ready"
      BY DEF FollowedAs
    <2>1. i + 1 \in 1..Len(tc) /\ tc[i + 1] = v[i]
      BY <1>1
    <2>2. \/ \E j \in 1..Len(tc) : i + 1 < j /\ tc[j].type = "ready"
          \/ \E j \in 1..Len(rp) : rp[j].type = "ready"
      BY <1>6, <2>1 DEF FollowedAs
    <2>3. ASSUME NEW j \in 1..Len(tc), i + 1 < j, tc[j].type = "ready"
          PROVE  \E k \in 1..Len(v) : i < k /\ v[k].type = "ready"
      <3>1. j # 1 /\ i < j - 1
        BY <1>1, <2>3
      <3>2. j - 1 \in 1..Len(v) /\ v[j - 1].type = "ready"
        BY <1>1, <2>3, <3>1
      <3> QED BY <3>1, <3>2
    <2> QED BY <2>2, <2>3
  <1>7. ASSUME FollowedAs(tc, rp, id), Head(tc).type = "param", Head(tc).id # id
        PROVE  \E m \in ComingIn(tc, rp) : m.type = "ready"
    <2>1. 1 \in 1..Len(tc) /\ tc[1].type = "param" /\ tc[1].id # id
      BY <1>1, <1>7
    <2>2. \/ \E j \in 1..Len(tc) : tc[j].type = "ready"
          \/ \E j \in 1..Len(rp) : rp[j].type = "ready"
      BY <1>7, <2>1 DEF FollowedAs
    <2>3. ASSUME NEW j \in 1..Len(tc), tc[j].type = "ready" PROVE tc[j] \in ComingIn(tc, rp)
      BY <2>3 DEF ComingIn, AnswersOf, Async
    <2>4. ASSUME NEW j \in 1..Len(rp) PROVE rp[j] \in ComingIn(tc, rp)
      BY DEF ComingIn
    <2> QED BY <2>2, <2>3, <2>4
  <1> QED BY <1>4, <1>5, <1>6, <1>7 DEF v

\* An answer is read: it is the one of the lowest rank.
LEMMA TakeAnswer ==
    ASSUME NEW tc \in Seq(Messages), NEW rp \in Seq(Messages), NEW id,
           tc # <<>>, Head(tc).type \notin Async, OrderedAs(tc, rp)
    PROVE  /\ OrderedAs(Tail(tc), rp)
           /\ Head(tc) \in ComingIn(tc, rp)
           /\ ComingIn(Tail(tc), rp) \subseteq ComingIn(tc, rp)
           /\ \A m \in ComingIn(tc, rp) : m = Head(tc) \/ m \in ComingIn(Tail(tc), rp)
           /\ \A m \in ComingIn(Tail(tc), rp) : Rank(Head(tc).type) < Rank(m.type)
           /\ FollowedAs(tc, rp, id) => FollowedAs(Tail(tc), rp, id)
  <1> DEFINE v == Tail(tc)
  <1>1. /\ Head(tc) = tc[1] /\ Len(tc) \in Nat /\ Len(tc) > 0 /\ Len(v) = Len(tc) - 1
        /\ \A i \in 1..Len(v) : v[i] = tc[i + 1] /\ i + 1 \in 1..Len(tc)
        /\ \A i \in 1..Len(tc) : i # 1 => i - 1 \in 1..Len(v) /\ tc[i] = v[i - 1]
    BY TailIndex
  <1> HIDE DEF v
  <1>2. \A i \in AnswersOf(v) : i + 1 \in AnswersOf(tc) /\ v[i] = tc[i + 1] /\ i \in Nat /\ 1 < i + 1
    BY <1>1 DEF AnswersOf
  <1>3. \A i \in AnswersOf(tc) : i # 1 => i - 1 \in AnswersOf(v) /\ tc[i] = v[i - 1]
    BY <1>1 DEF AnswersOf
  <1>a. 1 \in AnswersOf(tc)
    BY <1>1 DEF AnswersOf
  <1>4. OrderedAs(v, rp)
    <2>1. \A i, j \in AnswersOf(v) : i < j => Rank(v[i].type) < Rank(v[j].type)
      <3> SUFFICES ASSUME NEW i \in AnswersOf(v), NEW j \in AnswersOf(v), i < j
                   PROVE  Rank(v[i].type) < Rank(v[j].type)
        OBVIOUS
      <3>1. i + 1 < j + 1 /\ i + 1 \in AnswersOf(tc) /\ j + 1 \in AnswersOf(tc)
        BY <1>2
      <3>2. Rank(tc[i + 1].type) < Rank(tc[j + 1].type)
        BY <3>1 DEF OrderedAs
      <3> QED BY <1>2, <3>2
    <2> QED BY <1>2, <2>1 DEF OrderedAs
  <1>5. Head(tc) \in ComingIn(tc, rp)
    BY <1>1, <1>a DEF ComingIn
  <1>6. ComingIn(v, rp) \subseteq ComingIn(tc, rp)
    <2>1. \A i \in AnswersOf(v) : v[i] \in ComingIn(tc, rp)
      BY <1>2 DEF ComingIn
    <2> QED BY <2>1 DEF ComingIn
  <1>7. \A m \in ComingIn(tc, rp) : m = Head(tc) \/ m \in ComingIn(v, rp)
    <2>1. \A i \in AnswersOf(tc) : tc[i] = Head(tc) \/ tc[i] \in ComingIn(v, rp)
      BY <1>1, <1>3 DEF ComingIn
    <2> QED BY <2>1 DEF ComingIn
  <1>8. \A m \in ComingIn(v, rp) : Rank(Head(tc).type) < Rank(m.type)
    <2>1. \A i \in AnswersOf(v) : Rank(tc[1].type) < Rank(v[i].type)
      BY <1>2, <1>a DEF OrderedAs
    <2>2. \A j \in 1..Len(rp) : Rank(tc[1].type) < Rank(rp[j].type)
      BY <1>a DEF OrderedAs
    <2> QED BY <1>1, <2>1, <2>2 DEF ComingIn
  <1>9. ASSUME FollowedAs(tc, rp, id) PROVE FollowedAs(v, rp, id)
    <2> SUFFICES ASSUME NEW i \in 1..Len(v), v[i].type = "param", v[i].id # id
                 PROVE  \/ \E j \in 1..Len(v) : i < j /\ v[j].type = "ready"
                        \/ \E j \in 1..Len(rp) : rp[j].type = "ready"
      BY DEF FollowedAs
    <2>1. i + 1 \in 1..Len(tc) /\ tc[i + 1] = v[i]
      BY <1>1
    <2>2. \/ \E j \in 1..Len(tc) : i + 1 < j /\ tc[j].type = "ready"
          \/ \E j \in 1..Len(rp) : rp[j].type = "ready"
      BY <1>9, <2>1 DEF FollowedAs
    <2>3. ASSUME NEW j \in 1..Len(tc), i + 1 < j, tc[j].type = "ready"
          PROVE  \E k \in 1..Len(v) : i < k /\ v[k].type = "ready"
      <3>1. j # 1 /\ i < j - 1
        BY <1>1, <2>3
      <3>2. j - 1 \in 1..Len(v) /\ v[j - 1].type = "ready"
        BY <1>1, <2>3, <3>1
      <3> QED BY <3>1, <3>2
    <2> QED BY <2>2, <2>3
  <1> QED BY <1>4, <1>5, <1>6, <1>7, <1>8, <1>9 DEF v

\* The server writes the next message of its answer.
LEMMA WriteAnswer ==
    ASSUME NEW tc \in Seq(Messages), NEW rp \in Seq(Messages), NEW id,
           rp # <<>>, OrderedAs(tc, rp)
    PROVE  /\ OrderedAs(Append(tc, Head(rp)), Tail(rp))
           /\ ComingIn(Append(tc, Head(rp)), Tail(rp)) = ComingIn(tc, rp)
           /\ FollowedAs(tc, rp, id) => FollowedAs(Append(tc, Head(rp)), Tail(rp), id)
  <1> DEFINE h == Head(rp)
             v == Append(tc, h)
             u == Tail(rp)
             n == Len(tc) + 1
  <1>1. /\ h = rp[1] /\ h \in Messages /\ Len(rp) \in Nat /\ Len(rp) > 0 /\ Len(u) = Len(rp) - 1
        /\ \A i \in 1..Len(u) : u[i] = rp[i + 1] /\ i + 1 \in 1..Len(rp)
        /\ \A i \in 1..Len(rp) : i # 1 => i - 1 \in 1..Len(u) /\ rp[i] = u[i - 1]
    BY TailIndex, HeadTailProperties
  <1> HIDE DEF h, u
  <1>2. /\ Len(tc) \in Nat /\ Len(v) = n /\ v[n] = h
        /\ \A i \in 1..Len(tc) : v[i] = tc[i] /\ i \in 1..n
        /\ \A i \in 1..n : i \in 1..Len(tc) \/ i = n
    BY <1>1, AppendIndex
  <1> HIDE DEF v
  <1>3. 1 \in 1..Len(rp) /\ h.type \notin Async
    BY <1>1 DEF OrderedAs
  <1>4. AnswersOf(v) = AnswersOf(tc) \cup {n} /\ \A i \in AnswersOf(tc) : v[i] = tc[i] /\ i < n
    BY <1>2, <1>3 DEF AnswersOf
  <1>5. OrderedAs(v, u)
    <2>1. \A i, j \in AnswersOf(v) : i < j => Rank(v[i].type) < Rank(v[j].type)
      <3> SUFFICES ASSUME NEW i \in AnswersOf(v), NEW j \in AnswersOf(v), i < j
                   PROVE  Rank(v[i].type) < Rank(v[j].type)
        OBVIOUS
      <3>1. i \in AnswersOf(tc)
        BY <1>2, <1>4 DEF AnswersOf
      <3>2. CASE j \in AnswersOf(tc)
        BY <1>4, <3>1, <3>2 DEF OrderedAs
      <3>3. CASE j = n
        BY <1>1, <1>2, <1>3, <1>4, <3>1, <3>3 DEF OrderedAs
      <3> QED BY <1>4, <3>2, <3>3
    <2>2. \A i, j \in 1..Len(u) : i < j => Rank(u[i].type) < Rank(u[j].type)
      <3> SUFFICES ASSUME NEW i \in 1..Len(u), NEW j \in 1..Len(u), i < j
                   PROVE  Rank(u[i].type) < Rank(u[j].type)
        OBVIOUS
      <3>1. i + 1 < j + 1 /\ i + 1 \in 1..Len(rp) /\ j + 1 \in 1..Len(rp)
        BY <1>1
      <3>2. Rank(rp[i + 1].type) < Rank(rp[j + 1].type)
        BY <3>1 DEF OrderedAs
      <3> QED BY <1>1, <3>2
    <2>3. \A j \in 1..Len(u) : u[j].type \notin Async
      BY <1>1 DEF OrderedAs
    <2>4. ASSUME NEW i \in AnswersOf(v), NEW j \in 1..Len(u) PROVE Rank(v[i].type) < Rank(u[j].type)
      <3>1. j + 1 \in 1..Len(rp) /\ u[j] = rp[j + 1] /\ 1 < j + 1
        BY <1>1
      <3>2. CASE i \in AnswersOf(tc)
        BY <1>4, <3>1, <3>2 DEF OrderedAs
      <3>3. CASE i = n
        BY <1>1, <1>2, <1>3, <3>1, <3>3 DEF OrderedAs
      <3> QED BY <1>4, <3>2, <3>3
    <2> QED BY <2>1, <2>2, <2>3, <2>4 DEF OrderedAs
  <1>6. ComingIn(v, u) = ComingIn(tc, rp)
    <2>1. \A i \in AnswersOf(tc) : tc[i] \in ComingIn(v, u)
      BY <1>4 DEF ComingIn
    <2>2. ASSUME NEW j \in 1..Len(rp) PROVE rp[j] \in ComingIn(v, u)
      <3>1. CASE j = 1
        BY <1>1, <1>2, <1>4, <3>1 DEF ComingIn
      <3>2. CASE j # 1
        BY <1>1, <3>2 DEF ComingIn
      <3> QED BY <3>1, <3>2
    <2>3. \A i \in AnswersOf(v) : v[i] \in ComingIn(tc, rp)
      BY <1>1, <1>2, <1>3, <1>4 DEF ComingIn
    <2>4. \A j \in 1..Len(u) : u[j] \in ComingIn(tc, rp)
      BY <1>1 DEF ComingIn
    <2> QED BY <2>1, <2>2, <2>3, <2>4 DEF ComingIn
  <1>7. ASSUME FollowedAs(tc, rp, id) PROVE FollowedAs(v, u, id)
    <2> SUFFICES ASSUME NEW i \in 1..Len(v), v[i].type = "param", v[i].id # id
                 PROVE  \/ \E j \in 1..Len(v) : i < j /\ v[j].type = "ready"
                        \/ \E j \in 1..Len(u) : u[j].type = "ready"
      BY DEF FollowedAs
    <2>1. i \in 1..Len(tc) /\ tc[i] = v[i] /\ i < n
      BY <1>2, <1>3 DEF Async
    <2>2. \/ \E j \in 1..Len(tc) : i < j /\ tc[j].type = "ready"
          \/ \E j \in 1..Len(rp) : rp[j].type = "ready"
      BY <1>7, <2>1 DEF FollowedAs
    <2>3. ASSUME NEW j \in 1..Len(tc), i < j, tc[j].type = "ready"
          PROVE  \E k \in 1..Len(v) : i < k /\ v[k].type = "ready"
      BY <1>2, <2>3
    <2>4. ASSUME NEW j \in 1..Len(rp), rp[j].type = "ready"
          PROVE  \/ \E k \in 1..Len(v) : i < k /\ v[k].type = "ready"
                 \/ \E k \in 1..Len(u) : u[k].type = "ready"
      <3>1. CASE j = 1
        BY <1>1, <1>2, <2>1, <2>4, <3>1
      <3>2. CASE j # 1
        BY <1>1, <2>4, <3>2
      <3> QED BY <3>1, <3>2
    <2> QED BY <2>2, <2>3, <2>4
  <1> QED BY <1>5, <1>6, <1>7 DEF v, u, h

\* The server writes an asynchronous message.
LEMMA WriteAsync ==
    ASSUME NEW tc \in Seq(Messages), NEW rp \in Seq(Messages), NEW m \in Messages,
           m.type \in Async, OrderedAs(tc, rp)
    PROVE  /\ OrderedAs(Append(tc, m), rp) /\ ComingIn(Append(tc, m), rp) = ComingIn(tc, rp)
           /\ FollowedAs(tc, rp, m.id) => FollowedAs(Append(tc, m), rp, m.id)
  <1> DEFINE v == Append(tc, m)
             n == Len(tc) + 1
  <1>1. /\ Len(tc) \in Nat /\ Len(v) = n /\ v[n] = m
        /\ \A i \in 1..Len(tc) : v[i] = tc[i] /\ i \in 1..n
        /\ \A i \in 1..n : i \in 1..Len(tc) \/ i = n
    BY AppendIndex
  <1> HIDE DEF v
  <1>2. AnswersOf(v) = AnswersOf(tc) /\ \A i \in AnswersOf(tc) : v[i] = tc[i]
    BY <1>1 DEF AnswersOf
  <1>3. OrderedAs(v, rp)
    BY <1>2 DEF OrderedAs
  <1>4. ComingIn(v, rp) = ComingIn(tc, rp)
    BY <1>2 DEF ComingIn
  <1>5. ASSUME FollowedAs(tc, rp, m.id) PROVE FollowedAs(v, rp, m.id)
    <2> SUFFICES ASSUME NEW i \in 1..Len(v), v[i].type = "param", v[i].id # m.id
                 PROVE  \/ \E j \in 1..Len(v) : i < j /\ v[j].type = "ready"
                        \/ \E j \in 1..Len(rp) : rp[j].type = "ready"
      BY DEF FollowedAs
    <2>1. i \in 1..Len(tc) /\ tc[i] = v[i]
      BY <1>1
    <2>2. \/ \E j \in 1..Len(tc) : i < j /\ tc[j].type = "ready"
          \/ \E j \in 1..Len(rp) : rp[j].type = "ready"
      BY <1>5, <2>1 DEF FollowedAs
    <2> QED BY <1>1, <2>2
  <1> QED BY <1>3, <1>4, <1>5 DEF v

\* The server closes and writes no more: with a last message in the socket
\* the answer is there in full.
LEMMA WriteNoMore ==
    ASSUME NEW tc \in Seq(Messages), NEW rp \in Seq(Messages), OrderedAs(tc, rp)
    PROVE  /\ OrderedAs(tc, <<>>) /\ ComingIn(tc, <<>>) \subseteq ComingIn(tc, rp)
           /\ (\E m \in ComingIn(tc, <<>>) : m.type = "ready") => ComingIn(tc, <<>>) = ComingIn(tc, rp)
  <1>1. Len(<<>>) = 0 /\ Len(rp) \in Nat
    OBVIOUS
  <1>2. OrderedAs(tc, <<>>)
    BY <1>1 DEF OrderedAs
  <1>3. ComingIn(tc, <<>>) = {tc[i] : i \in AnswersOf(tc)}
    BY <1>1 DEF ComingIn
  <1>4. ASSUME NEW m \in ComingIn(tc, <<>>), m.type = "ready" PROVE ComingIn(tc, <<>>) = ComingIn(tc, rp)
    <2>1. PICK i \in AnswersOf(tc) : tc[i].type = "ready"
      BY <1>3, <1>4
    <2>2. ASSUME NEW j \in 1..Len(rp) PROVE FALSE
      <3>1. Rank(tc[i].type) < Rank(rp[j].type)
        BY DEF OrderedAs
      <3>2. Rank(tc[i].type) = 3
        BY <2>1 DEF Rank
      <3> QED BY <3>1, <3>2, Ranks
    <2> QED BY <1>3, <2>2 DEF ComingIn
  <1> QED BY <1>2, <1>3, <1>4 DEF ComingIn

-----------------------------------------------------------------------------
(* The exchange, without the keepalive thread.                             *)

\* The owner's call as it reads on, and as it returns.
LEMMA OwnStays ==
    ASSUME TypeOK, NEW phase, Stays("owner", phase)
    PROVE  /\ Own'.op = Own.op /\ Own'.seq = Own.seq /\ Own'.status = Own.status
           /\ Own'.phase = phase /\ mirror' = mirror
  <1>1. call \in [Threads -> Calls] /\ "owner" \in Threads /\ call["owner"] \in Calls
    BY DEF TypeOK, Threads
  <1> QED BY <1>1 DEF Stays, Own, Calls

\* What is left of the owner's call when it returns.
LEMMA OwnReturns ==
    ASSUME TypeOK, NEW status, Returns("owner", status)
    PROVE  /\ Own'.op = Own.op /\ Own'.seq = Own.seq /\ Own'.status = status
           /\ Own'.phase = "idle"
           /\ status = "ok" /\ Own.op \in Mirrored => mirror' = inTxn'
           /\ ~(status = "ok" /\ Own.op \in Mirrored) => mirror' = mirror
  <1>1. call \in [Threads -> Calls] /\ "owner" \in Threads /\ call["owner"] \in Calls
    BY DEF TypeOK, Threads
  <1>2. /\ Own'.op = Own.op /\ Own'.seq = Own.seq /\ Own'.status = status
        /\ Own'.phase = "idle"
    BY <1>1 DEF Returns, Own, Calls
  <1>3. /\ status = "ok" /\ Own.op \in Mirrored => mirror' = inTxn'
        /\ ~(status = "ok" /\ Own.op \in Mirrored) => mirror' = mirror
    BY DEF Returns, Own
  <1> QED BY <1>2, <1>3

\* The owner's call has its type, and what comes are messages.
LEMMA OwnTypes ==
    ASSUME TypeOK
    PROVE  /\ Own.op \in Ops /\ Own.seq \in Nat /\ Own.phase \in {"idle", "recv", "drain"}
           /\ Coming \subseteq Messages /\ toClient \in Seq(Messages) /\ reply \in Seq(Messages)
           /\ nextSeq \in Nat /\ succeeded \subseteq Nat
  <1>1. call["owner"] \in Calls
    BY DEF TypeOK, Threads
  <1>2. Own.op \in Ops /\ Own.seq \in Nat /\ Own.phase \in {"idle", "recv", "drain"}
    BY <1>1 DEF Own, Calls
  <1>3. toClient \in Seq(Messages) /\ reply \in Seq(Messages) /\ nextSeq \in Nat /\ succeeded \subseteq Nat
    BY ClientAssumption DEF TypeOK
  <1>4. Coming \subseteq Messages
    <2>1. \A i \in 1..Len(toClient) : toClient[i] \in Messages
      BY <1>3, ElementOfSeq
    <2>2. \A i \in 1..Len(reply) : reply[i] \in Messages
      BY <1>3, ElementOfSeq
    <2> QED BY <2>1, <2>2 DEF Coming, ComingIn, AnswersOf
  <1> QED BY <1>2, <1>3, <1>4

\* A step that leaves the call, its answers and the server alone.
LEMMA SameExchange ==
    ASSUME TypeOK, Exchange, Coming' = Coming, nextSeq' \in {nextSeq, nextSeq + 1},
           UNCHANGED <<connected, lastQuery, inTxn, rowsOf, mirror, toServer, up, srvTxn, succeeded>>,
           Own'.op = Own.op, Own'.seq = Own.seq, Own'.phase = Own.phase, Own'.status = Own.status,
           TxnFollows'
    PROVE  Exchange'
  <1>1. Numbered' /\ OneExchange'
    <2>1. Numbered'
      <3>1. nextSeq \in Nat /\ Own.seq \in Nat /\ succeeded \subseteq Nat
        BY OwnTypes
      <3>2. Numbered
        BY DEF Exchange
      <3>3. nextSeq' \in Nat /\ nextSeq' >= nextSeq
        BY <3>1
      <3>4. SUFFICES ASSUME connected PROVE nextSeq' > 0 /\ Own'.seq < nextSeq'
                                            /\ \A s \in succeeded : s < nextSeq'
        BY DEF Numbered
      <3>5. nextSeq > 0 /\ Own.seq < nextSeq /\ \A s \in succeeded : s < nextSeq
        BY <3>2, <3>4 DEF Numbered
      <3>6. nextSeq' > 0 /\ Own.seq < nextSeq'
        BY <3>1, <3>3, <3>5
      <3>7. \A s \in succeeded : s < nextSeq'
        BY <3>1, <3>3, <3>5
      <3> QED BY <3>6, <3>7
    <2>2. OneExchange'
      BY DEF Exchange, OneExchange, Asked
    <2> QED BY <2>1, <2>2
  <1>2. AnswersOwn' /\ Draining'
    BY DEF Exchange, AnswersOwn, Draining
  <1>3. ReadyMeans' /\ RowsKept'
    BY DEF Exchange, ReadyMeans, RowsKept, IsComing
  <1>4. Reported' /\ QueryNoted' /\ MirrorFollows'
    BY DEF Exchange, Reported, QueryNoted, MirrorFollows
  <1> QED BY <1>1, <1>2, <1>3, <1>4 DEF Exchange

\* What a read of the owner finds: the answer of the lowest rank, or none.
LEMMA OwnerTakes ==
    ASSUME TypeOK, WireInv, NEW types, Takes("owner", types)
    PROVE  /\ framed' /\ Ordered' /\ ParamsFollowed'
           /\ UNCHANGED <<connected, nextSeq, toServer, up, srvTxn, succeeded, disturbed>>
           /\ Own.phase \in {"recv", "drain"} /\ Head(toClient) \in Messages
           /\ Head(toClient).type \in Async =>
                /\ Coming' = Coming
                /\ up /\ Head(toClient).type = "param" /\ Head(toClient).id # IdOf(srvTxn) => IsComing("ready")
           /\ Head(toClient).type \notin Async =>
                /\ Head(toClient) \in Coming /\ Coming' \subseteq Coming
                /\ \A m \in Coming : m = Head(toClient) \/ m \in Coming'
                /\ \A m \in Coming' : Rank(Head(toClient).type) < Rank(m.type)
  <1>1. /\ framed /\ framed' = framed /\ toClient # <<>> /\ toClient' = Tail(toClient) /\ reply' = reply
        /\ UNCHANGED <<connected, nextSeq, toServer, up, srvTxn, succeeded, disturbed>>
        /\ Own.phase \in {"recv", "drain"}
    BY DEF Takes, Pops, Reading, Own, serverVars
  <1>2. toClient \in Seq(Messages) /\ reply \in Seq(Messages) /\ OrderedAs(toClient, reply)
        /\ (up => FollowedAs(toClient, reply, IdOf(srvTxn)))
    BY OwnTypes DEF WireInv, Ordered, ParamsFollowed
  <1>3. Head(toClient) \in Messages
    BY <1>1, <1>2, HeadTailProperties
  <1>4. CASE Head(toClient).type \in Async
    <2>1. /\ OrderedAs(Tail(toClient), reply) /\ ComingIn(Tail(toClient), reply) = ComingIn(toClient, reply)
          /\ FollowedAs(toClient, reply, IdOf(srvTxn)) =>
               /\ FollowedAs(Tail(toClient), reply, IdOf(srvTxn))
               /\ Head(toClient).type = "param" /\ Head(toClient).id # IdOf(srvTxn) =>
                     \E m \in ComingIn(toClient, reply) : m.type = "ready"
      BY <1>1, <1>2, <1>4, TakeAsync
    <2> QED BY <1>1, <1>2, <1>3, <1>4, <2>1 DEF Ordered, ParamsFollowed, Coming, IsComing
  <1>5. CASE Head(toClient).type \notin Async
    <2>1. /\ OrderedAs(Tail(toClient), reply)
          /\ Head(toClient) \in ComingIn(toClient, reply)
          /\ ComingIn(Tail(toClient), reply) \subseteq ComingIn(toClient, reply)
          /\ \A m \in ComingIn(toClient, reply) : m = Head(toClient) \/ m \in ComingIn(Tail(toClient), reply)
          /\ \A m \in ComingIn(Tail(toClient), reply) : Rank(Head(toClient).type) < Rank(m.type)
          /\ FollowedAs(toClient, reply, IdOf(srvTxn)) => FollowedAs(Tail(toClient), reply, IdOf(srvTxn))
      BY <1>1, <1>2, <1>5, TakeAnswer
    <2> QED BY <1>1, <1>2, <1>3, <1>5, <2>1 DEF Ordered, ParamsFollowed, Coming
  <1> QED BY <1>4, <1>5

\* Only what has not been read is left to come.
LEMMA LastTaken ==
    ASSUME NEW h \in Messages, h.type \in {"ready", "pong"}, NEW C, \A m \in C : Rank(h.type) < Rank(m.type)
    PROVE  C = {}
  <1>1. Rank(h.type) = 3
    BY DEF Rank
  <1> QED BY <1>1, Ranks

\* handleAsyncMessage keeps the exchange in step: a PARAMETER_STATUS that brings a
\* stale transaction id has a READY behind it.
LEMMA AsyncStep ==
    ASSUME TypeOK, WireInv, HandleAsyncMessage("owner") PROVE WireInv'
  <1>1. /\ Takes("owner", Async) /\ Stays("owner", call["owner"].phase)
        /\ UNCHANGED <<lastQuery, inTxn, rowsOf>>
        /\ txnId' = (IF Head(toClient).type = "param" THEN Head(toClient).id ELSE txnId)
        /\ Head(toClient).type \in Async
    BY DEF HandleAsyncMessage, Takes, Pops, Async
  <1>2. /\ framed' /\ Ordered' /\ ParamsFollowed' /\ Coming' = Coming
        /\ UNCHANGED <<connected, nextSeq, toServer, up, srvTxn, succeeded>>
        /\ up /\ Head(toClient).type = "param" /\ Head(toClient).id # IdOf(srvTxn) => IsComing("ready")
    BY <1>1, OwnerTakes
  <1>3. /\ Own'.op = Own.op /\ Own'.seq = Own.seq /\ Own'.status = Own.status /\ Own'.phase = Own.phase
        /\ mirror' = mirror
    BY <1>1, OwnStays DEF Own
  <1>4. TxnFollows
    BY DEF WireInv, Exchange
  <1>5. TxnFollows'
    BY <1>1, <1>2, <1>4 DEF TxnFollows, IsComing
  <1>6. Exchange
    BY DEF WireInv
  <1>7. Exchange'
    BY <1>1, <1>2, <1>3, <1>5, <1>6, SameExchange
  <1> QED BY <1>2, <1>7 DEF WireInv

\* A row that is read goes into the result set of its own query.
LEMMA RowStep ==
    ASSUME TypeOK, WireInv, HandleRow("owner") PROVE WireInv'
  <1>1. /\ Takes("owner", {"row", "complete"}) /\ Stays("owner", call["owner"].phase)
        /\ UNCHANGED <<lastQuery, inTxn, txnId>>
        /\ rowsOf' = (IF Own.op \in Fetching /\ Own.phase = "recv" /\ Head(toClient).type = "row"
                      THEN rowsOf \cup {Head(toClient).of} ELSE rowsOf)
        /\ Head(toClient).type \in {"row", "complete"}
    BY DEF HandleRow, Takes, Pops, Own
  <1>2. PICK h \in Messages : h = Head(toClient)
    BY <1>1, OwnerTakes
  <1>3. /\ framed' /\ Ordered' /\ ParamsFollowed'
        /\ UNCHANGED <<connected, nextSeq, toServer, up, srvTxn, succeeded>>
        /\ Own.phase \in {"recv", "drain"}
        /\ h \in Coming /\ Coming' \subseteq Coming /\ \A m \in Coming : m = h \/ m \in Coming'
    BY <1>1, <1>2, OwnerTakes DEF Async
  <1>4. /\ Own'.op = Own.op /\ Own'.seq = Own.seq /\ Own'.status = Own.status /\ Own'.phase = Own.phase
        /\ mirror' = mirror
    BY <1>1, OwnStays DEF Own
  <1>5. /\ Numbered /\ OneExchange /\ AnswersOwn /\ ReadyMeans /\ Draining /\ RowsKept /\ QueryNoted /\ TxnFollows
    BY DEF WireInv, Exchange
  <1>6. h.type \in {"row", "complete"} /\ h.of = Own.seq /\ Own.phase = "recv" /\ toServer = <<>>
        /\ (h.type = "row" => Own.op \in Fetching)
    BY <1>1, <1>2, <1>3, <1>5 DEF AnswersOwn, Draining, OneExchange, Asked
  <1>7. Numbered' /\ OneExchange'
    BY <1>3, <1>4, <1>5, <1>6 DEF Numbered, OneExchange
  <1>8. AnswersOwn' /\ Draining'
    BY <1>3, <1>4, <1>5, <1>6 DEF AnswersOwn, Draining
  <1>9. \A type : type # h.type => (IsComing(type)' <=> IsComing(type))
    BY <1>3 DEF IsComing
  <1>10. ReadyMeans'
    BY <1>3, <1>4, <1>5, <1>6, <1>9 DEF ReadyMeans
  <1>11. RowsKept'
    <2>1. CASE h.type = "row"
      BY <1>1, <1>2, <1>3, <1>4, <1>5, <1>6, <2>1 DEF RowsKept
    <2>2. CASE h.type # "row"
      BY <1>1, <1>2, <1>3, <1>4, <1>5, <1>6, <1>9, <2>2 DEF RowsKept
    <2> QED BY <2>1, <2>2
  <1>12. Reported' /\ QueryNoted' /\ MirrorFollows'
    BY <1>1, <1>3, <1>4, <1>5, <1>6 DEF Reported, QueryNoted, MirrorFollows
  <1>13. TxnFollows'
    BY <1>1, <1>3, <1>5, <1>6, <1>9 DEF TxnFollows
  <1> QED BY <1>3, <1>7, <1>8, <1>10, <1>11, <1>12, <1>13 DEF WireInv, Exchange

\* PONG ends the ping it answers.
LEMMA PongStep ==
    ASSUME TypeOK, WireInv, HandlePong("owner") PROVE WireInv'
  <1>1. /\ Takes("owner", {"pong"}) /\ UNCHANGED <<inTxn, lastQuery, txnId, rowsOf>>
        /\ IF Own.op = "ping" /\ Own.phase = "recv" THEN Returns("owner", "ok")
           ELSE Stays("owner", call["owner"].phase)
        /\ Head(toClient).type = "pong"
    BY DEF HandlePong, Takes, Pops, Own
  <1>2. PICK h \in Messages : h = Head(toClient)
    BY <1>1, OwnerTakes
  <1>3. /\ framed' /\ Ordered' /\ ParamsFollowed'
        /\ UNCHANGED <<connected, nextSeq, toServer, up, srvTxn, succeeded>>
        /\ Own.phase \in {"recv", "drain"}
        /\ h \in Coming /\ \A m \in Coming : m = h \/ m \in Coming'
        /\ \A m \in Coming' : Rank(h.type) < Rank(m.type)
    BY <1>1, <1>2, OwnerTakes DEF Async
  <1>4. Coming' = {}
    BY <1>1, <1>2, <1>3, LastTaken
  <1>5. /\ Numbered /\ OneExchange /\ AnswersOwn /\ Draining /\ QueryNoted /\ TxnFollows
    BY DEF WireInv, Exchange
  <1>6. /\ Own.op = "ping" /\ Own.phase = "recv" /\ Own.seq \in succeeded /\ toServer = <<>>
        /\ ~IsComing("ready")
    BY <1>1, <1>2, <1>3, <1>4, <1>5 DEF AnswersOwn, Draining, OneExchange, Asked, IsComing
  <1>7. /\ Own'.op = Own.op /\ Own'.seq = Own.seq /\ Own'.status = "ok" /\ Own'.phase = "idle"
    BY <1>1, <1>6, OwnReturns
  <1>8. Numbered' /\ OneExchange' /\ AnswersOwn' /\ ReadyMeans' /\ Draining' /\ RowsKept'
    BY <1>3, <1>4, <1>5, <1>6, <1>7
    DEF Numbered, OneExchange, AnswersOwn, ReadyMeans, Draining, RowsKept, IsComing
  <1>9. Reported' /\ QueryNoted' /\ MirrorFollows'
    BY <1>1, <1>3, <1>5, <1>6, <1>7 DEF Reported, QueryNoted, MirrorFollows, Mirrored, Fetching
  <1>10. TxnFollows'
    BY <1>1, <1>3, <1>4, <1>5, <1>6 DEF TxnFollows
  <1> QED BY <1>3, <1>8, <1>9, <1>10 DEF WireInv, Exchange

\* ERROR leaves READY alone on its way, for the drain to read.
LEMMA ErrorStep ==
    ASSUME TypeOK, WireInv, HandleError("owner") PROVE WireInv'
  <1>1. /\ Takes("owner", {"error"}) /\ Stays("owner", "drain") /\ Head(toClient).type = "error"
        /\ UNCHANGED <<inTxn, lastQuery, txnId, rowsOf>>
    BY DEF HandleError, Takes, Pops
  <1>2. PICK h \in Messages : h = Head(toClient)
    BY <1>1, OwnerTakes
  <1>3. /\ framed' /\ Ordered' /\ ParamsFollowed'
        /\ UNCHANGED <<connected, nextSeq, toServer, up, srvTxn, succeeded>>
        /\ Own.phase \in {"recv", "drain"}
        /\ h \in Coming /\ Coming' \subseteq Coming /\ \A m \in Coming : m = h \/ m \in Coming'
        /\ \A m \in Coming' : Rank(h.type) < Rank(m.type)
    BY <1>1, <1>2, OwnerTakes DEF Async
  <1>4. /\ Own'.op = Own.op /\ Own'.seq = Own.seq /\ Own'.phase = "drain"
    BY <1>1, OwnStays
  <1>5. /\ Numbered /\ OneExchange /\ AnswersOwn /\ Draining /\ QueryNoted /\ TxnFollows
    BY DEF WireInv, Exchange
  <1>6. h.type = "error" /\ Own.seq \notin succeeded /\ toServer = <<>>
    BY <1>1, <1>2, <1>3, <1>5 DEF AnswersOwn, OneExchange, Asked
  <1>7. ASSUME NEW m \in Coming' PROVE m.type = "ready"
    <2>1. m \in Messages /\ m \in Coming
      BY <1>3, OwnTypes
    <2>2. m.type \notin Async /\ m.type # "pong"
      BY <1>5, <1>6, <2>1 DEF AnswersOwn
    <2>3. m.type \notin {"row", "complete", "error"}
      <3>1. Rank(h.type) = 2 /\ Rank(m.type) > 2
        BY <1>3, <1>6, Ranks DEF Rank
      <3> QED BY <3>1 DEF Rank
    <2> QED BY <2>1, <2>2, <2>3 DEF Messages, Async
  <1>8. IsComing("ready") => IsComing("ready")'
    BY <1>3, <1>6 DEF IsComing
  <1>9. Numbered' /\ OneExchange'
    BY <1>3, <1>4, <1>5, <1>6 DEF Numbered, OneExchange
  <1>10. AnswersOwn'
    BY <1>3, <1>4, <1>5 DEF AnswersOwn
  <1>11. ReadyMeans' /\ Draining' /\ RowsKept'
    BY <1>3, <1>4, <1>6, <1>7 DEF ReadyMeans, Draining, RowsKept
  <1>12. Reported' /\ QueryNoted' /\ MirrorFollows'
    BY <1>1, <1>3, <1>4, <1>5 DEF Reported, QueryNoted, MirrorFollows
  <1>13. TxnFollows'
    BY <1>1, <1>3, <1>5, <1>8 DEF TxnFollows
  <1> QED BY <1>3, <1>9, <1>10, <1>11, <1>12, <1>13 DEF WireInv, Exchange

\* READY, in a loop or in the drain, is the last message of its answer.
LEMMA ReadyStep ==
    ASSUME TypeOK, WireInv, HandleReady("owner") \/ DrainedReady("owner") PROVE WireInv'
  <1>1. /\ Takes("owner", {"ready"}) /\ Head(toClient).type = "ready" /\ rowsOf' = rowsOf
        /\ inTxn' = Head(toClient).active /\ txnId' = Head(toClient).id
    BY DEF HandleReady, DrainedReady, Takes, Pops, TrackTransaction
  <1>2. PICK h \in Messages : h = Head(toClient)
    BY <1>1, OwnerTakes
  <1>3. /\ framed' /\ Ordered' /\ ParamsFollowed'
        /\ UNCHANGED <<connected, nextSeq, toServer, up, srvTxn, succeeded>>
        /\ h \in Coming /\ \A m \in Coming : m = h \/ m \in Coming'
        /\ \A m \in Coming' : Rank(h.type) < Rank(m.type)
    BY <1>1, <1>2, OwnerTakes DEF Async
  <1>4. Coming' = {}
    BY <1>1, <1>2, <1>3, LastTaken
  <1>5. /\ Numbered /\ OneExchange /\ AnswersOwn /\ ReadyMeans /\ Draining /\ RowsKept /\ QueryNoted /\ TxnFollows
    BY DEF WireInv, Exchange
  <1>6. /\ h.type = "ready" /\ toServer = <<>> /\ IsComing("ready")
        /\ \A type : type # "ready" => ~IsComing(type)
    BY <1>1, <1>2, <1>3, <1>4, <1>5 DEF OneExchange, Asked, IsComing
  <1>7. PICK s \in {"ok", "error"} :
          /\ Own.phase = (IF s = "ok" THEN "recv" ELSE "drain") /\ Returns("owner", s)
          /\ lastQuery' = IF s = "error" \/ Own.op \in ClearsAtReady THEN 0 ELSE lastQuery
    <2>1. CASE HandleReady("owner")
      <3>1. "ok" \in {"ok", "error"}
        OBVIOUS
      <3>2. Own.phase = "recv" /\ Returns("owner", "ok")
            /\ lastQuery' = IF Own.op \in ClearsAtReady THEN 0 ELSE lastQuery
        BY <2>1 DEF HandleReady, Own
      <3> QED BY <3>1, <3>2
    <2>2. CASE DrainedReady("owner")
      <3>1. "error" \in {"ok", "error"}
        OBVIOUS
      <3>2. Own.phase = "drain" /\ Returns("owner", "error") /\ lastQuery' = 0
        BY <2>2 DEF DrainedReady, Own
      <3> QED BY <3>1, <3>2
    <2> QED BY <2>1, <2>2
  <1>8. /\ Own'.op = Own.op /\ Own'.seq = Own.seq /\ Own'.status = s /\ Own'.phase = "idle"
        /\ s = "ok" /\ Own.op \in Mirrored => mirror' = inTxn'
    BY <1>7, OwnReturns
  <1>9. /\ s = "ok" => Own.seq \in succeeded
        /\ s = "error" => Own.seq \notin succeeded
        /\ s = "ok" /\ Own.op \in Fetching => rowsOf = {Own.seq}
    <2>1. s = "ok" => Own.seq \in succeeded
      BY <1>5, <1>6, <1>7 DEF ReadyMeans
    <2>2. s = "error" => Own.seq \notin succeeded
      BY <1>5, <1>7 DEF Draining
    <2>3. s = "ok" /\ Own.op \in Fetching => rowsOf = {Own.seq}
      BY <1>5, <1>6, <1>7, <2>1 DEF RowsKept
    <2> QED BY <2>1, <2>2, <2>3
  <1>10. Numbered' /\ OneExchange' /\ AnswersOwn' /\ ReadyMeans' /\ Draining' /\ RowsKept'
    BY <1>3, <1>4, <1>5, <1>6, <1>8
    DEF Numbered, OneExchange, AnswersOwn, ReadyMeans, Draining, RowsKept, IsComing
  <1>11. Reported' /\ MirrorFollows'
    BY <1>1, <1>3, <1>8, <1>9 DEF Reported, MirrorFollows
  <1>12. QueryNoted'
    BY <1>3, <1>5, <1>7 DEF QueryNoted, ClearsAtReady
  <1>13. TxnFollows'
    BY <1>1, <1>2, <1>3, <1>4, <1>5, <1>6 DEF TxnFollows
  <1> QED BY <1>3, <1>10, <1>11, <1>12, <1>13 DEF WireInv, Exchange

\* The peer has closed and everything it wrote has been read.
LEMMA ClosedStep ==
    ASSUME TypeOK, WireInv, Closed, PeerClosed("owner") PROVE WireInv'
  <1>1. /\ ~up /\ toClient = <<>> /\ toServer = <<>> /\ reply = <<>> /\ framed
        /\ UNCHANGED <<connected, nextSeq, rowsOf, toServer, up, toClient, framed, reply, srvTxn, succeeded, inTxn>>
    BY DEF PeerClosed, ReceiveFails, serverVars, Closed
  <1>2. PICK s \in {"closed", "error"} : Returns("owner", s) /\ (s = "error" <=> Own.phase = "drain")
    BY DEF PeerClosed, ReceiveFails, Own
  <1>3. /\ Own'.op = Own.op /\ Own'.seq = Own.seq /\ Own'.status = s /\ Own'.phase = "idle"
    BY <1>2, OwnReturns
  <1>4. Coming = {} /\ Coming' = {}
    <2>1. Len(<<>>) = 0
      OBVIOUS
    <2> QED BY <1>1, <2>1 DEF Coming, ComingIn, AnswersOf
  <1>5. Ordered' /\ ParamsFollowed'
    BY <1>1 DEF WireInv, Ordered, ParamsFollowed
  <1>6. Numbered /\ Draining
    BY DEF WireInv, Exchange
  <1>7. Numbered' /\ OneExchange' /\ AnswersOwn' /\ ReadyMeans' /\ Draining' /\ RowsKept'
    BY <1>1, <1>3, <1>4, <1>6
    DEF Numbered, OneExchange, AnswersOwn, ReadyMeans, Draining, RowsKept, IsComing
  <1>8. Reported' /\ MirrorFollows'
    BY <1>1, <1>2, <1>3, <1>6 DEF Reported, MirrorFollows, Draining
  <1>9. QueryNoted' /\ TxnFollows'
    BY <1>1 DEF QueryNoted, TxnFollows
  <1> QED BY <1>1, <1>5, <1>7, <1>8, <1>9 DEF WireInv, Exchange

\* A request is written, or cannot be.
LEMMA CallStep ==
    ASSUME TypeOK, WireInv, NEW op \in Ops, Call("owner", op) PROVE WireInv'
  <1>1. /\ Own.phase = "idle" /\ connected /\ nextSeq' = nextSeq + 1 /\ rowsOf' = {}
        /\ UNCHANGED <<connected, inTxn, txnId, mirror, toClient, framed, up, reply, srvTxn, succeeded>>
    BY DEF Call, Send, SendFails, MayCall, InBound, Own, serverVars
  <1>2. Coming' = Coming
    BY <1>1 DEF Coming
  <1>3. framed' /\ Ordered' /\ ParamsFollowed'
    BY <1>1 DEF WireInv, Ordered, ParamsFollowed
  <1>4. /\ Numbered /\ OneExchange /\ QueryNoted /\ TxnFollows
    BY DEF WireInv, Exchange
  <1>5. /\ toServer = <<>> /\ Coming = {} /\ nextSeq \notin succeeded /\ (up => lastQuery = 0)
        /\ nextSeq \in Nat /\ nextSeq > 0 /\ succeeded \subseteq Nat
    BY <1>1, <1>4, OwnTypes DEF OneExchange, Numbered, QueryNoted
  <1>6. TxnFollows'
    BY <1>1, <1>2, <1>4 DEF TxnFollows, IsComing
  <1>7. CASE Send("owner", op)
    <2>1. /\ Own'.op = op /\ Own'.seq = nextSeq /\ Own'.phase = "recv" /\ Own'.status = "none"
          /\ lastQuery' = (IF op = "query" THEN nextSeq ELSE lastQuery)
      BY <1>7 DEF Send, Own, TypeOK, Threads
    <2>2. toServer' = IF up THEN <<[op |-> op, seq |-> nextSeq]>> ELSE <<>>
      <3>1. toServer' = IF up THEN Append(<<>>, [op |-> op, seq |-> nextSeq]) ELSE <<>>
        BY <1>5, <1>7 DEF Send
      <3> QED BY <3>1
    <2>3. Numbered'
      BY <1>1, <1>4, <1>5, <2>1 DEF Numbered
    <2>4. OneExchange'
      BY <1>1, <1>2, <1>5, <2>1, <2>2 DEF OneExchange, Asked
    <2>5. AnswersOwn' /\ ReadyMeans' /\ Draining' /\ RowsKept'
      BY <1>1, <1>2, <1>5, <2>1 DEF AnswersOwn, ReadyMeans, Draining, RowsKept, IsComing
    <2>6. Reported' /\ MirrorFollows' /\ QueryNoted'
      BY <1>1, <1>5, <2>1 DEF Reported, MirrorFollows, QueryNoted
    <2> QED BY <1>3, <1>6, <2>3, <2>4, <2>5, <2>6 DEF WireInv, Exchange
  <1>8. CASE SendFails("owner", op)
    <2>1. /\ Own'.op = op /\ Own'.seq = nextSeq /\ Own'.phase = "idle" /\ Own'.status = "closed"
          /\ UNCHANGED <<toServer, lastQuery>>
      BY <1>8 DEF SendFails, Own, TypeOK, Threads
    <2>2. Numbered'
      BY <1>1, <1>4, <1>5, <2>1 DEF Numbered
    <2>3. OneExchange' /\ AnswersOwn' /\ ReadyMeans' /\ Draining' /\ RowsKept'
      BY <1>1, <1>2, <1>5, <2>1 DEF OneExchange, AnswersOwn, ReadyMeans, Draining, RowsKept, IsComing
    <2>4. Reported' /\ MirrorFollows' /\ QueryNoted'
      BY <1>1, <1>5, <2>1 DEF Reported, MirrorFollows, QueryNoted
    <2> QED BY <1>3, <1>6, <2>2, <2>3, <2>4 DEF WireInv, Exchange
  <1> QED BY <1>7, <1>8 DEF Call

\* beginTransaction without a message.
LEMMA LocalStep ==
    ASSUME TypeOK, WireInv, BeginLocally("owner") PROVE WireInv'
  <1>1. /\ Own.phase = "idle" /\ connected /\ rowsOf' = {}
        /\ UNCHANGED <<connected, nextSeq, lastQuery, inTxn, txnId, toServer, toClient, framed, up, reply,
                       srvTxn, succeeded>>
    BY DEF BeginLocally, MayCall, InBound, Own, serverVars
  <1>2. PICK s \in {"adopted", "refused"} :
          /\ call' = [call EXCEPT !["owner"] = [op |-> "begin", seq |-> 0, phase |-> "idle", status |-> s]]
          /\ s = "adopted" => mirror' = inTxn
    BY DEF BeginLocally
  <1>3. Own'.op = "begin" /\ Own'.seq = 0 /\ Own'.phase = "idle" /\ Own'.status = s
    BY <1>2 DEF Own, TypeOK, Threads
  <1>4. Coming' = Coming
    BY <1>1 DEF Coming
  <1>5. framed' /\ Ordered' /\ ParamsFollowed'
    BY <1>1 DEF WireInv, Ordered, ParamsFollowed
  <1>6. Numbered /\ OneExchange /\ QueryNoted /\ TxnFollows /\ nextSeq \in Nat
    BY OwnTypes DEF WireInv, Exchange
  <1>7. Numbered' /\ OneExchange' /\ TxnFollows' /\ QueryNoted'
    BY <1>1, <1>3, <1>4, <1>6 DEF Numbered, OneExchange, TxnFollows, QueryNoted, IsComing
  <1>8. AnswersOwn' /\ ReadyMeans' /\ Draining' /\ RowsKept'
    BY <1>1, <1>3, <1>4, <1>6 DEF OneExchange, AnswersOwn, ReadyMeans, Draining, RowsKept, IsComing
  <1>9. Reported' /\ MirrorFollows'
    BY <1>1, <1>2, <1>3 DEF Reported, MirrorFollows
  <1> QED BY <1>5, <1>7, <1>8, <1>9 DEF WireInv, Exchange

\* rp answers the request (op, seq) as the server decided, ok or not, with
\* transaction txn after it.
AnswerTo(rp, op, seq, ok, txn) ==
    /\ \A i, j \in 1..Len(rp) : i < j => Rank(rp[i].type) < Rank(rp[j].type)
    /\ \A i \in 1..Len(rp) :
          /\ rp[i].type \notin Async /\ rp[i].of = seq
          /\ rp[i].type \in {"row", "complete", "pong"} => ok
          /\ rp[i].type = "error" => ~ok
          /\ rp[i].type = "pong" => op = "ping"
          /\ rp[i].type = "row" => op \in Fetching
          /\ rp[i].type = "ready" => rp[i].id = IdOf(txn) /\ (rp[i].active <=> txn # "none")
    /\ ~ok => \E i \in 1..Len(rp) : rp[i].type = "error"
    /\ ok /\ op \in Fetching => \E i \in 1..Len(rp) : rp[i].type = "row"
    /\ op # "ping" => \E i \in 1..Len(rp) : rp[i].type = "ready"

\* Every reply of the server has the shape of an answer.
LEMMA ReplyShape ==
    ASSUME NEW r \in [op : Ops, seq : Nat], NEW ok \in BOOLEAN, NEW txn, r.op = "ping" => ok
    PROVE  AnswerTo(Reply(r, ok, txn), r.op, r.seq, ok, txn)
  <1>0. Rank("row") = 1 /\ Rank("complete") = 2 /\ Rank("error") = 2 /\ Rank("ready") = 3
    BY DEF Rank
  <1>a. PICK e, w, c, p, d :
          /\ e = Message("error", r.seq, 0, FALSE) /\ w = Message("row", r.seq, 0, FALSE)
          /\ c = Message("complete", r.seq, 0, FALSE) /\ p = Message("pong", r.seq, 0, FALSE)
          /\ d = Ready(r.seq, txn)
    OBVIOUS
  <1>b. /\ e.type = "error" /\ w.type = "row" /\ c.type = "complete" /\ p.type = "pong" /\ d.type = "ready"
        /\ e.of = r.seq /\ w.of = r.seq /\ c.of = r.seq /\ p.of = r.seq /\ d.of = r.seq
        /\ d.id = IdOf(txn) /\ (d.active <=> txn # "none")
    BY <1>a DEF Message, Ready
  <1>c. \A i : (i \in 1..1 <=> i = 1) /\ (i \in 1..2 <=> i = 1 \/ i = 2) /\ (i \in 1..3 <=> i = 1 \/ i = 2 \/ i = 3)
    OBVIOUS
  <1>1. CASE ~ok
    <2>1. PICK rp : rp = Reply(r, ok, txn)
      OBVIOUS
    <2>2. rp = <<e, d>>
      BY <1>1, <1>a, <2>1, Replies
    <2>3. Len(rp) = 2 /\ rp[1] = e /\ rp[2] = d
      BY <2>2
    <2>4. AnswerTo(rp, r.op, r.seq, ok, txn)
      BY <1>0, <1>1, <1>b, <1>c, <2>3 DEF AnswerTo, Async
    <2> QED BY <2>1, <2>4
  <1>2. CASE ok /\ r.op \in Fetching
    <2>1. PICK rp : rp = Reply(r, ok, txn)
      OBVIOUS
    <2>2. rp = <<w, c, d>>
      BY <1>2, <1>a, <2>1, Replies
    <2>3. Len(rp) = 3 /\ rp[1] = w /\ rp[2] = c /\ rp[3] = d
      BY <2>2
    <2>4. \A i, j \in 1..Len(rp) : i < j => Rank(rp[i].type) < Rank(rp[j].type)
      BY <1>0, <1>b, <1>c, <2>3
    <2>5. \A i \in 1..Len(rp) :
             /\ rp[i].type \in {"row", "complete", "pong", "ready"} /\ rp[i].of = r.seq
             /\ rp[i].type = "pong" => r.op = "ping"
             /\ rp[i].type = "row" => r.op \in Fetching
             /\ rp[i].type = "ready" => rp[i].id = IdOf(txn) /\ (rp[i].active <=> txn # "none")
      BY <1>2, <1>b, <1>c, <2>3
    <2>6. /\ r.op \in Fetching => \E i \in 1..Len(rp) : rp[i].type = "row"
          /\ r.op # "ping" => \E i \in 1..Len(rp) : rp[i].type = "ready"
      BY <1>2, <1>b, <1>c, <2>3
    <2>7. \A i \in 1..Len(rp) : rp[i].type \notin Async /\ rp[i].type # "error"
      BY <2>5 DEF Async
    <2>8. AnswerTo(rp, r.op, r.seq, ok, txn)
      BY <1>2, <2>4, <2>5, <2>6, <2>7 DEF AnswerTo
    <2> QED BY <2>1, <2>8
  <1>3. CASE ok /\ r.op = "ping"
    <2>1. PICK rp : rp = Reply(r, ok, txn)
      OBVIOUS
    <2>2. rp = <<p>>
      BY <1>3, <1>a, <2>1, Replies
    <2>3. Len(rp) = 1 /\ rp[1] = p
      BY <2>2
    <2>4. \A i, j \in 1..Len(rp) : i < j => Rank(rp[i].type) < Rank(rp[j].type)
      BY <1>0, <1>b, <1>c, <2>3
    <2>5. \A i \in 1..Len(rp) :
             /\ rp[i].type \in {"row", "complete", "pong", "ready"} /\ rp[i].of = r.seq
             /\ rp[i].type = "pong" => r.op = "ping"
             /\ rp[i].type = "row" => r.op \in Fetching
             /\ rp[i].type = "ready" => rp[i].id = IdOf(txn) /\ (rp[i].active <=> txn # "none")
      BY <1>3, <1>b, <1>c, <2>3
    <2>6. /\ r.op \in Fetching => \E i \in 1..Len(rp) : rp[i].type = "row"
          /\ r.op # "ping" => \E i \in 1..Len(rp) : rp[i].type = "ready"
      BY <1>3, <1>b, <1>c, <2>3 DEF Fetching
    <2>7. \A i \in 1..Len(rp) : rp[i].type \notin Async /\ rp[i].type # "error"
      BY <2>5 DEF Async
    <2>8. AnswerTo(rp, r.op, r.seq, ok, txn)
      BY <1>3, <2>4, <2>5, <2>6, <2>7 DEF AnswerTo
    <2> QED BY <2>1, <2>8
  <1>4. CASE ok /\ r.op \notin Fetching \cup {"ping"}
    <2>1. PICK rp : rp = Reply(r, ok, txn)
      OBVIOUS
    <2>2. rp = <<c, d>>
      BY <1>4, <1>a, <2>1, Replies
    <2>3. Len(rp) = 2 /\ rp[1] = c /\ rp[2] = d
      BY <2>2
    <2>4. \A i, j \in 1..Len(rp) : i < j => Rank(rp[i].type) < Rank(rp[j].type)
      BY <1>0, <1>b, <1>c, <2>3
    <2>5. \A i \in 1..Len(rp) :
             /\ rp[i].type \in {"row", "complete", "pong", "ready"} /\ rp[i].of = r.seq
             /\ rp[i].type = "pong" => r.op = "ping"
             /\ rp[i].type = "row" => r.op \in Fetching
             /\ rp[i].type = "ready" => rp[i].id = IdOf(txn) /\ (rp[i].active <=> txn # "none")
      BY <1>4, <1>b, <1>c, <2>3
    <2>6. /\ r.op \in Fetching => \E i \in 1..Len(rp) : rp[i].type = "row"
          /\ r.op # "ping" => \E i \in 1..Len(rp) : rp[i].type = "ready"
      BY <1>4, <1>b, <1>c, <2>3
    <2>7. \A i \in 1..Len(rp) : rp[i].type \notin Async /\ rp[i].type # "error"
      BY <2>5 DEF Async
    <2>8. AnswerTo(rp, r.op, r.seq, ok, txn)
      BY <1>4, <2>4, <2>5, <2>6, <2>7 DEF AnswerTo
    <2> QED BY <2>1, <2>8
  <1> QED BY <1>1, <1>2, <1>3, <1>4

\* The server takes the request: it is the owner's, and so is the answer.
LEMMA ServeStep ==
    ASSUME TypeOK, WireInv, Serve PROVE WireInv'
  <1>1. /\ up /\ reply = <<>> /\ toServer # <<>> /\ toServer' = Tail(toServer)
        /\ UNCHANGED <<connected, nextSeq, lastQuery, inTxn, txnId, rowsOf, mirror, call, toClient, framed, up>>
    BY DEF Serve, clientVars
  <1>2. /\ Numbered /\ OneExchange /\ AnswersOwn /\ ReadyMeans /\ Draining /\ RowsKept /\ Reported /\ QueryNoted
        /\ TxnFollows /\ MirrorFollows
    BY DEF WireInv, Exchange
  <1>3. Asked /\ Own.phase = "recv"
    BY <1>1, <1>2 DEF OneExchange, Asked
  <1>4. PICK r \in [op : Ops, seq : Nat] : r = Head(toServer) /\ r.op = Own.op /\ r.seq = Own.seq
    <2>1. toServer = <<[op |-> Own.op, seq |-> Own.seq]>>
      BY <1>3 DEF Asked
    <2>2. [op |-> Own.op, seq |-> Own.seq] \in [op : Ops, seq : Nat]
      BY OwnTypes
    <2> QED BY <2>1, <2>2
  <1>5. toServer' = <<>>
    BY <1>1, <1>3 DEF Asked
  <1>6. PICK o \in Outcomes(r.op) : /\ srvTxn' = o[2] /\ reply' = Reply(r, o[1], o[2])
                                    /\ succeeded' = IF o[1] THEN succeeded \cup {r.seq} ELSE succeeded
    BY <1>4 DEF Serve
  <1>7. o[1] \in BOOLEAN /\ o[2] \in {"none", "fresh", "open"} /\ (r.op = "ping" => o[1] = TRUE /\ o[2] = srvTxn)
    BY <1>4, <1>6, OutcomeTypes
  <1>8. PICK ok \in BOOLEAN, txn \in {"none", "fresh", "open"} : ok = o[1] /\ txn = o[2]
    BY <1>7
  <1>9. /\ srvTxn' = txn /\ reply' = Reply(r, ok, txn)
        /\ (ok => succeeded' = succeeded \cup {Own.seq}) /\ (~ok => succeeded' = succeeded)
        /\ (r.op = "ping" => ok /\ txn = srvTxn)
    BY <1>4, <1>6, <1>7, <1>8
  <1>10. AnswerTo(reply', Own.op, Own.seq, ok, txn)
    BY <1>4, <1>9, ReplyShape
  <1>11. AnswersOf(toClient) = {} /\ toClient' = toClient
    <2>1. \A i \in AnswersOf(toClient) : toClient[i] \in Coming
      BY DEF Coming, ComingIn
    <2> QED BY <1>1, <1>3, <2>1 DEF Asked
  <1>12. Coming' = {reply'[j] : j \in 1..Len(reply')}
    BY <1>11 DEF Coming, ComingIn
  <1>13. Ordered'
    BY <1>10, <1>11 DEF Ordered, OrderedAs, AnswerTo
  <1>14. ParamsFollowed'
    <2>1. CASE Own.op # "ping"
      BY <1>10, <2>1 DEF ParamsFollowed, FollowedAs, AnswerTo
    <2>2. CASE Own.op = "ping"
      <3>1. FollowedAs(toClient, reply, IdOf(srvTxn)) /\ srvTxn' = srvTxn /\ Len(reply) = 0
        BY <1>1, <1>4, <1>9, <2>2 DEF WireInv, ParamsFollowed
      <3> QED BY <1>11, <3>1 DEF ParamsFollowed, FollowedAs
    <2> QED BY <2>1, <2>2
  <1>15. /\ \A m \in Coming' :
              /\ m.type \notin Async /\ m.of = Own.seq
              /\ m.type \in {"row", "complete", "pong"} => ok
              /\ m.type = "error" => ~ok
              /\ m.type = "pong" => Own.op = "ping"
              /\ m.type = "row" => Own.op \in Fetching
              /\ m.type = "ready" => m.id = IdOf(txn) /\ (m.active <=> txn # "none")
    BY <1>10, <1>12 DEF AnswerTo
  <1>16. /\ ~ok => IsComing("error")'
         /\ ok /\ Own.op \in Fetching => IsComing("row")'
         /\ Own.op # "ping" => IsComing("ready")'
    BY <1>10, <1>12 DEF IsComing, AnswerTo
  <1>17. Own' = Own /\ framed'
    BY <1>1 DEF Own, WireInv
  <1>18. Own.seq \notin succeeded /\ rowsOf = {} /\ rowsOf' = {}
    BY <1>1, <1>3 DEF Asked
  <1>19. (Own.seq \in succeeded') <=> ok
    BY <1>9, <1>18
  <1>20. Numbered' /\ OneExchange'
    BY <1>1, <1>2, <1>3, <1>5, <1>9, <1>17 DEF Numbered, OneExchange
  <1>21. AnswersOwn' /\ ReadyMeans' /\ Draining' /\ RowsKept'
    BY <1>3, <1>15, <1>16, <1>17, <1>18, <1>19 DEF AnswersOwn, ReadyMeans, Draining, RowsKept
  <1>22. Reported' /\ MirrorFollows' /\ QueryNoted'
    BY <1>1, <1>2, <1>3, <1>17 DEF Reported, MirrorFollows, QueryNoted
  <1>23. TxnFollows'
    <2>1. CASE Own.op # "ping"
      BY <1>9, <1>15, <1>16, <2>1 DEF TxnFollows
    <2>2. CASE Own.op = "ping"
      <3>1. srvTxn' = srvTxn /\ ~IsComing("ready") /\ ((inTxn <=> srvTxn # "none") /\ txnId = IdOf(srvTxn))
        <4>1. srvTxn' = srvTxn /\ ~IsComing("ready")
          BY <1>3, <1>4, <1>9, <2>2 DEF Asked, IsComing
        <4> QED BY <1>1, <1>2, <4>1 DEF TxnFollows
      <3> QED BY <1>1, <1>9, <1>15, <3>1 DEF TxnFollows
    <2> QED BY <2>1, <2>2
  <1> QED BY <1>13, <1>14, <1>17, <1>20, <1>21, <1>22, <1>23 DEF WireInv, Exchange

\* The server writes the next message of its answer.
LEMMA EmitStep ==
    ASSUME TypeOK, WireInv, Emit PROVE WireInv'
  <1>1. /\ reply # <<>> /\ toClient' = Append(toClient, Head(reply)) /\ reply' = Tail(reply)
        /\ UNCHANGED <<connected, nextSeq, lastQuery, inTxn, txnId, rowsOf, mirror, call, toServer, framed, up,
                       srvTxn, succeeded>>
    BY DEF Emit, clientVars
  <1>2. toClient \in Seq(Messages) /\ reply \in Seq(Messages) /\ OrderedAs(toClient, reply)
        /\ (up => FollowedAs(toClient, reply, IdOf(srvTxn)))
    BY OwnTypes DEF WireInv, Ordered, ParamsFollowed
  <1>3. /\ OrderedAs(toClient', reply') /\ ComingIn(toClient', reply') = ComingIn(toClient, reply)
        /\ FollowedAs(toClient, reply, IdOf(srvTxn)) => FollowedAs(toClient', reply', IdOf(srvTxn))
    BY <1>1, <1>2, WriteAnswer
  <1>4. Ordered' /\ ParamsFollowed' /\ Coming' = Coming /\ framed'
    BY <1>1, <1>2, <1>3 DEF WireInv, Ordered, ParamsFollowed, Coming
  <1>5. TxnFollows
    BY DEF WireInv, Exchange
  <1>6. TxnFollows' /\ Own' = Own
    BY <1>1, <1>4, <1>5 DEF TxnFollows, IsComing, Own
  <1>7. Exchange
    BY DEF WireInv
  <1>8. Exchange'
    BY <1>1, <1>4, <1>6, <1>7, SameExchange
  <1> QED BY <1>4, <1>8 DEF WireInv

\* The server sends an asynchronous message, with the transaction it is in.
LEMMA SendAsyncStep ==
    ASSUME TypeOK, WireInv, SendAsync PROVE WireInv'
  <1>1. /\ UNCHANGED <<connected, nextSeq, lastQuery, inTxn, txnId, rowsOf, mirror, call, toServer, reply, framed, up,
                       srvTxn, succeeded>>
        /\ asyncs' = asyncs + 1 /\ asyncs \in Nat
    BY ClientAssumption DEF SendAsync, clientVars, TypeOK
  <1>2. PICK type \in {"notification", "param"} :
          toClient' = Append(toClient, Message(type, asyncs', IdOf(srvTxn), FALSE))
    BY DEF SendAsync, Async
  <1>3. PICK m \in Messages : /\ toClient' = Append(toClient, m) /\ m.type \in Async
                              /\ m.id = IdOf(srvTxn)
    <2>1. PICK m : m = Message(type, asyncs', IdOf(srvTxn), FALSE)
      OBVIOUS
    <2>2. m \in Messages /\ m.type \in Async /\ m.id = IdOf(srvTxn)
      BY <1>1, <1>2, <2>1 DEF Message, Messages, IdOf, Async
    <2> QED BY <1>2, <2>1, <2>2
  <1>4. toClient \in Seq(Messages) /\ reply \in Seq(Messages) /\ OrderedAs(toClient, reply)
        /\ (up => FollowedAs(toClient, reply, IdOf(srvTxn)))
    BY OwnTypes DEF WireInv, Ordered, ParamsFollowed
  <1>5. /\ OrderedAs(Append(toClient, m), reply) /\ ComingIn(Append(toClient, m), reply) = ComingIn(toClient, reply)
        /\ FollowedAs(toClient, reply, m.id) => FollowedAs(Append(toClient, m), reply, m.id)
    BY <1>3, <1>4, WriteAsync
  <1>6. Ordered' /\ ParamsFollowed' /\ Coming' = Coming /\ framed'
    BY <1>1, <1>3, <1>4, <1>5 DEF WireInv, Ordered, ParamsFollowed, Coming
  <1>7. TxnFollows
    BY DEF WireInv, Exchange
  <1>8. TxnFollows' /\ Own' = Own
    BY <1>1, <1>6, <1>7 DEF TxnFollows, IsComing, Own
  <1>9. Exchange
    BY DEF WireInv
  <1>10. Exchange'
    BY <1>1, <1>6, <1>8, <1>9, SameExchange
  <1> QED BY <1>6, <1>10 DEF WireInv

\* The server closes its end, with an answer half written or a request unread.
LEMMA ServerClosesStep ==
    ASSUME TypeOK, WireInv, ServerCloses PROVE WireInv'
  <1>1. /\ ~up' /\ toServer' = <<>> /\ reply' = <<>>
        /\ UNCHANGED <<connected, nextSeq, lastQuery, inTxn, rowsOf, mirror, call, toClient, framed, succeeded>>
    BY DEF ServerCloses, clientVars
  <1>2. toClient \in Seq(Messages) /\ reply \in Seq(Messages) /\ OrderedAs(toClient, reply)
    BY OwnTypes DEF WireInv, Ordered
  <1>3. /\ OrderedAs(toClient, <<>>) /\ ComingIn(toClient, <<>>) \subseteq ComingIn(toClient, reply)
        /\ (\E m \in ComingIn(toClient, <<>>) : m.type = "ready") =>
              ComingIn(toClient, <<>>) = ComingIn(toClient, reply)
    BY <1>2, WriteNoMore
  <1>4. /\ Ordered' /\ ParamsFollowed' /\ framed' /\ Coming' \subseteq Coming
        /\ IsComing("ready")' => Coming' = Coming
    BY <1>1, <1>3 DEF WireInv, Ordered, ParamsFollowed, Coming, IsComing
  <1>5. Own' = Own
    BY <1>1 DEF Own
  <1>6. /\ Numbered /\ OneExchange /\ AnswersOwn /\ ReadyMeans /\ Draining /\ RowsKept /\ Reported /\ MirrorFollows
    BY DEF WireInv, Exchange
  <1>7. Numbered' /\ OneExchange'
    BY <1>1, <1>4, <1>5, <1>6 DEF Numbered, OneExchange
  <1>8. AnswersOwn' /\ Draining'
    BY <1>1, <1>4, <1>5, <1>6 DEF AnswersOwn, Draining
  <1>9. ReadyMeans' /\ RowsKept'
    BY <1>1, <1>4, <1>5, <1>6 DEF ReadyMeans, RowsKept, IsComing
  <1>10. Reported' /\ MirrorFollows' /\ QueryNoted' /\ TxnFollows'
    BY <1>1, <1>5, <1>6 DEF Reported, MirrorFollows, QueryNoted, TxnFollows
  <1> QED BY <1>4, <1>7, <1>8, <1>9, <1>10 DEF WireInv, Exchange

\* A step that leaves everything but cancels and buffered notifications alone.
LEMMA AsideStep ==
    ASSUME TypeOK, WireInv,
           UNCHANGED <<connected, lastQuery, inTxn, txnId, rowsOf, mirror, call, toServer, toClient,
                       reply, framed, up, srvTxn, succeeded>>,
           nextSeq' \in {nextSeq, nextSeq + 1}
    PROVE  WireInv'
  <1>1. framed' /\ Ordered' /\ ParamsFollowed' /\ Coming' = Coming /\ Own' = Own
    BY DEF WireInv, Ordered, ParamsFollowed, Coming, Own
  <1>2. TxnFollows
    BY DEF WireInv, Exchange
  <1>3. TxnFollows'
    BY <1>1, <1>2 DEF TxnFollows, IsComing
  <1>4. Exchange
    BY DEF WireInv
  <1>5. Exchange'
    BY <1>1, <1>3, <1>4, SameExchange
  <1> QED BY <1>1, <1>5 DEF WireInv

\* A session that begins, and one that has ended: the wire is empty.
Blank ==
    /\ toServer = <<>> /\ toClient = <<>> /\ reply = <<>> /\ framed /\ Own = IdleCall
    /\ lastQuery = 0 /\ succeeded = {} /\ (connected => nextSeq = 1)
    /\ up => (inTxn <=> srvTxn # "none") /\ txnId = IdOf(srvTxn)

\* An empty wire has nothing out of step.
LEMMA EmptyWire == Blank => WireInv
  <1> SUFFICES ASSUME Blank PROVE WireInv
    OBVIOUS
  <1>1. Len(<<>>) = 0
    OBVIOUS
  <1>2. Coming = {} /\ AnswersOf(toClient) = {}
    BY <1>1 DEF Blank, Coming, ComingIn, AnswersOf
  <1>3. Ordered /\ ParamsFollowed
    BY <1>1, <1>2 DEF Blank, Ordered, OrderedAs, ParamsFollowed, FollowedAs
  <1>4. Own.op = "ping" /\ Own.seq = 0 /\ Own.phase = "idle" /\ Own.status = "none"
    BY DEF Blank, IdleCall
  <1>5. Numbered /\ OneExchange /\ AnswersOwn /\ ReadyMeans /\ Draining /\ RowsKept
    BY <1>2, <1>4
    DEF Blank, Numbered, OneExchange, AnswersOwn, ReadyMeans, Draining, RowsKept, IsComing
  <1>6. Reported /\ QueryNoted /\ TxnFollows /\ MirrorFollows
    BY <1>2, <1>4 DEF Blank, Reported, QueryNoted, TxnFollows, MirrorFollows
  <1> QED BY <1>3, <1>5, <1>6 DEF Blank, WireInv, Exchange

-----------------------------------------------------------------------------
(* The session.                                                            *)

\* The steps of a session without the keepalive thread, in groups.
LEMMA OwnerNext ==
    ASSUME ~KeepaliveOn, [Next]_vars
    PROVE  \/ Connect \/ Disconnect \/ WriteOnly \/ DrainNotifications \/ UNCHANGED vars
           \/ Serve \/ Emit \/ SendAsync \/ ServerCloses
           \/ \E op \in Ops : Call("owner", op)
           \/ BeginLocally("owner") \/ Receive("owner")
  <1>1. {"query", "list", "prepare", "control", "begin", "end", "ping"} \subseteq Ops /\ Callers = {"owner"}
    BY DEF Ops, Callers
  <1>2. ExecuteQuery \/ AttachList \/ Prepare \/ Control \/ BeginTransaction \/ EndTransaction \/ Ping("owner")
          => \E op \in Ops : Call("owner", op)
    BY <1>1 DEF ExecuteQuery, AttachList, Prepare, Control, BeginTransaction, EndTransaction, Ping
  <1>3. (\E t \in Callers : Ping(t) \/ Receive(t)) => Ping("owner") \/ Receive("owner")
    BY <1>1
  <1> QED BY <1>2, <1>3 DEF Next, SendQueryCancel, StreamControl

\* A step of the owner's reading loop is a step of an open session, and leaves
\* it open.
LEMMA OwnerReceives ==
    ASSUME TypeOK, Fresh, Receive("owner")
    PROVE  connected /\ UNCHANGED <<connected, up, toServer, reply>>
  <1>1. Own.phase # "idle" /\ UNCHANGED <<connected, up, toServer, reply>>
    BY DEF Receive, Progress, HandleAsyncMessage, HandleRow, HandlePong, HandleError, HandleReady, DrainedReady,
           ParseFails, ReadTimesOut, PeerClosed, BadHeader, Takes, Pops, ReceiveFails, Reading, Own, serverVars
  <1>2. IdleCall.phase = "idle"
    BY DEF IdleCall
  <1> QED BY <1>1, <1>2 DEF Fresh, TypeOK

\* A closed session stays blank and a closed server silent.
LEMMA FrameStep ==
    ASSUME ~KeepaliveOn, TypeOK, Fresh, Closed, [Next]_vars
    PROVE  Fresh' /\ Closed'
  <1>0. connected \in BOOLEAN /\ up \in BOOLEAN
    BY DEF TypeOK
  <1>1. CASE Connect
    BY <1>1 DEF Connect, Fresh, Closed
  <1>2. CASE Disconnect
    <2>1. Own' = IdleCall
      BY <1>2 DEF Disconnect, Own, Threads
    <2> QED BY <1>2, <2>1 DEF Disconnect, Fresh, Closed
  <1>3. CASE WriteOnly \/ DrainNotifications \/ UNCHANGED vars
    <2>1. UNCHANGED <<connected, up, framed, lastQuery, succeeded, toServer, toClient, reply, call>>
          /\ (connected \/ UNCHANGED disturbed)
      BY <1>3 DEF WriteOnly, DrainNotifications, vars, clientVars, serverVars
    <2> QED BY <2>1 DEF Fresh, Closed, Own
  <1>4. CASE Serve \/ Emit \/ SendAsync \/ ServerCloses
    <2>1. up /\ UNCHANGED connected
      BY <1>4 DEF Serve, Emit, SendAsync, ServerCloses, clientVars
    <2>2. connected'
      BY <1>0, <2>1 DEF Fresh
    <2>3. up' \/ (toServer' = <<>> /\ reply' = <<>>)
      BY <1>4, <2>1 DEF Serve, Emit, SendAsync, ServerCloses
    <2> QED BY <2>2, <2>3 DEF Fresh, Closed
  <1>5. CASE (\E op \in Ops : Call("owner", op)) \/ BeginLocally("owner")
    <2>1. ASSUME NEW op \in Ops, Call("owner", op)
          PROVE  connected' /\ UNCHANGED <<up, reply>> /\ (~up => toServer' = toServer)
      <3>1. CASE Send("owner", op)
        BY <3>1 DEF Send, MayCall, InBound, serverVars
      <3>2. CASE SendFails("owner", op)
        BY <3>2 DEF SendFails, MayCall, InBound, serverVars
      <3> QED BY <2>1, <3>1, <3>2 DEF Call
    <2>2. ASSUME BeginLocally("owner")
          PROVE  connected' /\ UNCHANGED <<up, reply, toServer>>
      BY <2>2 DEF BeginLocally, MayCall, InBound, serverVars
    <2>3. connected' /\ UNCHANGED <<up, reply>> /\ (~up => toServer' = toServer)
      BY <1>5, <2>1, <2>2
    <2> QED BY <2>3 DEF Fresh, Closed
  <1>6. CASE Receive("owner")
    <2>1. connected /\ UNCHANGED <<connected, up, toServer, reply>>
      BY <1>6, OwnerReceives
    <2> QED BY <2>1 DEF Fresh, Closed
  <1> QED BY <1>1, <1>2, <1>3, <1>4, <1>5, <1>6, OwnerNext

\* Every step of a session that is not disturbed keeps the exchange in step.
LEMMA WireStep ==
    ASSUME ~KeepaliveOn, SessionInv, [Next]_vars, ~disturbed'
    PROVE  WireInv'
  <1>0. TypeOK /\ Fresh /\ Closed /\ (~disturbed => WireInv) /\ disturbed \in BOOLEAN
    BY DEF SessionInv, TypeOK
  <1>1. CASE Connect
    <2>1. PICK txn \in {"none", "fresh"} : srvTxn' = txn /\ inTxn' = (txn # "none") /\ txnId' = IdOf(txn)
      BY <1>1 DEF Connect
    <2>2. (up => (inTxn <=> srvTxn # "none") /\ txnId = IdOf(srvTxn))'
      BY <2>1
    <2>3. (/\ toServer = <<>> /\ toClient = <<>> /\ reply = <<>> /\ framed /\ Own = IdleCall
           /\ lastQuery = 0 /\ succeeded = {} /\ (connected => nextSeq = 1))'
      BY <1>0, <1>1 DEF Connect, Fresh, Own
    <2>4. Blank'
      BY <2>2, <2>3 DEF Blank
    <2> QED BY <2>4, EmptyWire, PTL
  <1>2. CASE Disconnect
    <2>1. Own' = IdleCall
      BY <1>2 DEF Disconnect, Own, Threads
    <2>2. Blank'
      BY <1>2, <2>1 DEF Disconnect, Blank
    <2> QED BY <2>2, EmptyWire, PTL
  <1>3. CASE WriteOnly \/ DrainNotifications \/ UNCHANGED vars
    <2>1. UNCHANGED <<connected, lastQuery, inTxn, txnId, rowsOf, mirror, call, toServer, toClient,
                      reply, framed, up, srvTxn, succeeded>>
          /\ nextSeq' \in {nextSeq, nextSeq + 1}
      BY <1>3 DEF WriteOnly, DrainNotifications, vars, clientVars, serverVars
    <2>2. disturbed => disturbed'
      BY <1>0, <1>3 DEF WriteOnly, DrainNotifications, vars
    <2> QED BY <1>0, <2>1, <2>2, AsideStep
  <1>4. CASE Serve \/ Emit \/ SendAsync \/ ServerCloses
    <2>1. UNCHANGED disturbed
      BY <1>4 DEF Serve, Emit, SendAsync, ServerCloses
    <2> QED BY <1>0, <1>4, <2>1, ServeStep, EmitStep, SendAsyncStep, ServerClosesStep
  <1>5. CASE (\E op \in Ops : Call("owner", op)) \/ BeginLocally("owner")
    <2>1. \A op \in Ops : Send("owner", op) \/ SendFails("owner", op) => (disturbed => disturbed')
      BY <1>0 DEF Send, SendFails
    <2>2. BeginLocally("owner") => (disturbed => disturbed')
      BY DEF BeginLocally
    <2>3. ~disturbed
      BY <1>5, <2>1, <2>2 DEF Call
    <2> QED BY <1>0, <1>5, <2>3, CallStep, LocalStep
  <1>6. CASE Receive("owner")
    <2>1. ~ReadTimesOut("owner") /\ ~ParseFails("owner")
      BY DEF ReadTimesOut, ParseFails
    <2>2. UNCHANGED disturbed
      BY <1>6, <2>1 DEF Receive, Progress, HandleAsyncMessage, HandleRow, HandlePong, HandleError, HandleReady,
                       DrainedReady, PeerClosed, BadHeader, Takes, Pops
    <2>3. WireInv
      BY <1>0, <2>2
    <2>4. ~BadHeader("owner")
      BY <2>3 DEF WireInv, BadHeader
    <2> QED BY <1>0, <1>6, <2>1, <2>3, <2>4, AsyncStep, RowStep, PongStep, ErrorStep, ReadyStep, ClosedStep
            DEF Receive, Progress
  <1> QED BY <1>1, <1>2, <1>3, <1>4, <1>5, <1>6, OwnerNext

\* In a session without the keepalive thread request and answer stay in step,
\* whatever the server sends, cancels and closes, until the session is
\* disturbed: the inductive invariant from which the theorems below are read off.
THEOREM SessionInductive ==
    ASSUME ~KeepaliveOn
    PROVE  Spec => []SessionInv
  <1>1. Init => SessionInv
    <2> SUFFICES ASSUME Init PROVE SessionInv
      OBVIOUS
    <2>1. TypeOK
      BY InitTypes
    <2>2. Own = IdleCall
      BY DEF Init, Own, Threads
    <2>3. Fresh /\ Closed /\ Blank
      BY <2>2 DEF Init, Fresh, Closed, Blank
    <2> QED BY <2>1, <2>3, EmptyWire DEF SessionInv
  <1>2. SessionInv /\ [Next]_vars => SessionInv'
    <2> SUFFICES ASSUME SessionInv, [Next]_vars PROVE SessionInv'
      OBVIOUS
    <2>1. TypeOK'
      BY TypeStep DEF SessionInv
    <2>2. Fresh' /\ Closed'
      BY FrameStep DEF SessionInv
    <2>3. ~disturbed' => WireInv'
      BY WireStep
    <2> QED BY <2>1, <2>2, <2>3 DEF SessionInv
  <1> QED BY <1>1, <1>2, PTL DEF Spec

\* What the invariant says of a wire between calls.
LEMMA QuietWire ==
    ASSUME SessionInv, ~disturbed, OwnerIdle
    PROVE  /\ toServer = <<>> /\ reply = <<>> /\ Answers = {} /\ Coming = {} /\ Own.phase = "idle"
           /\ Exchange
  <1>1. Own.phase = "idle" /\ Exchange /\ reply \in Seq(Messages) /\ toClient \in Seq(Messages)
    BY DEF SessionInv, WireInv, OwnerIdle, Own, TypeOK
  <1>2. toServer = <<>> /\ Coming = {}
    BY <1>1 DEF Exchange, OneExchange
  <1>3. Answers = {}
    BY <1>2 DEF Coming, ComingIn, AnswersOf, Answers
  <1>4. ~(1 \in 1..Len(reply))
    BY <1>2 DEF Coming, ComingIn
  <1>5. reply = <<>>
    BY <1>1, <1>4, EmptySeq
  <1> QED BY <1>1, <1>2, <1>3, <1>5

\* Between calls no request and no answer of an earlier call is on the wire,
\* for any number of requests, messages and sessions, until a read times out, a
\* write stops half-way or a payload does not decode.
THEOREM RequestsStayInStep ==
    ASSUME ~KeepaliveOn
    PROVE  Spec => []InStep
  <1>1. SessionInv => InStep
    BY QuietWire DEF InStep
  <1> QED BY <1>1, SessionInductive, PTL

\* A call that returns says what the server did with that very request, in a
\* session that was not disturbed.
THEOREM StatusIsTruthful ==
    ASSUME ~KeepaliveOn
    PROVE  Spec => []TruthfulStatus
  <1>1. SessionInv => TruthfulStatus
    BY QuietWire DEF TruthfulStatus, Exchange, Reported, Own
  <1> QED BY <1>1, SessionInductive, PTL

\* A query that succeeds has its own rows, all of them and no others, in a
\* session that was not disturbed.
THEOREM RowsAreComplete ==
    ASSUME ~KeepaliveOn
    PROVE  Spec => []RowsComplete
  <1>1. SessionInv => RowsComplete
    BY QuietWire DEF RowsComplete, Exchange, Reported, Own
  <1> QED BY <1>1, SessionInductive, PTL

\* The transaction state that READY left in the client is the server's, in a
\* session that was not disturbed.
THEOREM TransactionsStayInStep ==
    ASSUME ~KeepaliveOn
    PROVE  Spec => []TxnInStep
  <1>1. ASSUME SessionInv, ~disturbed, OwnerIdle, up
        PROVE  /\ inTxn = (srvTxn # "none") /\ txnId = IdOf(srvTxn)
               /\ call["owner"].status \in {"ok", "adopted"} /\ call["owner"].op \in Mirrored
                     => mirror = inTxn
    <2>1. Coming = {} /\ Own.phase = "idle" /\ TxnFollows /\ MirrorFollows
      BY <1>1, QuietWire DEF Exchange
    <2>2. (inTxn <=> srvTxn # "none") /\ txnId = IdOf(srvTxn)
      BY <1>1, <2>1 DEF TxnFollows, IsComing
    <2>3. inTxn \in BOOLEAN /\ mirror \in BOOLEAN
      BY <1>1 DEF SessionInv, TypeOK
    <2>4. inTxn = (srvTxn # "none")
      BY <2>2, <2>3
    <2>5. Own.status \in {"ok", "adopted"} /\ Own.op \in Mirrored => mirror = inTxn
      BY <2>1, <2>3 DEF MirrorFollows
    <2> QED BY <2>2, <2>4, <2>5 DEF Own
  <1>2. SessionInv => TxnInStep
    BY <1>1 DEF TxnInStep
  <1> QED BY <1>2, SessionInductive, PTL

\* While the peer is there and the session was not disturbed, CANCEL names the
\* query the owner waits for.
THEOREM CancelsReachTheirQuery ==
    ASSUME ~KeepaliveOn
    PROVE  Spec => []CancelsInFlight
  <1>1. SessionInv => CancelsInFlight
    BY DEF SessionInv, WireInv, Exchange, QueryNoted, CancelsInFlight, Own
  <1> QED BY <1>1, SessionInductive, PTL

=============================================================================

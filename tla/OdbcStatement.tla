---------------------------- MODULE OdbcStatement ----------------------------
(***************************************************************************)
(* An ODBC statement handle (OdbcStatement in odbc_handles.cpp): the       *)
(* data-at-execution protocol of SQLExecute, SQLBulkOperations,            *)
(* SQLParamData and SQLPutData, the result sets of a batch, the cursor     *)
(* over the rows of the current result set, and the piecewise reading of a *)
(* column by SQLGetData.                                                   *)
(*                                                                         *)
(* The calls come from one thread in any order. Between them the           *)
(* application may write the indicators it has bound: the driver reads     *)
(* them through the application's pointer at each call. What a statement   *)
(* yields on the server is chosen freely. The result has one text column   *)
(* of ValueLen bytes; a row is known by its number in its result set,      *)
(* which it keeps when SQLSetPos deletes another.                          *)
(***************************************************************************)
EXTENDS Integers, Sequences, FiniteSets, SequencesExt

CONSTANTS
    Params,       \* parameter numbers of the prepared statement, 1..n
    MaxParamset,  \* bound: rows of a bulk operation
    MaxLen,       \* bound: bytes of a parameter put in pieces
    MaxStatements,\* bound: statements of a batch
    MaxRows,      \* bound: rows of a result set
    ValueLen,     \* bytes of a column value
    MaxBuffer     \* bound: buffer length given to SQLGetData or SQLBindCol

ASSUME StatementAssumption ==
    /\ IsFiniteSet(Params) /\ Params = 1..Cardinality(Params)
    /\ MaxParamset \in Nat \ {0} /\ MaxLen \in Nat
    /\ MaxStatements \in Nat \ {0} /\ MaxRows \in Nat /\ ValueLen \in Nat \ {0} /\ MaxBuffer \in Nat

VARIABLES
    prepared,   \* prepared_
    bound,      \* the keys of param_bindings_
    ind,        \* the application's memory: the indicator of a parameter in a row
    paramset,   \* paramset_size_
    dae,        \* data_at_exec_active_, _params_ from _index_ on, and _row_offset_
    streams,    \* put_data_stream_, by parameter and row
    old,        \* streams with bytes put before the last execution ended
    sent,       \* the data-at-execution values of the last execution
    cancelled,  \* SQLCancel was called since the last execution ended
    sets,       \* result_sets_ of the last batch
    index,      \* current_result_index_
    rows,       \* rows_
    row,        \* current_row_, 0 before the first row
    open,       \* has_results_
    scroll,     \* cursor_type_ is not SQL_CURSOR_FORWARD_ONLY, chosen once
    column,     \* col_bindings_ of the column: whether there is one, its target and length
    piece,      \* get_data_stream_ of the column
    read,       \* how far the application is in the value of the current row
    lost        \* it can no longer tell: see MissedBytes

putVars == <<prepared, bound, ind, paramset, dae, streams, old, sent, cancelled>>
resultVars == <<sets, index, rows, row, open, piece, read, lost>>
vars == <<putVars, resultVars, scroll, column>>

(* Where a parameter's value comes from: the bound buffer, or SQLPutData   *)
(* in pieces of unknown total length (SQL_DATA_AT_EXEC) or of a known one  *)
(* (SQL_LEN_DATA_AT_EXEC).                                                 *)
Plain == [dae |-> FALSE, known |-> FALSE, length |-> 0]
Indicators == {Plain, [dae |-> TRUE, known |-> FALSE, length |-> 0]} \cup
              {[dae |-> TRUE, known |-> TRUE, length |-> n] : n \in 0..MaxLen}

Keys == Params \X (0..(MaxParamset - 1))
Streams == [at: {"none", "open", "complete"}, size: 0..MaxLen, known: BOOLEAN, length: 0..MaxLen]
NoStream == [at |-> "none", size |-> 0, known |-> FALSE, length |-> 0]
NoColumn == [bound |-> FALSE, target |-> FALSE, length |-> 0]
NoPiece == [on |-> 0, offset |-> 0]
Idle == [active |-> FALSE, params |-> {}, row |-> 0]

(* What one statement of a batch yields: no columns (-1) or a row count. *)
Results == -1..MaxRows

(* Types; in particular the cursor is on a row of the current result set   *)
(* or before the first, whatever SQLSetPos has deleted.                    *)
TypeOK ==
    /\ prepared \in BOOLEAN /\ cancelled \in BOOLEAN /\ open \in BOOLEAN
    /\ scroll \in BOOLEAN /\ lost \in BOOLEAN
    /\ bound \in SUBSET Params /\ ind \in [Keys -> Indicators]
    /\ paramset \in 1..MaxParamset
    /\ dae \in [active: BOOLEAN, params: SUBSET Params, row: 0..(MaxParamset - 1)]
    /\ streams \in [Keys -> Streams] /\ old \in SUBSET Keys
    /\ sent \in [stale: BOOLEAN, short: BOOLEAN, cancelled: BOOLEAN]
    /\ sets \in Seq(Results) /\ index \in Nat
    /\ rows \in Seq(1..MaxRows) /\ row \in 0..Len(rows)
    /\ open => index < Len(sets)
    /\ column \in [bound: BOOLEAN, target: BOOLEAN, length: 0..MaxBuffer]
    /\ piece \in [on: 0..MaxRows, offset: 0..ValueLen] /\ read \in 0..ValueLen

-----------------------------------------------------------------------------
(***************************************************************************)
(* Data at execution.                                                      *)
(***************************************************************************)

ClearPutDataState ==
    /\ streams' = [k \in Keys |-> NoStream]
    /\ dae' = Idle

(* An execution, or what was put for one, is over: the bytes that are      *)
(* still in a stream now belong to the past.                               *)
Ended ==
    /\ old' = {k \in Keys : streams'[k].size > 0}
    /\ cancelled' = FALSE

(* The data-at-execution parameters of a row whose stream is not complete. *)
Pending(r) == {p \in bound : ind[<<p, r>>].dae /\ streams[<<p, r>>].at # "complete"}

(* buildParameterData counts up to the number of bindings, so it misses a  *)
(* parameter bound beyond a gap.                                           *)
Built == {p \in bound : p <= Cardinality(bound)}

(* The stream of a pending parameter: a new one takes the length that the  *)
(* indicator announces, one that exists takes a known one.                 *)
Opened(s, i) ==
    IF s.at = "none" THEN [at |-> "open", size |-> 0, known |-> i.known, length |-> i.length]
    ELSE IF i.known THEN [at |-> s.at, size |-> s.size, known |-> TRUE, length |-> i.length]
    ELSE s

(* validateOrInitDataAtExecStateForRow when something is pending: the call *)
(* needs data, and the streams of the row exist from now on. A wait for    *)
(* the same row goes on where it was.                                      *)
NeedData(r) ==
    /\ Pending(r) # {}
    /\ IF dae.active /\ dae.params # {} /\ dae.row = r
       THEN UNCHANGED <<dae, streams>>
       ELSE /\ dae' = [active |-> TRUE, params |-> Pending(r), row |-> r]
            /\ streams' = [k \in Keys |-> IF k[2] = r /\ k[1] \in Pending(r)
                                          THEN Opened(streams[k], ind[k]) ELSE streams[k]]

(* The values the execution of the rows rs sends, as far as they were put  *)
(* in pieces: whether a byte was put for an earlier execution, whether a   *)
(* value is shorter than announced, and whether SQLCancel intervened.      *)
Sends(rs) ==
    LET used == {k \in Keys : k[1] \in Built /\ k[2] \in rs /\ ind[k].dae}
    IN  sent' = [stale |-> used \cap old # {},
                 short |-> \E k \in used : \/ streams[k].at # "complete"
                                           \/ streams[k].known /\ streams[k].size < streams[k].length,
                 cancelled |-> cancelled]

(* getCurrentDataAtExecParameter, 0 when there is none: the parameters are *)
(* asked for in ascending order.                                           *)
CurrentParam == IF dae.active /\ dae.params # {} THEN Min(dae.params) ELSE 0

(* The advance at the end of a parameter. *)
Advance_PastTheEnd == dae' = [dae EXCEPT !.params = @ \ {CurrentParam}]

Advance ==
    dae' = IF dae.params # {CurrentParam}
           THEN [dae EXCEPT !.params = @ \ {CurrentParam}]
           ELSE [dae EXCEPT !.active = FALSE]

(* SQLPutData of n bytes, for a parameter still marked for data at         *)
(* execution. A known length is filled up to its end, where the rest of    *)
(* the piece is cut off; an unknown one ends with an empty piece.          *)
PutData(n) ==
    LET p == CurrentParam
        k == <<p, dae.row>>
        s == streams[k]
        room == s.length - s.size
        size == IF ~s.known \/ n <= room THEN s.size + n
                ELSE IF room <= 0 THEN s.size ELSE s.length
        ends == IF s.known THEN size >= s.length ELSE n = 0
    IN  /\ prepared /\ p # 0 /\ p \in bound /\ ind[k].dae /\ s.at = "open"
        /\ size <= MaxLen
        /\ streams' = [streams EXCEPT ![k] = [at |-> IF ends THEN "complete" ELSE "open", size |-> size,
                                              known |-> s.known, length |-> s.length]]
        /\ IF ends THEN Advance ELSE UNCHANGED dae
        /\ UNCHANGED <<prepared, bound, ind, paramset, old, sent, cancelled, resultVars, scroll, column>>

(* SQLParamData: while no wait is active it looks for pending parameters   *)
(* of row 0, whatever row the last wait was for.                           *)
ParamData ==
    /\ prepared /\ ~dae.active
    /\ \/ NeedData(0)
       \/ Pending(0) = {} /\ dae' = Idle /\ UNCHANGED streams
    /\ UNCHANGED <<prepared, bound, ind, paramset, old, sent, cancelled, resultVars, scroll, column>>

(* SQLCancel asks the server; the statement's own state stays, and what    *)
(* was put so far belongs to the cancelled execution.                      *)
Cancel ==
    /\ cancelled' = TRUE
    /\ old' = {k \in Keys : streams[k].size > 0}
    /\ UNCHANGED <<prepared, bound, ind, paramset, dae, streams, sent, resultVars, scroll, column>>

(* SQLPrepare, SQLBindParameter, SQLFreeStmt(SQL_RESET_PARAMS) and         *)
(* SQL_ATTR_PARAMSET_SIZE.                                                 *)
Prepare ==
    /\ prepared' = TRUE
    /\ ClearPutDataState /\ Ended
    /\ UNCHANGED <<bound, ind, paramset, sent, resultVars, scroll, column>>

BindParameter(p, i) ==
    /\ bound' = bound \cup {p}
    /\ ind' = [k \in Keys |-> IF k[1] = p THEN i ELSE ind[k]]
    /\ ClearPutDataState /\ Ended
    /\ UNCHANGED <<prepared, paramset, sent, resultVars, scroll, column>>

ResetParams ==
    /\ bound' = {}
    /\ ind' = [k \in Keys |-> Plain]
    /\ ClearPutDataState /\ Ended
    /\ UNCHANGED <<prepared, paramset, sent, resultVars, scroll, column>>

SetParamset(n) ==
    /\ paramset' = n
    /\ UNCHANGED <<prepared, bound, ind, dae, streams, old, sent, cancelled, resultVars, scroll, column>>

(* The application writes the indicator of a bound parameter for a row. *)
SetIndicator(k, i) ==
    /\ k[1] \in bound
    /\ ind' = [ind EXCEPT ![k] = i]
    /\ UNCHANGED <<prepared, bound, paramset, dae, streams, old, sent, cancelled, resultVars, scroll, column>>

-----------------------------------------------------------------------------
(***************************************************************************)
(* Result sets, cursor and the piecewise reading of the column.            *)
(***************************************************************************)

ClearGetDataState == piece' = NoPiece

(* Where the application is in the value of its row, when it can tell.     *)
Reading(n, missed) == lost' = missed /\ read' = IF missed THEN 0 ELSE n

(* It comes to a row, or to none, and has read nothing of it. *)
StartsOver == Reading(0, FALSE)

ResetResults ==
    /\ sets' = <<>> /\ index' = 0 /\ rows' = <<>> /\ row' = 0 /\ open' = FALSE
    /\ ClearGetDataState /\ StartsOver

(* applyResultSet of set i of the batch b. *)
ApplyResultSet(b, i) ==
    /\ index' = i
    /\ rows' = [n \in 1..(IF b[i + 1] = -1 THEN 0 ELSE b[i + 1]) |-> n]
    /\ row' = 0
    /\ open' = (b[i + 1] # -1)
    /\ ClearGetDataState /\ StartsOver

(* The batches executeSqlStatements may run: what each statement yielded,  *)
(* and whether the one after them failed.                                  *)
Batches ==
    [results: UNION {[1..n -> Results] : n \in 0..MaxStatements}, fails: BOOLEAN]

(* executeSqlStatements: the result sets of the statements before a        *)
(* failure stay in result_sets_, none of them is applied.                  *)
ExecuteSqlStatements(b) ==
    IF b.fails
    THEN /\ sets' = b.results /\ index' = 0 /\ rows' = <<>> /\ row' = 0 /\ open' = FALSE
         /\ ClearGetDataState /\ StartsOver
    ELSE /\ sets' = b.results
         /\ ApplyResultSet(b.results, 0)

RunsSome(b) == IF b.fails THEN Len(b.results) < MaxStatements ELSE b.results # <<>>

(* SQLExecute: a wait that is active is left alone; parameters that still  *)
(* lack data start one; otherwise the statement runs with the values put.  *)
ExecuteNeedsData ==
    /\ prepared /\ ~dae.active
    /\ NeedData(0)
    /\ UNCHANGED <<prepared, bound, ind, paramset, old, sent, cancelled, resultVars, scroll, column>>

(* An execution that forgets what was put for it is still there. *)
Execute_KeepsPutData(b) ==
    /\ prepared /\ ~dae.active /\ Pending(0) = {}
    /\ RunsSome(b)
    /\ Sends({0})
    /\ ExecuteSqlStatements(b)
    /\ dae' = Idle /\ UNCHANGED streams
    /\ Ended
    /\ UNCHANGED <<prepared, bound, ind, paramset, scroll, column>>

Execute(b) ==
    /\ prepared /\ ~dae.active /\ Pending(0) = {}
    /\ RunsSome(b)
    /\ Sends({0})
    /\ ExecuteSqlStatements(b)
    /\ ClearPutDataState /\ Ended
    /\ UNCHANGED <<prepared, bound, ind, paramset, scroll, column>>

ExecDirect(b) ==
    /\ RunsSome(b)
    /\ ExecuteSqlStatements(b)
    /\ prepared' = (prepared /\ b.fails)
    /\ ClearPutDataState /\ Ended
    /\ UNCHANGED <<bound, ind, paramset, sent, scroll, column>>

(* SQLBulkOperations(SQL_ADD and the by-bookmark writes): a preflight over *)
(* all rows stops at the first that needs data; the rows run only when     *)
(* none does, and their results are not kept.                              *)
BulkNeedsData ==
    /\ prepared
    /\ \E r \in 0..(paramset - 1) :
          /\ \A q \in 0..(r - 1) : Pending(q) \cap Built = {}
          /\ Pending(r) \cap Built # {}
          /\ NeedData(r)
    /\ UNCHANGED <<prepared, bound, ind, paramset, old, sent, cancelled, resultVars, scroll, column>>

BulkExecutes ==
    /\ prepared
    /\ \A r \in 0..(paramset - 1) : Pending(r) \cap Built = {}
    /\ Sends(0..(paramset - 1))
    /\ ClearPutDataState /\ Ended
    /\ UNCHANGED <<prepared, bound, ind, paramset, resultVars, scroll, column>>

(* SQLBulkOperations returns an error or SQL_NO_DATA before any row: an    *)
(* unknown operation, nothing prepared, no rows or no row at the bookmark. *)
(* What was put so far is dropped.                                         *)
BulkRefused ==
    /\ ClearPutDataState /\ Ended
    /\ UNCHANGED <<prepared, bound, ind, paramset, sent, resultVars, scroll, column>>

(* A catalog function (SQLTables, SQLColumns...): its rows are the only    *)
(* result set and the statement is no longer prepared; put_data_stream_    *)
(* and a wait for data stay.                                               *)
CatalogResult(n) ==
    /\ sets' = <<n>>
    /\ ApplyResultSet(<<n>>, 0)
    /\ prepared' = FALSE
    /\ UNCHANGED <<dae, streams>>
    /\ Ended
    /\ UNCHANGED <<bound, ind, paramset, sent, scroll, column>>

(* SQLMoreResults. *)
MoreResults ==
    /\ index + 1 < Len(sets)
    /\ ApplyResultSet(sets, index + 1)
    /\ UNCHANGED <<sets, putVars, scroll, column>>

(* SQLCloseCursor, and SQLFreeStmt(SQL_CLOSE). *)
CloseCursor ==
    /\ open
    /\ ResetResults
    /\ UNCHANGED <<putVars, scroll, column>>

(* streamChunk for a buffer of n bytes: the column's stream q goes on from *)
(* its offset or starts on row r; text needs a byte for the terminator.    *)
(* At the end of the value the stream is dropped. The outcome: the stream  *)
(* and the bytes it has moved on, or -1 when the call reports the end.     *)
StreamChunk(q, r, text, n) ==
    LET s == IF q = NoPiece THEN [on |-> r, offset |-> 0] ELSE q
        capacity == IF text THEN n - 1 ELSE n
        left == ValueLen - s.offset
        copy == IF n = 0 THEN 0 ELSE IF capacity < left THEN capacity ELSE left
    IN  IF left = 0
        THEN [piece |-> NoPiece, got |-> -1]
        ELSE [piece |-> [on |-> s.on, offset |-> s.offset + copy], got |-> copy]

(* The bytes of a chunk are copied only to a target that is not NULL; the  *)
(* stream moves on in any case.                                            *)
MissedBytes(c, target) == ~target /\ c.got > 0

(* bindResultData for row r with the stream q: a bound column is delivered *)
(* through the same stream SQLGetData continues, even one bound to NULL.   *)
(* The application takes what it gets for the start of the row, which a    *)
(* stream that was carried along is not.                                   *)
BindResultData(q, r, carried) ==
    IF ~column.bound
    THEN piece' = q /\ Reading(0, carried)
    ELSE LET c == StreamChunk(q, r, TRUE, column.length)
         IN  /\ piece' = c.piece
             /\ Reading(IF c.got = -1 THEN 0 ELSE c.got, carried \/ MissedBytes(c, column.target))

(* The cursor moves to row n of the current result set. *)
MoveTo_KeepingTheStream(n) ==
    /\ row' = n
    /\ BindResultData(piece, rows[n], FALSE)

MoveTo(n) ==
    /\ row' = n
    /\ BindResultData(NoPiece, rows[n], FALSE)

(* SQLFetch, and SQLFetchScroll to the row it computes. A target outside   *)
(* the rows is SQL_NO_DATA and moves nothing.                              *)
Fetch ==
    /\ open /\ row < Len(rows)
    /\ MoveTo(row + 1)
    /\ UNCHANGED <<sets, index, rows, open, putVars, scroll, column>>

FetchScroll(n) ==
    /\ open /\ scroll /\ n \in DOMAIN rows
    /\ MoveTo(n)
    /\ UNCHANGED <<sets, index, rows, open, putVars, scroll, column>>

(* SQLSetPos with SQL_POSITION, SQL_UPDATE and SQL_REFRESH: the stream is  *)
(* cleared first; only a refresh delivers the bound column again.          *)
SetPosition(n) ==
    /\ open /\ scroll /\ n \in DOMAIN rows
    /\ row' = n
    /\ ClearGetDataState /\ StartsOver
    /\ UNCHANGED <<sets, index, rows, open, putVars, scroll, column>>

(* A row number outside the rows, or a cursor that is read-only, is an     *)
(* error after the clear: the cursor stays, but an application in the      *)
(* middle of the row's value is taken back to its start.                   *)
SetPosInvalid ==
    /\ open /\ scroll /\ rows # <<>>
    /\ ClearGetDataState
    /\ Reading(read, lost \/ read > 0)
    /\ UNCHANGED <<sets, index, rows, row, open, putVars, scroll, column>>

SetPosRefresh(n) ==
    /\ open /\ scroll /\ n \in DOMAIN rows
    /\ MoveTo(n)
    /\ UNCHANGED <<sets, index, rows, open, putVars, scroll, column>>

(* SQLSetPos with SQL_DELETE: one row or, with SQL_ENTIRE_ROWSET, all. The *)
(* cursor stays at the number of the deleted row, or at the last row.      *)
SetPosDelete_StaysBehind(n) ==
    /\ open /\ scroll /\ n \in DOMAIN rows
    /\ rows' = RemoveAt(rows, n)
    /\ row' = n
    /\ ClearGetDataState /\ StartsOver
    /\ UNCHANGED <<sets, index, open, putVars, scroll, column>>

SetPosDelete(n) ==
    /\ open /\ scroll /\ n \in DOMAIN rows
    /\ rows' = RemoveAt(rows, n)
    /\ row' = IF n > Len(rows) - 1 THEN Len(rows) - 1 ELSE n
    /\ ClearGetDataState /\ StartsOver
    /\ UNCHANGED <<sets, index, open, putVars, scroll, column>>

SetPosDeleteAll ==
    /\ open /\ scroll /\ rows # <<>>
    /\ rows' = <<>> /\ row' = 0
    /\ ClearGetDataState /\ StartsOver
    /\ UNCHANGED <<sets, index, open, putVars, scroll, column>>

(* SQLBulkOperations(SQL_FETCH_BY_BOOKMARK): the row becomes current and   *)
(* bound columns are delivered; get_data_stream_ is not cleared. The call  *)
(* ends in clearPutDataState.                                              *)
FetchByBookmark(n) ==
    /\ open /\ n \in DOMAIN rows
    /\ row' = n
    /\ BindResultData(piece, rows[n], piece # NoPiece)
    /\ ClearPutDataState /\ Ended
    /\ UNCHANGED <<sets, index, rows, open, prepared, bound, ind, paramset, sent, scroll, column>>

(* SQLGetData of the column as text or as binary. *)
GetData(text, target, n) ==
    /\ open /\ row \in DOMAIN rows
    /\ LET c == StreamChunk(piece, rows[row], text, n)
       IN  /\ piece' = c.piece
           /\ IF c.got = -1 THEN StartsOver
              ELSE Reading(read + c.got, lost \/ MissedBytes(c, target))
    /\ UNCHANGED <<sets, index, rows, row, open, putVars, scroll, column>>

(* SQLBindCol always leaves a binding, SQLFreeStmt(SQL_UNBIND) none. *)
BindCol(target, n) ==
    /\ column' = [bound |-> TRUE, target |-> target, length |-> n]
    /\ UNCHANGED <<putVars, resultVars, scroll>>

Unbind ==
    /\ column' = NoColumn
    /\ UNCHANGED <<putVars, resultVars, scroll>>

-----------------------------------------------------------------------------
Init ==
    /\ prepared = FALSE
    /\ bound = {} /\ ind = [k \in Keys |-> Plain]
    /\ paramset = 1
    /\ dae = Idle
    /\ streams = [k \in Keys |-> NoStream]
    /\ sent = [stale |-> FALSE, short |-> FALSE, cancelled |-> FALSE]
    /\ old = {} /\ cancelled = FALSE
    /\ sets = <<>> /\ index = 0 /\ rows = <<>> /\ row = 0 /\ open = FALSE
    /\ piece = NoPiece /\ read = 0 /\ lost = FALSE
    /\ scroll \in BOOLEAN
    /\ column = NoColumn

Next ==
    \/ Prepare \/ ResetParams \/ ParamData \/ Cancel \/ ExecuteNeedsData
    \/ BulkNeedsData \/ BulkExecutes \/ BulkRefused
    \/ MoreResults \/ CloseCursor \/ Fetch \/ SetPosInvalid \/ SetPosDeleteAll \/ Unbind
    \/ \E p \in Params, i \in Indicators : BindParameter(p, i)
    \/ \E k \in Keys, i \in Indicators : SetIndicator(k, i)
    \/ \E n \in 1..MaxParamset : SetParamset(n)
    \/ \E n \in 0..(MaxLen + 1) : PutData(n)
    \/ \E b \in Batches : Execute(b) \/ ExecDirect(b)
    \/ \E n \in 0..MaxRows : CatalogResult(n)
    \/ \E n \in 1..MaxRows : \/ FetchScroll(n) \/ SetPosition(n) \/ SetPosRefresh(n)
                             \/ SetPosDelete(n) \/ FetchByBookmark(n)
    \/ \E n \in 0..MaxBuffer, target \in BOOLEAN :
          BindCol(target, n) \/ \E text \in BOOLEAN : GetData(text, target, n)

Spec == Init /\ [][Next]_vars

-----------------------------------------------------------------------------
(***************************************************************************)
(* Properties.                                                             *)
(***************************************************************************)

(* SQL_NEED_DATA can be answered: while a prepared statement waits for     *)
(* data, there is a current parameter, it is bound and its stream takes    *)
(* data, so that SQLPutData gets on (as long as the application leaves the *)
(* indicator as it was) and SQLExecute does not return SQL_NEED_DATA for   *)
(* ever.                                                                   *)
NeedDataAnswerable ==
    prepared /\ dae.active =>
        /\ CurrentParam \in bound
        /\ streams[<<CurrentParam, dae.row>>].at = "open"

(* An execution sends the values that were put for it: no value is shorter *)
(* than announced, and every byte was put since the last call that ended   *)
(* an execution or prepared or bound anew. The exception is SQLCancel,     *)
(* which leaves the streams of the execution it ends: the next one sends   *)
(* their bytes in front of its own.                                        *)
ExecutesWhatWasPut == ~sent.short /\ (sent.stale => sent.cancelled)

(* SQLGetData goes on where the application is in the value of the current *)
(* row, after any moves by SQLFetch, SQLFetchScroll, SQLSetPos and         *)
(* SQLMoreResults: the stream belongs to that row and its offset, 0 before *)
(* there is one, is what the application has received. The exceptions, to  *)
(* the end of the row or of the stream: bytes that went to a NULL target,  *)
(* a row reached by SQL_FETCH_BY_BOOKMARK in the middle of another one's   *)
(* value, and a failed SQLSetPos in the middle of the value.               *)
PieceInStep ==
    ~lost =>
        /\ piece.offset = read
        /\ piece # NoPiece => row \in DOMAIN rows /\ piece.on = rows[row]

=============================================================================

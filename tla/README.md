# Verification of the ScratchBird C/C++ and ODBC drivers

TLA+ models of the core of the ScratchBird driver repository, TLC runs that
check them on small instances, and TLAPS proofs for all instances. Paths below
are relative to `tracks/p3/drivers/cpp`, those of the ODBC driver to
`tracks/p3/drivers/odbc`, unless they start with `docs/`.

## 1. The system

The repository holds drivers for one wire protocol (SBWP) in seventeen
languages and a few integrations with tools. The C/C++ driver is the one with
threads, shared sockets, a pool and explicit memory management; the ODBC driver
adds a state machine per handle on top of it. These two are modelled.

| Component | Source | State | Operations | Used by / uses |
| --- | --- | --- | --- | --- |
| Connection pool | `src/pool.cpp` | vector of entries (`conn`, `in_use`), pool mutex, `g_tracking` table | create, acquire, release, destroy, stats | calls `sb_connect`, `sb_disconnect`, the health ping; called by the application's threads |
| Native session, `NetworkClient` | `src/network_client.cpp` | socket, `next_sequence_`, `last_query_sequence_`, `in_transaction_`, `current_txn_id_`, buffered notifications | connect, query, prepare, execute, begin/commit/rollback, savepoints, options, subscribe, ping, cancel | one request/response loop per operation over one socket |
| `Connection` | `src/connection.cpp` | its own `in_transaction` flag, last error | the C++ API | copies the session's transaction state after successes |
| Keepalive manager | `src/keepalive.cpp` | trackers and connections by id, two flags, a thread | register, unregister, start, stop, check loop | pings through the session of another thread |
| Statement cache | `src/statement_cache.cpp` | map SQL -> statement, LRU list, mutex | get, invalidate, clear, create, destroy | calls `sb_prepare`, `sb_prepared_free` |
| Circuit breaker | `src/circuit_breaker.cpp` | state, three counters, a time, all atomics | AllowRequest, RecordSuccess, RecordFailure, Reset | wraps `sb_execute` and `sb_execute_prepared` |
| Retry, batch, bulk helpers | `src/pool.cpp` | loop counters | `sb_with_retry`, `sb_query_with_retry`, `sb_execute_with_retry`, `sb_batch_execute`, `sb_bulk_insert` | repeat calls of the C API |
| Leak detector | `src/leak_detector.cpp` | checkouts by id, guards, a thread | checkout, checkin, monitor | one per connection |
| Telemetry | `src/telemetry.cpp` | atomics, active spans, ring of slow queries | start/end span, reset, export | around each operation |
| C API | `src/scratchbird_client_c.cpp` | the `sb_connection` bundle, notification queue and listeners | about 90 functions | ties all of the above together |
| ODBC environment and connection | `odbc: src/odbc_handles.cpp` | `connected_`, `auto_commit_`, `in_transaction_`, a circuit breaker | connect, attributes, SQLEndTran on a connection or on the environment | one bridge (C++ client) per connection |
| ODBC statement | `odbc: src/odbc_handles.cpp` | prepared SQL, bindings, data-at-execution state, result sets, cursor, get-data streams | prepare, bind, execute, put data, fetch, set position, bulk operations | `OdbcConnection::executeSQL` |
| Codecs, sockets, TLS, configuration, metadata, SQLSTATE, types | `src/protocol`, `src/network`, `src/security`, `src/core`, `src/driver_config.cpp`, `src/metadata.cpp` | none worth modelling | conversions, system calls | data |

What is hard about it:

* **Concurrency.** `sb_pool_acquire` drops the pool mutex around every network
  call and keeps a raw pointer into the vector meanwhile. The statement cache
  drops its mutex for `sb_prepare`. The keepalive thread reads from a socket its
  owner may be reading from, and works on copied pointers while connections are
  unregistered. The breaker is five independent atomics.
* **Failure and ordering.** A read may time out in the middle of an answer and
  leaves the connection open; after an ERROR the answer has to be drained to
  READY; notifications come between any two messages; the server may close the
  socket. Helpers repeat requests whose effect they do not know; a bulk
  operation or an SQLEndTran over several connections fails in the middle.
* **Copies of state.** Transaction state exists on the server, in the session,
  in `Connection` and in the ODBC handle, whose `auto_commit_` decides whether
  SQLEndTran sends anything; a cached statement points to a connection that may
  be gone; a pool entry stores an address that may have been freed.
* **Call sequences.** An ODBC application may call in any order: streams of put
  and get data survive some calls and must not survive others.

What makes each component correct:

* *Pool*: one holder per connection; a lease is open and tracked and nobody
  else closes it; the size stays near its limit; every acquire returns.
* *Session*: between calls nothing is left on the wire; a status and a result
  set are those of the call's own request; the tracked transaction is the
  server's; a cancel only hits a query in flight; notifications are kept in
  order; every call returns.
* *Statement cache*: list and map agree and are ordered by use; every
  statement has one owner; a get never returns what it has freed.
* *Breaker*: it trips and closes when due, the requests admitted in HALF_OPEN
  are bounded, and it does not stay open for ever.
* *Helpers*: no statement applied twice by a retry, reports that are true, an
  end to every loop.
* *Keepalive*: no ping of a deleted connection, a Stop that returns.
* *ODBC connection*: what SQLEndTran reports is what the server has; a batch is
  all or nothing; breaker slots come back.
* *ODBC statement*: a wait for data can be answered; an execution sends what was
  put for it; SQLGetData goes on in the row the application is on.

`PROJECT.json` lists every component, also those left out with the reason,
and under `hazards` the lines at which all this bites.

## 2. The modules

| Module | Models | MC module and configurations |
| --- | --- | --- |
| `ConnectionPool` | `sb_pool_*` and `g_tracking` | `MCConnectionPool`, `.cfg`, `_txn` |
| `ConnectionLease` | the contract of acquire and release in `pool.h` | refined by `ConnectionPool` |
| `NetworkClient` | one session, its copy in `Connection`, the keepalive ping | `MCNetworkClient`, `.cfg`, `_keepalive`, `_resume` |
| `StatementCache` | `sb_stmt_cache_*` | `MCStatementCache` |
| `CircuitBreaker` | the breaker of the C/C++ driver, atomic by atomic | `MCCircuitBreaker` |
| `RetryHelpers` | retry, batch and bulk helpers over one connection | `MCRetryHelpers` |
| `KeepaliveManager` | start, stop, registry and check loop | `MCKeepaliveManager` |
| `OdbcConnection` | environment, connections, SQLEndTran, bulk rows, server sessions | `MCOdbcConnection`, `.cfg`, `_bulk` |
| `OdbcStatement` | data at execution, result sets, cursor, SQLGetData | `MCOdbcStatement` |
| `XProofs`, for each module `X` above but `ConnectionLease` | inductive invariants, lemmas and theorems | |

An operator named `X_Something` is `X` with a plausible bug. No specification
uses it; each stands for a property and shows that the property notices that
bug.

### ConnectionPool and ConnectionLease

`entries` is `pool->connections` with `conn` and `in_use` of each entry,
`capacity` the vector's capacity, `tracked` the keys of `g_tracking`. Per
thread, `pc` says between which two steps of `sb_pool_acquire` it stands, `sel`
is the pointer `selected` as an index, `conn` the handle it works on, `polls`
the 10 ms sleeps since `start`. One action per critical section and per
stretch without the mutex:

    Acquire -> SelectIdle -> Test -> CheckoutOk               -> using -> Release
                                  -> CheckoutBroken -> ReconnectOk, ReconnectFail
                                       -> Register -> CheckoutOk -> using
                                       -> GiveUp              -> idle
            -> NoneIdle -> Decide -> ConnectOk -> Push        -> using
                                  -> ConnectFail              -> idle
                                  -> Sleep -> (again), TimedOut -> idle

Two things in `sb_pool_acquire` are undefined behaviour or come close to it, and
both are in the model:

* `Push` beyond the capacity moves the vector, and every thread that then holds
  `selected` becomes `dangling`. Each later use reads the memory anew, as the
  code does (`Selected`): it may find anything there, and what it writes may hit
  an entry of the new vector (`StoreConn`, `StoreAvailable`, `Damaged`).
* Handles are addresses, and `Fresh` lets `sb_connect` return any that is not in
  use, freed ones included. An entry whose connection is being replaced still
  stores the freed address, `sb_pool_release` looks for an address, and so a
  release may hit another thread's entry (`Storing`).

`intact` is a history variable: it turns false at the first use of a dangling
`selected`, and when `sb_connect` returns an address that another entry still
stores. The model goes on after that. `misused` records that a freed connection
was pinged or freed again, also by `sb_pool_destroy`, which works on a list and
frees a handle twice that is stored twice. `sb_connect` may fail, a server may
drop any connection (`ServerDrops`), and a lease holder opens and ends
transactions as it likes (`UseTxn`). The push and `register_connection` after it
are one step: nobody else knows the handle in between. A caller destroys a pool
only when no thread is in it or holds a lease of it.

`ConnectionLease` is what a caller of `pool.h` may rely on: it asks, is granted
a live connection nobody else holds or denied, and returns it; no step closes
or exchanges a connection under its lease. `ConnectionPool` maps `pc` to
out/asking/holding and `open` to the live connections, and `ImplementsLease`
checks that every step of the pool is a step of the contract or a stutter, up
to the moment it is no longer `intact` (`sound` in the contract).

### NetworkClient

Each thread's `call` is the loop it is in: operation, sequence number, phase
(`recv`, or `drain` inside `handleErrorResponse`) and final status. The
operations fall into the seven classes that the loops tell apart (`Ops`), each
started by an action of its own (`ExecuteQuery`, `AttachList`, `Prepare`,
`Control`, `BeginTransaction`, `EndTransaction`, `Ping`). Cancel and
`streamControl` write a message that takes a sequence number and read nothing
(`WriteOnly`); when a CANCEL reaches the server is open, so a request it names
fails or has succeeded before. `DrainNotifications` hands the kept notifications
to the owner, who collects them in `delivered`. `toServer`, `reply` and
`toClient` are the wire; a message is its type, the request it answers and the
transaction state it reports. The server is external: it answers in order, ends
each answer with READY (a ping with PONG), writes message by message, sends
notifications and parameter changes in between, and may close.

Three things leave a session open and out of step, and set `disturbed`: a read
that times out (`ReadTimesOut`; inside a message it also loses the framing,
`framed`, and the next header does not decode), a write that stops half-way
(`SendFails`), and a payload that does not decode (`ParseFails`): the loops then
return at once, without reading on to READY. `succeeded`, `sent` and
`disturbed` are history variables; asynchronous messages are numbered as they
are sent, so `NotificationsKept` says that the numbers drained, buffered and on
the wire are together the notifications sent and grow from each place to the
next.

`connect` with its handshake and authentication is one action; so are the
messages a call writes before it reads (a write is not interleaved with other
writes of the same thread). `executePrepared` and `executeServerStatement` send
BIND and EXECUTE without a SYNC and then wait for READY; the model follows the
code in expecting one (`docs/specifications/PREPARE_BIND_REQUIREMENTS.md:35` asks
for a SYNC at the end of a portal sequence, which these two do not send). A query
answers with one row at most, enough to tell own from foreign and all from
none. `Connection::inTransaction` (`mirror`) is refreshed by successful calls
only; after an error whose READY ended the transaction it differs from the
session, which is why `TxnInStep` speaks of it after successes.

### StatementCache

`entries` and `lru` as in the code, `last_used` off a clock that advances with
each read. A get is a look-up (`GetHit`, `GetMiss`, `GetUncached`), a prepare
without the mutex (`PrepareOk`, `PrepareFail`) and an insert
(`InsertDuplicate`, `InsertNew`). `stmts` are the allocated statements;
addresses are reused. `evict_if_needed` pops keys off the back until `max_size`
are left, which is the prefix `Kept`. The branch for an entry with a null
statement is unreachable (`TypeOK` says that no entry has one) and is left out.
Connections open and close independently of the cache, which is not told: a hit
may return a statement of a closed one.

### CircuitBreaker

One action per access to an atomic, so AllowRequest, RecordSuccess,
RecordFailure and Reset of several threads interleave between any two of them.
Counters wrap at `CounterRange` as unsigned integers do; a time stamp is its age
in ticks up to the recovery timeout. `where` remembers how a request was
admitted, and `clean` whether a completion that the gate had not admitted, or a
late reset of the counters, has disturbed the gate's count in this half-open
period: the limit of the gate is a promise for undisturbed periods only.

### RetryHelpers

`call` holds the loop variables of the helper in progress; its steps are the
requests it makes, one after the other, through `start_operation`, the request
and the read of the answer. A read ends with an answer, with one that does not
decode, with an end of file or a timeout; after a timeout the answer, and after
one that does not decode or a timeout in the drain its READY, is left for the
next read. Codes matter: a read timeout is
`IO_ERROR`, which `map_status` turns into `SB_ERR_UNKNOWN` and no helper retries;
a lost connection is retried on the same connection, where it fails again; a
refusal by the breaker has the code of a lost connection; an answer that does
not decode is `PROTOCOL_VIOLATION`, which becomes `SB_ERR_PROTOCOL`, and
`should_retry` does retry that, on a connection that still works. `late` is the
first call in which a read gave up, `garbled` the first in which an answer did
not decode.

### KeepaliveManager

Start and Stop are a compare-exchange on `running_`, a store to
`stop_requested_` and the assignment or join of the thread object, one step
each; Register, Unregister and the worker's copy of the registry are critical
sections; a ping has a beginning and an end. `Close` is the `delete conn` at the
end of `sb_disconnect`; `settled` are the ids a Stop has covered since their
Unregister, so `sb_disconnect` closes settled ones and an application with a
manager of its own may also close others. The worker's copy holds plain
pointers, and Register and Unregister free the tracker an id had: `freed` are the
trackers of its round that are gone, and `usedFreed` records that it used one,
as it may inside `sb_disconnect`, which calls Unregister before Stop.
`overlapped` records that a Start and a Stop, or two Stops, overlapped.
`LeakDetector` has the same Start and Stop.

### OdbcConnection

A call on a connection is one step, because the driver manager hands a
connection to one thread at a time; the loops of SQLEndTran on the environment
and of SQLBulkOperations take one step per connection or row. A call is the
composition of the breaker, the bridge and the recording, written as operators
that yield the possible outcomes. The server session (autocommit mode, rows
pending, rows durable) is external. Between the two is a wire: `sent` are the
requests the server has not taken, `answers` those the client has not read.
`Bridge` sends a request and takes the first answer that has come, whichever
request it belongs to; or the session breaks; or the call gives up, because the
read timed out or a message did not decode, and the session stays up with the
answer still to come (`GivenUp`). `ServerCatchesUp` is the server taking a
request whose call has returned.

The application's knowledge is kept beside it: the rows acknowledged in the unit
of work (`unit`), what SQLEndTran reported (`report`), how a batch ended
(`bulk`). `unsure` marks a connection on which an SQL_ATTR_AUTOCOMMIT call
failed, after which `auto_commit_` differs from the server's mode, or a call gave
up on its answer. `EndTransaction` has the three ways of the code: nothing sent
in autocommit mode, COMMIT or ROLLBACK, and a recorded failure for any other
completion type.

### OdbcStatement

The two halves of a statement handle: parameters put in pieces (`dae`, with the
parameters of the current row still to put, the least of which is the current
one, and `streams`, one per parameter and row) and results (`sets`, `rows`,
`row`, `piece`). One action per ODBC function and outcome; an outcome that
changes nothing has none. `ind` is the application's memory: the driver reads an
indicator through the application's pointer, per row and at each call, and
`SetIndicator` lets the application write it in between.

`old` are the streams that hold a byte put before the last execution ended. It
is computed from what each ending call leaves in the streams (`Ended`), so a call
that forgot to clear them would show in what the next execution sends (`sent`).
`read` is how far the application is in the value of its row: it goes back to
the start where ODBC says that a call moves to a row or ends the value, and not
where the driver happens to clear its stream. `lost` says that the application
can no longer tell: bytes went to a NULL target, for which `streamChunk` skips the
copy and still advances (`MissedBytes`; `SQLBindCol` with NULL does not unbind), a
fetch by bookmark carried the stream of another row along, or an SQLSetPos that
failed cleared it.

## 3. The runs

| Run | Result | What it shows |
| --- | --- | --- |
| `pool` | holds | overshoot below the number of threads, every acquire returns; while the pool is intact: implements `ConnectionLease`, leases exclusive, open and tracked, ownership at every intermediate point, no freed connection touched |
| `pool_mid_transaction` | violated | a connection comes out of the pool in a transaction |
| `session` | holds | until disturbed: in step, truthful statuses, own rows, the server's transaction state, cancels in flight only; notifications in order also after that; every call returns unless the server is silent |
| `session_keepalive` | violated | the keepalive ping eats rows of the owner's query, which reports success |
| `session_timeout` | violated | the query after a timeout returns the rows of the one before |
| `cache` | holds | list and map agree, LRU order, one owner per statement, gets return live statements |
| `breaker` | holds | trips and closes when due, admits no more than the half-open limit in an undisturbed period, leaves OPEN when asked after the recovery timeout |
| `retry` | holds | no statement applied twice in a call that began in step and whose answers decode, true reports while no read gave up, every helper returns unless the server is silent |
| `keepalive` | holds | a connection deleted after Unregister and Stop is not touched, Stop returns, unless Start and Stop calls overlapped, the worker used a freed tracker or a ping never ends |
| `odbc_connection` | holds | on a connection that gave up on no answer: SQLEndTran's reports are the server's state, batches in manual mode are all or nothing, an environment's commit is durable; half-open slots come back |
| `odbc_bulk` | violated | in autocommit mode a failed batch says it was rolled back while its first rows stay |
| `odbc_statement` | holds | waits for data can be answered, executions send what was put for them, SQLGetData stays in its row and at its byte |

The violated runs each check one statement of the repository's documents,
headers, diagnostics or tests; `PROJECT.json` quotes it under `findings`. The
other findings belong to passing runs: they say where the code breaks what its
documents promise and which exception of a property stands for it (see below).

**Bounds.** Pool: two threads (races in `sb_pool_acquire` are between one
thread in a window and one that steps through it), two entries and four
addresses, so that a thread meets an idle entry, a broken one, a full pool and
one it may extend, the vector outgrows its capacity, and freed addresses come
back; a timeout of two sleeps gives a waiter further rounds. The constraint
`WhileIntact` looks at each state in which the pool has just ceased to be intact
and does not follow it: the memory may then hold anything, every property that
is left to check there has `intact` as its premise, except `OvershootBound` and
the types, which the proofs cover beyond it. Session: three requests until it is
disturbed and `MaxLate` after that, so that one call meets what another left
behind; two asynchronous messages, so that one can overtake another. Cache: two
threads, a cache of two and three SQL texts make an eviction choose; five gets
let two of them race on a full cache; three connections let one be closed while
two are used; four addresses are what the cache and two gets can hold, so freed
ones are reused. Breaker: two threads and two requests, so that a request
admitted in one state ends in another while the other thread changes it;
thresholds of one or two; counters that wrap at four, beyond every threshold.
Helpers: two calls, the second of which meets what the first left, of two
operations or three attempts. Keepalive: two callers, two connections, a worker
started twice. ODBC connection: two connections, two rows on the first, enough
for a partial batch, and one thing that goes wrong (`MaxFaults`): a refused
request, a broken session, an answer given up on or an invalid completion type,
after which a broken session fails by itself and can be opened again; a threshold
of two failures still opens the breaker. ODBC statement: two parameters, bulk
operations and batches of up to two, put values of up to one byte (an announced
byte still to come, an empty value, a piece cut off), column values of three
bytes and buffers of 0 to 3, so that a value takes one, several or no pieces. The
constraint `OneHalf` keeps parameters put in pieces and open rows from being
explored together, and follows neither more than two streams or indicators nor an
execution after SQLCancel: the halves meet only where an execution ends, and that
point is inside the constraint. Whether the cursor scrolls is chosen once.

**Fairness.** `session`: weak fairness of what each reader does with what a read
brings (`Progress`); no read has to end by itself. On a plain socket it would, by
the timeout of `readExactWithTimeout`; over TLS, the default, `tls_.read` has no
timeout. `CallReturns` therefore says: unless the server leaves a read waiting
for ever. `retry` and `keepalive` are the same: `HelperReturns` and `StopReturns`
have the silent server as their premise, and a ping has no fairness. `pool`: weak
fairness of each thread's steps inside `sb_pool_acquire`, its network calls
included, which end on plain sockets (and over TLS as long as the server
answers); other threads get no fairness at all, so a lease may be kept for ever.
`breaker`: threads inside an operation go on, time passes, and the application
finishes the requests it started and keeps asking; without a caller nothing moves
an open breaker.

**What the exceptions in the properties mean.** Each is a place where the code
does not keep the promise, named in the property and reached by its run. TLC
finds the trace when the exception is dropped (not for `usedFreed`: it marks
undefined behaviour, after which the model knows nothing to rely on).

* `intact` (`LeaseExclusive`, `Ownership`, `LeaseUsable`, `FreedForgotten`,
  `ImplementsLease`). Thread 1 replaces entry 1, whose freed address goes to
  thread 2's new connection; thread 2's release finds entry 1 first and makes it
  available while thread 1 reconnects it, and both end up with one connection. Or
  a push moves the vector under a thread's `selected`.
* `OvershootBound` is the measure of a promise that is not kept: the
  documents ask pools to honour their maximum, and concurrent acquires exceed it.
* `disturbed` (`InStep`, `TruthfulStatus`, `RowsComplete`, `TxnInStep`,
  `CancelsInFlight`). After a timeout, half a write or a payload that does not
  decode the session stays open and out of step; `session_timeout` shows what
  follows. A cancel may then name a finished query: `last_query_sequence_` stays
  set while a ping or a prepare reads the late READY.
* `late` and `garbled` (`AppliedAtMostOnce`). After a call that timed out, the
  next `sb_execute_with_retry` may read the late error of the earlier statement as
  its own, retry, and apply its statement twice; and `SB_ERR_PROTOCOL` is retried
  although the statement may have been applied.
* `overlapped` and `usedFreed` (`ClosedAfterStopUntouched`, `StopReturns`). Start
  and Stop are not safe against each other, and Unregister frees a tracker the
  worker may be using, also in `sb_disconnect`.
* `unsure` (`EndTranSettles`, `BatchAllOrNothing`, `EnvCommitDurable`). After a
  timed-out statement COMMIT takes that statement's late READY as its answer and
  success is reported before, or without, the commit; a batch's rollback does the
  same. After a failed SQL_ATTR_AUTOCOMMIT call the driver believes a mode the
  server is not in.
* `SlotsReturned` excepts SQLEndTran in autocommit mode, which keeps its slot.
* `cancelled` (`ExecutesWhatWasPut`): SQLCancel leaves what was put.
* `lost` (`PieceInStep`): NULL targets, fetch by bookmark, failed SQLSetPos.

`CHECK_DEADLOCK FALSE` is set where the bounds let the system come to rest: all
requests, calls, gets or starts were made.

## 4. The proofs

Every invariant, action property and refinement that a passing run checks is
also a theorem, for every value of the constants that the module's `ASSUME`
admits: any number of threads, connections, requests, rows, parameters and
retries, any limit and threshold. The bounds that keep TLC's state spaces finite
(`MaxRequests`, `MaxGets`, `MaxStarts`, ...) are then arbitrary natural numbers.
Each theorem has the same shape: an inductive invariant, a lemma per action or
per group of actions, and a last temporal step. TLC checked the inductive
invariants as invariants of the runs before they were proved. One group of
theorems, those about a session, needs a further hypothesis on a constant,
`~KeepaliveOn`; `session_keepalive` is the counterexample without it. The
exceptions listed above are part of the properties and so of the theorems.

**ConnectionPoolProofs.**

* `TypeCorrect` needs that a selected index stays inside the vector
  (`SelectedInRange`), since a store through `selected` is only well typed then,
  and that entries never shrink while a thread is in `sb_pool_acquire`.
* `OvershootBounded`: the size alone is not inductive, because a thread past
  `Decide` will still push. `ConnectBudget` counts entries and threads on their
  way to a push together; `Decide` lets a thread join only when the size is
  below the limit, and then at most all the other threads are on their way.
* `OwnershipHolds`, `LeasesExclusive`: while the pool is intact a thread that
  tests or replaces an entry is the only holder of its handle, a handle about to
  be pushed is in no entry, a `selected` points to the thread's own entry, and an
  entry that stores a freed address is being replaced by the thread that selected
  it. Nothing is assumed of the allocator: that a new connection differs from
  every handle in use follows from `intact'`, which says that no entry stores its
  address, and from `HeldOpen`.
* `LeasesUsable` and `FreedStaysForgotten`: what is tracked is open, what is idle,
  tested or pushed is open (a broken connection is still open), and no step frees
  or pings anything else, so no reconnect closes what another thread holds and
  `sb_pool_destroy` frees each handle once.
* `PoolImplementsLease`: step by step, each action of the pool is a step of
  `ConnectionLease` under the mapping, leaves its variables alone, or ends
  `intact`, from the invariants above.

**NetworkClientProofs.** `ClientTypeCorrect` and `NotificationsAreKept` hold
with and without the keepalive thread. The latter rests on `NotesInv`: numbers
up to the counter, no answer of the server is a notification, and a take moves
the head of the wire behind what was kept (`KeptMove`). The others
(`RequestsStayInStep`, `StatusIsTruthful`, `RowsAreComplete`,
`TransactionsStayInStep`, `CancelsReachTheirQuery`) are read off
`SessionInductive`, under `~KeepaliveOn`: with a keepalive thread on the same
socket `session_keepalive` shows the rows lost. None of them is inductive, since
each speaks of the time between calls. `SessionInv` says what a call meets: the
answers in the socket and those not yet written, together `Coming`, are what is
left of the answer to the owner's own request, ordered by rank (rows, then
completion or error, then READY or PONG), so that a READY is the last message
and an ERROR has only its READY behind it; the request itself is on its way or
they are. `ParamsFollowed` is why `TxnInStep` survives parameter changes: a
PARAMETER_STATUS whose transaction id has been outrun has a READY behind it. All
this holds until the session is disturbed, and `Fresh` says that a reconnect
starts clean again.

**StatementCacheProofs.** `CacheInv` carries all five results together: list and
map agree, the list is in order of last use, statements have one owner. Order
needs `UsedByNow` and the clock behind the calls made (`ClockBudget`), a get
returns what was asked for because a statement is stored, or about to be, under
its own SQL (`RightSql`). `GetReturnsUsable` is an action property.

**CircuitBreakerProofs.** `TypeInv` says what each thread's locals hold between
two atomics. `TripsWhenDue` and `ClosesWhenDue` are inductive with it, one case
per access. `HalfOpenLimit` needs `GateCounted`: as long as no late zeroing or
foreign decrement hit the period, the counter is at least the number of requests
the gate let through. `CounterRange > HalfOpenMax` is assumed: 32-bit counters.

**RetryHelpersProofs.** `AppliedAtMostOnce` needs to know that what may be sent
again has not run and is not waiting to run (`NotYetSent`), which after a read
that gave up rests on the READY left in the stream: it ends the next attempt
before any statement is repeated (`BehindReady`); calls from the first answer
that did not decode on are not covered. `ReportsTrue` adds that before any read
gave up only the current request or its answer is under way
(`OneUnderWay`), that an answer tells the effect, and that effects form a prefix
of the operations.

**KeepaliveManagerProofs.** `CloseAfterStopIsSafe` from `KeepaliveInv`: as long as Start and
Stop did not overlap, one call is between its steps, the only worker that runs
is the one the thread object refers to, and ids covered by a Stop are neither
registered nor in its round.

**OdbcConnectionProofs.** `OdbcInv` is a conjunction over connections: handle
and server session agree about the mode and nothing is on the wire between calls
(`FlagsAgree`, where the connection is not `unsure`), acknowledged rows are pending or durable
(`AckedKept`), reports stay true until the next call (`Settled`), rows of a batch
stay together (`BatchKept`), and what an environment's commit owes a connection
is pending or durable, and durable once the loop is past it (`OwedKept`); this
is what makes `EnvCommitDurable` hold although other threads use the connections
between two steps of the loop. `SlotsComeBack` is an action property and needs,
beside the types, only what a call does to the breaker.

**OdbcStatementProofs.** `StatementInv` has two halves. `PutInv`: every parameter
still to put has an open stream, not only the current one; a complete stream has
the announced length; a prepared statement has bytes of an earlier execution only
after SQLCancel (`OldAfterCancel`), which needs that every call that ends an
execution clears the streams. `ResultInv`: unless `lost`, the column stream
belongs to the current row and its offset is what the application received.

**Written for the provers.** Some definitions take the form a proof can work
with, without a change of meaning: `StatementCache!Without` removes by position,
`OdbcStatement!dae` keeps the parameters to put as a set, `NetworkClient!sent` is
a set of numbers, `NetworkClient!Reply` has no overlapping cases, and no module
declares a RECURSIVE operator.

**Only model-checked.** The liveness properties `AcquireReturns`, `CallReturns`,
`RecoversFromOpen`, `HelperReturns` and `StopReturns`: TLAPS reasons neither
about fairness nor about ENABLED. The statements of the violated runs
(`NoResultResume`, `RowsComplete` with the keepalive thread, the pool's and the
bulk operation's) are refuted by TLC's counterexamples.

## 5. Not modelled

* Checkout records and guards of the leak detector, telemetry, notification
  listeners; the PORTAL_SUSPENDED branch of `executeServerStatement`;
  handshake, authentication and the manager front door (one atomic `Connect`).
* ODBC descriptors, catalogue SQL, type conversion, SQLGetInfo, the ODBC
  driver's keepalive and leak threads. `OdbcConnection::beginTransaction` has no
  caller.
* Codecs, sockets, TLS, configuration parsing, metadata SQL and type conversion
  (no state or pure I/O); the drivers in other languages, the command line
  client and the integrations (independent programs).
* `max_lifetime` and `idle_timeout` of the pool are configuration that no code
  reads.

Most lines of the repository are outside the two drivers, in two vendored
copies of a JSON library, in headers shared with the server and in the drivers
for other languages, so the modelled code is a small share of the whole.

## 6. Plan

1. Proofs: what remains true of a session with the keepalive thread or after it
   was disturbed (a status is that of some request of the session; notifications
   are covered already).
2. `LeakDetector`: records and guards; `NotificationDispatch`: queue and
   listeners of the C API on top of the notifications `NetworkClient` keeps.
3. `Handshake`: negotiation, authentication methods and manager front door as
   a state machine that refines the atomic `Connect`.
4. Suspended portals: `executeServerStatement` sends EXECUTE without a SYNC; on
   PORTAL_SUSPENDED it clears `last_query_sequence_`, sends a SYNC from inside
   its read loop and drains to the READY that answers it.

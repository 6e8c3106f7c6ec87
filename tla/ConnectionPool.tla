--------------------------- MODULE ConnectionPool ---------------------------
(***************************************************************************)
(* The pooled C API of the C/C++ driver (cpp/src/pool.cpp): sb_pool_create,*)
(* sb_pool_acquire, sb_pool_release, sb_pool_destroy, and the g_tracking   *)
(* table that pool.cpp keeps per live handle.                              *)
(*                                                                         *)
(* sb_pool_acquire takes the pool mutex twice per round of its loop and    *)
(* drops it in between and around every network call, so a round is cut    *)
(* into one action per critical section and one per unlocked stretch.      *)
(* sb_connect, sb_disconnect and the health ping are external: a connect   *)
(* may fail, and a server may drop any connection at any time.             *)
(*                                                                         *)
(* Between the critical sections a thread works through `selected`, a raw  *)
(* pointer into the vector, and connections are known by their address.    *)
(* Both can go wrong.  A push_back past the reserved capacity moves the    *)
(* vector and leaves `selected` pointing into freed memory; and while a    *)
(* broken connection is being replaced its entry still stores the freed    *)
(* address, which operator new may give to another connection.  `intact`   *)
(* records whether either has happened; the model goes on after it.        *)
(***************************************************************************)
EXTENDS Naturals, Sequences, FiniteSets

CONSTANTS
    Threads,         \* the caller's threads
    Handles,         \* addresses sb_connect can return
    NoConn,          \* nullptr
    MinConnections,  \* sb_pool_config.min_connections
    MaxConnections,  \* sb_pool_config.max_connections
    TestOnCheckout,  \* sb_pool_config.test_on_checkout
    AcquireTimeout   \* acquire_timeout_seconds, in 10 ms sleeps

ASSUME PoolAssumption ==
    /\ IsFiniteSet(Threads) /\ Threads # {}
    /\ NoConn \notin Handles
    /\ MaxConnections \in Nat \ {0}
    /\ MinConnections \in 0..MaxConnections
    /\ TestOnCheckout \in BOOLEAN
    /\ AcquireTimeout \in Nat

VARIABLES
    exists,    \* is there a pool object?
    entries,   \* pool->connections
    capacity,  \* its vector capacity: growing past it moves the entries
    open,      \* handles connected and not yet disconnected
    sick,      \* open handles whose server side is gone
    inTxn,     \* open handles with a transaction active
    tracked,   \* keys of g_tracking
    pc,        \* where each thread stands in sb_pool_acquire
    sel,       \* `selected`, as an index into entries
    conn,      \* the handle a thread chose, opened or was given
    polls,     \* sleeps since `start`
    dangling,  \* threads whose `selected` points into a freed buffer
    intact,    \* history: no dangling `selected` was used and no connection
               \* got an address that another entry still stores
    misused    \* history: a freed connection was pinged or freed again

poolVars == <<exists, entries, capacity>>
netVars == <<open, sick, inTxn>>
ghostVars == <<intact, misused>>
vars == <<exists, entries, capacity, open, sick, inTxn, tracked,
          pc, sel, conn, polls, dangling, intact, misused>>

PcValues == {"idle", "scan", "test", "checkout", "broken", "reconnect",
             "stored", "decide", "connect", "push", "wait", "using"}

\* The threads that hold a `selected` pointer into the vector.
Selecting(t) == pc[t] \in {"test", "checkout", "broken", "reconnect", "stored"}

Entry == [conn : Handles \cup {NoConn}, in_use : BOOLEAN]

\* The addresses operator new can return for the next sb_connection: any
\* that is not in use, freed ones included.
Fresh == Handles \ open

Disconnect(C) ==
    /\ open' = open \ C
    /\ sick' = sick \ C
    /\ inTxn' = inTxn \ C

Goto(t, label) == pc' = [pc EXCEPT ![t] = label]

\* sb_pool_acquire returns: `selected` and `start` go out of scope.
Return(t, label, c) ==
    /\ Goto(t, label)
    /\ conn' = [conn EXCEPT ![t] = c]
    /\ sel' = [sel EXCEPT ![t] = 0]
    /\ polls' = [polls EXCEPT ![t] = 0]
    /\ dangling' = dangling \ {t}

Idle(i) == entries[i].conn # NoConn /\ ~entries[i].in_use

\* The positions of the vector that store an address.
Storing(c) == {i \in 1..Len(entries) : entries[i].conn = c}

\* What a read of selected->conn can give: the entry's value now or, once the
\* vector has moved, whatever the freed buffer holds.
Selected(t) == IF t \in dangling THEN Handles \cup {NoConn}
               ELSE {entries[sel[t]].conn}

\* A write through `selected`.  Once the vector has moved the write lands in
\* memory that may serve any purpose by now, an entry of a vector included.
Damaged == {entries} \cup
           {[entries EXCEPT ![i] = e] : i \in 1..Len(entries), e \in Entry}
StoreConn(t, c) ==
    IF t \in dangling THEN entries' \in Damaged
    ELSE entries' = [entries EXCEPT ![sel[t]].conn = c]
StoreAvailable(t) ==
    IF t \in dangling THEN entries' \in Damaged
    ELSE entries' = [entries EXCEPT ![sel[t]].in_use = FALSE]

\* Every use of `selected` outside the mutex.
Dereference(t) == intact' = (intact /\ t \notin dangling)

-----------------------------------------------------------------------------
Init ==
    /\ exists = FALSE
    /\ entries = <<>>
    /\ capacity = MaxConnections
    /\ open = {} /\ sick = {} /\ inTxn = {} /\ tracked = {}
    /\ pc = [t \in Threads |-> "idle"]
    /\ sel = [t \in Threads |-> 0]
    /\ conn = [t \in Threads |-> NoConn]
    /\ polls = [t \in Threads |-> 0]
    /\ dangling = {}
    /\ intact = TRUE /\ misused = FALSE

(***************************************************************************)
(* sb_pool_create and sb_pool_destroy.  Nobody else has the pool pointer   *)
(* while it is being created, and a caller destroys a pool only when no    *)
(* other thread is inside it or holds a lease of it.                       *)
(***************************************************************************)
PoolCreate ==
    /\ ~exists
    /\ \E hs \in [1..MinConnections -> Fresh] :
          /\ \A i, j \in 1..MinConnections : hs[i] = hs[j] => i = j
          /\ entries' = [i \in 1..MinConnections |->
                            [conn |-> hs[i], in_use |-> FALSE]]
          /\ open' = open \cup {hs[i] : i \in 1..MinConnections}
          /\ tracked' = tracked \cup {hs[i] : i \in 1..MinConnections}
    /\ exists' = TRUE
    /\ capacity' = MaxConnections
    /\ UNCHANGED <<sick, inTxn, pc, sel, conn, polls, dangling, ghostVars>>

\* A failed connect closes the connections made so far and deletes the pool.
PoolCreateFail ==
    /\ ~exists
    /\ \E made \in SUBSET Fresh :
          /\ Cardinality(made) < MinConnections
          /\ tracked' = tracked \ made
    /\ UNCHANGED <<poolVars, netVars, pc, sel, conn, polls, dangling, ghostVars>>

\* to_close is a list: an address that two entries store is freed twice, and
\* one that was freed before is freed again.
PoolDestroy ==
    /\ exists
    /\ \A t \in Threads : pc[t] = "idle"
    /\ LET closing == {entries[i].conn : i \in 1..Len(entries)} \ {NoConn}
       IN /\ tracked' = tracked \ closing
          /\ Disconnect(closing)
          /\ misused' = (\/ misused
                         \/ ~(closing \subseteq open)
                         \/ \E c \in closing, i, j \in 1..Len(entries) :
                               i # j /\ i \in Storing(c) /\ j \in Storing(c))
    /\ exists' = FALSE
    /\ entries' = <<>>
    /\ UNCHANGED <<capacity, pc, sel, conn, polls, dangling, intact>>

(***************************************************************************)
(* sb_pool_acquire.                                                        *)
(***************************************************************************)
Acquire(t) ==
    /\ exists
    /\ pc[t] = "idle"
    /\ Goto(t, "scan")
    /\ UNCHANGED <<poolVars, netVars, tracked, sel, conn, polls, dangling, ghostVars>>

\* First critical section: take the first idle entry, if there is one.
\* (mutant: the entry is not marked in use)
SelectIdle_Unmarked(t) ==
    /\ pc[t] = "scan"
    /\ \E i \in 1..Len(entries) :
          /\ Idle(i)
          /\ \A j \in 1..(i - 1) : ~Idle(j)
          /\ sel' = [sel EXCEPT ![t] = i]
          /\ conn' = [conn EXCEPT ![t] = entries[i].conn]
    /\ Goto(t, IF TestOnCheckout THEN "test" ELSE "checkout")
    /\ UNCHANGED <<poolVars, netVars, tracked, polls, dangling, ghostVars>>

SelectIdle(t) ==
    /\ pc[t] = "scan"
    /\ \E i \in 1..Len(entries) :
          /\ Idle(i)
          /\ \A j \in 1..(i - 1) : ~Idle(j)
          /\ entries' = [entries EXCEPT ![i].in_use = TRUE]
          /\ sel' = [sel EXCEPT ![t] = i]
          /\ conn' = [conn EXCEPT ![t] = entries[i].conn]
    /\ Goto(t, IF TestOnCheckout THEN "test" ELSE "checkout")
    /\ UNCHANGED <<exists, capacity, netVars, tracked, polls, dangling, ghostVars>>

NoneIdle(t) ==
    /\ pc[t] = "scan"
    /\ \A i \in 1..Len(entries) : ~Idle(i)
    /\ Goto(t, "decide")
    /\ UNCHANGED <<poolVars, netVars, tracked, sel, conn, polls, dangling, ghostVars>>

\* sb_connection_is_healthy(selected->conn): a dead session fails, nullptr
\* fails, and of a freed connection nothing can be said.
Test(t) ==
    /\ pc[t] = "test"
    /\ \E c \in Selected(t) :
          /\ \/ c \notin sick \cup {NoConn} /\ Goto(t, "checkout")
             \/ c \notin open \ sick /\ Goto(t, "broken")
          /\ misused' = (misused \/ c \in Fresh)
    /\ Dereference(t)
    /\ UNCHANGED <<poolVars, netVars, tracked, sel, conn, polls, dangling>>

\* ensure_tracking(selected->conn) and return selected->conn, each read anew
\* through the pointer.
CheckoutOk(t) ==
    /\ pc[t] = "checkout"
    /\ \E c \in Selected(t) :
          /\ tracked' = tracked \cup ({c} \ {NoConn})
          /\ Return(t, IF c = NoConn THEN "idle" ELSE "using", c)
    /\ Dereference(t)
    /\ UNCHANGED <<poolVars, netVars, misused>>

\* The ping failed: unregister and disconnect.  selected->conn keeps the
\* address of the freed connection until the reconnect below returns.
\* (mutant: unregister_connection forgotten)
CheckoutBroken_StillTracked(t) ==
    /\ pc[t] = "broken"
    /\ \E c \in Selected(t) :
          /\ Disconnect({c})
          /\ misused' = (misused \/ c \in Fresh)
    /\ Goto(t, "reconnect")
    /\ Dereference(t)
    /\ UNCHANGED <<poolVars, tracked, sel, conn, polls, dangling>>

CheckoutBroken(t) ==
    /\ pc[t] = "broken"
    /\ \E c \in Selected(t) :
          /\ tracked' = tracked \ {c}
          /\ Disconnect({c})
          /\ misused' = (misused \/ c \in Fresh)
    /\ Goto(t, "reconnect")
    /\ Dereference(t)
    /\ UNCHANGED <<poolVars, sel, conn, polls, dangling>>

\* selected->conn = sb_connect(...), without the mutex.  The address may be
\* one that another entry still stores.
ReconnectOk(t) ==
    /\ pc[t] = "reconnect"
    /\ \E c \in Fresh :
          /\ open' = open \cup {c}
          /\ StoreConn(t, c)
          /\ conn' = [conn EXCEPT ![t] = c]
          /\ intact' = (/\ intact /\ t \notin dangling
                        /\ Storing(c) \subseteq {sel[t]})
    /\ Goto(t, "stored")
    /\ UNCHANGED <<exists, capacity, sick, inTxn, tracked, sel, polls, dangling,
                   misused>>

\* (mutant: the entry is made available with the freed address still in it)
ReconnectFail_KeepsConn(t) ==
    /\ pc[t] = "reconnect"
    /\ StoreAvailable(t)
    /\ Return(t, "idle", NoConn)
    /\ Dereference(t)
    /\ UNCHANGED <<exists, capacity, netVars, tracked, misused>>

ReconnectFail(t) ==
    /\ pc[t] = "reconnect"
    /\ StoreConn(t, NoConn)
    /\ conn' = [conn EXCEPT ![t] = NoConn]
    /\ Goto(t, "stored")
    /\ Dereference(t)
    /\ UNCHANGED <<exists, capacity, netVars, tracked, sel, polls, dangling, misused>>

\* if (!selected->conn): the entry is made available, and the error returned.
GiveUp(t) ==
    /\ pc[t] = "stored"
    /\ NoConn \in Selected(t)
    /\ StoreAvailable(t)
    /\ Return(t, "idle", NoConn)
    /\ Dereference(t)
    /\ UNCHANGED <<exists, capacity, netVars, tracked, misused>>

\* register_connection(selected->conn), and on to the return.
Register(t) ==
    /\ pc[t] = "stored"
    /\ \E c \in Selected(t) \ {NoConn} :
          /\ tracked' = tracked \cup {c}
          /\ conn' = [conn EXCEPT ![t] = c]
    /\ Goto(t, "checkout")
    /\ Dereference(t)
    /\ UNCHANGED <<poolVars, netVars, sel, polls, dangling, misused>>

\* Second critical section: only the comparison is made under the mutex.
\* (mutant: off by one)
Decide_AtMost(t) ==
    /\ pc[t] = "decide"
    /\ Goto(t, IF Len(entries) <= MaxConnections THEN "connect" ELSE "wait")
    /\ UNCHANGED <<poolVars, netVars, tracked, sel, conn, polls, dangling, ghostVars>>

Decide(t) ==
    /\ pc[t] = "decide"
    /\ Goto(t, IF Len(entries) < MaxConnections THEN "connect" ELSE "wait")
    /\ UNCHANGED <<poolVars, netVars, tracked, sel, conn, polls, dangling, ghostVars>>

ConnectOk(t) ==
    /\ pc[t] = "connect"
    /\ \E c \in Fresh :
          /\ open' = open \cup {c}
          /\ conn' = [conn EXCEPT ![t] = c]
          /\ intact' = (intact /\ Storing(c) = {})
    /\ Goto(t, "push")
    /\ UNCHANGED <<poolVars, sick, inTxn, tracked, sel, polls, dangling, misused>>

ConnectFail(t) ==
    /\ pc[t] = "connect"
    /\ Return(t, "idle", NoConn)
    /\ UNCHANGED <<poolVars, netVars, tracked, ghostVars>>

\* Third critical section: push_back, with no second look at the size.  A
\* push past the capacity moves the vector under every other thread's
\* `selected`.  Then, without the mutex, register_connection.
\* (mutant: the new entry is pushed as available)
Push_Available(t) ==
    /\ pc[t] = "push"
    /\ entries' = Append(entries, [conn |-> conn[t], in_use |-> FALSE])
    /\ tracked' = tracked \cup {conn[t]}
    /\ Return(t, "using", conn[t])
    /\ UNCHANGED <<exists, capacity, netVars, ghostVars>>

\* (mutant: register_connection forgotten)
Push_Untracked(t) ==
    /\ pc[t] = "push"
    /\ entries' = Append(entries, [conn |-> conn[t], in_use |-> TRUE])
    /\ Return(t, "using", conn[t])
    /\ UNCHANGED <<exists, capacity, netVars, tracked, ghostVars>>

Push(t) ==
    /\ pc[t] = "push"
    /\ entries' = Append(entries, [conn |-> conn[t], in_use |-> TRUE])
    /\ IF Len(entries) = capacity
         THEN /\ capacity' = 2 * capacity
              /\ dangling' = {u \in Threads : Selecting(u)}
         ELSE UNCHANGED <<capacity, dangling>>
    /\ tracked' = tracked \cup {conn[t]}
    /\ Goto(t, "using")
    /\ polls' = [polls EXCEPT ![t] = 0]
    /\ UNCHANGED <<exists, netVars, sel, conn, ghostVars>>

\* Wall-clock time passes while a thread is off the processor, so the
\* deadline may be found passed in any round.
TimedOut(t) ==
    /\ pc[t] = "wait"
    /\ Return(t, "idle", NoConn)
    /\ UNCHANGED <<poolVars, netVars, tracked, ghostVars>>

\* (mutant: the deadline is never compared)
Sleep_NoDeadline(t) ==
    /\ pc[t] = "wait"
    /\ polls' = [polls EXCEPT ![t] = @ + 1]
    /\ Goto(t, "scan")
    /\ UNCHANGED <<poolVars, netVars, tracked, sel, conn, dangling, ghostVars>>

\* (mutant: `start` is taken anew in every round)
Sleep_Restarted(t) ==
    /\ pc[t] = "wait"
    /\ Goto(t, "scan")
    /\ UNCHANGED <<poolVars, netVars, tracked, sel, conn, polls, dangling, ghostVars>>

Sleep(t) ==
    /\ pc[t] = "wait"
    /\ polls[t] < AcquireTimeout
    /\ polls' = [polls EXCEPT ![t] = @ + 1]
    /\ Goto(t, "scan")
    /\ UNCHANGED <<poolVars, netVars, tracked, sel, conn, dangling, ghostVars>>

(***************************************************************************)
(* sb_pool_release: the first entry that stores this address.              *)
(***************************************************************************)
Release(t) ==
    /\ pc[t] = "using"
    /\ LET owners == Storing(conn[t])
       IN \/ \E i \in owners :
                /\ \A j \in owners : i <= j
                /\ entries' = [entries EXCEPT ![i].in_use = FALSE]
                /\ tracked' = tracked \cup {conn[t]}
          \/ owners = {} /\ UNCHANGED <<entries, tracked>>
    /\ Goto(t, "idle")
    /\ conn' = [conn EXCEPT ![t] = NoConn]
    /\ UNCHANGED <<exists, capacity, netVars, sel, polls, dangling, ghostVars>>

\* What a lease holder does with its connection, as far as the pool cares:
\* it may open a transaction and may or may not end it before releasing.
UseTxn(t) ==
    /\ pc[t] = "using"
    /\ conn[t] \in open \ sick
    /\ inTxn' = IF conn[t] \in inTxn THEN inTxn \ {conn[t]}
                ELSE inTxn \cup {conn[t]}
    /\ UNCHANGED <<poolVars, open, sick, tracked, pc, sel, conn, polls, dangling,
                   ghostVars>>

ServerDrops ==
    /\ \E c \in open \ sick : sick' = sick \cup {c} /\ inTxn' = inTxn \ {c}
    /\ UNCHANGED <<poolVars, open, tracked, pc, sel, conn, polls, dangling, ghostVars>>

AcquireStep(t) ==
    \/ SelectIdle(t) \/ NoneIdle(t) \/ Test(t) \/ CheckoutOk(t) \/ CheckoutBroken(t)
    \/ ReconnectOk(t) \/ ReconnectFail(t) \/ GiveUp(t) \/ Register(t) \/ Decide(t)
    \/ ConnectOk(t) \/ ConnectFail(t) \/ Push(t) \/ TimedOut(t) \/ Sleep(t)

Next ==
    \/ PoolCreate \/ PoolCreateFail \/ PoolDestroy \/ ServerDrops
    \/ \E t \in Threads : Acquire(t) \/ AcquireStep(t) \/ Release(t) \/ UseTxn(t)

Spec == Init /\ [][Next]_vars

\* A thread inside sb_pool_acquire keeps running: the scheduler is fair to
\* it and every network call it makes returns, as connect and read timeouts
\* see to on plain sockets (over TLS a read of a silent server has none).
FairSpec == Spec /\ \A t \in Threads : WF_vars(AcquireStep(t))

-----------------------------------------------------------------------------

\* Every variable has its type, the session sets speak of open handles only,
\* and no thread sleeps past its deadline.
TypeOK ==
    /\ exists \in BOOLEAN
    /\ entries \in Seq(Entry)
    /\ capacity \in Nat
    /\ open \subseteq Handles
    /\ sick \subseteq open /\ inTxn \subseteq open
    /\ tracked \subseteq Handles
    /\ pc \in [Threads -> PcValues]
    /\ sel \in [Threads -> Nat]
    /\ conn \in [Threads -> Handles \cup {NoConn}]
    /\ polls \in [Threads -> 0..AcquireTimeout]
    /\ dangling \subseteq {t \in Threads : Selecting(t)}
    /\ intact \in BOOLEAN /\ misused \in BOOLEAN

(***************************************************************************)
(* The next four properties, and ImplementsLease, speak of a pool that is  *)
(* `intact`.  The two ways it stops being so are faults of pool.cpp; both  *)
(* are reached, and each of the five fails without its premise.            *)
(***************************************************************************)

\* A connection is leased to one thread at a time, although sb_pool_acquire
\* picks an entry, tests it and opens new ones in separate critical sections.
LeaseExclusive ==
    intact => \A t, u \in Threads :
        pc[t] = "using" /\ pc[u] = "using" /\ conn[t] = conn[u] => t = u

\* The threads that answer for a handle: it is theirs to return, to push or
\* to replace.
Holding(t) ==
    /\ Selecting(t) \/ pc[t] \in {"push", "using"}
    /\ conn[t] # NoConn

\* The parts of Ownership, below.
OneHolder ==
    \A t, u \in Threads :
        Holding(t) /\ Holding(u) /\ conn[t] = conn[u] => t = u
HeldOpen ==
    \A t \in Threads : Holding(t) /\ pc[t] # "reconnect" => conn[t] \in open
EntriesDistinct ==
    \A i, j \in 1..Len(entries) :
        entries[i].conn = entries[j].conn /\ entries[i].conn # NoConn => i = j
EntriesOpen ==
    \A i \in 1..Len(entries) :
        \/ entries[i].conn \in open \cup {NoConn}
        \/ \E t \in Threads : pc[t] = "reconnect" /\ sel[t] = i
HeldInUse ==
    \A t \in Threads, i \in 1..Len(entries) :
        Holding(t) /\ entries[i].conn = conn[t]
           => entries[i].in_use /\ pc[t] # "push"
LeaseStored == \A t \in Threads : pc[t] = "using" => Storing(conn[t]) # {}
SelectedOwn ==
    \A t \in Threads : Selecting(t)
        => entries[sel[t]].in_use /\ entries[sel[t]].conn = conn[t]
SelectedDistinct ==
    \A t, u \in Threads :
        Selecting(t) /\ Selecting(u) /\ sel[t] = sel[u] => t = u

Owned ==
    /\ OneHolder /\ HeldOpen /\ EntriesDistinct /\ EntriesOpen
    /\ HeldInUse /\ LeaseStored /\ SelectedOwn /\ SelectedDistinct

\* Who owns which handle, at every point of sb_pool_acquire and not only
\* between calls: a handle has one holder and is open unless that holder is
\* replacing it, the vector stores it at most once and never as available
\* while it is held, sb_pool_release will find it, and what a thread reads
\* through `selected` is the handle it chose.  (LeaseExclusive follows.)
Ownership == intact => Owned

\* What sb_pool_acquire returns is an open connection that
\* sb_connection_age / sb_connection_idle_time know.
LeaseUsable ==
    intact => \A t \in Threads : pc[t] = "using" => conn[t] \in open \cap tracked

\* A freed connection is forgotten: g_tracking does not keep its address, and
\* no path pings it or frees it again, not even sb_pool_destroy after failed
\* reconnects.
FreedForgotten == intact => tracked \subseteq open /\ ~misused

\* The size and the connects still under way together stay in the bound below.
Connecting == {t \in Threads : pc[t] \in {"connect", "push"}}
ConnectBudget ==
    Len(entries) + Cardinality(Connecting)
        <= MaxConnections + Cardinality(Threads) - 1

\* max_connections is compared before the slow sb_connect and not again, so
\* racing threads overshoot it, but by fewer entries than there are threads.
\* (DRIVER_THREAD_SAFETY_POOLING.md asks that "Pools must honor max open":
\* this is the measure of how far this pool does not, and it is reached.)
OvershootBound == Len(entries) <= MaxConnections + Cardinality(Threads) - 1

\* Every call of sb_pool_acquire returns, with a connection or an error.
AcquireReturns ==
    \A t \in Threads : pc[t] = "scan" ~> pc[t] \in {"idle", "using"}

\* The pool implements the lease contract of ConnectionLease: whatever the
\* critical sections, tests, reconnects and failures inside sb_pool_acquire,
\* a caller sees one request, one answer, a live connection that nobody else
\* holds, and no step that closes or exchanges it under the lease, as long as
\* the pool is intact.
Lease == INSTANCE ConnectionLease WITH
    phase <- [t \in Threads |-> CASE pc[t] = "idle" -> "out"
                                  [] pc[t] = "using" -> "holding"
                                  [] OTHER -> "asking"],
    lease <- [t \in Threads |-> IF pc[t] = "using" THEN conn[t] ELSE NoConn],
    live <- open,
    sound <- intact

ImplementsLease == Lease!LeaseSpec

(***************************************************************************)
(* What docs/specifications/DRIVER_THREAD_SAFETY_POOLING.md asks of pools. *)
(***************************************************************************)
\* "Pools must not return connections that are mid-transaction."
NoMidTransactionCheckout ==
    [][\A t \in Threads : pc[t] # "using" /\ pc'[t] = "using"
          => conn'[t] \notin inTxn]_vars

=============================================================================

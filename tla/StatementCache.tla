--------------------------- MODULE StatementCache ---------------------------
(***************************************************************************)
(* The prepared-statement cache of the C API (cpp/src/statement_cache.cpp):*)
(* a map from SQL text to an sb_prepared, a list of its keys with the most *)
(* recently used first, and one mutex.                                     *)
(*                                                                         *)
(* sb_stmt_cache_get looks the key up under the mutex, prepares a missing  *)
(* statement without it, and takes it again to insert, so a get is cut     *)
(* into a look-up, a prepare and an insert.  The callers follow the rules  *)
(* of the API: a connection serves one thread at a time, is not closed     *)
(* while a thread works on it, and a cached statement is never freed by    *)
(* its user.                                                               *)
(***************************************************************************)
EXTENDS Naturals, Sequences, FiniteSets

CONSTANTS
    Threads,   \* the caller's threads
    Conns,     \* connections the caller opens, one after another
    Sqls,      \* SQL texts
    Stmts,     \* addresses the allocator can give to an sb_prepared
    NoStmt,    \* nullptr
    MaxSize,   \* max_size of the cache; 0 switches it off
    MaxGets    \* bound: calls of sb_stmt_cache_get

ASSUME CacheAssumption ==
    /\ NoStmt \notin Stmts
    /\ MaxSize \in Nat
    /\ MaxGets \in Nat

VARIABLES
    open,      \* connections open now
    closed,    \* connections opened and closed again
    stmts,     \* sb_prepared objects allocated and not freed
    origin,    \* the connection and SQL each of them was prepared for
    entries,   \* cache->entries
    lru,       \* cache->lru, its front first
    clock,     \* steady_clock, advanced by each read of it
    gets,      \* calls of sb_stmt_cache_get so far
    pc,        \* where each thread stands in sb_stmt_cache_get
    args,      \* the thread's conn and sql, and does it pass a cache?
    hand       \* the thread's sb_prepared pointer

vars == <<open, closed, stmts, origin, entries, lru, clock, gets,
          pc, args, hand>>

Request == [conn : Conns, sql : Sqls, cached : BOOLEAN]
NoRequest == [cached |-> FALSE]
Keys == DOMAIN entries
Cached == {entries[k].stmt : k \in Keys}

TypeOK ==
    /\ open \subseteq Conns /\ closed \subseteq Conns
    /\ stmts \subseteq Stmts
    /\ origin \in [stmts -> [conn : Conns, sql : Sqls]]
    /\ Keys \subseteq Sqls
    /\ \A k \in Keys : entries[k] \in [stmt : Stmts, last_used : 1..MaxGets]
    /\ lru \in Seq(Sqls)
    /\ clock \in 0..MaxGets /\ gets \in 0..MaxGets
    /\ pc \in [Threads -> {"idle", "prepare", "insert", "borrows", "owns"}]
    /\ args \in [Threads -> Request \cup {NoRequest}]
    /\ hand \in [Threads -> Stmts \cup {NoStmt}]

\* No cache entry, no statement, no connection: sb_stmt_cache_create.
Init ==
    /\ open = {} /\ closed = {}
    /\ stmts = {} /\ origin = <<>>
    /\ entries = <<>> /\ lru = <<>>
    /\ clock = 0 /\ gets = 0
    /\ pc = [t \in Threads |-> "idle"]
    /\ args = [t \in Threads |-> NoRequest]
    /\ hand = [t \in Threads |-> NoStmt]

-----------------------------------------------------------------------------
(* The parts of statement_cache.cpp every operation is made of.            *)

\* list::remove: the keys behind the removed one move up.  The list never holds
\* a key twice (LruIndexesEntries).
Without(key) ==
    LET at == CHOOSE i \in 1..Len(lru) : lru[i] = key
    IN  IF \E i \in 1..Len(lru) : lru[i] = key
        THEN [i \in 1..(Len(lru) - 1) |-> IF i < at THEN lru[i] ELSE lru[i + 1]]
        ELSE lru

\* (mutant: push_back for push_front)
Touched_Append(key) == Without(key) \o <<key>>

\* touch_lru
Touched(key) == <<key>> \o Without(key)

\* Assigning one key of the map, and erasing a set of keys.
Assign(key, entry) ==
    [k \in Keys \cup {key} |-> IF k = key THEN entry ELSE entries[k]]
Erase(keys) == [k \in Keys \ keys |-> entries[k]]

\* Use of a cached statement: last_used is read off the clock.
UseEntry(key) ==
    /\ clock' = clock + 1
    /\ entries' = Assign(key, [entries[key] EXCEPT !.last_used = clock + 1])
    /\ lru' = Touched(key)

\* evict_if_needed after `lru` became `order`: keys are popped off the back
\* until max_size are left.
Kept(order) == SubSeq(order, 1, IF Len(order) < MaxSize THEN Len(order) ELSE MaxSize)

Victims(order) == {order[i] : i \in (Len(Kept(order)) + 1)..Len(order)}

StmtsOf(keys) == {entries[k].stmt : k \in keys \cap Keys}

\* sb_prepared_free on each of these.
Free(dead) ==
    /\ stmts' = stmts \ dead
    /\ origin' = [p \in stmts \ dead |-> origin[p]]

-----------------------------------------------------------------------------
(* sb_stmt_cache_get                                                       *)

Busy(t) == pc[t] # "idle"

\* A call with these arguments enters sb_stmt_cache_get.
Enters(t, r) ==
    /\ ~Busy(t) /\ gets < MaxGets
    /\ r.conn \in open
    /\ \A u \in Threads : Busy(u) => args[u].conn # r.conn
    /\ gets' = gets + 1
    /\ args' = [args EXCEPT ![t] = r]

\* A null cache or max_size = 0: the call is sb_prepare.
GetUncached(t, r) ==
    /\ Enters(t, r)
    /\ ~r.cached \/ MaxSize = 0
    /\ pc' = [pc EXCEPT ![t] = "prepare"]
    /\ UNCHANGED <<open, closed, stmts, origin, entries, lru, clock, hand>>

\* The look-up finds the key and returns its statement.
GetHit(t, r) ==
    /\ Enters(t, r)
    /\ r.cached /\ MaxSize # 0 /\ r.sql \in Keys
    /\ UseEntry(r.sql)
    /\ hand' = [hand EXCEPT ![t] = entries[r.sql].stmt]
    /\ pc' = [pc EXCEPT ![t] = "borrows"]
    /\ UNCHANGED <<open, closed, stmts, origin>>

\* The look-up misses; the mutex is dropped for sb_prepare.
GetMiss(t, r) ==
    /\ Enters(t, r)
    /\ r.cached /\ MaxSize # 0 /\ r.sql \notin Keys
    /\ pc' = [pc EXCEPT ![t] = "prepare"]
    /\ UNCHANGED <<open, closed, stmts, origin, entries, lru, clock, hand>>

\* sb_prepare allocates a statement of the caller's connection.
PrepareOk(t) ==
    /\ pc[t] = "prepare"
    /\ \E p \in Stmts \ stmts :
        /\ stmts' = stmts \cup {p}
        /\ origin' = [q \in stmts \cup {p} |->
                        IF q = p THEN [conn |-> args[t].conn, sql |-> args[t].sql]
                                 ELSE origin[q]]
        /\ hand' = [hand EXCEPT ![t] = p]
    /\ pc' = [pc EXCEPT ![t] = IF args[t].cached /\ MaxSize # 0
                               THEN "insert" ELSE "owns"]
    /\ UNCHANGED <<open, closed, entries, lru, clock, gets, args>>

\* (mutant: the null check after sb_prepare is forgotten)
PrepareFail_Unchecked(t) ==
    /\ pc[t] = "prepare"
    /\ pc' = [pc EXCEPT ![t] = "insert"]
    /\ UNCHANGED <<open, closed, stmts, origin, entries, lru, clock, gets,
                   args, hand>>

\* sb_prepare returned null, and so does the get.
PrepareFail(t) ==
    /\ pc[t] = "prepare"
    /\ pc' = [pc EXCEPT ![t] = "idle"]
    /\ args' = [args EXCEPT ![t] = NoRequest]
    /\ UNCHANGED <<open, closed, stmts, origin, entries, lru, clock, gets, hand>>

\* (mutant: returns the statement it has freed)
InsertDuplicate_ReturnsOwn(t) ==
    /\ pc[t] = "insert" /\ args[t].sql \in Keys
    /\ Free({hand[t]})
    /\ UseEntry(args[t].sql)
    /\ pc' = [pc EXCEPT ![t] = "borrows"]
    /\ UNCHANGED <<open, closed, gets, args, hand>>

\* (mutant: forgets to free its own statement)
InsertDuplicate_Leaks(t) ==
    /\ pc[t] = "insert" /\ args[t].sql \in Keys
    /\ UseEntry(args[t].sql)
    /\ hand' = [hand EXCEPT ![t] = entries[args[t].sql].stmt]
    /\ pc' = [pc EXCEPT ![t] = "borrows"]
    /\ UNCHANGED <<open, closed, stmts, origin, gets, args>>

\* Another get inserted the key meanwhile: the own statement is freed and the
\* cached one returned.
InsertDuplicate(t) ==
    /\ pc[t] = "insert" /\ args[t].sql \in Keys
    /\ Free({hand[t]})
    /\ UseEntry(args[t].sql)
    /\ hand' = [hand EXCEPT ![t] = entries[args[t].sql].stmt]
    /\ pc' = [pc EXCEPT ![t] = "borrows"]
    /\ UNCHANGED <<open, closed, gets, args>>

\* emplace, touch_lru and evict_if_needed.
InsertNew(t) ==
    LET key == args[t].sql
        order == Touched(key)
    IN  /\ pc[t] = "insert" /\ key \notin Keys
        /\ clock' = clock + 1
        /\ entries' = [k \in (Keys \cup {key}) \ Victims(order) |->
                         IF k = key
                         THEN [stmt |-> hand[t], last_used |-> clock + 1]
                         ELSE entries[k]]
        /\ lru' = Kept(order)
        /\ Free(StmtsOf(Victims(order)))
        /\ pc' = [pc EXCEPT ![t] = "borrows"]
        /\ UNCHANGED <<open, closed, gets, args, hand>>

\* The thread is through with its statement; one that no cache owns it frees.
Done(t) ==
    /\ pc[t] \in {"borrows", "owns"}
    /\ Free(IF pc[t] = "owns" THEN {hand[t]} ELSE {})
    /\ pc' = [pc EXCEPT ![t] = "idle"]
    /\ hand' = [hand EXCEPT ![t] = NoStmt]
    /\ args' = [args EXCEPT ![t] = NoRequest]
    /\ UNCHANGED <<open, closed, entries, lru, clock, gets>>

-----------------------------------------------------------------------------
(* The other operations                                                    *)

\* (mutant: leaves the key in the list)
Invalidate_KeepsLru(key) ==
    /\ key \in Keys
    /\ Free(StmtsOf({key}))
    /\ entries' = Erase({key})
    /\ UNCHANGED <<open, closed, lru, clock, gets, pc, args, hand>>

\* sb_stmt_cache_invalidate
Invalidate(key) ==
    /\ key \in Keys
    /\ Free(StmtsOf({key}))
    /\ lru' = Without(key)
    /\ entries' = Erase({key})
    /\ UNCHANGED <<open, closed, clock, gets, pc, args, hand>>

\* sb_stmt_cache_clear.  sb_stmt_cache_destroy is the same followed by
\* `delete cache`, and a cache created after it starts as a cleared one.
Clear ==
    /\ Keys # {}
    /\ Free(Cached)
    /\ entries' = <<>> /\ lru' = <<>>
    /\ UNCHANGED <<open, closed, clock, gets, pc, args, hand>>

Connect(c) ==
    /\ c \notin open \cup closed
    /\ open' = open \cup {c}
    /\ UNCHANGED <<closed, stmts, origin, entries, lru, clock, gets, pc,
                   args, hand>>

\* sb_disconnect deletes the connection; the cache is not told.
Disconnect(c) ==
    /\ c \in open
    /\ \A t \in Threads : Busy(t) => args[t].conn # c
    /\ open' = open \ {c} /\ closed' = closed \cup {c}
    /\ UNCHANGED <<stmts, origin, entries, lru, clock, gets, pc, args, hand>>

Get(t) ==
    \/ \E r \in Request : GetUncached(t, r) \/ GetHit(t, r) \/ GetMiss(t, r)
    \/ PrepareOk(t) \/ PrepareFail(t)
    \/ InsertDuplicate(t) \/ InsertNew(t)
    \/ Done(t)

Next ==
    \/ \E t \in Threads : Get(t)
    \/ \E key \in Sqls : Invalidate(key)
    \/ Clear
    \/ \E c \in Conns : Connect(c) \/ Disconnect(c)

Spec == Init /\ [][Next]_vars

-----------------------------------------------------------------------------
(* Properties                                                              *)

\* The list and the map, which every operation updates separately, hold the
\* same keys, each once, and at most max_size of them.
LruIndexesEntries ==
    /\ \A i, j \in 1..Len(lru) : i # j => lru[i] # lru[j]
    /\ {lru[i] : i \in 1..Len(lru)} = Keys
    /\ Len(lru) <= MaxSize

\* The list is ordered by last_used, so that eviction from its back frees the
\* statement that was not used for the longest time.
LruByLastUse ==
    \A i, j \in 1..Len(lru) :
        i < j => entries[lru[i]].last_used > entries[lru[j]].last_used

\* Every allocated statement has exactly one owner: an entry of the cache, a
\* get that has yet to insert it, or the caller of an uncached get.  So no
\* statement leaks and none is freed twice, whatever races with the unlocked
\* prepare.
OneOwner ==
    LET inHand == {t \in Threads : pc[t] \in {"insert", "owns"}}
    IN  /\ stmts = Cached \cup {hand[t] : t \in inHand}
        /\ Cached \cap {hand[t] : t \in inHand} = {}
        /\ \A k, l \in Keys : entries[k].stmt = entries[l].stmt => k = l
        /\ \A t, u \in inHand : hand[t] = hand[u] => t = u

\* sb_stmt_cache_get returns an allocated statement that was prepared from
\* the SQL asked for: the eviction it ran did not free what it returns.
ReturnsUsable ==
    [][\A t \in Threads :
        pc[t] # "borrows" /\ pc'[t] = "borrows"
            => hand'[t] \in stmts' /\ origin'[hand'[t]].sql = args'[t].sql]_vars

=============================================================================

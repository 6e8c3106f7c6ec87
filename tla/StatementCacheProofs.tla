------------------------ MODULE StatementCacheProofs ------------------------
(***************************************************************************)
(* Proofs about StatementCache for any number of threads, connections, SQL *)
(* texts and calls and any max_size: types, the agreement of list and map, *)
(* the order of the list, the ownership of statements, and what a get      *)
(* returns.                                                                *)
(***************************************************************************)
EXTENDS StatementCache, FiniteSetTheorems, TLAPS

\* The gets that have yet to read the clock.
Pending == {t \in Threads : pc[t] \in {"prepare", "insert"}}

\* Each call reads the clock at most once, so the clock stays behind the calls.
ClockBudget == IsFiniteSet(Pending) /\ clock + Cardinality(Pending) <= gets

\* A call knows its arguments; one that inserts has a cache to insert into.
InCall ==
    \A t \in Threads :
        /\ pc[t] # "idle" => args[t] \in Request
        /\ pc[t] = "insert" => MaxSize # 0

\* No entry was used later than now.
UsedByNow == \A k \in Keys : entries[k].last_used <= clock

\* A statement is stored, or about to be stored, under the SQL it is for.
RightSql ==
    /\ \A k \in Keys : origin[entries[k].stmt].sql = k
    /\ \A t \in Threads : pc[t] = "insert" => origin[hand[t]].sql = args[t].sql

\* The inductive invariant: the properties of the module and what they need.
CacheInv ==
    /\ TypeOK /\ ClockBudget /\ InCall
    /\ LruIndexesEntries /\ LruByLastUse /\ UsedByNow
    /\ OneOwner /\ RightSql

-----------------------------------------------------------------------------
(* The list.                                                               *)

\* list::remove leaves the other keys, each once and in their order.
LEMMA WithoutKey ==
    ASSUME lru \in Seq(Sqls), NEW key \in Sqls,
           \A i, j \in 1..Len(lru) : i # j => lru[i] # lru[j]
    PROVE  /\ Without(key) \in Seq(Sqls)
           /\ Len(Without(key)) <= Len(lru)
           /\ (\E i \in 1..Len(lru) : lru[i] = key) => Len(Without(key)) = Len(lru) - 1
           /\ \A i \in 1..Len(Without(key)) : Without(key)[i] # key
           /\ \A i \in 1..Len(lru) : lru[i] # key =>
                 \E j \in 1..Len(Without(key)) : Without(key)[j] = lru[i]
           /\ \A i, j \in 1..Len(Without(key)) : i < j =>
                 \E k, l \in 1..Len(lru) :
                    k < l /\ Without(key)[i] = lru[k] /\ Without(key)[j] = lru[l]
           /\ \A i \in 1..Len(Without(key)) : \E k \in 1..Len(lru) : Without(key)[i] = lru[k]
  <1> DEFINE s == Without(key)
             at == CHOOSE i \in 1..Len(lru) : lru[i] = key
  <1>0. Len(lru) \in Nat
    OBVIOUS
  <1>1. CASE \E i \in 1..Len(lru) : lru[i] = key
    <2>1. at \in 1..Len(lru) /\ lru[at] = key
      BY <1>1
    <2>2. s = [i \in 1..(Len(lru) - 1) |-> IF i < at THEN lru[i] ELSE lru[i + 1]]
      BY <1>1 DEF Without
    <2> HIDE DEF s, at
    <2>3. \A i \in 1..(Len(lru) - 1) :
             s[i] = (IF i < at THEN lru[i] ELSE lru[i + 1]) /\ s[i] \in Sqls
      BY <1>0, <2>1, <2>2
    <2>4. s \in Seq(Sqls) /\ Len(s) = Len(lru) - 1
      BY <1>0, <2>1, <2>2, <2>3
    <2>5. \A i \in 1..Len(s) : s[i] # key
      BY <1>0, <2>1, <2>3, <2>4
    <2>6. ASSUME NEW i \in 1..Len(lru), lru[i] # key
          PROVE  \E j \in 1..Len(s) : s[j] = lru[i]
      <3>1. CASE i < at
        BY <1>0, <2>1, <2>3, <2>4, <3>1
      <3>2. CASE ~(i < at)
        <4>1. i - 1 \in 1..Len(s) /\ ~(i - 1 < at)
          BY <1>0, <2>1, <2>4, <2>6, <3>2
        <4>2. s[i - 1] = lru[i]
          BY <2>3, <2>4, <4>1
        <4> QED
          BY <4>1, <4>2
      <3> QED
        BY <3>1, <3>2
    <2>7. ASSUME NEW i \in 1..Len(s), NEW j \in 1..Len(s), i < j
          PROVE  \E k, l \in 1..Len(lru) : k < l /\ s[i] = lru[k] /\ s[j] = lru[l]
      <3> DEFINE from(n) == IF n < at THEN n ELSE n + 1
      <3>1. from(i) \in 1..Len(lru) /\ from(j) \in 1..Len(lru) /\ from(i) < from(j)
        BY <1>0, <2>1, <2>4, <2>7
      <3>2. s[i] = lru[from(i)] /\ s[j] = lru[from(j)]
        BY <2>3, <2>4
      <3> QED
        BY <3>1, <3>2
    <2>8. \A i \in 1..Len(s) : \E k \in 1..Len(lru) : s[i] = lru[k]
      BY <1>0, <2>1, <2>3, <2>4
    <2> QED
      BY <1>0, <2>4, <2>5, <2>6, <2>7, <2>8 DEF s
  <1>2. CASE ~(\E i \in 1..Len(lru) : lru[i] = key)
    <2>1. s = lru
      BY <1>2 DEF Without
    <2> QED
      BY <1>0, <1>2, <2>1
  <1> QED
    BY <1>1, <1>2

\* touch_lru puts the key in front of the others, which keep their order.
LEMMA TouchedKey ==
    ASSUME lru \in Seq(Sqls), NEW key \in Sqls,
           \A i, j \in 1..Len(lru) : i # j => lru[i] # lru[j]
    PROVE  /\ Touched(key) \in Seq(Sqls)
           /\ Len(Touched(key)) \in 1..(Len(lru) + 1)
           /\ (\E i \in 1..Len(lru) : lru[i] = key) => Len(Touched(key)) = Len(lru)
           /\ Touched(key)[1] = key
           /\ {Touched(key)[i] : i \in 1..Len(Touched(key))} =
                 {lru[i] : i \in 1..Len(lru)} \cup {key}
           /\ \A i, j \in 1..Len(Touched(key)) : i # j => Touched(key)[i] # Touched(key)[j]
           /\ \A i, j \in 1..Len(Touched(key)) : 1 < i /\ i < j =>
                 \E k, l \in 1..Len(lru) :
                    k < l /\ Touched(key)[i] = lru[k] /\ Touched(key)[j] = lru[l]
  <1> DEFINE s == Touched(key)
             w == Without(key)
  <1>1. /\ w \in Seq(Sqls) /\ Len(w) \in Nat /\ Len(lru) \in Nat
        /\ Len(w) <= Len(lru)
        /\ (\E i \in 1..Len(lru) : lru[i] = key) => Len(w) = Len(lru) - 1
        /\ \A i \in 1..Len(w) : w[i] # key
        /\ \A i \in 1..Len(lru) : lru[i] # key => \E j \in 1..Len(w) : w[j] = lru[i]
        /\ \A i, j \in 1..Len(w) : i < j =>
              \E k, l \in 1..Len(lru) : k < l /\ w[i] = lru[k] /\ w[j] = lru[l]
        /\ \A i \in 1..Len(w) : \E k \in 1..Len(lru) : w[i] = lru[k]
    BY WithoutKey
  <1>2. s = <<key>> \o w
    BY DEF Touched
  <1> HIDE DEF s, w
  <1>3. /\ s \in Seq(Sqls) /\ Len(s) = Len(w) + 1 /\ s[1] = key
        /\ \A i \in 2..Len(s) : s[i] = w[i - 1] /\ i - 1 \in 1..Len(w)
        /\ \A i \in 1..Len(w) : s[i + 1] = w[i] /\ i + 1 \in 1..Len(s)
    BY <1>1, <1>2
  <1>4. {s[i] : i \in 1..Len(s)} = {lru[i] : i \in 1..Len(lru)} \cup {key}
    <2>1. ASSUME NEW i \in 1..Len(s)
          PROVE  s[i] \in {lru[k] : k \in 1..Len(lru)} \cup {key}
      <3>1. CASE i = 1
        BY <1>3, <3>1
      <3>2. CASE i # 1
        <4>1. i \in 2..Len(s)
          BY <1>1, <1>3, <3>2
        <4>2. s[i] = w[i - 1] /\ i - 1 \in 1..Len(w)
          BY <1>3, <4>1
        <4>3. PICK k \in 1..Len(lru) : w[i - 1] = lru[k]
          BY <1>1, <4>2
        <4> QED
          BY <4>2, <4>3
      <3> QED
        BY <3>1, <3>2
    <2>2. ASSUME NEW k \in 1..Len(lru)
          PROVE  lru[k] \in {s[i] : i \in 1..Len(s)}
      <3>1. CASE lru[k] = key
        BY <1>1, <1>3, <3>1
      <3>2. CASE lru[k] # key
        <4>1. PICK j \in 1..Len(w) : w[j] = lru[k]
          BY <1>1, <3>2
        <4>2. s[j + 1] = w[j] /\ j + 1 \in 1..Len(s)
          BY <1>3
        <4> QED
          BY <4>1, <4>2
      <3> QED
        BY <3>1, <3>2
    <2>3. key \in {s[i] : i \in 1..Len(s)}
      BY <1>1, <1>3
    <2> QED
      BY <2>1, <2>2, <2>3
  <1>5. ASSUME NEW i \in 1..Len(s), NEW j \in 1..Len(s), 1 < i, i < j
        PROVE  \E k, l \in 1..Len(lru) : k < l /\ s[i] = lru[k] /\ s[j] = lru[l]
    <2>1. i \in 2..Len(s) /\ j \in 2..Len(s) /\ i - 1 < j - 1
      BY <1>1, <1>3, <1>5
    <2>2. /\ i - 1 \in 1..Len(w) /\ j - 1 \in 1..Len(w)
          /\ s[i] = w[i - 1] /\ s[j] = w[j - 1]
      BY <1>3, <2>1
    <2>3. PICK k, l \in 1..Len(lru) : k < l /\ w[i - 1] = lru[k] /\ w[j - 1] = lru[l]
      BY <1>1, <2>1, <2>2
    <2> QED
      BY <2>2, <2>3
  <1>6. ASSUME NEW i \in 1..Len(s), NEW j \in 1..Len(s), i < j
        PROVE  s[i] # s[j]
    <2>1. CASE i = 1
      <3>1. j \in 2..Len(s)
        BY <1>1, <1>3, <1>6, <2>1
      <3>2. s[j] = w[j - 1] /\ j - 1 \in 1..Len(w)
        BY <1>3, <3>1
      <3> QED
        BY <1>1, <1>3, <2>1, <3>2
    <2>2. CASE 1 < i
      <3>1. PICK k, l \in 1..Len(lru) : k < l /\ s[i] = lru[k] /\ s[j] = lru[l]
        BY <1>5, <1>6, <2>2
      <3> QED
        BY <1>1, <3>1
    <2> QED
      BY <1>1, <1>3, <2>1, <2>2
  <1>7. ASSUME NEW i \in 1..Len(s), NEW j \in 1..Len(s), i # j
        PROVE  s[i] # s[j]
    <2>1. i < j \/ j < i
      BY <1>7
    <2> QED
      BY <1>6, <2>1
  <1>8. /\ Len(s) \in 1..(Len(lru) + 1)
        /\ (\E i \in 1..Len(lru) : lru[i] = key) => Len(s) = Len(lru)
    BY <1>1, <1>3
  <1>9. s \in Seq(Sqls) /\ s[1] = key
    BY <1>3
  <1> QED
    BY <1>4, <1>5, <1>7, <1>8, <1>9 DEF s

\* evict_if_needed keeps a prefix of the list and drops the keys behind it.
LEMMA KeptOrder ==
    ASSUME NEW order \in Seq(Sqls),
           \A i, j \in 1..Len(order) : i # j => order[i] # order[j]
    PROVE  /\ Kept(order) \in Seq(Sqls)
           /\ Len(Kept(order)) \in Nat
           /\ Len(Kept(order)) <= Len(order) /\ Len(Kept(order)) <= MaxSize
           /\ MaxSize # 0 /\ Len(order) # 0 => Len(Kept(order)) # 0
           /\ \A i \in 1..Len(Kept(order)) : Kept(order)[i] = order[i]
           /\ {Kept(order)[i] : i \in 1..Len(Kept(order))} =
                 {order[i] : i \in 1..Len(order)} \ Victims(order)
  <1> DEFINE n == IF Len(order) < MaxSize THEN Len(order) ELSE MaxSize
             s == Kept(order)
  <1>1. n \in Nat /\ n <= Len(order) /\ n <= MaxSize /\ Len(order) \in Nat
    BY CacheAssumption
  <1>2. MaxSize # 0 /\ Len(order) # 0 => n # 0
    OBVIOUS
  <1>3. s = SubSeq(order, 1, n)
    BY DEF Kept
  <1> HIDE DEF n, s
  <1>4. s \in Seq(Sqls) /\ Len(s) = n /\ \A i \in 1..n : s[i] = order[i]
    BY <1>1, <1>3
  <1>5. Victims(order) = {order[i] : i \in (n + 1)..Len(order)}
    BY <1>4 DEF Victims, s
  <1>6. {s[i] : i \in 1..Len(s)} = {order[i] : i \in 1..Len(order)} \ Victims(order)
    <2>1. ASSUME NEW i \in 1..n
          PROVE  order[i] \notin Victims(order) /\ i \in 1..Len(order)
      BY <1>1, <1>5
    <2>2. ASSUME NEW i \in 1..Len(order), order[i] \notin Victims(order)
          PROVE  i \in 1..n
      BY <1>1, <1>5, <2>2
    <2> QED
      BY <1>4, <2>1, <2>2
  <1> QED
    BY <1>1, <1>2, <1>4, <1>6 DEF s

-----------------------------------------------------------------------------
(* List and map together.                                                  *)

ListInv == LruIndexesEntries /\ LruByLastUse /\ UsedByNow

\* What the use of an entry does to the map.
LEMMA UsedMap ==
    ASSUME TypeOK, NEW key \in Keys, UseEntry(key)
    PROVE  /\ Keys' = Keys
           /\ \A k \in Keys :
                 /\ entries'[k].stmt = entries[k].stmt
                 /\ entries'[k].last_used =
                       IF k = key THEN clock + 1 ELSE entries[k].last_used
                 /\ clock + 1 <= MaxGets =>
                       entries'[k] \in [stmt : Stmts, last_used : 1..MaxGets]
  <1> DEFINE e == [entries[key] EXCEPT !.last_used = clock + 1]
  <1>1. \A k \in Keys : entries[k] \in [stmt : Stmts, last_used : 1..MaxGets]
    BY DEF TypeOK
  <1>2. clock \in Nat
    BY CacheAssumption DEF TypeOK
  <1>3. /\ e.stmt = entries[key].stmt /\ e.last_used = clock + 1
        /\ clock + 1 <= MaxGets => e \in [stmt : Stmts, last_used : 1..MaxGets]
    BY <1>1, <1>2, CacheAssumption
  <1>4. entries' = [k \in Keys \cup {key} |-> IF k = key THEN e ELSE entries[k]]
    BY DEF UseEntry, Assign
  <1> HIDE DEF e
  <1>5. DOMAIN entries' = Keys
    BY <1>4
  <1>6. ASSUME NEW k \in Keys
        PROVE  entries'[k] = IF k = key THEN e ELSE entries[k]
    BY <1>4
  <1> QED
    BY <1>1, <1>3, <1>5, <1>6 DEF Keys

\* The use of an entry keeps list and map in step: the key moves to the front
\* and its time is the latest.
LEMMA UsedList ==
    ASSUME TypeOK, ListInv, NEW key \in Keys, UseEntry(key)
    PROVE  ListInv' /\ lru' \in Seq(Sqls)
  <1>0. /\ lru \in Seq(Sqls) /\ Len(lru) \in Nat /\ key \in Sqls /\ clock \in Nat
        /\ \A k \in Keys : entries[k].last_used \in Nat
    BY CacheAssumption DEF TypeOK
  <1>1. /\ \A i, j \in 1..Len(lru) : i # j => lru[i] # lru[j]
        /\ {lru[i] : i \in 1..Len(lru)} = Keys
        /\ Len(lru) <= MaxSize
    BY DEF ListInv, LruIndexesEntries
  <1>2. \E i \in 1..Len(lru) : lru[i] = key
    BY <1>1
  <1> DEFINE s == Touched(key)
  <1>3. /\ s \in Seq(Sqls) /\ Len(s) = Len(lru) /\ s[1] = key
        /\ {s[i] : i \in 1..Len(s)} = {lru[i] : i \in 1..Len(lru)} \cup {key}
        /\ \A i, j \in 1..Len(s) : i # j => s[i] # s[j]
        /\ \A i, j \in 1..Len(s) : 1 < i /\ i < j =>
              \E k, l \in 1..Len(lru) : k < l /\ s[i] = lru[k] /\ s[j] = lru[l]
    BY <1>0, <1>1, <1>2, TouchedKey
  <1>4. lru' = s /\ clock' = clock + 1
    BY DEF UseEntry
  <1> HIDE DEF s
  <1>5. /\ Keys' = Keys
        /\ \A k \in Keys :
              entries'[k].last_used = IF k = key THEN clock + 1 ELSE entries[k].last_used
    BY UsedMap
  <1>6. LruIndexesEntries'
    <2>1. \A i, j \in 1..Len(s) : i # j => s[i] # s[j]
      BY <1>3
    <2>2. {s[i] : i \in 1..Len(s)} = Keys'
      BY <1>1, <1>3, <1>5
    <2>3. Len(s) <= MaxSize
      BY <1>1, <1>3
    <2> QED
      BY <1>4, <2>1, <2>2, <2>3 DEF LruIndexesEntries
  <1>7. UsedByNow'
    <2>1. ASSUME NEW k \in Keys PROVE entries'[k].last_used <= clock + 1
      <3>1. entries[k].last_used <= clock
        BY DEF ListInv, UsedByNow
      <3> QED
        BY <1>0, <1>5, <3>1
    <2> QED
      BY <1>4, <1>5, <2>1 DEF UsedByNow
  <1>8. ASSUME NEW i \in 1..Len(s), NEW j \in 1..Len(s), i < j
        PROVE  entries'[s[i]].last_used > entries'[s[j]].last_used
    <2>0. {s[k] : k \in 1..Len(s)} = Keys
      BY <1>1, <1>3
    <2>1. s[i] \in Keys /\ s[j] \in Keys /\ s[i] # s[j]
      <3>1. s[i] \in Keys /\ s[j] \in Keys
        BY <2>0
      <3>2. i # j
        BY <1>0, <1>3, <1>8
      <3> QED
        BY <1>3, <3>1, <3>2
    <2>2. CASE i = 1
      <3>1. s[i] = key /\ s[j] # key
        BY <1>3, <2>1, <2>2
      <3>2. entries[s[j]].last_used <= clock
        BY <2>1 DEF ListInv, UsedByNow
      <3> QED
        BY <1>0, <1>5, <2>1, <3>1, <3>2
    <2>3. CASE i # 1
      <3>1. PICK k, l \in 1..Len(lru) : k < l /\ s[i] = lru[k] /\ s[j] = lru[l]
        BY <1>0, <1>3, <1>8, <2>3
      <3>2. entries[s[i]].last_used > entries[s[j]].last_used
        BY <3>1 DEF ListInv, LruByLastUse
      <3>3. s[i] # key /\ s[j] # key
        <4>1. 1 \in 1..Len(s) /\ 1 # i /\ 1 # j
          BY <1>0, <1>3, <1>8, <2>3
        <4> QED
          BY <1>3, <4>1
      <3> QED
        BY <1>5, <2>1, <3>2, <3>3
    <2> QED
      BY <2>2, <2>3
  <1>9. LruByLastUse'
    BY <1>4, <1>8 DEF LruByLastUse
  <1> QED
    BY <1>3, <1>4, <1>6, <1>7, <1>9 DEF ListInv

\* What an insert does to the map: the new key and the keys that survive.
LEMMA InsertedMap ==
    ASSUME TypeOK, InCall, LruIndexesEntries, NEW t \in Threads, InsertNew(t)
    PROVE  /\ args[t].sql \in Sqls /\ args[t].sql \notin Keys /\ MaxSize # 0
           /\ args[t].sql \notin Victims(Touched(args[t].sql))
           /\ Keys' = (Keys \cup {args[t].sql}) \ Victims(Touched(args[t].sql))
           /\ args[t].sql \in Keys'
           /\ entries'[args[t].sql] = [stmt |-> hand[t], last_used |-> clock + 1]
           /\ \A k \in Keys' \ {args[t].sql} : k \in Keys /\ entries'[k] = entries[k]
  <1> DEFINE key == args[t].sql
             order == Touched(key)
  <1>1. pc[t] = "insert" /\ key \notin Keys
    BY DEF InsertNew
  <1>2. key \in Sqls /\ MaxSize # 0
    BY <1>1 DEF InCall, Request
  <1>3. lru \in Seq(Sqls) /\ \A i, j \in 1..Len(lru) : i # j => lru[i] # lru[j]
    BY DEF TypeOK, LruIndexesEntries
  <1>4. /\ order \in Seq(Sqls) /\ Len(order) # 0 /\ order[1] = key
        /\ \A i, j \in 1..Len(order) : i # j => order[i] # order[j]
    BY <1>2, <1>3, TouchedKey
  <1>5. entries' = [k \in (Keys \cup {key}) \ Victims(order) |->
                      IF k = key THEN [stmt |-> hand[t], last_used |-> clock + 1]
                      ELSE entries[k]]
    BY DEF InsertNew
  <1> HIDE DEF key, order
  <1>6. key \notin Victims(order)
    <2>1. Len(Kept(order)) \in Nat /\ Len(Kept(order)) # 0 /\ Len(order) \in Nat
      BY <1>2, <1>4, KeptOrder
    <2>2. ASSUME NEW i \in (Len(Kept(order)) + 1)..Len(order) PROVE order[i] # key
      <3>1. i \in 1..Len(order) /\ 1 \in 1..Len(order) /\ i # 1
        BY <2>1
      <3> QED
        BY <1>4, <3>1
    <2> QED
      BY <2>2 DEF Victims
  <1>7. DOMAIN entries' = (Keys \cup {key}) \ Victims(order)
    BY <1>5
  <1>8. key \in DOMAIN entries' /\ entries'[key] = [stmt |-> hand[t], last_used |-> clock + 1]
    BY <1>5, <1>6
  <1>9. ASSUME NEW k \in (DOMAIN entries') \ {key}
        PROVE  k \in Keys /\ entries'[k] = entries[k]
    BY <1>5, <1>7
  <1> QED
    BY <1>1, <1>2, <1>6, <1>7, <1>8, <1>9 DEF Keys, key, order

\* An insert keeps list and map in step, whatever it evicts.
LEMMA InsertedList ==
    ASSUME TypeOK, InCall, ListInv, NEW t \in Threads, InsertNew(t)
    PROVE  ListInv' /\ lru' \in Seq(Sqls)
  <1> DEFINE key == args[t].sql
             order == Touched(key)
             s == Kept(order)
  <1>0. /\ lru \in Seq(Sqls) /\ Len(lru) \in Nat /\ clock \in Nat /\ MaxSize \in Nat
        /\ \A k \in Keys : entries[k].last_used \in Nat
    BY CacheAssumption DEF TypeOK
  <1>1. /\ \A i, j \in 1..Len(lru) : i # j => lru[i] # lru[j]
        /\ {lru[i] : i \in 1..Len(lru)} = Keys
    BY DEF ListInv, LruIndexesEntries
  <1>2. /\ key \in Sqls /\ key \notin Keys
        /\ Keys' = (Keys \cup {key}) \ Victims(order)
        /\ key \in Keys'
        /\ entries'[key] = [stmt |-> hand[t], last_used |-> clock + 1]
        /\ \A k \in Keys' \ {key} : k \in Keys /\ entries'[k] = entries[k]
    BY InsertedMap DEF ListInv
  <1>3. lru' = s /\ clock' = clock + 1
    BY DEF InsertNew
  <1> HIDE DEF key
  <1>4. /\ order \in Seq(Sqls) /\ Len(order) \in Nat /\ order[1] = key
        /\ {order[i] : i \in 1..Len(order)} = {lru[i] : i \in 1..Len(lru)} \cup {key}
        /\ \A i, j \in 1..Len(order) : i # j => order[i] # order[j]
        /\ \A i, j \in 1..Len(order) : 1 < i /\ i < j =>
              \E k, l \in 1..Len(lru) : k < l /\ order[i] = lru[k] /\ order[j] = lru[l]
    <2>1. lru \in Seq(Sqls) /\ key \in Sqls
      BY <1>0, <1>2
    <2>2. \A i, j \in 1..Len(lru) : i # j => lru[i] # lru[j]
      BY <1>1
    <2>3. order \in Seq(Sqls) /\ Len(order) \in Nat /\ order[1] = key
      BY <2>1, <2>2, TouchedKey
    <2>4. {order[i] : i \in 1..Len(order)} = {lru[i] : i \in 1..Len(lru)} \cup {key}
      BY <2>1, <2>2, TouchedKey
    <2>5. \A i, j \in 1..Len(order) : i # j => order[i] # order[j]
      BY <2>1, <2>2, TouchedKey
    <2>6. \A i, j \in 1..Len(order) : 1 < i /\ i < j =>
              \E k, l \in 1..Len(lru) : k < l /\ order[i] = lru[k] /\ order[j] = lru[l]
      BY <2>1, <2>2, TouchedKey
    <2> QED
      BY <2>3, <2>4, <2>5, <2>6
  <1>5. /\ s \in Seq(Sqls) /\ Len(s) \in Nat
        /\ Len(s) <= Len(order) /\ Len(s) <= MaxSize
        /\ \A i \in 1..Len(s) : s[i] = order[i]
        /\ {s[i] : i \in 1..Len(s)} = {order[i] : i \in 1..Len(order)} \ Victims(order)
    BY <1>4, KeptOrder
  <1> HIDE DEF order, s
  <1>6. \A i \in 1..Len(s) : i \in 1..Len(order)
    BY <1>4, <1>5
  <1>7. LruIndexesEntries'
    <2>1. \A i, j \in 1..Len(s) : i # j => s[i] # s[j]
      BY <1>4, <1>5, <1>6
    <2>2. {s[i] : i \in 1..Len(s)} = Keys'
      BY <1>1, <1>2, <1>4, <1>5
    <2> QED
      BY <1>3, <1>5, <2>1, <2>2 DEF LruIndexesEntries
  <1>8. UsedByNow'
    <2>1. ASSUME NEW k \in Keys' PROVE entries'[k].last_used <= clock + 1
      <3>1. CASE k = key
        BY <1>0, <1>2, <3>1
      <3>2. CASE k # key
        BY <1>0, <1>2, <3>2 DEF ListInv, UsedByNow
      <3> QED
        BY <3>1, <3>2
    <2> QED
      BY <1>3, <2>1 DEF UsedByNow
  <1>9. ASSUME NEW i \in 1..Len(s), NEW j \in 1..Len(s), i < j
        PROVE  entries'[s[i]].last_used > entries'[s[j]].last_used
    <2>1. s[i] \in Keys' /\ s[j] \in Keys'
      BY <1>3, <1>7 DEF LruIndexesEntries
    <2>2. s[i] = order[i] /\ s[j] = order[j] /\ i \in 1..Len(order) /\ j \in 1..Len(order)
      BY <1>5, <1>6
    <2>3. 1 \in 1..Len(order) /\ j # 1
      BY <1>4, <1>9, <2>2
    <2>4. s[j] # key /\ s[j] \in Keys /\ entries'[s[j]] = entries[s[j]]
      BY <1>2, <1>4, <2>1, <2>2, <2>3
    <2>5. CASE i = 1
      <3>1. entries'[s[i]].last_used = clock + 1
        BY <1>2, <1>4, <2>2, <2>5
      <3>2. entries[s[j]].last_used <= clock
        BY <2>4 DEF ListInv, UsedByNow
      <3> QED
        BY <1>0, <2>4, <3>1, <3>2
    <2>6. CASE i # 1
      <3>1. s[i] # key /\ s[i] \in Keys /\ entries'[s[i]] = entries[s[i]]
        BY <1>2, <1>4, <2>1, <2>2, <2>3, <2>6
      <3>2. 1 < i
        BY <2>6
      <3>3. PICK k, l \in 1..Len(lru) : k < l /\ order[i] = lru[k] /\ order[j] = lru[l]
        BY <1>4, <1>9, <2>2, <3>2
      <3>4. entries[s[i]].last_used > entries[s[j]].last_used
        BY <2>2, <3>3 DEF ListInv, LruByLastUse
      <3> QED
        BY <2>4, <3>1, <3>4
    <2> QED
      BY <2>5, <2>6
  <1>10. LruByLastUse'
    BY <1>3, <1>9 DEF LruByLastUse
  <1> QED
    BY <1>3, <1>5, <1>7, <1>8, <1>10 DEF ListInv

\* An invalidate takes its key out of both.
LEMMA InvalidatedList ==
    ASSUME TypeOK, ListInv, NEW key \in Keys, Invalidate(key)
    PROVE  ListInv' /\ lru' \in Seq(Sqls) /\ Keys' = Keys \ {key}
           /\ \A k \in Keys' : entries'[k] = entries[k]
  <1> DEFINE s == Without(key)
  <1>0. lru \in Seq(Sqls) /\ Len(lru) \in Nat /\ key \in Sqls /\ MaxSize \in Nat
    BY CacheAssumption DEF TypeOK
  <1>1. /\ \A i, j \in 1..Len(lru) : i # j => lru[i] # lru[j]
        /\ {lru[i] : i \in 1..Len(lru)} = Keys /\ Len(lru) <= MaxSize
    BY DEF ListInv, LruIndexesEntries
  <1>2. /\ s \in Seq(Sqls) /\ Len(s) <= Len(lru)
        /\ \A i \in 1..Len(s) : s[i] # key
        /\ \A i \in 1..Len(lru) : lru[i] # key => \E j \in 1..Len(s) : s[j] = lru[i]
        /\ \A i, j \in 1..Len(s) : i < j =>
              \E k, l \in 1..Len(lru) : k < l /\ s[i] = lru[k] /\ s[j] = lru[l]
        /\ \A i \in 1..Len(s) : \E k \in 1..Len(lru) : s[i] = lru[k]
    BY <1>0, <1>1, WithoutKey
  <1>3. /\ lru' = s /\ UNCHANGED clock
        /\ entries' = [k \in Keys \ {key} |-> entries[k]]
    BY DEF Invalidate, Erase
  <1> HIDE DEF s
  <1>4. Keys' = Keys \ {key} /\ \A k \in Keys \ {key} : entries'[k] = entries[k]
    BY <1>3 DEF Keys
  <1>5. {s[i] : i \in 1..Len(s)} = Keys \ {key}
    <2>1. ASSUME NEW i \in 1..Len(s) PROVE s[i] \in Keys \ {key}
      <3>1. PICK k \in 1..Len(lru) : s[i] = lru[k]
        BY <1>2
      <3> QED
        BY <1>1, <1>2, <3>1
    <2>2. ASSUME NEW k \in Keys \ {key} PROVE k \in {s[i] : i \in 1..Len(s)}
      <3>1. PICK i \in 1..Len(lru) : lru[i] = k
        BY <1>1
      <3>2. PICK j \in 1..Len(s) : s[j] = lru[i]
        BY <1>2, <3>1
      <3> QED
        BY <3>1, <3>2
    <2> QED
      BY <2>1, <2>2
  <1>6. ASSUME NEW i \in 1..Len(s), NEW j \in 1..Len(s), i < j
        PROVE  entries'[s[i]].last_used > entries'[s[j]].last_used /\ s[i] # s[j]
    <2>1. PICK k, l \in 1..Len(lru) : k < l /\ s[i] = lru[k] /\ s[j] = lru[l]
      BY <1>2, <1>6
    <2>2. s[i] \in Keys \ {key} /\ s[j] \in Keys \ {key}
      BY <1>5
    <2>3. entries[lru[k]].last_used > entries[lru[l]].last_used
      BY <2>1 DEF ListInv, LruByLastUse
    <2>4. lru[k] # lru[l]
      BY <1>1, <2>1
    <2> QED
      BY <1>4, <2>1, <2>2, <2>3, <2>4
  <1>7. ASSUME NEW i \in 1..Len(s), NEW j \in 1..Len(s), i # j PROVE s[i] # s[j]
    <2>1. i < j \/ j < i
      BY <1>7
    <2> QED
      BY <1>6, <2>1
  <1>8. Len(s) <= MaxSize
    BY <1>0, <1>1, <1>2
  <1>9. LruIndexesEntries'
    BY <1>3, <1>4, <1>5, <1>7, <1>8 DEF LruIndexesEntries
  <1>10. LruByLastUse'
    BY <1>3, <1>6 DEF LruByLastUse
  <1>11. UsedByNow'
    BY <1>3, <1>4 DEF ListInv, UsedByNow
  <1> QED
    BY <1>2, <1>3, <1>4, <1>9, <1>10, <1>11 DEF ListInv

-----------------------------------------------------------------------------
(* The calls and the clock.                                                *)

\* How the set of gets that have yet to read the clock changes its size.
LEMMA PendingSize ==
    ASSUME ClockBudget, NEW t
    PROVE  /\ Cardinality(Pending) \in Nat
           /\ IsFiniteSet(Pending \cup {t}) /\ IsFiniteSet(Pending \ {t})
           /\ t \notin Pending => Cardinality(Pending \cup {t}) = Cardinality(Pending) + 1
           /\ t \in Pending => Cardinality(Pending \ {t}) = Cardinality(Pending) - 1
           /\ t \in Pending => Cardinality(Pending) >= 1
  <1>1. IsFiniteSet(Pending) /\ Cardinality(Pending) \in Nat
    BY FS_CardinalityType DEF ClockBudget
  <1>2. /\ IsFiniteSet(Pending \cup {t})
        /\ t \notin Pending => Cardinality(Pending \cup {t}) = Cardinality(Pending) + 1
    BY <1>1, FS_AddElement
  <1>3. /\ IsFiniteSet(Pending \ {t})
        /\ t \in Pending => Cardinality(Pending \ {t}) = Cardinality(Pending) - 1
    BY <1>1, FS_RemoveElement
  <1>4. Cardinality(Pending \ {t}) \in Nat
    BY <1>3, FS_CardinalityType
  <1> QED
    BY <1>1, <1>2, <1>3, <1>4

\* A call enters with its arguments, and no thread holds another's.
LEMMA EnteredCall ==
    ASSUME TypeOK, NEW t \in Threads, NEW r \in Request, Enters(t, r)
    PROVE  /\ pc[t] = "idle" /\ args'[t] = r
           /\ \A u \in Threads : u # t => args'[u] = args[u]
           /\ args' \in [Threads -> Request \cup {NoRequest}]
           /\ gets' = gets + 1 /\ gets' \in 0..MaxGets
  <1>1. args' = [args EXCEPT ![t] = r]
    BY DEF Enters
  <1>2. args \in [Threads -> Request \cup {NoRequest}]
    BY DEF TypeOK
  <1>3. gets' = gets + 1 /\ gets' \in 0..MaxGets
    BY CacheAssumption DEF Enters, TypeOK
  <1>4. pc[t] = "idle"
    BY DEF Enters, Busy
  <1> QED
    BY <1>1, <1>2, <1>3, <1>4

\* Where one thread's call moves to, the others stay.
LEMMA MovedCall ==
    ASSUME TypeOK, NEW t \in Threads, NEW where, pc' = [pc EXCEPT ![t] = where]
    PROVE  /\ pc'[t] = where
           /\ \A u \in Threads : u # t => pc'[u] = pc[u]
           /\ where \in {"idle", "prepare", "insert", "borrows", "owns"} =>
                 pc' \in [Threads -> {"idle", "prepare", "insert", "borrows", "owns"}]
           /\ where \in {"prepare", "insert"} => Pending' = Pending \cup {t}
           /\ where \notin {"prepare", "insert"} => Pending' = Pending \ {t}
  <1>1. pc \in [Threads -> {"idle", "prepare", "insert", "borrows", "owns"}]
    BY DEF TypeOK
  <1>2. pc'[t] = where /\ \A u \in Threads : u # t => pc'[u] = pc[u]
    BY <1>1
  <1>3. where \in {"idle", "prepare", "insert", "borrows", "owns"} =>
           pc' \in [Threads -> {"idle", "prepare", "insert", "borrows", "owns"}]
    BY <1>1
  <1>4. where \in {"prepare", "insert"} => Pending' = Pending \cup {t}
    BY <1>2 DEF Pending
  <1>5. where \notin {"prepare", "insert"} => Pending' = Pending \ {t}
    BY <1>2 DEF Pending
  <1> QED
    BY <1>2, <1>3, <1>4, <1>5

\* The part of the invariant that is about the calls and the clock.
CallInv ==
    /\ clock \in 0..MaxGets /\ gets \in 0..MaxGets
    /\ pc \in [Threads -> {"idle", "prepare", "insert", "borrows", "owns"}]
    /\ args \in [Threads -> Request \cup {NoRequest}]
    /\ ClockBudget /\ InCall

\* A call that misses, or has no cache, still has its reading of the clock before it.
LEMMA EnteredMiss ==
    ASSUME TypeOK, CallInv, NEW t \in Threads, NEW r \in Request,
           GetUncached(t, r) \/ GetMiss(t, r)
    PROVE  CallInv'
  <1>1. Enters(t, r) /\ pc' = [pc EXCEPT ![t] = "prepare"] /\ UNCHANGED clock
    BY DEF GetUncached, GetMiss
  <1>2. /\ pc[t] = "idle" /\ args'[t] = r
        /\ \A u \in Threads : u # t => args'[u] = args[u]
        /\ args' \in [Threads -> Request \cup {NoRequest}]
        /\ gets' = gets + 1 /\ gets' \in 0..MaxGets
    BY <1>1, EnteredCall
  <1>3. /\ pc'[t] = "prepare" /\ \A u \in Threads : u # t => pc'[u] = pc[u]
        /\ pc' \in [Threads -> {"idle", "prepare", "insert", "borrows", "owns"}]
        /\ Pending' = Pending \cup {t}
    BY <1>1, MovedCall
  <1>4. t \notin Pending
    BY <1>2 DEF Pending
  <1>5. ClockBudget'
    <2>1. /\ IsFiniteSet(Pending') /\ Cardinality(Pending) \in Nat
          /\ Cardinality(Pending') = Cardinality(Pending) + 1
      BY <1>3, <1>4, PendingSize DEF CallInv
    <2>2. clock + Cardinality(Pending) <= gets /\ clock \in Nat /\ gets \in Nat
      BY CacheAssumption DEF CallInv, ClockBudget
    <2> QED
      BY <1>1, <1>2, <2>1, <2>2 DEF ClockBudget
  <1>6. InCall'
    BY <1>2, <1>3 DEF CallInv, InCall
  <1> QED
    BY <1>1, <1>2, <1>3, <1>5, <1>6 DEF CallInv

\* A hit enters and reads the clock in one step.
LEMMA EnteredHit ==
    ASSUME TypeOK, CallInv, NEW t \in Threads, NEW r \in Request, GetHit(t, r)
    PROVE  CallInv'
  <1>1. Enters(t, r) /\ pc' = [pc EXCEPT ![t] = "borrows"] /\ clock' = clock + 1
    BY DEF GetHit, UseEntry
  <1>2. /\ pc[t] = "idle" /\ args'[t] = r
        /\ \A u \in Threads : u # t => args'[u] = args[u]
        /\ args' \in [Threads -> Request \cup {NoRequest}]
        /\ gets' = gets + 1 /\ gets' \in 0..MaxGets
    BY <1>1, EnteredCall
  <1>3. /\ pc'[t] = "borrows" /\ \A u \in Threads : u # t => pc'[u] = pc[u]
        /\ pc' \in [Threads -> {"idle", "prepare", "insert", "borrows", "owns"}]
        /\ Pending' = Pending \ {t}
    BY <1>1, MovedCall
  <1>4. Pending' = Pending
    BY <1>2, <1>3 DEF Pending
  <1>5. /\ Cardinality(Pending) \in Nat /\ IsFiniteSet(Pending)
        /\ clock + Cardinality(Pending) <= gets /\ clock \in Nat /\ gets \in Nat
    BY CacheAssumption, FS_CardinalityType DEF CallInv, ClockBudget
  <1>6. ClockBudget' /\ clock' \in 0..MaxGets
    BY <1>1, <1>2, <1>4, <1>5, CacheAssumption DEF ClockBudget
  <1>7. InCall'
    BY <1>2, <1>3 DEF CallInv, InCall
  <1> QED
    BY <1>2, <1>3, <1>6, <1>7 DEF CallInv

\* An insert uses up the reading its call had kept.
LEMMA InsertedCall ==
    ASSUME TypeOK, CallInv, NEW t \in Threads, InsertDuplicate(t) \/ InsertNew(t)
    PROVE  CallInv'
  <1>1. /\ pc[t] = "insert" /\ pc' = [pc EXCEPT ![t] = "borrows"]
        /\ clock' = clock + 1 /\ UNCHANGED <<gets, args>>
    BY DEF InsertDuplicate, InsertNew, UseEntry
  <1>2. /\ pc'[t] = "borrows" /\ \A u \in Threads : u # t => pc'[u] = pc[u]
        /\ pc' \in [Threads -> {"idle", "prepare", "insert", "borrows", "owns"}]
        /\ Pending' = Pending \ {t}
    BY <1>1, MovedCall
  <1>3. t \in Pending
    BY <1>1 DEF Pending
  <1>4. /\ Cardinality(Pending) \in Nat /\ IsFiniteSet(Pending')
        /\ Cardinality(Pending') = Cardinality(Pending) - 1 /\ Cardinality(Pending) >= 1
    BY <1>2, <1>3, PendingSize DEF CallInv
  <1>5. /\ clock + Cardinality(Pending) <= gets
        /\ clock \in Nat /\ gets \in Nat /\ gets <= MaxGets
    BY CacheAssumption DEF CallInv, ClockBudget
  <1>6. ClockBudget' /\ clock' \in 0..MaxGets
    BY <1>1, <1>4, <1>5, CacheAssumption DEF ClockBudget
  <1>7. InCall'
    BY <1>1, <1>2 DEF CallInv, InCall
  <1> QED
    BY <1>1, <1>2, <1>6, <1>7 DEF CallInv

\* A call that ends its prepare or its use of the statement.
LEMMA EndedCall ==
    ASSUME TypeOK, CallInv, NEW t \in Threads, PrepareOk(t) \/ PrepareFail(t) \/ Done(t)
    PROVE  CallInv'
  <1> DEFINE where == IF PrepareOk(t)
                      THEN IF args[t].cached /\ MaxSize # 0 THEN "insert" ELSE "owns"
                      ELSE "idle"
  <1>0. pc[t] # "prepare" => ~PrepareOk(t)
    BY DEF PrepareOk
  <1>1. pc' = [pc EXCEPT ![t] = where] /\ UNCHANGED <<clock, gets>>
    <2>1. CASE PrepareOk(t)
      BY <2>1 DEF PrepareOk
    <2>2. CASE ~PrepareOk(t)
      BY <2>2 DEF PrepareFail, Done
    <2> QED
      BY <2>1, <2>2
  <1>2. /\ where \in {"idle", "insert", "owns"} /\ pc[t] # "idle"
        /\ where = "insert" => MaxSize # 0 /\ pc[t] = "prepare"
    BY <1>0 DEF PrepareOk, PrepareFail, Done
  <1>3. /\ \A u \in Threads : u # t => args'[u] = args[u]
        /\ where # "idle" => args'[t] = args[t]
        /\ args' \in [Threads -> Request \cup {NoRequest}]
    <2>1. args \in [Threads -> Request \cup {NoRequest}]
      BY DEF CallInv
    <2>2. CASE PrepareOk(t)
      BY <2>1, <2>2 DEF PrepareOk
    <2>3. CASE ~PrepareOk(t)
      <3>1. args' = [args EXCEPT ![t] = NoRequest] /\ where = "idle"
        BY <2>3 DEF PrepareFail, Done
      <3> QED
        BY <2>1, <3>1
    <2> QED
      BY <2>2, <2>3
  <1> HIDE DEF where
  <1>4. /\ pc'[t] = where /\ \A u \in Threads : u # t => pc'[u] = pc[u]
        /\ pc' \in [Threads -> {"idle", "prepare", "insert", "borrows", "owns"}]
    BY <1>1, <1>2, MovedCall
  <1>5. Pending' = Pending \/ Pending' = Pending \ {t}
    BY <1>2, <1>4 DEF Pending
  <1>6. ClockBudget'
    <2>1. /\ Cardinality(Pending) \in Nat /\ IsFiniteSet(Pending)
          /\ clock + Cardinality(Pending) <= gets /\ clock \in Nat /\ gets \in Nat
      BY CacheAssumption, FS_CardinalityType DEF CallInv, ClockBudget
    <2>2. /\ IsFiniteSet(Pending \ {t})
          /\ t \in Pending => Cardinality(Pending \ {t}) = Cardinality(Pending) - 1
      BY PendingSize DEF CallInv
    <2>3. t \notin Pending => Pending \ {t} = Pending
      OBVIOUS
    <2>4. /\ IsFiniteSet(Pending')
          /\ Cardinality(Pending') = Cardinality(Pending)
             \/ Cardinality(Pending') = Cardinality(Pending) - 1
      BY <1>5, <2>1, <2>2, <2>3
    <2> QED
      BY <1>1, <2>1, <2>4 DEF ClockBudget
  <1>7. InCall'
    BY <1>2, <1>3, <1>4 DEF CallInv, InCall
  <1> QED
    BY <1>1, <1>3, <1>4, <1>6, <1>7 DEF CallInv

\* Every step keeps the calls within their budget.
LEMMA CallStep ==
    ASSUME TypeOK, CallInv, [Next]_vars
    PROVE  CallInv'
  <1>1. ASSUME UNCHANGED <<clock, gets, pc, args>> PROVE CallInv'
    BY <1>1 DEF CallInv, ClockBudget, InCall, Pending
  <1>2. ASSUME NEW t \in Threads, Get(t) PROVE CallInv'
    <2>1. ASSUME NEW r \in Request, GetUncached(t, r) \/ GetHit(t, r) \/ GetMiss(t, r)
          PROVE  CallInv'
      BY <2>1, EnteredMiss, EnteredHit
    <2>2. CASE PrepareOk(t) \/ PrepareFail(t) \/ Done(t)
      BY <2>2, EndedCall
    <2>3. CASE InsertDuplicate(t) \/ InsertNew(t)
      BY <2>3, InsertedCall
    <2> QED
      BY <1>2, <2>1, <2>2, <2>3 DEF Get
  <1>3. ASSUME NEW key \in Sqls, Invalidate(key) PROVE CallInv'
    BY <1>1, <1>3 DEF Invalidate
  <1>4. CASE Clear
    BY <1>1, <1>4 DEF Clear
  <1>5. ASSUME NEW c \in Conns, Connect(c) \/ Disconnect(c) PROVE CallInv'
    BY <1>1, <1>5 DEF Connect, Disconnect
  <1>6. CASE UNCHANGED vars
    BY <1>1, <1>6 DEF vars
  <1> QED
    BY <1>2, <1>3, <1>4, <1>5, <1>6 DEF Next

-----------------------------------------------------------------------------
(* The ownership of statements.                                            *)

\* The threads that own the statement in their hand.
InHand == {t \in Threads : pc[t] \in {"insert", "owns"}}

\* OneOwner, statement by statement.
Owned ==
    /\ \A k \in Keys : entries[k].stmt \in stmts
    /\ \A t \in InHand : hand[t] \in stmts
    /\ \A p \in stmts : \/ \E k \in Keys : entries[k].stmt = p
                        \/ \E t \in InHand : hand[t] = p
    /\ \A k \in Keys : \A t \in InHand : entries[k].stmt # hand[t]
    /\ \A k, l \in Keys : entries[k].stmt = entries[l].stmt => k = l
    /\ \A t, u \in InHand : hand[t] = hand[u] => t = u

\* The two forms say the same.
LEMMA OwnedForm == OneOwner <=> Owned
  <1>1. OneOwner => Owned
    <2> SUFFICES ASSUME OneOwner PROVE Owned
      OBVIOUS
    <2>1. /\ stmts = {entries[k].stmt : k \in Keys} \cup {hand[t] : t \in InHand}
          /\ {entries[k].stmt : k \in Keys} \cap {hand[t] : t \in InHand} = {}
          /\ \A k, l \in Keys : entries[k].stmt = entries[l].stmt => k = l
          /\ \A t, u \in InHand : hand[t] = hand[u] => t = u
      BY DEF OneOwner, InHand, Cached
    <2>2. \A k \in Keys : \A t \in InHand : entries[k].stmt # hand[t]
      BY <2>1
    <2> QED
      BY <2>1, <2>2 DEF Owned
  <1>2. Owned => OneOwner
    <2> SUFFICES ASSUME Owned PROVE OneOwner
      OBVIOUS
    <2>1. stmts = {entries[k].stmt : k \in Keys} \cup {hand[t] : t \in InHand}
      BY DEF Owned
    <2>2. {entries[k].stmt : k \in Keys} \cap {hand[t] : t \in InHand} = {}
      BY DEF Owned
    <2>3. /\ \A k, l \in Keys : entries[k].stmt = entries[l].stmt => k = l
          /\ \A t, u \in InHand : hand[t] = hand[u] => t = u
      BY DEF Owned
    <2> QED
      BY <2>1, <2>2, <2>3 DEF OneOwner, InHand, Cached
  <1> QED
    BY <1>1, <1>2

\* The part of the invariant that is about statements.
StmtInv ==
    /\ stmts \subseteq Stmts
    /\ origin \in [stmts -> [conn : Conns, sql : Sqls]]
    /\ hand \in [Threads -> Stmts \cup {NoStmt}]
    /\ Owned /\ RightSql

\* sb_prepared_free takes statements away and leaves the others as they are.
LEMMA FreedStmts ==
    ASSUME stmts \subseteq Stmts, origin \in [stmts -> [conn : Conns, sql : Sqls]],
           NEW dead, Free(dead)
    PROVE  /\ stmts' = stmts \ dead /\ stmts' \subseteq Stmts
           /\ origin' \in [stmts' -> [conn : Conns, sql : Sqls]]
           /\ \A p \in stmts' : origin'[p] = origin[p]
  <1>1. stmts' = stmts \ dead /\ origin' = [p \in stmts \ dead |-> origin[p]]
    BY DEF Free
  <1>2. \A p \in stmts \ dead : origin'[p] = origin[p] /\ origin[p] \in [conn : Conns, sql : Sqls]
    BY <1>1
  <1> QED
    BY <1>1, <1>2

\* A step that neither frees nor allocates, and moves no owner.
LEMMA NothingOwned ==
    ASSUME StmtInv, UNCHANGED <<stmts, origin>>,
           hand' \in [Threads -> Stmts \cup {NoStmt}],
           InHand' = InHand, Keys' = Keys,
           \A k \in Keys : entries'[k].stmt = entries[k].stmt,
           \A t \in InHand : hand'[t] = hand[t] /\ args'[t] = args[t] /\ pc'[t] = pc[t]
    PROVE  StmtInv'
  <1>1. Owned'
    BY DEF StmtInv, Owned
  <1>2. RightSql'
    <2>1. \A k \in Keys' : origin'[entries'[k].stmt].sql = k
      BY DEF StmtInv, RightSql
    <2>2. ASSUME NEW t \in Threads, pc'[t] = "insert" PROVE origin'[hand'[t]].sql = args'[t].sql
      <3>1. t \in InHand' /\ t \in InHand
        BY <2>2 DEF InHand
      <3> QED
        BY <2>2, <3>1 DEF StmtInv, RightSql
    <2> QED
      BY <2>1, <2>2 DEF RightSql
  <1> QED
    BY <1>1, <1>2 DEF StmtInv

\* Who owns the statement in its hand after a thread moved.
LEMMA MovedHand ==
    ASSUME TypeOK, NEW t \in Threads, NEW where, pc' = [pc EXCEPT ![t] = where]
    PROVE  /\ where \in {"insert", "owns"} => InHand' = InHand \cup {t}
           /\ where \notin {"insert", "owns"} => InHand' = InHand \ {t}
  <1>1. pc'[t] = where /\ \A u \in Threads : u # t => pc'[u] = pc[u]
    BY MovedCall
  <1> QED
    BY <1>1 DEF InHand

\* Entering sb_stmt_cache_get and failing to prepare move no statement.
LEMMA MissOwns ==
    ASSUME TypeOK, StmtInv, NEW t \in Threads,
           \/ \E r \in Request : GetUncached(t, r) \/ GetMiss(t, r)
           \/ PrepareFail(t)
    PROVE  StmtInv'
  <1>1. PICK where \in {"idle", "prepare"} : pc' = [pc EXCEPT ![t] = where]
    BY DEF GetUncached, GetMiss, PrepareFail
  <1>2. UNCHANGED <<stmts, origin, entries, hand>>
    BY DEF GetUncached, GetMiss, PrepareFail
  <1>3. pc[t] \in {"idle", "prepare"}
    BY DEF GetUncached, GetMiss, PrepareFail, Enters, Busy
  <1>4. \A u \in Threads : u # t => args'[u] = args[u]
    <2>1. args \in [Threads -> Request \cup {NoRequest}]
      BY DEF TypeOK
    <2>2. PICK a : args' = [args EXCEPT ![t] = a]
      BY DEF GetUncached, GetMiss, PrepareFail, Enters
    <2> QED
      BY <2>1, <2>2
  <1>5. t \notin InHand /\ InHand' = InHand
    BY <1>1, <1>3, MovedHand DEF InHand
  <1>6. \A u \in Threads : u # t => pc'[u] = pc[u]
    BY <1>1, MovedCall
  <1>7. \A u \in InHand : hand'[u] = hand[u] /\ args'[u] = args[u] /\ pc'[u] = pc[u]
    BY <1>2, <1>4, <1>5, <1>6 DEF InHand
  <1>8. Keys' = Keys /\ \A k \in Keys : entries'[k].stmt = entries[k].stmt
    BY <1>2 DEF Keys
  <1>9. hand' \in [Threads -> Stmts \cup {NoStmt}]
    BY <1>2 DEF StmtInv
  <1> QED
    BY <1>2, <1>5, <1>7, <1>8, <1>9, NothingOwned

\* A hit hands out a statement the cache goes on owning.
LEMMA HitOwns ==
    ASSUME TypeOK, StmtInv, NEW t \in Threads, NEW r \in Request, GetHit(t, r)
    PROVE  StmtInv'
  <1>1. /\ Enters(t, r) /\ r.sql \in Keys /\ UseEntry(r.sql)
        /\ hand' = [hand EXCEPT ![t] = entries[r.sql].stmt]
        /\ pc' = [pc EXCEPT ![t] = "borrows"] /\ UNCHANGED <<stmts, origin>>
    BY DEF GetHit
  <1>2. pc[t] = "idle" /\ \A u \in Threads : u # t => args'[u] = args[u]
    BY <1>1, EnteredCall
  <1>3. Keys' = Keys /\ \A k \in Keys : entries'[k].stmt = entries[k].stmt
    BY <1>1, UsedMap
  <1>4. t \notin InHand /\ InHand' = InHand
    BY <1>1, <1>2, MovedHand DEF InHand
  <1>5. entries[r.sql].stmt \in Stmts
    BY <1>1 DEF TypeOK
  <1>6. /\ hand' \in [Threads -> Stmts \cup {NoStmt}]
        /\ \A u \in Threads : u # t => hand'[u] = hand[u]
    BY <1>1, <1>5 DEF StmtInv
  <1>7. \A u \in Threads : u # t => pc'[u] = pc[u]
    BY <1>1, MovedCall
  <1>8. \A u \in InHand : hand'[u] = hand[u] /\ args'[u] = args[u] /\ pc'[u] = pc[u]
    BY <1>2, <1>4, <1>6, <1>7 DEF InHand
  <1> QED
    BY <1>1, <1>3, <1>4, <1>6, <1>8, NothingOwned

\* sb_prepare gives the thread a statement nobody else owns.
LEMMA PrepareOwns ==
    ASSUME TypeOK, InCall, StmtInv, NEW t \in Threads, PrepareOk(t)
    PROVE  StmtInv'
  <1> DEFINE where == IF args[t].cached /\ MaxSize # 0 THEN "insert" ELSE "owns"
  <1>1. PICK p \in Stmts \ stmts :
           /\ stmts' = stmts \cup {p}
           /\ origin' = [q \in stmts \cup {p} |->
                           IF q = p THEN [conn |-> args[t].conn, sql |-> args[t].sql]
                                    ELSE origin[q]]
           /\ hand' = [hand EXCEPT ![t] = p]
    BY DEF PrepareOk
  <1>2. /\ pc[t] = "prepare" /\ pc' = [pc EXCEPT ![t] = where]
        /\ UNCHANGED <<entries, args>>
    BY DEF PrepareOk
  <1>3. where \in {"insert", "owns"}
    OBVIOUS
  <1> HIDE DEF where
  <1>4. InHand' = InHand \cup {t} /\ t \notin InHand
    BY <1>2, <1>3, MovedHand DEF InHand
  <1>5. args[t].conn \in Conns /\ args[t].sql \in Sqls
    BY <1>2 DEF InCall, Request
  <1>6. /\ hand' \in [Threads -> Stmts \cup {NoStmt}] /\ hand'[t] = p
        /\ \A u \in Threads : u # t => hand'[u] = hand[u]
    BY <1>1 DEF StmtInv
  <1>7. /\ origin' \in [stmts' -> [conn : Conns, sql : Sqls]]
        /\ origin'[p].sql = args[t].sql
        /\ \A q \in stmts : origin'[q] = origin[q]
    BY <1>1, <1>5 DEF StmtInv
  <1>8. Keys' = Keys /\ \A k \in Keys : entries'[k].stmt = entries[k].stmt
    BY <1>2 DEF Keys
  <1>9. Owned'
    <2>1. \A k \in Keys : entries'[k].stmt \in stmts' /\ entries'[k].stmt # p
      BY <1>1, <1>8 DEF StmtInv, Owned
    <2>2. \A u \in InHand : u \in Threads /\ u # t /\ hand'[u] = hand[u] /\ hand[u] \in stmts
      BY <1>4, <1>6 DEF StmtInv, Owned, InHand
    <2>3. \A u \in InHand' : hand'[u] \in stmts'
      BY <1>1, <1>4, <1>6, <2>2
    <2>4. ASSUME NEW q \in stmts'
          PROVE  (\E k \in Keys' : entries'[k].stmt = q) \/ (\E u \in InHand' : hand'[u] = q)
      <3>1. CASE q = p
        BY <1>4, <1>6, <3>1
      <3>2. CASE q # p
        <4>1. q \in stmts
          BY <1>1, <3>2
        <4>2. (\E k \in Keys : entries[k].stmt = q) \/ (\E u \in InHand : hand[u] = q)
          BY <4>1 DEF StmtInv, Owned
        <4> QED
          BY <1>4, <1>8, <2>2, <4>2
      <3> QED
        BY <3>1, <3>2
    <2>5. \A k \in Keys' : \A u \in InHand' : entries'[k].stmt # hand'[u]
      BY <1>4, <1>6, <1>8, <2>1, <2>2 DEF StmtInv, Owned
    <2>6. \A k, l \in Keys' : entries'[k].stmt = entries'[l].stmt => k = l
      BY <1>8 DEF StmtInv, Owned
    <2>7. \A u, v \in InHand' : hand'[u] = hand'[v] => u = v
      BY <1>1, <1>4, <1>6, <2>2 DEF StmtInv, Owned
    <2> QED
      BY <1>8, <2>1, <2>3, <2>4, <2>5, <2>6, <2>7 DEF Owned
  <1>10. RightSql'
    <2>1. \A k \in Keys' : origin'[entries'[k].stmt].sql = k
      BY <1>7, <1>8 DEF StmtInv, Owned, RightSql
    <2>2. ASSUME NEW u \in Threads, pc'[u] = "insert" PROVE origin'[hand'[u]].sql = args'[u].sql
      <3>1. CASE u = t
        BY <1>2, <1>6, <1>7, <3>1
      <3>2. CASE u # t
        <4>1. pc[u] = "insert" /\ hand'[u] = hand[u]
          BY <1>2, <1>6, <2>2, <3>2, MovedCall
        <4>2. hand[u] \in stmts /\ origin[hand[u]].sql = args[u].sql
          BY <4>1 DEF StmtInv, Owned, RightSql, InHand
        <4> QED
          BY <1>2, <1>7, <4>1, <4>2
      <3> QED
        BY <3>1, <3>2
    <2> QED
      BY <2>1, <2>2 DEF RightSql
  <1>11. stmts' \subseteq Stmts
    BY <1>1 DEF StmtInv
  <1> QED
    BY <1>6, <1>7, <1>9, <1>10, <1>11 DEF StmtInv

\* Owners leave, and exactly the statements they owned are freed.
LEMMA FreedOwned ==
    ASSUME StmtInv, NEW dead, Free(dead),
           hand' \in [Threads -> Stmts \cup {NoStmt}],
           Keys' \subseteq Keys, InHand' \subseteq InHand,
           \A k \in Keys' : entries'[k].stmt = entries[k].stmt /\ entries[k].stmt \notin dead,
           \A k \in Keys \ Keys' : entries[k].stmt \in dead,
           \A t \in InHand' : /\ hand'[t] = hand[t] /\ args'[t] = args[t] /\ pc'[t] = pc[t]
                              /\ hand[t] \notin dead,
           \A t \in InHand \ InHand' : hand[t] \in dead
    PROVE  StmtInv'
  <1>1. /\ stmts' = stmts \ dead /\ stmts' \subseteq Stmts
        /\ origin' \in [stmts' -> [conn : Conns, sql : Sqls]]
        /\ \A p \in stmts' : origin'[p] = origin[p]
    BY FreedStmts DEF StmtInv
  <1>2. \A k \in Keys' : entries'[k].stmt \in stmts'
    BY <1>1 DEF StmtInv, Owned
  <1>3. \A t \in InHand' : hand'[t] \in stmts'
    BY <1>1 DEF StmtInv, Owned
  <1>4. ASSUME NEW p \in stmts'
        PROVE  (\E k \in Keys' : entries'[k].stmt = p) \/ (\E t \in InHand' : hand'[t] = p)
    <2>1. (\E k \in Keys : entries[k].stmt = p) \/ (\E t \in InHand : hand[t] = p)
      BY <1>1 DEF StmtInv, Owned
    <2> QED
      BY <1>1, <2>1
  <1>5. Owned'
    <2>1. \A k \in Keys' : \A t \in InHand' : entries'[k].stmt # hand'[t]
      BY DEF StmtInv, Owned
    <2>2. \A k, l \in Keys' : entries'[k].stmt = entries'[l].stmt => k = l
      BY DEF StmtInv, Owned
    <2>3. \A t, u \in InHand' : hand'[t] = hand'[u] => t = u
      BY DEF StmtInv, Owned
    <2> QED
      BY <1>2, <1>3, <1>4, <2>1, <2>2, <2>3 DEF Owned
  <1>6. RightSql'
    <2>1. \A k \in Keys' : origin'[entries'[k].stmt].sql = k
      BY <1>1, <1>2 DEF StmtInv, RightSql
    <2>2. ASSUME NEW t \in Threads, pc'[t] = "insert" PROVE origin'[hand'[t]].sql = args'[t].sql
      <3>1. t \in InHand'
        BY <2>2 DEF InHand
      <3> QED
        BY <1>1, <1>3, <2>2, <3>1 DEF StmtInv, RightSql
    <2> QED
      BY <2>1, <2>2 DEF RightSql
  <1> QED
    BY <1>1, <1>5, <1>6 DEF StmtInv

\* The get that lost the race frees the statement it prepared.
LEMMA DuplicateOwns ==
    ASSUME TypeOK, InCall, StmtInv, NEW t \in Threads, InsertDuplicate(t)
    PROVE  StmtInv'
  <1>1. /\ pc[t] = "insert" /\ args[t].sql \in Keys
        /\ Free({hand[t]}) /\ UseEntry(args[t].sql)
        /\ hand' = [hand EXCEPT ![t] = entries[args[t].sql].stmt]
        /\ pc' = [pc EXCEPT ![t] = "borrows"] /\ UNCHANGED args
    BY DEF InsertDuplicate
  <1>2. Keys' = Keys /\ \A k \in Keys : entries'[k].stmt = entries[k].stmt
    BY <1>1, UsedMap
  <1>3. t \in InHand /\ InHand' = InHand \ {t}
    BY <1>1, MovedHand DEF InHand
  <1>4. entries[args[t].sql].stmt \in Stmts
    BY <1>1 DEF TypeOK
  <1>5. /\ hand' \in [Threads -> Stmts \cup {NoStmt}]
        /\ \A u \in Threads : u # t => hand'[u] = hand[u]
    BY <1>1, <1>4 DEF StmtInv
  <1>6. \A u \in Threads : u # t => pc'[u] = pc[u]
    BY <1>1, MovedCall
  <1>7. \A u \in InHand' : /\ hand'[u] = hand[u] /\ args'[u] = args[u] /\ pc'[u] = pc[u]
                           /\ hand[u] \notin {hand[t]}
    BY <1>1, <1>3, <1>5, <1>6 DEF InHand, StmtInv, Owned
  <1>8. \A k \in Keys' : entries'[k].stmt = entries[k].stmt /\ entries[k].stmt \notin {hand[t]}
    BY <1>2, <1>3 DEF StmtInv, Owned
  <1>9. \A u \in InHand \ InHand' : hand[u] \in {hand[t]}
    BY <1>3
  <1>10. \A k \in Keys \ Keys' : entries[k].stmt \in {hand[t]}
    BY <1>2
  <1> QED
    BY <1>1, <1>2, <1>3, <1>5, <1>7, <1>8, <1>9, <1>10, FreedOwned

\* A caller frees a statement of its own, never one it borrowed.
LEMMA DoneOwns ==
    ASSUME TypeOK, StmtInv, NEW t \in Threads, Done(t)
    PROVE  StmtInv'
  <1> DEFINE dead == IF pc[t] = "owns" THEN {hand[t]} ELSE {}
  <1>1. /\ pc[t] \in {"borrows", "owns"} /\ Free(dead)
        /\ hand' = [hand EXCEPT ![t] = NoStmt]
        /\ pc' = [pc EXCEPT ![t] = "idle"]
        /\ args' = [args EXCEPT ![t] = NoRequest] /\ UNCHANGED entries
    BY DEF Done
  <1>2. Keys' = Keys /\ \A k \in Keys : entries'[k].stmt = entries[k].stmt
    BY <1>1 DEF Keys
  <1>3. InHand' = InHand \ {t}
    <2>1. pc' = [pc EXCEPT ![t] = "idle"] /\ "idle" \notin {"insert", "owns"}
      BY <1>1
    <2> QED
      BY <2>1, MovedHand
  <1>4. t \in InHand <=> pc[t] = "owns"
    BY <1>1 DEF InHand
  <1>5. /\ hand' \in [Threads -> Stmts \cup {NoStmt}]
        /\ \A u \in Threads : u # t => hand'[u] = hand[u]
    BY <1>1 DEF StmtInv
  <1>6. \A u \in Threads : u # t => pc'[u] = pc[u] /\ args'[u] = args[u]
    <2>1. args \in [Threads -> Request \cup {NoRequest}]
      BY DEF TypeOK
    <2>2. \A u \in Threads : u # t => args'[u] = args[u]
      BY <1>1, <2>1
    <2> QED
      BY <1>1, <2>2, MovedCall
  <1>7. \A u \in InHand' : /\ hand'[u] = hand[u] /\ args'[u] = args[u] /\ pc'[u] = pc[u]
                           /\ hand[u] \notin dead
    BY <1>3, <1>4, <1>5, <1>6 DEF InHand, StmtInv, Owned
  <1>8. \A k \in Keys' : entries'[k].stmt = entries[k].stmt /\ entries[k].stmt \notin dead
    BY <1>2, <1>4 DEF StmtInv, Owned
  <1>9. \A u \in InHand \ InHand' : hand[u] \in dead
    BY <1>3, <1>4
  <1> HIDE DEF dead
  <1>10. \A k \in Keys \ Keys' : entries[k].stmt \in dead
    BY <1>2
  <1> QED
    BY <1>1, <1>2, <1>3, <1>5, <1>7, <1>8, <1>9, <1>10, FreedOwned

\* Invalidating or clearing frees what the erased entries owned.
LEMMA ErasedOwns ==
    ASSUME TypeOK, StmtInv, NEW keys \in SUBSET Keys,
           Free(StmtsOf(keys)), Keys' = Keys \ keys,
           \A k \in Keys' : entries'[k] = entries[k],
           UNCHANGED <<pc, args, hand>>
    PROVE  StmtInv'
  <1> DEFINE dead == StmtsOf(keys)
  <1>1. dead = {entries[k].stmt : k \in keys}
    BY DEF StmtsOf
  <1>2. InHand' = InHand
    BY DEF InHand
  <1> HIDE DEF dead
  <1>3. \A u \in InHand' : /\ hand'[u] = hand[u] /\ args'[u] = args[u] /\ pc'[u] = pc[u]
                           /\ hand[u] \notin dead
    BY <1>1, <1>2 DEF StmtInv, Owned
  <1>4. \A k \in Keys' : entries'[k].stmt = entries[k].stmt /\ entries[k].stmt \notin dead
    BY <1>1 DEF StmtInv, Owned
  <1>5. \A k \in Keys \ Keys' : entries[k].stmt \in dead
    BY <1>1
  <1>6. hand' \in [Threads -> Stmts \cup {NoStmt}] /\ Free(dead)
    BY DEF StmtInv, dead
  <1> QED
    BY <1>2, <1>3, <1>4, <1>5, <1>6, FreedOwned

\* The inserting get passes its statement on to the cache, and the statements
\* of the keys that are pushed out are freed.
LEMMA InsertOwns ==
    ASSUME TypeOK, InCall, LruIndexesEntries, StmtInv, NEW t \in Threads, InsertNew(t)
    PROVE  StmtInv'
  <1> DEFINE key == args[t].sql
             gone == Victims(Touched(key))
             dead == StmtsOf(gone)
  <1>1. /\ pc[t] = "insert" /\ pc' = [pc EXCEPT ![t] = "borrows"]
        /\ Free(dead) /\ UNCHANGED <<args, hand>>
    BY DEF InsertNew
  <1>2. /\ key \notin Keys /\ key \notin gone
        /\ Keys' = (Keys \cup {key}) \ gone /\ key \in Keys'
        /\ entries'[key] = [stmt |-> hand[t], last_used |-> clock + 1]
        /\ \A k \in Keys' \ {key} : k \in Keys /\ entries'[k] = entries[k]
    BY InsertedMap
  <1>3. dead = {entries[k].stmt : k \in gone \cap Keys}
    BY DEF StmtsOf
  <1> HIDE DEF key, gone, dead
  <1>4. t \in InHand /\ InHand' = InHand \ {t}
    BY <1>1, MovedHand DEF InHand
  <1>5. /\ stmts' = stmts \ dead /\ stmts' \subseteq Stmts
        /\ origin' \in [stmts' -> [conn : Conns, sql : Sqls]]
        /\ \A p \in stmts' : origin'[p] = origin[p]
    BY <1>1, FreedStmts DEF StmtInv
  <1>6. \A u \in InHand : hand[u] \in stmts'
    BY <1>3, <1>5 DEF StmtInv, Owned
  <1>7. entries'[key].stmt = hand[t]
    BY <1>2
  <1>8. \A k \in Keys' \ {key} :
           /\ k \in Keys /\ k \notin gone
           /\ entries'[k].stmt = entries[k].stmt /\ entries[k].stmt \in stmts'
    BY <1>2, <1>3, <1>5 DEF StmtInv, Owned
  <1>9. Owned'
    <2>1. \A k \in Keys' : entries'[k].stmt \in stmts'
      BY <1>4, <1>6, <1>7, <1>8
    <2>2. \A u \in InHand' : hand'[u] \in stmts'
      BY <1>1, <1>4, <1>6
    <2>3. ASSUME NEW p \in stmts'
          PROVE  (\E k \in Keys' : entries'[k].stmt = p) \/ (\E u \in InHand' : hand'[u] = p)
      <3>1. CASE p = hand[t]
        BY <1>2, <1>7, <3>1
      <3>2. ASSUME NEW k \in Keys, entries[k].stmt = p
            PROVE  \E l \in Keys' : entries'[l].stmt = p
        <4>1. k \notin gone
          BY <1>3, <1>5, <3>2
        <4>2. k \in Keys' /\ k # key
          BY <1>2, <4>1
        <4> QED
          BY <1>8, <3>2, <4>2
      <3>3. ASSUME NEW u \in InHand, hand[u] = p, p # hand[t]
            PROVE  \E v \in InHand' : hand'[v] = p
        BY <1>1, <1>4, <3>3
      <3>4. (\E k \in Keys : entries[k].stmt = p) \/ (\E u \in InHand : hand[u] = p)
        BY <1>5 DEF StmtInv, Owned
      <3> QED
        BY <3>1, <3>2, <3>3, <3>4
    <2>4. \A k \in Keys' : \A u \in InHand' : entries'[k].stmt # hand'[u]
      BY <1>1, <1>4, <1>7, <1>8 DEF StmtInv, Owned
    <2>5. \A k, l \in Keys' : entries'[k].stmt = entries'[l].stmt => k = l
      BY <1>4, <1>7, <1>8 DEF StmtInv, Owned
    <2>6. \A u, v \in InHand' : hand'[u] = hand'[v] => u = v
      BY <1>1, <1>4 DEF StmtInv, Owned
    <2> QED
      BY <2>1, <2>2, <2>3, <2>4, <2>5, <2>6 DEF Owned
  <1>10. RightSql'
    <2>1. origin'[entries'[key].stmt].sql = key
      BY <1>1, <1>4, <1>5, <1>6, <1>7 DEF StmtInv, RightSql, key
    <2>2. \A k \in Keys' \ {key} : origin'[entries'[k].stmt].sql = k
      BY <1>5, <1>8 DEF StmtInv, RightSql
    <2>3. ASSUME NEW u \in Threads, pc'[u] = "insert" PROVE origin'[hand'[u]].sql = args'[u].sql
      <3>1. u \in InHand' /\ u # t
        BY <1>4, <2>3 DEF InHand
      <3>2. pc[u] = "insert" /\ u \in InHand
        BY <1>1, <1>4, <2>3, <3>1, MovedCall
      <3> QED
        BY <1>1, <1>5, <1>6, <3>2 DEF StmtInv, RightSql
    <2> QED
      BY <2>1, <2>2, <2>3 DEF RightSql
  <1>11. hand' \in [Threads -> Stmts \cup {NoStmt}]
    BY <1>1 DEF StmtInv
  <1> QED
    BY <1>5, <1>9, <1>10, <1>11 DEF StmtInv

-----------------------------------------------------------------------------
(* The steps.                                                              *)

\* The types of the map and of its list.
MapTyped ==
    /\ Keys \subseteq Sqls /\ lru \in Seq(Sqls)
    /\ \A k \in Keys : entries[k] \in [stmt : Stmts, last_used : 1..MaxGets]

\* The invariant, by subject.
Parts == CallInv /\ MapTyped /\ ListInv /\ StmtInv /\ open \subseteq Conns /\ closed \subseteq Conns

\* Both list the same conjuncts.
LEMMA CacheParts == CacheInv <=> Parts
  <1>1. OneOwner <=> Owned
    BY OwnedForm
  <1> QED
    BY <1>1 DEF CacheInv, Parts, TypeOK, CallInv, MapTyped, ListInv, StmtInv

\* What happens to the map when an entry is used.
LEMMA UsedTyped ==
    ASSUME TypeOK, ListInv, NEW key \in Keys, UseEntry(key), clock' \in 0..MaxGets
    PROVE  MapTyped' /\ ListInv'
  <1>1. ListInv' /\ lru' \in Seq(Sqls)
    BY UsedList
  <1>2. clock + 1 <= MaxGets
    BY CacheAssumption DEF UseEntry
  <1>3. Keys' = Keys /\ \A k \in Keys : entries'[k] \in [stmt : Stmts, last_used : 1..MaxGets]
    BY <1>2, UsedMap
  <1> QED
    BY <1>1, <1>3 DEF MapTyped, TypeOK

\* What happens to the map when an entry is inserted.
LEMMA InsertedTyped ==
    ASSUME TypeOK, InCall, ListInv, StmtInv, NEW t \in Threads, InsertNew(t),
           clock' \in 0..MaxGets
    PROVE  MapTyped' /\ ListInv'
  <1> DEFINE key == args[t].sql
  <1>1. ListInv' /\ lru' \in Seq(Sqls)
    BY InsertedList
  <1>2. /\ key \in Sqls /\ Keys' = (Keys \cup {key}) \ Victims(Touched(key))
        /\ entries'[key] = [stmt |-> hand[t], last_used |-> clock + 1]
        /\ \A k \in Keys' \ {key} : k \in Keys /\ entries'[k] = entries[k]
    BY InsertedMap DEF ListInv
  <1>3. clock + 1 \in 1..MaxGets
    BY CacheAssumption DEF InsertNew, TypeOK
  <1>4. hand[t] \in Stmts
    BY DEF InsertNew, StmtInv, Owned, InHand
  <1> HIDE DEF key
  <1>5. entries'[key] \in [stmt : Stmts, last_used : 1..MaxGets]
    BY <1>2, <1>3, <1>4
  <1>6. \A k \in Keys' : entries'[k] \in [stmt : Stmts, last_used : 1..MaxGets]
    BY <1>2, <1>5 DEF TypeOK
  <1>7. Keys' \subseteq Sqls
    BY <1>2 DEF TypeOK
  <1> QED
    BY <1>1, <1>6, <1>7 DEF MapTyped

\* sb_stmt_cache_invalidate keeps the invariant.
LEMMA InvalidateStep ==
    ASSUME CacheInv, NEW key \in Sqls, Invalidate(key)
    PROVE  MapTyped' /\ ListInv' /\ StmtInv'
  <1>1. TypeOK /\ Parts /\ key \in Keys
    BY CacheParts DEF CacheInv, Invalidate
  <1>2. /\ ListInv' /\ lru' \in Seq(Sqls) /\ Keys' = Keys \ {key}
        /\ \A k \in Keys' : entries'[k] = entries[k]
    BY <1>1, InvalidatedList DEF Parts
  <1>3. MapTyped'
    BY <1>1, <1>2 DEF MapTyped, Parts
  <1>4. StmtInv'
    <2>1. Free(StmtsOf({key})) /\ UNCHANGED <<pc, args, hand>>
      BY DEF Invalidate
    <2>2. {key} \in SUBSET Keys
      BY <1>1
    <2> QED
      BY <1>1, <1>2, <2>1, <2>2, ErasedOwns DEF Parts
  <1> QED
    BY <1>2, <1>3, <1>4

\* sb_stmt_cache_clear keeps the invariant.
LEMMA ClearStep ==
    ASSUME CacheInv, Clear
    PROVE  MapTyped' /\ ListInv' /\ StmtInv'
  <1>1. TypeOK /\ Parts
    BY CacheParts DEF CacheInv
  <1>2. entries' = <<>> /\ lru' = <<>> /\ Free(Cached) /\ UNCHANGED <<pc, args, hand>>
    BY DEF Clear
  <1>3. Keys' = {} /\ Len(lru') = 0 /\ lru' \in Seq(Sqls)
    BY <1>2 DEF Keys
  <1>4. MapTyped'
    BY <1>3 DEF MapTyped
  <1>5. ListInv'
    <2>1. \A i \in 1..Len(lru') : FALSE
      BY <1>3
    <2>2. Len(lru') <= MaxSize
      BY <1>3, CacheAssumption
    <2> QED
      BY <1>3, <2>1, <2>2 DEF ListInv, LruIndexesEntries, LruByLastUse, UsedByNow
  <1>6. StmtsOf(Keys) = Cached
    BY DEF StmtsOf, Cached
  <1>7. StmtInv'
    BY <1>1, <1>2, <1>3, <1>6, ErasedOwns DEF Parts
  <1> QED
    BY <1>4, <1>5, <1>7

\* A step of sb_stmt_cache_get keeps the invariant.
LEMMA GetStep ==
    ASSUME CacheInv, CallInv', NEW t \in Threads, Get(t)
    PROVE  MapTyped' /\ ListInv' /\ StmtInv'
  <1>1. TypeOK /\ Parts /\ InCall /\ LruIndexesEntries
    BY CacheParts DEF CacheInv
  <1>2. ASSUME UNCHANGED <<entries, lru, clock>> PROVE MapTyped' /\ ListInv'
    BY <1>1, <1>2 DEF Parts, MapTyped, ListInv, LruIndexesEntries, LruByLastUse, UsedByNow, Keys
  <1>3. clock' \in 0..MaxGets
    BY DEF CallInv
  <1>4. ASSUME NEW r \in Request, GetUncached(t, r) \/ GetMiss(t, r)
        PROVE  MapTyped' /\ ListInv' /\ StmtInv'
    BY <1>1, <1>2, <1>4, MissOwns DEF GetUncached, GetMiss, Parts
  <1>5. ASSUME NEW r \in Request, GetHit(t, r)
        PROVE  MapTyped' /\ ListInv' /\ StmtInv'
    <2>1. r.sql \in Keys /\ UseEntry(r.sql)
      BY <1>5 DEF GetHit
    <2>2. MapTyped' /\ ListInv'
      BY <1>1, <1>3, <2>1, UsedTyped DEF Parts
    <2>3. StmtInv'
      BY <1>1, <1>5, HitOwns DEF Parts
    <2> QED
      BY <2>2, <2>3
  <1>6. CASE PrepareOk(t)
    BY <1>1, <1>2, <1>6, PrepareOwns DEF PrepareOk, Parts
  <1>7. CASE PrepareFail(t)
    BY <1>1, <1>2, <1>7, MissOwns DEF PrepareFail, Parts
  <1>8. CASE InsertDuplicate(t)
    <2>1. args[t].sql \in Keys /\ UseEntry(args[t].sql)
      BY <1>8 DEF InsertDuplicate
    <2>2. MapTyped' /\ ListInv'
      BY <1>1, <1>3, <2>1, UsedTyped DEF Parts
    <2>3. StmtInv'
      BY <1>1, <1>8, DuplicateOwns DEF Parts
    <2> QED
      BY <2>2, <2>3
  <1>9. CASE InsertNew(t)
    <2>1. MapTyped' /\ ListInv'
      BY <1>1, <1>3, <1>9, InsertedTyped DEF Parts
    <2>2. StmtInv'
      BY <1>1, <1>9, InsertOwns DEF Parts
    <2> QED
      BY <2>1, <2>2
  <1>10. CASE Done(t)
    BY <1>1, <1>2, <1>10, DoneOwns DEF Done, Parts
  <1> QED
    BY <1>4, <1>5, <1>6, <1>7, <1>8, <1>9, <1>10 DEF Get

\* Every step keeps the invariant.
LEMMA CacheStep ==
    ASSUME CacheInv, [Next]_vars
    PROVE  CacheInv'
  <1>1. TypeOK /\ Parts
    BY CacheParts DEF CacheInv
  <1>2. CallInv'
    BY <1>1, CallStep DEF Parts
  <1>3. open' \subseteq Conns /\ closed' \subseteq Conns
    <2>1. ASSUME UNCHANGED <<open, closed>>
          PROVE  open' \subseteq Conns /\ closed' \subseteq Conns
      BY <1>1, <2>1 DEF Parts
    <2>2. ASSUME NEW t \in Threads, Get(t) PROVE UNCHANGED <<open, closed>>
      BY <2>2 DEF Get, GetUncached, GetHit, GetMiss, PrepareOk, PrepareFail,
                  InsertDuplicate, InsertNew, Done
    <2>3. ASSUME NEW c \in Conns, Connect(c) \/ Disconnect(c)
          PROVE  open' \subseteq Conns /\ closed' \subseteq Conns
      BY <1>1, <2>3 DEF Connect, Disconnect, Parts
    <2> QED
      BY <2>1, <2>2, <2>3 DEF Next, vars, Invalidate, Clear
  <1>4. ASSUME UNCHANGED <<stmts, origin, entries, lru, clock, pc, args, hand>>
        PROVE  MapTyped' /\ ListInv' /\ StmtInv'
    BY <1>1, <1>4 DEF Parts, MapTyped, ListInv, LruIndexesEntries, LruByLastUse,
                      UsedByNow, Keys, StmtInv, Owned, RightSql, InHand
  <1>5. MapTyped' /\ ListInv' /\ StmtInv'
    <2>1. ASSUME NEW c \in Conns, Connect(c) \/ Disconnect(c)
          PROVE  UNCHANGED <<stmts, origin, entries, lru, clock, pc, args, hand>>
      BY <2>1 DEF Connect, Disconnect
    <2> QED
      BY <1>2, <1>4, <2>1, GetStep, InvalidateStep, ClearStep DEF Next, vars
  <1>6. Parts'
    BY <1>2, <1>3, <1>5 DEF Parts
  <1> QED
    BY <1>6, CacheParts, PTL

\* A cache just created satisfies the invariant.
LEMMA CacheInit == Init => CacheInv
  <1> SUFFICES ASSUME Init PROVE Parts
    BY CacheParts
  <1>1. /\ open = {} /\ closed = {} /\ stmts = {} /\ origin = <<>>
        /\ entries = <<>> /\ lru = <<>> /\ clock = 0 /\ gets = 0
        /\ pc = [t \in Threads |-> "idle"]
        /\ args = [t \in Threads |-> NoRequest]
        /\ hand = [t \in Threads |-> NoStmt]
    BY DEF Init
  <1>2. Keys = {} /\ Len(lru) = 0 /\ lru \in Seq(Sqls)
    BY <1>1 DEF Keys
  <1>3. \A t \in Threads : pc[t] = "idle"
    BY <1>1
  <1>4. Pending = {} /\ InHand = {}
    BY <1>3 DEF Pending, InHand
  <1>5. CallInv
    <2>1. ClockBudget
      BY <1>1, <1>4, FS_EmptySet DEF ClockBudget
    <2>2. InCall
      BY <1>3 DEF InCall
    <2>3. pc \in [Threads -> {"idle", "prepare", "insert", "borrows", "owns"}]
      BY <1>1
    <2>4. args \in [Threads -> Request \cup {NoRequest}]
      BY <1>1
    <2> QED
      BY <1>1, <2>1, <2>2, <2>3, <2>4, CacheAssumption DEF CallInv
  <1>6. MapTyped
    BY <1>2 DEF MapTyped
  <1>7. ListInv
    <2>1. \A i \in 1..Len(lru) : FALSE
      BY <1>2
    <2>2. Len(lru) <= MaxSize
      BY <1>2, CacheAssumption
    <2> QED
      BY <1>2, <2>1, <2>2 DEF ListInv, LruIndexesEntries, LruByLastUse, UsedByNow
  <1>8. StmtInv
    <2>1. Owned /\ RightSql
      BY <1>1, <1>2, <1>3, <1>4 DEF Owned, RightSql
    <2>2. origin \in [stmts -> [conn : Conns, sql : Sqls]]
      BY <1>1
    <2>3. hand \in [Threads -> Stmts \cup {NoStmt}]
      BY <1>1
    <2> QED
      BY <1>1, <2>1, <2>2, <2>3 DEF StmtInv
  <1> QED
    BY <1>1, <1>5, <1>6, <1>7, <1>8 DEF Parts

\* A get that returns a cached statement returns one that is allocated and was
\* prepared from the SQL asked for.
LEMMA ReturnsStep ==
    ASSUME CacheInv, [Next]_vars, NEW t \in Threads,
           pc[t] # "borrows", pc'[t] = "borrows"
    PROVE  hand'[t] \in stmts' /\ origin'[hand'[t]].sql = args'[t].sql
  <1>1. TypeOK /\ Parts /\ Parts'
    <2>1. CacheInv'
      BY CacheStep
    <2> QED
      BY <2>1, CacheParts, PTL DEF CacheInv
  <1>2. pc \in [Threads -> {"idle", "prepare", "insert", "borrows", "owns"}]
    BY <1>1 DEF TypeOK
  <1>3. PICK u \in Threads : Get(u)
    BY DEF Next, vars, Invalidate, Clear, Connect, Disconnect
  <1>4. t = u
    <2>1. PICK where : pc' = [pc EXCEPT ![u] = where]
      BY <1>3 DEF Get, GetUncached, GetHit, GetMiss, PrepareOk, PrepareFail,
                  InsertDuplicate, InsertNew, Done
    <2> QED
      BY <1>2, <2>1
  <1>5. args'[t].sql \in Keys' /\ hand'[t] = entries'[args'[t].sql].stmt
    <2>1. ASSUME NEW r \in Request, GetHit(t, r)
          PROVE  args'[t].sql \in Keys' /\ hand'[t] = entries'[args'[t].sql].stmt
      <3>1. r.sql \in Keys /\ UseEntry(r.sql) /\ Enters(t, r)
            /\ hand' = [hand EXCEPT ![t] = entries[r.sql].stmt]
        BY <2>1 DEF GetHit
      <3>2. args'[t] = r
        BY <1>1, <3>1, EnteredCall
      <3>3. Keys' = Keys /\ entries'[r.sql].stmt = entries[r.sql].stmt
        BY <1>1, <3>1, UsedMap
      <3> QED
        BY <1>1, <3>1, <3>2, <3>3 DEF Parts, StmtInv
    <2>2. CASE InsertDuplicate(t)
      <3>1. args[t].sql \in Keys /\ UseEntry(args[t].sql) /\ UNCHANGED args
            /\ hand' = [hand EXCEPT ![t] = entries[args[t].sql].stmt]
        BY <2>2 DEF InsertDuplicate
      <3>2. Keys' = Keys /\ entries'[args[t].sql].stmt = entries[args[t].sql].stmt
        BY <1>1, <3>1, UsedMap
      <3> QED
        BY <1>1, <3>1, <3>2 DEF Parts, StmtInv
    <2>3. CASE InsertNew(t)
      <3>1. UNCHANGED <<args, hand>>
        BY <2>3 DEF InsertNew
      <3>2. /\ args[t].sql \in Keys'
            /\ entries'[args[t].sql] = [stmt |-> hand[t], last_used |-> clock + 1]
        BY <1>1, <2>3, InsertedMap DEF Parts, CallInv, ListInv
      <3> QED
        BY <3>1, <3>2
    <2>4. ASSUME NEW r \in Request, GetUncached(t, r) \/ GetMiss(t, r) PROVE FALSE
      BY <1>2, <2>4 DEF GetUncached, GetMiss
    <2>5. ~PrepareOk(t) /\ ~PrepareFail(t) /\ ~Done(t)
      BY <1>2 DEF PrepareOk, PrepareFail, Done
    <2> QED
      BY <1>3, <1>4, <2>1, <2>2, <2>3, <2>4, <2>5 DEF Get
  <1>6. /\ \A k \in Keys' : entries'[k].stmt \in stmts'
        /\ \A k \in Keys' : origin'[entries'[k].stmt].sql = k
    BY <1>1 DEF Parts, StmtInv, Owned, RightSql
  <1> QED
    BY <1>5, <1>6

-----------------------------------------------------------------------------
(* The theorems.                                                           *)

\* The cache, its list, the allocated statements and the threads' calls keep
\* their types; the clock stays within the calls made.
THEOREM CacheTypeCorrect == Spec => []TypeOK
  <1>1. CacheInv => TypeOK
    BY DEF CacheInv
  <1> QED
    BY <1>1, CacheInit, CacheStep, PTL DEF Spec

\* cache->lru and cache->entries hold the same keys, each once, at most max_size
\* of them, whichever gets, evictions, invalidations and clears interleave.
THEOREM ListAgreesWithMap == Spec => []LruIndexesEntries
  <1>1. CacheInv => LruIndexesEntries
    BY DEF CacheInv
  <1> QED
    BY <1>1, CacheInit, CacheStep, PTL DEF Spec

\* cache->lru is in the order of last_used, so eviction takes the statement that
\* was not used for the longest time.
THEOREM ListInOrderOfUse == Spec => []LruByLastUse
  <1>1. CacheInv => LruByLastUse
    BY DEF CacheInv
  <1> QED
    BY <1>1, CacheInit, CacheStep, PTL DEF Spec

\* Every sb_prepared has exactly one owner, so that none leaks and none is freed
\* twice, although sb_stmt_cache_get prepares without the mutex.
THEOREM StatementsHaveOneOwner == Spec => []OneOwner
  <1>1. CacheInv => OneOwner
    BY DEF CacheInv
  <1> QED
    BY <1>1, CacheInit, CacheStep, PTL DEF Spec

\* sb_stmt_cache_get never returns a statement its own eviction freed, nor one
\* prepared from other SQL.
THEOREM GetReturnsUsable == Spec => ReturnsUsable
  <1>1. CacheInv /\ [Next]_vars =>
           [\A t \in Threads :
               pc[t] # "borrows" /\ pc'[t] = "borrows"
                   => hand'[t] \in stmts' /\ origin'[hand'[t]].sql = args'[t].sql]_vars
    BY ReturnsStep
  <1> QED
    BY <1>1, CacheInit, CacheStep, PTL DEF Spec, ReturnsUsable
=============================================================================

------------------------ MODULE ConnectionPoolProofs ------------------------
(***************************************************************************)
(* Proofs about ConnectionPool for any number of threads and handles and   *)
(* any pool bounds: types, the bound on the overshoot of max_connections,  *)
(* and, as long as the pool is intact, who holds a connection, that leases *)
(* are exclusive and usable, that freed connections are forgotten, and     *)
(* that the pool implements ConnectionLease.  The allocator may give out   *)
(* any address that is not in use, and vectors may move at any push.       *)
(***************************************************************************)
EXTENDS ConnectionPool, FiniteSetTheorems, TLAPS

\* What a store to in_use through a reference does to the vector.
LEMMA SetInUse ==
    ASSUME NEW s \in Seq(Entry), NEW i \in 1..Len(s), NEW b \in BOOLEAN
    PROVE  /\ [s EXCEPT ![i].in_use = b] \in Seq(Entry)
           /\ Len([s EXCEPT ![i].in_use = b]) = Len(s)
           /\ \A j \in 1..Len(s) :
                 /\ [s EXCEPT ![i].in_use = b][j].conn = s[j].conn
                 /\ [s EXCEPT ![i].in_use = b][j].in_use =
                       IF j = i THEN b ELSE s[j].in_use
  <1> DEFINE e == [s[i] EXCEPT !.in_use = b]
  <1>1. s[i] \in Entry
    OBVIOUS
  <1>2. e \in Entry /\ e.conn = s[i].conn /\ e.in_use = b
    BY <1>1 DEF Entry
  <1>3. [s EXCEPT ![i].in_use = b] = [s EXCEPT ![i] = e]
    OBVIOUS
  <1> HIDE DEF e
  <1> QED
    BY <1>2, <1>3

\* What a store to conn through a reference does to the vector.
LEMMA SetConn ==
    ASSUME NEW s \in Seq(Entry), NEW i \in 1..Len(s),
           NEW c \in Handles \cup {NoConn}
    PROVE  /\ [s EXCEPT ![i].conn = c] \in Seq(Entry)
           /\ Len([s EXCEPT ![i].conn = c]) = Len(s)
           /\ \A j \in 1..Len(s) :
                 /\ [s EXCEPT ![i].conn = c][j].in_use = s[j].in_use
                 /\ [s EXCEPT ![i].conn = c][j].conn =
                       IF j = i THEN c ELSE s[j].conn
  <1> DEFINE e == [s[i] EXCEPT !.conn = c]
  <1>1. s[i] \in Entry
    OBVIOUS
  <1>2. e \in Entry /\ e.in_use = s[i].in_use /\ e.conn = c
    BY <1>1 DEF Entry
  <1>3. [s EXCEPT ![i].conn = c] = [s EXCEPT ![i] = e]
    OBVIOUS
  <1> HIDE DEF e
  <1> QED
    BY <1>2, <1>3

\* What a write through a dangling pointer can do to the vector.
LEMMA DamagedVector ==
    ASSUME NEW s, s \in Damaged, entries \in Seq(Entry)
    PROVE  s \in Seq(Entry) /\ Len(s) = Len(entries)
  <1>1. CASE s = entries
    BY <1>1
  <1>2. ASSUME NEW i \in 1..Len(entries), NEW e \in Entry,
               s = [entries EXCEPT ![i] = e]
        PROVE  s \in Seq(Entry) /\ Len(s) = Len(entries)
    BY <1>2
  <1> QED
    BY <1>1, <1>2 DEF Damaged

\* The writes through `selected` keep the vector's type and length.
LEMMA StoresTyped ==
    ASSUME NEW t \in Threads, NEW c \in Handles \cup {NoConn},
           entries \in Seq(Entry), sel[t] \in 1..Len(entries),
           StoreConn(t, c) \/ StoreAvailable(t)
    PROVE  entries' \in Seq(Entry) /\ Len(entries') = Len(entries)
  <1>1. CASE t \in dangling
    BY <1>1, DamagedVector DEF StoreConn, StoreAvailable
  <1>2. CASE t \notin dangling /\ StoreConn(t, c)
    <2>1. entries' = [entries EXCEPT ![sel[t]].conn = c]
      BY <1>2 DEF StoreConn
    <2> QED
      BY <2>1, SetConn
  <1>3. CASE t \notin dangling /\ StoreAvailable(t)
    <2>1. entries' = [entries EXCEPT ![sel[t]].in_use = FALSE]
      BY <1>3 DEF StoreAvailable
    <2> QED
      BY <2>1, SetInUse
  <1> QED
    BY <1>1, <1>2, <1>3

\* What push_back does to the vector.
LEMMA PushBack ==
    ASSUME NEW s \in Seq(Entry), NEW e \in Entry
    PROVE  /\ Append(s, e) \in Seq(Entry)
           /\ Len(Append(s, e)) = Len(s) + 1
           /\ \A j \in 1..Len(s) : Append(s, e)[j] = s[j]
           /\ Append(s, e)[Len(s) + 1] = e
  OBVIOUS

\* Well-typed, and every `selected` index lies in the vector: the part of the
\* invariant that needs no assumption on the allocator.
TypeInv ==
    /\ TypeOK
    /\ \A t \in Threads : Selecting(t) => sel[t] \in 1..Len(entries)
    /\ \A t \in Threads : pc[t] \in {"test", "checkout", "broken", "reconnect",
                                         "push", "using"}
                             => conn[t] \in Handles
    /\ ~exists => \A t \in Threads : pc[t] = "idle"

\* What is read through `selected` is an address or nullptr.
LEMMA SelectedType ==
    ASSUME TypeInv, NEW t \in Threads, Selecting(t)
    PROVE  Selected(t) \subseteq Handles \cup {NoConn}
  <1>1. sel[t] \in 1..Len(entries) /\ entries \in Seq(Entry)
    BY DEF TypeInv, TypeOK
  <1>2. entries[sel[t]] \in Entry
    BY <1>1
  <1> QED
    BY <1>2 DEF Selected, Entry

\* The types hold before the pool is created.
LEMMA TypeInit == Init => TypeInv
  <1> SUFFICES ASSUME Init PROVE TypeInv
    OBVIOUS
  <1>1. entries \in Seq(Entry)
    BY DEF Init
  <1>2. pc \in [Threads -> PcValues] /\ \A t \in Threads : pc[t] = "idle"
    BY DEF Init, PcValues
  <1>3. polls \in [Threads -> 0..AcquireTimeout] /\ capacity \in Nat
    BY PoolAssumption DEF Init
  <1> QED
    BY <1>1, <1>2, <1>3 DEF Init, TypeInv, TypeOK, Selecting

\* Each step keeps the types and the `selected` indices.
LEMMA TypeStep == TypeInv /\ [Next]_vars => TypeInv'
  <1> SUFFICES ASSUME TypeInv, [Next]_vars PROVE TypeInv'
    OBVIOUS
  <1> USE PoolAssumption DEF TypeInv, TypeOK, PcValues, Selecting, Goto
  <1>1. CASE PoolCreate
    <2>1. PICK hs \in [1..MinConnections -> Fresh] :
            /\ entries' = [i \in 1..MinConnections |->
                              [conn |-> hs[i], in_use |-> FALSE]]
            /\ open' = open \cup {hs[i] : i \in 1..MinConnections}
            /\ tracked' = tracked \cup {hs[i] : i \in 1..MinConnections}
      BY <1>1 DEF PoolCreate
    <2>2. \A i \in 1..MinConnections : hs[i] \in Handles
      BY DEF Fresh
    <2>3. entries' \in [1..MinConnections -> Entry]
      BY <2>1, <2>2 DEF Entry
    <2>4. entries' \in Seq(Entry)
      <3> HIDE DEF TypeInv, TypeOK
      <3> QED
        BY <2>3
    <2> QED
      BY <1>1, <2>1, <2>2, <2>4 DEF PoolCreate, ghostVars
  <1>2. CASE PoolCreateFail
    BY <1>2 DEF PoolCreateFail, poolVars, netVars, ghostVars
  <1>3. CASE PoolDestroy
    <2>1. entries' \in Seq(Entry)
      BY <1>3 DEF PoolDestroy
    <2> QED
      BY <1>3, <2>1 DEF PoolDestroy, Disconnect
  <1>4. CASE ServerDrops
    BY <1>4 DEF ServerDrops, poolVars, ghostVars
  <1>5. ASSUME NEW t \in Threads, Acquire(t) PROVE TypeInv'
    BY <1>5 DEF Acquire, poolVars, netVars, ghostVars
  <1>6. ASSUME NEW t \in Threads, Release(t) PROVE TypeInv'
    <2>1. CASE entries' = entries
      BY <1>6, <2>1 DEF Release, netVars, ghostVars
    <2>2. ASSUME NEW i \in 1..Len(entries),
                 entries' = [entries EXCEPT ![i].in_use = FALSE]
          PROVE  TypeInv'
      <3>1. entries' \in Seq(Entry) /\ Len(entries') = Len(entries)
        BY <2>2, SetInUse
      <3>2. tracked' \subseteq Handles
        BY <1>6 DEF Release
      <3> QED
        BY <1>6, <3>1, <3>2 DEF Release, netVars, ghostVars
    <2> QED
      BY <1>6, <2>1, <2>2 DEF Release, Storing
  <1>7. ASSUME NEW t \in Threads, UseTxn(t) PROVE TypeInv'
    BY <1>7 DEF UseTxn, poolVars, ghostVars
  <1>8. ASSUME NEW t \in Threads, AcquireStep(t) PROVE TypeInv'
    <2>1. CASE SelectIdle(t)
      <3>1. PICK i \in 1..Len(entries) :
              /\ Idle(i)
              /\ entries' = [entries EXCEPT ![i].in_use = TRUE]
              /\ sel' = [sel EXCEPT ![t] = i]
              /\ conn' = [conn EXCEPT ![t] = entries[i].conn]
        BY <2>1 DEF SelectIdle
      <3>2. entries[i].conn \in Handles
        <4>1. entries[i] \in Entry
          OBVIOUS
        <4> QED
          BY <3>1, <4>1 DEF Idle, Entry
      <3>3. entries' \in Seq(Entry) /\ Len(entries') = Len(entries)
        BY <3>1, SetInUse
      <3>4. PICK to \in {"test", "checkout"} : pc' = [pc EXCEPT ![t] = to]
        BY <2>1 DEF SelectIdle
      <3>5. UNCHANGED <<exists, capacity, open, sick, inTxn, tracked, polls, dangling,
                       intact, misused>> /\ pc[t] = "scan"
        BY <2>1 DEF SelectIdle, netVars, ghostVars
      <3> QED
        BY <3>1, <3>2, <3>3, <3>4, <3>5
    <2>2. CASE NoneIdle(t)
      BY <2>2 DEF NoneIdle, poolVars, netVars, ghostVars
    <2>3. CASE CheckoutOk(t)
      <3>1. PICK c \in Handles \cup {NoConn} :
              /\ tracked' = tracked \cup ({c} \ {NoConn})
              /\ Return(t, IF c = NoConn THEN "idle" ELSE "using", c)
        <4>1. Selected(t) \subseteq Handles \cup {NoConn}
          BY <2>3, SelectedType DEF CheckoutOk
        <4> QED
          BY <2>3, <4>1 DEF CheckoutOk
      <3> QED
        BY <2>3, <3>1 DEF CheckoutOk, Return, Dereference, poolVars, netVars
    <2>4. CASE CheckoutBroken(t)
      <3>1. PICK c : /\ tracked' = tracked \ {c} /\ Disconnect({c})
                     /\ misused' = (misused \/ c \in Fresh)
        BY <2>4 DEF CheckoutBroken
      <3> QED
        BY <2>4, <3>1 DEF CheckoutBroken, Disconnect, Dereference, poolVars
    <2>5. CASE ReconnectOk(t)
      <3>1. PICK c \in Fresh : /\ open' = open \cup {c} /\ StoreConn(t, c)
                               /\ conn' = [conn EXCEPT ![t] = c]
                               /\ intact' \in BOOLEAN
        BY <2>5 DEF ReconnectOk
      <3>2. c \in Handles
        BY DEF Fresh
      <3>3. entries' \in Seq(Entry) /\ Len(entries') = Len(entries)
        BY <2>5, <3>1, <3>2, StoresTyped DEF ReconnectOk
      <3> QED
        BY <2>5, <3>1, <3>2, <3>3 DEF ReconnectOk
    <2>6. CASE ReconnectFail(t)
      <3>1. entries' \in Seq(Entry) /\ Len(entries') = Len(entries)
        BY <2>6, StoresTyped DEF ReconnectFail
      <3> QED
        BY <2>6, <3>1 DEF ReconnectFail, Dereference, netVars
    <2>7. CASE GiveUp(t)
      <3>1. entries' \in Seq(Entry) /\ Len(entries') = Len(entries)
        BY <2>7, StoresTyped DEF GiveUp
      <3> QED
        BY <2>7, <3>1 DEF GiveUp, Return, Dereference, netVars
    <2>8. CASE Decide(t)
      BY <2>8 DEF Decide, poolVars, netVars, ghostVars
    <2>9. CASE ConnectOk(t)
      BY <2>9 DEF ConnectOk, Fresh, poolVars
    <2>10. CASE ConnectFail(t)
      BY <2>10 DEF ConnectFail, Return, poolVars, netVars, ghostVars
    <2>11. CASE Push(t)
      <3>1. [conn |-> conn[t], in_use |-> TRUE] \in Entry
        BY <2>11 DEF Entry
      <3>2. entries' \in Seq(Entry) /\ Len(entries') = Len(entries) + 1
        BY <2>11, <3>1, PushBack DEF Push
      <3>3. dangling' \subseteq {u \in Threads : Selecting(u)'} /\ capacity' \in Nat
        BY <2>11 DEF Push
      <3> QED
        BY <2>11, <3>2, <3>3 DEF Push, netVars, ghostVars
    <2>12. CASE TimedOut(t)
      BY <2>12 DEF TimedOut, Return, poolVars, netVars, ghostVars
    <2>13. CASE Sleep(t)
      BY <2>13 DEF Sleep, poolVars, netVars, ghostVars
    <2>14. CASE Test(t)
      <3>1. PICK to \in {"checkout", "broken"} : Goto(t, to)
        BY <2>14 DEF Test
      <3> QED
        BY <2>14, <3>1 DEF Test, Dereference, poolVars, netVars
    <2>15. CASE Register(t)
      <3>1. PICK c \in Handles : /\ tracked' = tracked \cup {c}
                                 /\ conn' = [conn EXCEPT ![t] = c]
        <4>1. Selected(t) \subseteq Handles \cup {NoConn}
          BY <2>15, SelectedType DEF Register
        <4> QED
          BY <2>15, <4>1 DEF Register
      <3> QED
        BY <2>15, <3>1 DEF Register, Dereference, poolVars, netVars
    <2> QED
      BY <1>8, <2>1, <2>2, <2>3, <2>4, <2>5, <2>6, <2>7, <2>8, <2>9, <2>10,
         <2>11, <2>12, <2>13, <2>14, <2>15 DEF AcquireStep
  <1>9. CASE UNCHANGED vars
    BY <1>9 DEF vars
  <1> QED
    BY <1>1, <1>2, <1>3, <1>4, <1>5, <1>6, <1>7, <1>8, <1>9 DEF Next

\* The type invariant of ConnectionPool, for all values of its constants.
THEOREM TypeCorrect == Spec => []TypeOK
  <1>1. TypeInv => TypeOK
    BY DEF TypeInv
  <1> QED
    BY <1>1, TypeInit, TypeStep, PTL DEF Spec

-----------------------------------------------------------------------------
(***************************************************************************)
(* The overshoot of max_connections.  Counting the connects under way      *)
(* makes the bound inductive: Decide adds one only below max_connections,  *)
(* and Push trades one for an entry.                                       *)
(***************************************************************************)
\* At most all threads are connecting, and their number is a natural number.
LEMMA ConnectingFinite ==
    /\ IsFiniteSet(Connecting) /\ Cardinality(Connecting) \in Nat
    /\ Cardinality(Threads) \in Nat /\ Cardinality(Threads) >= 1
    /\ Cardinality(Connecting) <= Cardinality(Threads)
  <1>1. Connecting \subseteq Threads
    BY DEF Connecting
  <1>2. IsFiniteSet(Connecting) /\ Cardinality(Connecting) <= Cardinality(Threads)
    BY <1>1, PoolAssumption, FS_Subset
  <1>3. Cardinality(Threads) \in Nat /\ Cardinality(Connecting) \in Nat
    BY <1>2, PoolAssumption, FS_CardinalityType
  <1>4. Cardinality(Threads) # 0
    BY PoolAssumption, FS_EmptySet
  <1> QED
    BY <1>2, <1>3, <1>4

\* Each step keeps the budget.
LEMMA BudgetStep ==
    TypeInv /\ ConnectBudget /\ [Next]_vars => ConnectBudget'
  <1> SUFFICES ASSUME TypeInv, ConnectBudget, [Next]_vars PROVE ConnectBudget'
    OBVIOUS
  <1>0. /\ Cardinality(Connecting) \in Nat /\ Cardinality(Connecting)' \in Nat
        /\ Cardinality(Connecting)' <= Cardinality(Threads)
        /\ Cardinality(Threads) \in Nat /\ Cardinality(Threads) >= 1
        /\ MaxConnections \in Nat /\ MinConnections <= MaxConnections
        /\ entries \in Seq(Entry) /\ Len(entries) \in Nat
    <2>1. Cardinality(Connecting)' \in Nat
          /\ Cardinality(Connecting)' <= Cardinality(Threads)
      <3>1. Connecting' \subseteq Threads
        BY DEF Connecting
      <3> QED
        BY <3>1, PoolAssumption, FS_Subset, FS_CardinalityType
    <2> QED
      BY <2>1, ConnectingFinite, PoolAssumption DEF TypeInv, TypeOK
  <1>1. CASE Connecting' = Connecting /\ Len(entries') = Len(entries)
    BY <1>0, <1>1 DEF ConnectBudget
  <1>2. CASE PoolCreate
    <2>1. Connecting' = {}
      BY <1>2 DEF PoolCreate, Connecting, TypeInv, TypeOK
    <2>2. Cardinality(Connecting)' = 0
      BY <2>1, FS_EmptySet
    <2>3. Len(entries') = MinConnections
      BY <1>2, PoolAssumption DEF PoolCreate
    <2> QED
      BY <1>0, <2>2, <2>3, PoolAssumption DEF ConnectBudget
  <1>3. CASE PoolDestroy
    <2>1. Connecting' = Connecting /\ Len(entries') = 0
      BY <1>3 DEF PoolDestroy, Connecting
    <2> QED
      BY <1>0, <2>1 DEF ConnectBudget
  <1>4. ASSUME NEW t \in Threads, AcquireStep(t) PROVE ConnectBudget'
    <2> USE DEF TypeInv, TypeOK, Goto, Selecting
    <2>1. CASE Decide(t) /\ Len(entries) < MaxConnections
      <3>1. Len(entries') < MaxConnections /\ Len(entries') \in Nat
        BY <1>0, <2>1 DEF Decide, poolVars
      <3> QED
        BY <1>0, <3>1 DEF ConnectBudget
    <2>2. CASE ConnectFail(t)
      <3>1. /\ t \in Connecting /\ Connecting' = Connecting \ {t}
            /\ entries' = entries
        BY <2>2 DEF ConnectFail, Return, Connecting, poolVars
      <3>2. Cardinality(Connecting') = Cardinality(Connecting) - 1
        BY <3>1, ConnectingFinite, FS_RemoveElement
      <3> QED
        BY <1>0, <3>1, <3>2 DEF ConnectBudget
    <2>3. CASE Push(t)
      <3>1. t \in Connecting /\ Connecting' = Connecting \ {t}
        BY <2>3 DEF Push, Connecting
      <3>2. Cardinality(Connecting') = Cardinality(Connecting) - 1
        BY <3>1, ConnectingFinite, FS_RemoveElement
      <3>3. [conn |-> conn[t], in_use |-> TRUE] \in Entry
        BY DEF Entry
      <3>4. Len(entries') = Len(entries) + 1
        BY <1>0, <2>3, <3>3, PushBack DEF Push
      <3> QED
        BY <1>0, <3>2, <3>4 DEF ConnectBudget
    <2>4. CASE SelectIdle(t)
      <3>1. Len(entries') = Len(entries)
        BY <2>4, SetInUse DEF SelectIdle
      <3> QED
        BY <1>1, <2>4, <3>1 DEF SelectIdle, Connecting
    <2>5. CASE ReconnectOk(t)
      <3>1. PICK c \in Fresh : StoreConn(t, c)
        BY <2>5 DEF ReconnectOk
      <3>2. Len(entries') = Len(entries)
        BY <2>5, <3>1, StoresTyped DEF ReconnectOk, Fresh
      <3> QED
        BY <1>1, <2>5, <3>2 DEF ReconnectOk, Connecting
    <2>6. CASE ReconnectFail(t)
      <3>1. Len(entries') = Len(entries)
        BY <2>6, StoresTyped DEF ReconnectFail
      <3> QED
        BY <1>1, <2>6, <3>1 DEF ReconnectFail, Connecting
    <2>7. CASE GiveUp(t)
      <3>1. Len(entries') = Len(entries)
        BY <2>7, StoresTyped DEF GiveUp
      <3> QED
        BY <1>1, <2>7, <3>1 DEF GiveUp, Return, Connecting
    <2>8. CASE \/ NoneIdle(t) \/ Test(t) \/ CheckoutOk(t) \/ CheckoutBroken(t)
               \/ Register(t) \/ (Decide(t) /\ ~(Len(entries) < MaxConnections))
               \/ ConnectOk(t) \/ TimedOut(t) \/ Sleep(t)
      <3>1. PICK to \in PcValues :
              /\ pc' = [pc EXCEPT ![t] = to] /\ entries' = entries
              /\ (pc[t] \in {"connect", "push"}) <=> (to \in {"connect", "push"})
        BY <2>8 DEF NoneIdle, Test, CheckoutOk, CheckoutBroken, Register, Decide,
           ConnectOk, TimedOut, Sleep, Return, poolVars, PcValues
      <3> QED
        BY <1>1, <3>1 DEF Connecting
    <2> QED
      BY <1>4, <2>1, <2>2, <2>3, <2>4, <2>5, <2>6, <2>7, <2>8 DEF AcquireStep
  <1>5. ASSUME NEW t \in Threads, Release(t) PROVE ConnectBudget'
    <2>1. Len(entries') = Len(entries)
      BY <1>5, SetInUse DEF Release, Storing, TypeInv, TypeOK
    <2> QED
      BY <1>1, <1>5, <2>1 DEF Release, Goto, Connecting, TypeInv, TypeOK
  <1>6. ASSUME NEW t \in Threads, Acquire(t) \/ UseTxn(t) PROVE ConnectBudget'
    BY <1>1, <1>6 DEF Acquire, UseTxn, Goto, Connecting, poolVars, TypeInv, TypeOK
  <1>7. CASE PoolCreateFail \/ ServerDrops \/ UNCHANGED vars
    BY <1>1, <1>7 DEF PoolCreateFail, ServerDrops, vars, poolVars, Connecting
  <1> QED
    BY <1>2, <1>3, <1>4, <1>5, <1>6, <1>7 DEF Next

\* However the threads race between the comparison with max_connections and
\* the push_back, the vector never has more than
\* max_connections + (number of threads) - 1 entries.
THEOREM OvershootBounded == Spec => []OvershootBound
  <1>1. Init => ConnectBudget
    <2> SUFFICES ASSUME Init PROVE ConnectBudget
      OBVIOUS
    <2>1. Connecting = {} /\ Len(entries) = 0
      BY DEF Init, Connecting
    <2>2. Cardinality(Connecting) = 0
      BY <2>1, FS_EmptySet
    <2> QED
      BY <2>1, <2>2, ConnectingFinite, PoolAssumption DEF ConnectBudget
  <1>2. TypeInv /\ ConnectBudget => OvershootBound
    <2> SUFFICES ASSUME TypeInv, ConnectBudget PROVE OvershootBound
      OBVIOUS
    <2>1. Len(entries) \in Nat
      BY DEF TypeInv, TypeOK
    <2> QED
      BY <2>1, ConnectingFinite, PoolAssumption DEF ConnectBudget, OvershootBound
  <1> QED
    BY <1>1, <1>2, BudgetStep, TypeInit, TypeStep, PTL DEF Spec

-----------------------------------------------------------------------------
(***************************************************************************)
(* Who owns a handle while the pool is intact.  LeaseExclusive speaks of   *)
(* threads that hold a lease; it is preserved only because Ownership also  *)
(* ties the entries of the vector, and the threads half-way through        *)
(* sb_pool_acquire, to the handles.  That a new connection's address is    *)
(* held by nobody needs both that what is held is open and, for a handle   *)
(* that is being replaced, that its entry still stores it.                 *)
(***************************************************************************)
\* A step that leaves the vector alone, closes nothing and gives no thread a
\* handle it did not have.
LEMMA OwnedKept ==
    ASSUME Owned, entries' = entries, open \subseteq open',
           \A u \in Threads :
              /\ Holding(u)' => Holding(u) /\ conn'[u] = conn[u]
              /\ Selecting(u)' => /\ Selecting(u) /\ sel'[u] = sel[u]
                                 /\ conn'[u] = conn[u]
              /\ pc'[u] = "push" <=> pc[u] = "push"
              /\ pc'[u] = "reconnect" <=> pc[u] = "reconnect"
              /\ pc[u] = "reconnect" => sel'[u] = sel[u]
              /\ pc'[u] = "using" => Storing(conn[u]) # {} /\ conn'[u] = conn[u]
    PROVE  Owned'
  <1>1. OneHolder' /\ HeldOpen'
    BY DEF Owned, OneHolder, HeldOpen
  <1>2. EntriesDistinct' /\ EntriesOpen'
    BY DEF Owned, EntriesDistinct, EntriesOpen
  <1>3. HeldInUse' /\ LeaseStored'
    BY DEF Owned, HeldInUse, LeaseStored, Storing
  <1>4. SelectedOwn' /\ SelectedDistinct'
    BY DEF Owned, SelectedOwn, SelectedDistinct
  <1> QED
    BY <1>1, <1>2, <1>3, <1>4 DEF Owned

\* Where the pool is intact, what is read through `selected` is the handle
\* the thread chose, and no thread that uses the pointer has lost its vector.
LEMMA SelectedIsOwn ==
    ASSUME TypeInv, Owned, NEW t \in Threads, Selecting(t), t \notin dangling
    PROVE  /\ Selected(t) = {conn[t]} /\ sel[t] \in Storing(conn[t])
           /\ sel[t] \in 1..Len(entries)
  BY DEF TypeInv, Owned, SelectedOwn, Selected, Storing

\* A pool that is not intact never becomes intact again.
LEMMA IntactStays == [Next]_vars /\ intact' => intact
  BY DEF Next, AcquireStep, vars, PoolCreate, PoolCreateFail, PoolDestroy, ServerDrops,
     Acquire, Release, UseTxn, SelectIdle, NoneIdle, Test, CheckoutOk, CheckoutBroken,
     ReconnectOk, ReconnectFail, GiveUp, Register, Decide, ConnectOk, ConnectFail, Push,
     TimedOut, Sleep, Dereference, ghostVars

\* Each step keeps the ownership of handles.
LEMMA OwnershipStep == TypeInv /\ Ownership /\ [Next]_vars => Ownership'
  <1> SUFFICES ASSUME TypeInv, Ownership, [Next]_vars, intact' PROVE Owned'
    BY DEF Ownership
  <1>0. /\ entries \in Seq(Entry) /\ Len(entries) \in Nat
        /\ open \subseteq Handles /\ NoConn \notin Handles
        /\ pc \in [Threads -> PcValues] /\ sel \in [Threads -> Nat]
        /\ conn \in [Threads -> Handles \cup {NoConn}]
        /\ \A t \in Threads : Selecting(t) => sel[t] \in 1..Len(entries)
        /\ ~exists => \A t \in Threads : pc[t] = "idle"
    BY PoolAssumption DEF TypeInv, TypeOK
  <1>i. intact /\ Owned
    BY IntactStays DEF Ownership
  <1> DEFINE Parts == /\ OneHolder' /\ HeldOpen' /\ EntriesDistinct' /\ EntriesOpen'
                      /\ HeldInUse' /\ LeaseStored' /\ SelectedOwn'
                      /\ SelectedDistinct'
  <1>p. Parts => Owned'
    BY DEF Owned
  <1> HIDE DEF Parts
  <1>1. CASE PoolCreate
    <2>1. PICK hs \in [1..MinConnections -> Fresh] :
            /\ \A i, j \in 1..MinConnections : hs[i] = hs[j] => i = j
            /\ entries' = [i \in 1..MinConnections |->
                              [conn |-> hs[i], in_use |-> FALSE]]
            /\ open' = open \cup {hs[i] : i \in 1..MinConnections}
      BY <1>1 DEF PoolCreate
    <2>2. Len(entries') = MinConnections
      BY <2>1, PoolAssumption
    <2>3. \A u \in Threads : pc'[u] = "idle"
      BY <1>0, <1>1 DEF PoolCreate
    <2>4. EntriesDistinct' /\ EntriesOpen'
      <3>1. \A i \in 1..MinConnections :
               entries'[i].conn = hs[i] /\ hs[i] \in open'
        BY <2>1
      <3> QED
        <4>1. EntriesDistinct'
          BY <2>1, <2>2, <3>1 DEF EntriesDistinct
        <4>2. EntriesOpen'
          BY <2>2, <3>1 DEF EntriesOpen
        <4> QED
          BY <4>1, <4>2
    <2>5. /\ OneHolder' /\ HeldOpen' /\ HeldInUse' /\ LeaseStored' /\ SelectedOwn'
          /\ SelectedDistinct'
      BY <2>3 DEF OneHolder, HeldOpen, HeldInUse, LeaseStored, SelectedOwn,
         SelectedDistinct, Holding, Selecting
    <2> QED
      BY <1>p, <2>4, <2>5 DEF Parts
  <1>2. CASE PoolDestroy
    <2>1. entries' = <<>> /\ \A u \in Threads : pc'[u] = "idle"
      BY <1>2 DEF PoolDestroy
    <2>2. EntriesDistinct' /\ EntriesOpen'
      BY <2>1 DEF EntriesDistinct, EntriesOpen
    <2>3. /\ OneHolder' /\ HeldOpen' /\ HeldInUse' /\ LeaseStored' /\ SelectedOwn'
          /\ SelectedDistinct'
      BY <2>1 DEF OneHolder, HeldOpen, HeldInUse, LeaseStored, SelectedOwn,
         SelectedDistinct, Holding, Selecting
    <2> QED
      BY <1>p, <2>2, <2>3 DEF Parts
  <1>3. CASE PoolCreateFail \/ ServerDrops \/ UNCHANGED vars
    <2>1. UNCHANGED <<entries, open, pc, sel, conn>>
      BY <1>3 DEF PoolCreateFail, ServerDrops, vars, poolVars, netVars
    <2> QED
      BY <1>i, <2>1, OwnedKept DEF Holding, Selecting, Owned, LeaseStored
  <1>4. ASSUME NEW t \in Threads, UseTxn(t) PROVE Owned'
    <2>1. UNCHANGED <<entries, open, pc, sel, conn>>
      BY <1>4 DEF UseTxn, poolVars
    <2> QED
      BY <1>i, <2>1, OwnedKept DEF Holding, Selecting, Owned, LeaseStored
  <1>5. ASSUME NEW t \in Threads, NEW to \in {"idle", "scan", "decide", "connect", "wait"},
               pc[t] \in {"idle", "scan", "decide", "connect", "wait"},
               pc' = [pc EXCEPT ![t] = to], UNCHANGED <<entries, open>>,
               \A u \in Threads : u # t => conn'[u] = conn[u] /\ sel'[u] = sel[u]
        PROVE  Owned'
    BY <1>0, <1>i, <1>5, OwnedKept DEF Holding, Selecting, Owned, LeaseStored
  <1>6. ASSUME NEW t \in Threads, NEW to \in {"test", "checkout", "broken", "using"},
               pc[t] \in {"test", "checkout", "stored"}, t \notin dangling,
               conn[t] # NoConn, pc' = [pc EXCEPT ![t] = to],
               UNCHANGED <<entries, open, conn>>,
               \A u \in Threads : u # t \/ to # "using" => sel'[u] = sel[u]
        PROVE  Owned'
    <2>1. Holding(t) /\ Selecting(t) /\ Storing(conn[t]) # {}
      BY <1>6, <1>i, SelectedIsOwn DEF Holding, Selecting
    <2> QED
      BY <1>0, <1>i, <1>6, <2>1, OwnedKept DEF Holding, Selecting, Owned, LeaseStored
  <1>7. ASSUME NEW t \in Threads, Acquire(t) PROVE Owned'
    BY <1>5, <1>7 DEF Acquire, Goto, poolVars, netVars
  <1>8. ASSUME NEW t \in Threads, Release(t) PROVE Owned'
    <2>0. /\ pc[t] = "using" /\ pc' = [pc EXCEPT ![t] = "idle"]
          /\ conn' = [conn EXCEPT ![t] = NoConn] /\ UNCHANGED <<open, sel>>
      BY <1>8 DEF Release, Goto, netVars
    <2>1. Holding(t) /\ conn[t] # NoConn
      BY <1>0, <2>0 DEF Holding, TypeInv
    <2>2. PICK i \in 1..Len(entries) :
            entries[i].conn = conn[t] /\ entries' = [entries EXCEPT ![i].in_use = FALSE]
      <3>1. Storing(conn[t]) # {}
        BY <1>i, <2>0 DEF Owned, LeaseStored
      <3>2. PICK i \in Storing(conn[t]) : entries' = [entries EXCEPT ![i].in_use = FALSE]
        BY <1>8, <3>1 DEF Release
      <3> QED
        BY <3>2 DEF Storing
    <2>3. /\ Len(entries') = Len(entries)
          /\ \A j \in 1..Len(entries) :
                /\ entries'[j].conn = entries[j].conn
                /\ j # i /\ entries[j].in_use => entries'[j].in_use
      BY <1>0, <2>2, SetInUse
    <2>4. \A u \in Threads :
             /\ u # t => pc'[u] = pc[u] /\ conn'[u] = conn[u] /\ sel'[u] = sel[u]
             /\ pc'[t] = "idle"
             /\ u # t /\ Holding(u) => conn[u] # conn[t]
      BY <1>0, <1>i, <2>0, <2>1 DEF Owned, OneHolder
    <2>5. \A u \in Threads : /\ Holding(u)' => u # t /\ Holding(u)
                             /\ Selecting(u)' => u # t /\ Selecting(u)
      BY <2>4 DEF Holding, Selecting
    <2>6. OneHolder' /\ HeldOpen'
      BY <1>i, <2>0, <2>4, <2>5 DEF Owned, OneHolder, HeldOpen
    <2>7. EntriesDistinct' /\ EntriesOpen'
      BY <1>i, <2>0, <2>3, <2>4 DEF Owned, EntriesDistinct, EntriesOpen
    <2>8. HeldInUse'
      BY <1>i, <2>2, <2>3, <2>4, <2>5 DEF Owned, HeldInUse
    <2>9. LeaseStored'
      BY <1>i, <2>3, <2>4 DEF Owned, LeaseStored, Storing
    <2>10. SelectedOwn'
      <3> SUFFICES ASSUME NEW u \in Threads, Selecting(u)'
                   PROVE  entries'[sel'[u]].in_use /\ entries'[sel'[u]].conn = conn'[u]
        BY DEF SelectedOwn
      <3>1. u # t /\ Selecting(u) /\ sel'[u] = sel[u] /\ conn'[u] = conn[u]
        BY <2>4, <2>5
      <3>2. /\ entries[sel[u]].in_use /\ entries[sel[u]].conn = conn[u]
            /\ sel[u] \in 1..Len(entries)
        BY <1>0, <1>i, <3>1 DEF Owned, SelectedOwn
      <3>3. sel[u] # i
        BY <2>1, <2>2, <2>4, <3>1, <3>2 DEF Holding
      <3> QED
        BY <2>3, <3>1, <3>2, <3>3
    <2>11. SelectedDistinct'
      BY <1>i, <2>4, <2>5 DEF Owned, SelectedDistinct
    <2> QED
      BY <1>p, <2>6, <2>7, <2>8, <2>9, <2>10, <2>11 DEF Parts
  <1>9. ASSUME NEW t \in Threads, SelectIdle(t) PROVE Owned'
    <2>1. PICK i \in 1..Len(entries), to \in {"test", "checkout"} :
            /\ Idle(i)
            /\ entries' = [entries EXCEPT ![i].in_use = TRUE]
            /\ sel' = [sel EXCEPT ![t] = i]
            /\ conn' = [conn EXCEPT ![t] = entries[i].conn]
            /\ pc[t] = "scan" /\ pc' = [pc EXCEPT ![t] = to] /\ open' = open
      BY <1>9 DEF SelectIdle, Goto, netVars
    <2>2. /\ Len(entries') = Len(entries)
          /\ \A j \in 1..Len(entries) :
                /\ entries'[j].conn = entries[j].conn
                /\ entries[j].in_use => entries'[j].in_use
          /\ entries'[i].in_use
      BY <1>0, <2>1, SetInUse
    <2>3. /\ conn'[t] = entries[i].conn /\ conn'[t] # NoConn /\ sel'[t] = i
          /\ pc'[t] \in {"test", "checkout"}
          /\ \A u \in Threads :
                u # t => pc'[u] = pc[u] /\ conn'[u] = conn[u] /\ sel'[u] = sel[u]
      BY <1>0, <2>1 DEF Idle
    <2>4. \A u \in Threads :
             u # t => /\ Holding(u)' <=> Holding(u)
                      /\ Selecting(u)' <=> Selecting(u)
                      /\ Holding(u) => conn[u] # conn'[t]
                      /\ Selecting(u) => sel[u] # i
      BY <1>i, <2>1, <2>3
      DEF Owned, HeldInUse, SelectedOwn, Idle, Holding, Selecting
    <2>5. \A u \in Threads : pc[u] = "reconnect" => u # t /\ sel[u] # i
      BY <2>1, <2>4 DEF Selecting
    <2>6. conn'[t] \in open
      BY <1>i, <2>3, <2>5 DEF Owned, EntriesOpen
    <2>7. OneHolder' /\ HeldOpen'
      BY <1>i, <2>1, <2>3, <2>4, <2>6 DEF Owned, OneHolder, HeldOpen
    <2>8. EntriesDistinct' /\ EntriesOpen'
      BY <1>i, <2>1, <2>2, <2>3, <2>5 DEF Owned, EntriesDistinct, EntriesOpen
    <2>9. HeldInUse'
      <3> SUFFICES ASSUME NEW u \in Threads, NEW j \in 1..Len(entries),
                          Holding(u)', entries'[j].conn = conn'[u]
                   PROVE  entries'[j].in_use /\ pc'[u] # "push"
        BY <2>2 DEF HeldInUse
      <3>1. CASE u = t
        BY <1>i, <2>2, <2>3, <3>1 DEF Owned, EntriesDistinct
      <3>2. CASE u # t
        BY <1>i, <2>2, <2>3, <2>4, <3>2 DEF Owned, HeldInUse
      <3> QED
        BY <3>1, <3>2
    <2>10. LeaseStored'
      BY <1>i, <2>2, <2>3 DEF Owned, LeaseStored, Storing
    <2>11. SelectedOwn'
      <3> SUFFICES ASSUME NEW u \in Threads, Selecting(u)'
                   PROVE  entries'[sel'[u]].in_use /\ entries'[sel'[u]].conn = conn'[u]
        BY DEF SelectedOwn
      <3>1. CASE u = t
        BY <2>2, <2>3, <3>1
      <3>2. CASE u # t
        BY <1>0, <1>i, <2>2, <2>3, <2>4, <3>2 DEF Owned, SelectedOwn
      <3> QED
        BY <3>1, <3>2
    <2>12. SelectedDistinct'
      BY <1>i, <2>3, <2>4 DEF Owned, SelectedDistinct
    <2> QED
      BY <1>p, <2>7, <2>8, <2>9, <2>10, <2>11, <2>12 DEF Parts
  <1>10. ASSUME NEW t \in Threads,
                NoneIdle(t) \/ Decide(t) \/ Sleep(t) \/ ConnectFail(t) \/ TimedOut(t)
         PROVE  Owned'
    <2>1. CASE NoneIdle(t) \/ Decide(t) \/ Sleep(t)
      <3>1. PICK to \in {"idle", "scan", "decide", "connect", "wait"} :
              /\ pc[t] \in {"idle", "scan", "decide", "connect", "wait"}
              /\ pc' = [pc EXCEPT ![t] = to] /\ UNCHANGED <<entries, open, conn, sel>>
        BY <2>1 DEF NoneIdle, Decide, Sleep, Goto, poolVars, netVars
      <3> QED
        BY <1>5, <3>1
    <2>2. CASE ConnectFail(t) \/ TimedOut(t)
      <3>1. /\ pc[t] \in {"idle", "scan", "decide", "connect", "wait"}
            /\ pc' = [pc EXCEPT ![t] = "idle"] /\ UNCHANGED <<entries, open>>
            /\ \A u \in Threads : u # t => conn'[u] = conn[u] /\ sel'[u] = sel[u]
        BY <1>0, <2>2 DEF ConnectFail, TimedOut, Return, Goto, poolVars, netVars
      <3> QED
        BY <1>5, <3>1
    <2> QED
      BY <1>10, <2>1, <2>2
  <1>11. ASSUME NEW t \in Threads, Test(t) \/ CheckoutOk(t) \/ Register(t)
         PROVE  Owned'
    <2>1. /\ t \notin dangling /\ Selecting(t) /\ UNCHANGED <<entries, open>>
          /\ pc[t] \in {"test", "checkout", "stored"}
      BY <1>11 DEF Test, CheckoutOk, Register, Dereference, Selecting, poolVars, netVars
    <2>2. Selected(t) = {conn[t]}
      BY <1>i, <2>1, SelectedIsOwn
    <2>3. CASE Test(t)
      <3>1. conn[t] # NoConn
        BY <1>0, <2>3 DEF Test, TypeInv
      <3>2. PICK to \in {"checkout", "broken"} : pc' = [pc EXCEPT ![t] = to]
        BY <2>3 DEF Test, Goto
      <3> QED
        BY <1>6, <2>1, <2>3, <3>1, <3>2 DEF Test
    <2>4. CASE CheckoutOk(t)
      <3>1. conn[t] # NoConn
        BY <1>0, <2>4 DEF CheckoutOk, TypeInv
      <3>2. Return(t, "using", conn[t])
        BY <2>2, <2>4, <3>1 DEF CheckoutOk
      <3>3. /\ pc' = [pc EXCEPT ![t] = "using"] /\ conn' = conn
            /\ \A u \in Threads : u # t => sel'[u] = sel[u]
        BY <1>0, <3>2 DEF Return, Goto
      <3> QED
        BY <1>6, <2>1, <3>1, <3>3
    <2>5. CASE Register(t)
      <3>1. /\ conn[t] # NoConn /\ pc' = [pc EXCEPT ![t] = "checkout"]
            /\ conn' = [conn EXCEPT ![t] = conn[t]] /\ sel' = sel
        BY <2>2, <2>5 DEF Register, Goto
      <3>2. conn' = conn
        BY <1>0, <3>1
      <3> QED
        BY <1>6, <2>1, <3>1, <3>2
    <2> QED
      BY <1>11, <2>3, <2>4, <2>5
  <1>12. ASSUME NEW t \in Threads, CheckoutBroken(t) PROVE Owned'
    <2>1. /\ t \notin dangling /\ Selecting(t) /\ UNCHANGED <<entries, conn, sel>>
          /\ pc[t] = "broken" /\ pc' = [pc EXCEPT ![t] = "reconnect"]
      BY <1>12 DEF CheckoutBroken, Dereference, Selecting, Goto, poolVars
    <2>2. open' = open \ {conn[t]} /\ sel[t] \in Storing(conn[t])
      BY <1>12, <1>i, <2>1, SelectedIsOwn DEF CheckoutBroken, Disconnect
    <2>3. conn[t] # NoConn /\ Holding(t)
      BY <1>0, <2>1 DEF TypeInv, Holding
    <2>4. \A u \in Threads : /\ Holding(u)' <=> Holding(u)
                             /\ Selecting(u)' <=> Selecting(u)
                             /\ pc'[u] = "push" <=> pc[u] = "push"
                             /\ pc'[u] = "using" <=> pc[u] = "using"
                             /\ pc'[u] = "reconnect" <=> u = t \/ pc[u] = "reconnect"
      BY <1>0, <2>1 DEF Holding, Selecting
    <2>5. OneHolder'
      BY <1>i, <2>1, <2>4 DEF Owned, OneHolder
    <2>6. HeldOpen'
      BY <1>i, <2>1, <2>2, <2>3, <2>4 DEF Owned, OneHolder, HeldOpen
    <2>7. EntriesDistinct'
      BY <1>i, <2>1 DEF Owned, EntriesDistinct
    <2>8. EntriesOpen'
      <3> SUFFICES ASSUME NEW i \in 1..Len(entries)
                   PROVE  \/ entries[i].conn \in open' \cup {NoConn}
                          \/ \E u \in Threads : pc'[u] = "reconnect" /\ sel[u] = i
        BY <2>1 DEF EntriesOpen
      <3>1. CASE entries[i].conn = conn[t]
        <4>1. i = sel[t]
          BY <1>i, <2>2, <2>3, <3>1 DEF Owned, EntriesDistinct, Storing
        <4> QED
          BY <2>4, <4>1
      <3>2. CASE entries[i].conn # conn[t]
        BY <1>i, <2>2, <2>4, <3>2 DEF Owned, EntriesOpen
      <3> QED
        BY <3>1, <3>2
    <2>9. HeldInUse' /\ LeaseStored'
      BY <1>i, <2>1, <2>4 DEF Owned, HeldInUse, LeaseStored, Storing
    <2>10. SelectedOwn' /\ SelectedDistinct'
      BY <1>i, <2>1, <2>4 DEF Owned, SelectedOwn, SelectedDistinct
    <2> QED
      BY <1>p, <2>5, <2>6, <2>7, <2>8, <2>9, <2>10 DEF Parts
  <1>13. ASSUME NEW t \in Threads, GiveUp(t) PROVE Owned'
    <2>1. /\ t \notin dangling /\ Selecting(t) /\ open' = open
          /\ pc[t] = "stored" /\ pc' = [pc EXCEPT ![t] = "idle"]
          /\ entries' = [entries EXCEPT ![sel[t]].in_use = FALSE]
          /\ NoConn \in Selected(t)
          /\ \A u \in Threads : u # t => conn'[u] = conn[u] /\ sel'[u] = sel[u]
      BY <1>0, <1>13
      DEF GiveUp, Dereference, StoreAvailable, Return, Selecting, Goto, netVars
    <2>2. /\ conn[t] = NoConn /\ sel[t] \in 1..Len(entries)
          /\ entries[sel[t]].conn = NoConn
      BY <1>i, <2>1, SelectedIsOwn DEF Storing
    <2>3. /\ Len(entries') = Len(entries)
          /\ \A j \in 1..Len(entries) :
                /\ entries'[j].conn = entries[j].conn
                /\ j # sel[t] /\ entries[j].in_use => entries'[j].in_use
      BY <1>0, <2>1, <2>2, SetInUse
    <2>4. \A u \in Threads :
             /\ Holding(u)' => u # t /\ Holding(u)
             /\ Selecting(u)' => u # t /\ Selecting(u) /\ sel[u] # sel[t]
             /\ u # t => pc'[u] = pc[u]
             /\ pc'[t] = "idle"
      BY <1>0, <1>i, <2>1 DEF Holding, Selecting, Owned, SelectedDistinct
    <2>5. OneHolder' /\ HeldOpen'
      BY <1>i, <2>1, <2>4 DEF Owned, OneHolder, HeldOpen
    <2>6. EntriesDistinct' /\ EntriesOpen'
      BY <1>i, <2>1, <2>3, <2>4 DEF Owned, EntriesDistinct, EntriesOpen
    <2>7. HeldInUse'
      BY <1>i, <2>1, <2>2, <2>3, <2>4 DEF Owned, HeldInUse, Holding
    <2>8. LeaseStored'
      BY <1>i, <2>1, <2>3, <2>4 DEF Owned, LeaseStored, Storing
    <2>9. SelectedOwn' /\ SelectedDistinct'
      BY <1>0, <1>i, <2>1, <2>3, <2>4 DEF Owned, SelectedOwn, SelectedDistinct
    <2> QED
      BY <1>p, <2>5, <2>6, <2>7, <2>8, <2>9 DEF Parts
  <1>14. ASSUME NEW t \in Threads, ConnectOk(t) PROVE Owned'
    <2>1. PICK c \in Handles \ open :
            /\ open' = open \cup {c} /\ conn' = [conn EXCEPT ![t] = c]
            /\ Storing(c) = {}
      BY <1>14 DEF ConnectOk, Fresh
    <2>2. /\ UNCHANGED <<entries, sel>> /\ pc[t] = "connect"
          /\ pc' = [pc EXCEPT ![t] = "push"]
      BY <1>14 DEF ConnectOk, Goto, poolVars
    <2>3. /\ conn'[t] = c /\ c # NoConn /\ pc'[t] = "push"
          /\ \A u \in Threads : u # t => conn'[u] = conn[u] /\ pc'[u] = pc[u]
      BY <1>0, <2>1, <2>2
    <2>4. \A u \in Threads : Holding(u) => conn[u] # c
      <3> SUFFICES ASSUME NEW u \in Threads, Holding(u) PROVE conn[u] # c
        OBVIOUS
      <3>1. CASE pc[u] = "reconnect"
        BY <1>0, <1>i, <2>1, <3>1 DEF Owned, SelectedOwn, Selecting, Storing
      <3>2. CASE pc[u] # "reconnect"
        BY <1>i, <2>1, <3>2 DEF Owned, HeldOpen
      <3> QED
        BY <3>1, <3>2
    <2>5. \A u \in Threads : /\ u # t => (Holding(u)' <=> Holding(u))
                             /\ Selecting(u)' <=> u # t /\ Selecting(u)
      BY <2>2, <2>3 DEF Holding, Selecting
    <2>6. OneHolder' /\ HeldOpen'
      BY <1>i, <2>1, <2>3, <2>4, <2>5 DEF Owned, OneHolder, HeldOpen
    <2>7. EntriesDistinct' /\ EntriesOpen'
      BY <1>i, <2>1, <2>2, <2>3 DEF Owned, EntriesDistinct, EntriesOpen
    <2>8. HeldInUse'
      BY <1>i, <2>1, <2>2, <2>3, <2>5 DEF Owned, HeldInUse, Storing
    <2>9. LeaseStored'
      BY <1>i, <2>2, <2>3 DEF Owned, LeaseStored, Storing
    <2>10. SelectedOwn' /\ SelectedDistinct'
      BY <1>i, <2>2, <2>3, <2>5 DEF Owned, SelectedOwn, SelectedDistinct
    <2> QED
      BY <1>p, <2>6, <2>7, <2>8, <2>9, <2>10 DEF Parts
  <1>15. ASSUME NEW t \in Threads, Push(t) PROVE Owned'
    <2> DEFINE e == [conn |-> conn[t], in_use |-> TRUE]
               n == Len(entries) + 1
    <2>1. /\ pc[t] = "push" /\ pc' = [pc EXCEPT ![t] = "using"]
          /\ UNCHANGED <<open, sel, conn>> /\ entries' = Append(entries, e)
      BY <1>15 DEF Push, Goto, netVars
    <2>2. e \in Entry /\ e.conn = conn[t] /\ e.in_use = TRUE
      BY <1>0 DEF Entry
    <2>3. conn[t] # NoConn /\ Holding(t) /\ conn[t] \in open
      BY <1>0, <1>i, <2>1 DEF TypeInv, Holding, Owned, HeldOpen
    <2> HIDE DEF e
    <2>4. /\ Len(entries') = n /\ n \in 1..n /\ n \notin 1..Len(entries)
          /\ 1..n = (1..Len(entries)) \cup {n}
          /\ \A j \in 1..Len(entries) : entries'[j] = entries[j]
          /\ entries'[n].conn = conn[t] /\ entries'[n].in_use
      BY <1>0, <2>1, <2>2, PushBack
    <2> HIDE DEF n
    <2>5. \A u \in Threads : /\ Holding(u)' <=> Holding(u)
                             /\ Selecting(u)' <=> Selecting(u)
                             /\ pc'[u] = "push" <=> u # t /\ pc[u] = "push"
                             /\ pc'[u] = "using" <=> u = t \/ pc[u] = "using"
                             /\ pc'[u] = "reconnect" <=> pc[u] = "reconnect"
      BY <1>0, <2>1 DEF Holding, Selecting
    <2>6. \A j \in 1..Len(entries) : entries[j].conn # conn[t]
      BY <1>i, <2>1, <2>3 DEF Owned, HeldInUse
    <2>7. OneHolder' /\ HeldOpen'
      BY <1>i, <2>1, <2>3, <2>5 DEF Owned, OneHolder, HeldOpen
    <2>8. EntriesDistinct' /\ EntriesOpen'
      BY <1>i, <2>1, <2>3, <2>4, <2>5, <2>6 DEF Owned, EntriesDistinct, EntriesOpen
    <2>9. HeldInUse'
      BY <1>i, <2>1, <2>3, <2>4, <2>5 DEF Owned, HeldInUse, OneHolder
    <2>10. LeaseStored'
      <3> SUFFICES ASSUME NEW u \in Threads, pc'[u] = "using"
                   PROVE  \E j \in 1..n : entries'[j].conn = conn[u]
        BY <2>1, <2>4 DEF LeaseStored, Storing
      <3>1. CASE u = t
        BY <2>4, <3>1
      <3>2. CASE u # t
        BY <1>i, <2>4, <2>5, <3>2 DEF Owned, LeaseStored, Storing
      <3> QED
        BY <3>1, <3>2
    <2>11. SelectedOwn' /\ SelectedDistinct'
      BY <1>0, <1>i, <2>1, <2>4, <2>5 DEF Owned, SelectedOwn, SelectedDistinct
    <2> QED
      BY <1>p, <2>7, <2>8, <2>9, <2>10, <2>11 DEF Parts
  <1>16. ASSUME NEW t \in Threads, ReconnectOk(t) \/ ReconnectFail(t) PROVE Owned'
    <2>1. PICK c \in (Handles \ open) \cup {NoConn} :
            /\ open' = open \cup ({c} \ {NoConn}) /\ StoreConn(t, c)
            /\ conn' = [conn EXCEPT ![t] = c]
            /\ c # NoConn => Storing(c) \subseteq {sel[t]}
      <3>1. CASE ReconnectOk(t)
        BY <1>0, <3>1 DEF ReconnectOk, Fresh
      <3>2. CASE ReconnectFail(t)
        BY <3>2 DEF ReconnectFail, netVars
      <3> QED
        BY <1>16, <3>1, <3>2
    <2>2. /\ t \notin dangling /\ pc[t] = "reconnect" /\ sel' = sel
          /\ pc' = [pc EXCEPT ![t] = "stored"]
      BY <1>16 DEF ReconnectOk, ReconnectFail, Dereference, Goto
    <2>3. /\ Selecting(t) /\ Holding(t) /\ sel[t] \in 1..Len(entries)
          /\ entries[sel[t]].in_use /\ entries[sel[t]].conn = conn[t]
      BY <1>0, <1>i, <2>2 DEF TypeInv, Holding, Selecting, Owned, SelectedOwn
    <2>4. /\ Len(entries') = Len(entries)
          /\ \A j \in 1..Len(entries) :
                /\ entries[j].in_use => entries'[j].in_use
                /\ j # sel[t] => entries'[j].conn = entries[j].conn
          /\ entries'[sel[t]].conn = c
      <3>1. /\ entries' = [entries EXCEPT ![sel[t]].conn = c]
            /\ c \in Handles \cup {NoConn}
        BY <2>1, <2>2 DEF StoreConn
      <3> QED
        BY <1>0, <2>3, <3>1, SetConn
    <2>5. /\ conn'[t] = c /\ pc'[t] = "stored"
          /\ \A u \in Threads : u # t => conn'[u] = conn[u] /\ pc'[u] = pc[u]
      BY <1>0, <2>1, <2>2
    <2>6. \A u \in Threads :
             u # t /\ Selecting(u) => sel[u] # sel[t] /\ sel[u] \in 1..Len(entries)
      BY <1>0, <1>i, <2>3 DEF Owned, SelectedDistinct
    <2>7. \A u \in Threads : u # t /\ Holding(u) => conn[u] # c
      <3> SUFFICES ASSUME NEW u \in Threads, u # t, Holding(u) PROVE conn[u] # c
        OBVIOUS
      <3>1. CASE pc[u] = "reconnect"
        <4>1. Selecting(u) /\ entries[sel[u]].conn = conn[u] /\ conn[u] # NoConn
          BY <1>i, <3>1 DEF Owned, SelectedOwn, Selecting, Holding
        <4> QED
          BY <2>1, <2>6, <4>1 DEF Storing
      <3>2. CASE pc[u] # "reconnect"
        BY <1>i, <2>1, <3>2 DEF Owned, HeldOpen, Holding
      <3> QED
        BY <3>1, <3>2
    <2>8. \A u \in Threads : /\ u # t => (Holding(u)' <=> Holding(u))
                             /\ Selecting(u)' <=> Selecting(u)
                             /\ Holding(t)' => c # NoConn
      BY <2>2, <2>3, <2>5 DEF Holding, Selecting
    <2>9. OneHolder' /\ HeldOpen'
      BY <1>i, <2>1, <2>5, <2>7, <2>8 DEF Owned, OneHolder, HeldOpen
    <2>10. EntriesDistinct'
      <3> SUFFICES ASSUME NEW i \in 1..Len(entries), NEW j \in 1..Len(entries),
                          entries'[i].conn = entries'[j].conn,
                          entries'[i].conn # NoConn
                   PROVE  i = j
        BY <2>4 DEF EntriesDistinct
      <3>1. CASE i = sel[t]
        BY <2>1, <2>4, <3>1 DEF Storing
      <3>2. CASE j = sel[t]
        BY <2>1, <2>4, <3>2 DEF Storing
      <3>3. CASE i # sel[t] /\ j # sel[t]
        BY <1>i, <2>4, <3>3 DEF Owned, EntriesDistinct
      <3> QED
        BY <3>1, <3>2, <3>3
    <2>11. EntriesOpen'
      <3> SUFFICES ASSUME NEW i \in 1..Len(entries)
                   PROVE  \/ entries'[i].conn \in open' \cup {NoConn}
                          \/ \E u \in Threads : pc'[u] = "reconnect" /\ sel[u] = i
        BY <2>2, <2>4 DEF EntriesOpen
      <3>1. CASE i = sel[t]
        BY <2>1, <2>4, <3>1
      <3>2. CASE i # sel[t]
        BY <1>i, <2>1, <2>4, <2>5, <3>2 DEF Owned, EntriesOpen
      <3> QED
        BY <3>1, <3>2
    <2>12. HeldInUse'
      <3> SUFFICES ASSUME NEW u \in Threads, NEW i \in 1..Len(entries),
                          Holding(u)', entries'[i].conn = conn'[u]
                   PROVE  entries'[i].in_use /\ pc'[u] # "push"
        BY <2>4 DEF HeldInUse
      <3>1. CASE u = t
        <4>1. i = sel[t]
          BY <2>1, <2>4, <2>5, <2>8, <3>1 DEF Storing
        <4> QED
          BY <2>3, <2>4, <2>5, <3>1, <4>1
      <3>2. CASE u # t
        <4>1. i # sel[t]
          BY <2>4, <2>5, <2>7, <2>8, <3>2
        <4> QED
          BY <1>i, <2>4, <2>5, <2>8, <3>2, <4>1 DEF Owned, HeldInUse
      <3> QED
        BY <3>1, <3>2
    <2>13. LeaseStored'
      <3> SUFFICES ASSUME NEW u \in Threads, pc'[u] = "using"
                   PROVE  \E j \in 1..Len(entries) : entries'[j].conn = conn'[u]
        BY <2>4 DEF LeaseStored, Storing
      <3>1. u # t /\ pc[u] = "using" /\ conn'[u] = conn[u] /\ Holding(u)
        BY <1>0, <2>5 DEF Holding, TypeInv
      <3>2. PICK j \in 1..Len(entries) : entries[j].conn = conn[u]
        BY <1>i, <3>1 DEF Owned, LeaseStored, Storing
      <3>3. j # sel[t]
        BY <1>i, <2>3, <3>1, <3>2 DEF Owned, OneHolder
      <3> QED
        BY <2>4, <3>1, <3>2, <3>3
    <2>14. SelectedOwn'
      <3> SUFFICES ASSUME NEW u \in Threads, Selecting(u)'
                   PROVE  entries'[sel[u]].in_use /\ entries'[sel[u]].conn = conn'[u]
        BY <2>2 DEF SelectedOwn
      <3>1. CASE u = t
        BY <2>3, <2>4, <2>5, <3>1
      <3>2. CASE u # t
        BY <1>i, <2>4, <2>5, <2>6, <2>8, <3>2 DEF Owned, SelectedOwn
      <3> QED
        BY <3>1, <3>2
    <2>15. SelectedDistinct'
      BY <1>i, <2>2, <2>8 DEF Owned, SelectedDistinct
    <2> QED
      BY <1>p, <2>9, <2>10, <2>11, <2>12, <2>13, <2>14, <2>15 DEF Parts
  <1> QED
    BY <1>1, <1>2, <1>3, <1>4, <1>7, <1>8, <1>9, <1>10, <1>11, <1>12, <1>13, <1>14,
       <1>15, <1>16 DEF Next, AcquireStep

\* Nobody owns anything at the start.
LEMMA OwnershipInit == Init => Ownership
  BY DEF Init, Ownership, Owned, OneHolder, HeldOpen, EntriesDistinct, EntriesOpen,
     HeldInUse, LeaseStored, SelectedOwn, SelectedDistinct, Holding, Selecting

\* Who owns a handle, for all threads, handles and bounds: in an intact pool a
\* handle has one holder, is stored once and is found by its release.
THEOREM OwnershipHolds == Spec => []Ownership
  BY OwnershipInit, OwnershipStep, TypeInit, TypeStep, PTL DEF Spec

\* No interleaving of sb_pool_acquire and sb_pool_release leases a connection
\* to two threads before the pool's memory is mixed up.
THEOREM LeasesExclusive == Spec => []LeaseExclusive
  <1>1. TypeInv /\ Ownership => LeaseExclusive
    BY PoolAssumption
    DEF Ownership, Owned, OneHolder, Holding, LeaseExclusive, TypeInv, TypeOK
  <1> QED
    BY <1>1, OwnershipInit, OwnershipStep, TypeInit, TypeStep, PTL DEF Spec

-----------------------------------------------------------------------------
(***************************************************************************)
(* Leased connections are open and tracked, and freed ones are forgotten.  *)
(* What is open is part of Ownership; what remains is that the table of    *)
(* g_tracking follows it.                                                  *)
(***************************************************************************)
\* The inductive invariant of LeaseUsable and FreedForgotten, with Ownership.
Tracking == LeaseUsable /\ FreedForgotten

\* Each step keeps leased connections tracked and freed ones forgotten.
LEMMA TrackingStep ==
    TypeInv /\ Ownership /\ Ownership' /\ Tracking /\ [Next]_vars => Tracking'
  <1> SUFFICES ASSUME TypeInv, Ownership, Ownership', Tracking, [Next]_vars, intact'
               PROVE  Tracking'
    BY DEF Tracking, LeaseUsable, FreedForgotten
  <1>0. /\ open \subseteq Handles /\ NoConn \notin Handles
        /\ pc \in [Threads -> PcValues]
        /\ conn \in [Threads -> Handles \cup {NoConn}]
        /\ ~exists => \A t \in Threads : pc[t] = "idle"
    BY PoolAssumption DEF TypeInv, TypeOK
  <1>i. intact /\ Owned /\ Owned' /\ tracked \subseteq open /\ ~misused
    BY IntactStays DEF Ownership, Tracking, FreedForgotten
  <1>1. \A u \in Threads : pc'[u] = "using" => conn'[u] \in open'
    <2>1. TypeInv'
      BY TypeStep
    <2> QED
      BY <1>i, <2>1, PoolAssumption DEF TypeInv, Owned, HeldOpen, Holding
  <1>2. \A u \in Threads : pc[u] = "using" => conn[u] \in tracked
    BY <1>i DEF Tracking, LeaseUsable
  <1>q. ASSUME \A u \in Threads : pc'[u] = "using" => conn'[u] \in tracked',
               tracked' \subseteq open', ~misused'
        PROVE  Tracking'
    BY <1>1, <1>q DEF Tracking, LeaseUsable, FreedForgotten
  \* A step that tracks nothing but what is open and moves no thread to "using".
  <1>3. ASSUME NEW C, C \subseteq open', tracked' = tracked \cup C,
               open \subseteq open', misused' = misused,
               \A u \in Threads : pc'[u] = "using" =>
                  \/ pc[u] = "using" /\ conn'[u] = conn[u]
                  \/ conn'[u] \in C
        PROVE  Tracking'
    <2>1. \A u \in Threads : pc'[u] = "using" => conn'[u] \in tracked'
      BY <1>2, <1>3
    <2>2. tracked' \subseteq open' /\ ~misused'
      BY <1>i, <1>3
    <2> QED
      BY <1>q, <2>1, <2>2
  <1>k. ASSUME tracked' = tracked, open \subseteq open', misused' = misused,
               \A u \in Threads :
                  pc'[u] = "using" => pc[u] = "using" /\ conn'[u] = conn[u]
        PROVE  Tracking'
    <2>1. \A u \in Threads : pc'[u] = "using" => conn'[u] \in tracked'
      BY <1>2, <1>k
    <2>2. tracked' \subseteq open' /\ ~misused'
      BY <1>i, <1>k
    <2> QED
      BY <1>q, <2>1, <2>2
  <1>4. CASE PoolCreate
    <2>1. PICK C : C \subseteq open' /\ tracked' = tracked \cup C /\ open \subseteq open'
      BY <1>4 DEF PoolCreate
    <2> QED
      BY <1>3, <1>4, <2>1 DEF PoolCreate, ghostVars
  <1>5. CASE PoolCreateFail
    <2>1. PICK made \in SUBSET Fresh : tracked' = tracked \ made
      BY <1>5 DEF PoolCreateFail
    <2>2. tracked' = tracked
      BY <1>i, <2>1 DEF Fresh
    <2> QED
      BY <1>k, <1>5, <2>2 DEF PoolCreateFail, netVars, ghostVars
  <1>6. CASE PoolDestroy
    <2> DEFINE closing == {entries[i].conn : i \in 1..Len(entries)} \ {NoConn}
    <2>1. /\ tracked' = tracked \ closing /\ open' = open \ closing
          /\ \A u \in Threads : pc[u] = "idle" /\ pc'[u] = "idle"
      BY <1>6 DEF PoolDestroy, Disconnect
    <2>2. closing \subseteq open
      BY <1>i, <2>1 DEF Owned, EntriesOpen
    <2>3. ~ \E c \in closing, i, j \in 1..Len(entries) :
               i # j /\ i \in Storing(c) /\ j \in Storing(c)
      BY <1>i DEF Owned, EntriesDistinct, Storing
    <2>4. ~misused'
      BY <1>6, <1>i, <2>2, <2>3 DEF PoolDestroy
    <2>5. tracked' \subseteq open'
      BY <1>i, <2>1
    <2> QED
      BY <1>q, <2>1, <2>4, <2>5
  <1>7. CASE ServerDrops \/ UNCHANGED vars
    BY <1>k, <1>7 DEF ServerDrops, vars, ghostVars
  <1>8. ASSUME NEW t \in Threads, Acquire(t) \/ UseTxn(t) PROVE Tracking'
    <2>1. /\ UNCHANGED <<open, tracked, conn, misused>>
          /\ \A u \in Threads : pc'[u] = "using" => pc[u] = "using"
      BY <1>0, <1>8 DEF Acquire, UseTxn, Goto, netVars, ghostVars
    <2> QED
      BY <1>k, <2>1
  <1>9. ASSUME NEW t \in Threads, Release(t) PROVE Tracking'
    <2>1. /\ tracked' \in {tracked, tracked \cup {conn[t]}}
          /\ pc[t] = "using" /\ UNCHANGED <<open, misused>>
          /\ \A u \in Threads :
                pc'[u] = "using" => pc[u] = "using" /\ conn'[u] = conn[u]
      BY <1>0, <1>9 DEF Release, Goto, netVars, ghostVars
    <2>2. tracked' = tracked
      BY <1>2, <2>1
    <2> QED
      BY <1>k, <2>1, <2>2
  <1>10. ASSUME NEW t \in Threads, AcquireStep(t) PROVE Tracking'
    <2>1. CASE \/ SelectIdle(t) \/ NoneIdle(t) \/ Decide(t) \/ Sleep(t) \/ TimedOut(t)
               \/ ConnectFail(t) \/ ReconnectFail(t) \/ GiveUp(t)
      <3>1. /\ UNCHANGED <<open, tracked, misused>>
            /\ \A u \in Threads :
                  pc'[u] = "using" => pc[u] = "using" /\ conn'[u] = conn[u]
        BY <1>0, <2>1 DEF SelectIdle, NoneIdle, Decide, Sleep, TimedOut, ConnectFail,
           ReconnectFail, GiveUp, Return, Goto, netVars, ghostVars
      <3> QED
        BY <1>k, <3>1
    <2>2. CASE ReconnectOk(t) \/ ConnectOk(t)
      <3>1. /\ UNCHANGED <<tracked, misused>> /\ open \subseteq open'
            /\ \A u \in Threads :
                  pc'[u] = "using" => pc[u] = "using" /\ conn'[u] = conn[u]
        BY <1>0, <2>2 DEF ReconnectOk, ConnectOk, Goto
      <3> QED
        BY <1>k, <3>1
    <2>3. CASE Push(t)
      <3>1. /\ tracked' = tracked \cup {conn[t]} /\ UNCHANGED <<open, conn, misused>>
            /\ pc' = [pc EXCEPT ![t] = "using"]
        BY <2>3 DEF Push, Goto, netVars, ghostVars
      <3>2. {conn[t]} \subseteq open'
        BY <1>0, <1>1, <3>1
      <3> QED
        BY <1>0, <1>3, <3>1, <3>2
    <2>4. CASE Test(t) \/ CheckoutOk(t) \/ CheckoutBroken(t) \/ Register(t)
      <3>1. t \notin dangling /\ Selecting(t)
        BY <2>4
        DEF Test, CheckoutOk, CheckoutBroken, Register, Dereference, Selecting
      <3>2. Selected(t) = {conn[t]}
        BY <1>i, <3>1, SelectedIsOwn
      <3>3. ASSUME conn[t] # NoConn PROVE Holding(t)
        BY <3>1, <3>3 DEF Holding
      <3>4. pc[t] # "reconnect" /\ conn[t] # NoConn => conn[t] \in open
        BY <1>i, <3>3 DEF Owned, HeldOpen
      <3>5. CASE Test(t)
        <4>1. conn[t] \in open
          BY <3>4, <3>5, PoolAssumption DEF Test, TypeInv
        <4>2. misused' = (misused \/ conn[t] \in Fresh)
          BY <3>2, <3>5 DEF Test
        <4>3. misused' = misused
          <5>1. conn[t] \notin Fresh
            BY <4>1 DEF Fresh
          <5>2. ~misused' /\ misused' \in BOOLEAN
            BY <1>i, <4>2, <5>1, TypeStep DEF TypeInv, TypeOK
          <5>3. ~misused /\ misused \in BOOLEAN
            BY <1>i DEF TypeInv, TypeOK
          <5> QED
            BY <5>2, <5>3
        <4>4. /\ UNCHANGED <<open, tracked, conn>>
              /\ \A u \in Threads : pc'[u] = "using" => pc[u] = "using"
          BY <1>0, <3>5 DEF Test, Goto, netVars
        <4> QED
          BY <1>k, <4>3, <4>4
      <3>6. CASE CheckoutOk(t)
        <4>1. conn[t] \in open /\ conn[t] # NoConn
          BY <3>4, <3>6, PoolAssumption DEF CheckoutOk, TypeInv
        <4>2. /\ tracked' = tracked \cup {conn[t]}
              /\ Return(t, "using", conn[t]) /\ UNCHANGED <<open, misused>>
          BY <3>2, <3>6, <4>1 DEF CheckoutOk, netVars
        <4>3. \A u \in Threads : pc'[u] = "using" =>
                 \/ pc[u] = "using" /\ conn'[u] = conn[u]
                 \/ conn'[u] \in {conn[t]}
          BY <1>0, <4>2 DEF Return, Goto
        <4> QED
          BY <1>3, <4>1, <4>2, <4>3
      <3>7. CASE Register(t)
        <4>1. /\ conn[t] # NoConn /\ tracked' = tracked \cup {conn[t]}
              /\ pc[t] = "stored" /\ UNCHANGED <<open, misused>>
              /\ pc' = [pc EXCEPT ![t] = "checkout"]
              /\ \A u \in Threads : u # t => conn'[u] = conn[u]
          BY <1>0, <3>2, <3>7 DEF Register, Goto, netVars
        <4>2. {conn[t]} \subseteq open'
          BY <3>4, <4>1
        <4> QED
          BY <1>0, <1>3, <4>1, <4>2
      <3>8. CASE CheckoutBroken(t)
        <4>1. /\ conn[t] \in open /\ conn[t] # NoConn
          BY <3>4, <3>8, PoolAssumption DEF CheckoutBroken, TypeInv
        <4>2. /\ tracked' = tracked \ {conn[t]} /\ open' = open \ {conn[t]}
              /\ misused' = (misused \/ conn[t] \in Fresh)
              /\ conn' = conn /\ pc[t] = "broken" /\ pc' = [pc EXCEPT ![t] = "reconnect"]
          BY <3>2, <3>8 DEF CheckoutBroken, Disconnect, Goto
        <4>3. ~misused'
          BY <1>i, <4>1, <4>2 DEF Fresh
        <4>4. tracked' \subseteq open'
          BY <1>i, <4>2
        <4>5. \A u \in Threads : pc[u] = "using" => conn[u] # conn[t]
          BY <1>i, <3>3, <4>1, <4>2 DEF Owned, OneHolder, Holding
        <4>6. \A u \in Threads : pc'[u] = "using" => conn'[u] \in tracked'
          BY <1>0, <1>2, <4>2, <4>5
        <4> QED
          BY <1>q, <4>3, <4>4, <4>6
      <3> QED
        BY <2>4, <3>5, <3>6, <3>7, <3>8
    <2> QED
      BY <1>10, <2>1, <2>2, <2>3, <2>4 DEF AcquireStep
  <1> QED
    BY <1>4, <1>5, <1>6, <1>7, <1>8, <1>9, <1>10 DEF Next

\* Nothing is leased or tracked at the start.
LEMMA TrackingInit == Init => Tracking
  BY DEF Init, Tracking, LeaseUsable, FreedForgotten

\* What sb_pool_acquire returns stays open, and known to g_tracking, until it
\* is released: no other thread's health test, reconnect or destroy closes it.
THEOREM LeasesUsable == Spec => []LeaseUsable
  <1>1. Tracking => LeaseUsable
    BY DEF Tracking
  <1> QED
    BY <1>1, TrackingInit, TrackingStep, OwnershipInit, OwnershipStep, TypeInit, TypeStep,
       PTL DEF Spec

\* A connection that was freed is in no table, is pinged by nobody and is not
\* freed again, whoever freed it and whatever failed after it.
THEOREM FreedStaysForgotten == Spec => []FreedForgotten
  <1>1. Tracking => FreedForgotten
    BY DEF Tracking
  <1> QED
    BY <1>1, TrackingInit, TrackingStep, OwnershipInit, OwnershipStep, TypeInit, TypeStep,
       PTL DEF Spec

-----------------------------------------------------------------------------
(***************************************************************************)
(* The pool implements the lease contract.  A step of the pool is a step   *)
(* of ConnectionLease or leaves it unchanged: what happens inside          *)
(* sb_pool_acquire is stuttering or a change of the supply.  A step that   *)
(* ends the pool's soundness is allowed by the contract whatever it does.  *)
(***************************************************************************)
\* The state of the contract that a state of the pool stands for.
phase == [t \in Threads |-> CASE pc[t] = "idle" -> "out"
                              [] pc[t] = "using" -> "holding"
                              [] OTHER -> "asking"]
lease == [t \in Threads |-> IF pc[t] = "using" THEN conn[t] ELSE NoConn]

\* A step that moves no caller between the phases and exchanges no lease.
LEMMA PhaseKept ==
    ASSUME \A u \in Threads :
              /\ pc[u] = "idle" <=> pc'[u] = "idle"
              /\ pc[u] = "using" <=> pc'[u] = "using"
              /\ pc[u] = "using" => conn'[u] = conn[u]
    PROVE  phase' = phase /\ lease' = lease
  BY DEF phase, lease

\* A step that moves one caller and leaves the other leases alone.
LEMMA PhaseMoved ==
    ASSUME NEW t \in Threads, NEW to \in PcValues,
           pc \in [Threads -> PcValues], pc' = [pc EXCEPT ![t] = to],
           \A u \in Threads : u # t => conn'[u] = conn[u]
    PROVE  /\ phase' = [phase EXCEPT ![t] = IF to = "idle" THEN "out"
                                            ELSE IF to = "using" THEN "holding"
                                            ELSE "asking"]
           /\ lease' = [lease EXCEPT ![t] = IF to = "using" THEN conn'[t] ELSE NoConn]
  BY DEF phase, lease

\* The connections leased are those of the callers that use one.
LEMMA LeasedConn == Lease!Leased = {conn[t] : t \in {u \in Threads : pc[u] = "using"}}
  BY DEF Lease!Leased

\* Each step of the pool is a step of the contract or a stutter.
LEMMA LeaseStep ==
    TypeInv /\ Ownership /\ Tracking /\ [Next]_vars
       => [Lease!LeaseNext]_(Lease!leaseVars)
  <1> SUFFICES ASSUME TypeInv, Ownership, Tracking, [Next]_vars, intact'
               PROVE  Lease!LeaseNext \/ UNCHANGED Lease!leaseVars
    BY DEF Lease!LeaseNext
  <1>i. /\ intact /\ Owned
        /\ \A u \in Threads : pc[u] = "using" => conn[u] \in open
    BY IntactStays DEF Ownership, Tracking, LeaseUsable
  <1>0. /\ pc \in [Threads -> PcValues]
        /\ conn \in [Threads -> Handles \cup {NoConn}]
        /\ open \subseteq Handles /\ open' \subseteq Handles
    BY TypeStep DEF TypeInv, TypeOK
  <1>t. intact' = intact
    BY <1>i, TypeStep DEF TypeInv, TypeOK
  <1>1. ASSUME phase' = phase, lease' = lease, UNCHANGED open
        PROVE  UNCHANGED Lease!leaseVars
    BY <1>1, <1>t DEF Lease!leaseVars, phase, lease
  <1>2. ASSUME phase' = phase, lease' = lease,
               \A u \in Threads : pc[u] = "using" => conn[u] \in open'
        PROVE  Lease!LeaseNext
    <2>1. Lease!Supply
      BY <1>0, <1>2, LeasedConn DEF Lease!Supply, phase, lease
    <2> QED
      BY <1>i, <2>1 DEF Lease!LeaseNext
  <1>3. ASSUME NEW t \in Threads, NEW c \in Handles,
               pc[t] \notin {"idle", "using"}, pc' = [pc EXCEPT ![t] = "using"],
               conn'[t] = c, \A u \in Threads : u # t => conn'[u] = conn[u],
               \A u \in Threads : pc[u] = "using" => conn[u] # c,
               open' \in {open, open \cup {c}}, c \in open'
        PROVE  Lease!LeaseNext
    <2>1. /\ phase' = [phase EXCEPT ![t] = "holding"]
          /\ lease' = [lease EXCEPT ![t] = c]
      BY <1>0, <1>3, PhaseMoved DEF PcValues
    <2>2. phase[t] = "asking"
      BY <1>3 DEF phase
    <2>3. c \in Handles \ Lease!Leased
      BY <1>3, LeasedConn
    <2>4. Lease!Grant(t)
      BY <1>3, <2>1, <2>2, <2>3 DEF Lease!Grant, phase, lease
    <2> QED
      BY <1>i, <2>4 DEF Lease!LeaseNext
  <1>4. ASSUME NEW t \in Threads, pc[t] \notin {"idle", "using"},
               pc' = [pc EXCEPT ![t] = "idle"],
               \A u \in Threads : u # t => conn'[u] = conn[u], UNCHANGED open
        PROVE  Lease!LeaseNext
    <2>1. phase' = [phase EXCEPT ![t] = "out"] /\ lease' = [lease EXCEPT ![t] = NoConn]
      BY <1>0, <1>4, PhaseMoved DEF PcValues
    <2>2. phase[t] = "asking" /\ lease[t] = NoConn
      BY <1>4 DEF phase, lease
    <2>3. lease' = lease
      BY <2>1, <2>2 DEF lease
    <2>4. Lease!Deny(t)
      BY <1>4, <2>1, <2>2, <2>3 DEF Lease!Deny, phase, lease
    <2> QED
      BY <1>i, <2>4 DEF Lease!LeaseNext
  <1>5. ASSUME NEW t \in Threads, NEW to \in PcValues \ {"idle", "using"},
               pc[t] \notin {"idle", "using"}, pc' = [pc EXCEPT ![t] = to],
               \A u \in Threads : u # t => conn'[u] = conn[u]
        PROVE  phase' = phase /\ lease' = lease
    <2>1. \A u \in Threads :
              /\ pc[u] = "idle" <=> pc'[u] = "idle"
              /\ pc[u] = "using" <=> pc'[u] = "using"
              /\ pc[u] = "using" => conn'[u] = conn[u]
      BY <1>0, <1>5
    <2> QED
      BY <2>1, PhaseKept
  <1>6. CASE PoolCreate \/ PoolDestroy
    <2>1. \A u \in Threads : pc[u] = "idle"
      BY <1>6 DEF PoolCreate, PoolDestroy, TypeInv
    <2>2. phase' = phase /\ lease' = lease
      BY <1>6, PhaseKept DEF PoolCreate, PoolDestroy
    <2> QED
      BY <1>2, <2>1, <2>2
  <1>7. CASE PoolCreateFail \/ ServerDrops \/ UNCHANGED vars
    BY <1>1, <1>7, PhaseKept DEF PoolCreateFail, ServerDrops, vars, netVars
  <1>8. ASSUME NEW t \in Threads, Acquire(t) PROVE Lease!LeaseNext
    <2>1. phase' = [phase EXCEPT ![t] = "asking"] /\ lease' = [lease EXCEPT ![t] = NoConn]
      BY <1>0, <1>8, PhaseMoved DEF Acquire, Goto, PcValues
    <2>2. phase[t] = "out" /\ lease[t] = NoConn /\ UNCHANGED open
      BY <1>8 DEF Acquire, phase, lease, netVars
    <2>3. lease' = lease
      BY <2>1, <2>2 DEF lease
    <2>4. Lease!Ask(t)
      BY <2>1, <2>2, <2>3 DEF Lease!Ask, phase, lease
    <2> QED
      BY <1>i, <2>4 DEF Lease!LeaseNext
  <1>9. ASSUME NEW t \in Threads, Release(t) PROVE Lease!LeaseNext
    <2>1. phase' = [phase EXCEPT ![t] = "out"] /\ lease' = [lease EXCEPT ![t] = NoConn]
      BY <1>0, <1>9, PhaseMoved DEF Release, Goto, PcValues
    <2>2. phase[t] = "holding" /\ UNCHANGED open
      BY <1>9 DEF Release, phase, netVars
    <2>3. Lease!Return(t)
      BY <2>1, <2>2 DEF Lease!Return, phase, lease
    <2> QED
      BY <1>i, <2>3 DEF Lease!LeaseNext
  <1>10. ASSUME NEW t \in Threads, UseTxn(t) PROVE UNCHANGED Lease!leaseVars
    BY <1>1, <1>10, PhaseKept DEF UseTxn
  <1>11. ASSUME NEW t \in Threads, AcquireStep(t)
         PROVE  Lease!LeaseNext \/ UNCHANGED Lease!leaseVars
    <2>1. CASE CheckoutOk(t) \/ Push(t)
      <3>1. /\ pc[t] \in {"checkout", "push"} /\ pc' = [pc EXCEPT ![t] = "using"]
            /\ UNCHANGED <<conn, open>>
        <4>1. CASE Push(t)
          BY <4>1 DEF Push, Goto, netVars
        <4>2. CASE CheckoutOk(t)
          <5>1. Selected(t) = {conn[t]} /\ conn[t] # NoConn
            BY <1>i, <4>2, SelectedIsOwn, PoolAssumption
            DEF CheckoutOk, Dereference, Selecting, TypeInv
          <5>2. Return(t, "using", conn[t]) /\ open' = open /\ pc[t] = "checkout"
            BY <4>2, <5>1 DEF CheckoutOk, netVars
          <5> QED
            BY <1>0, <5>2 DEF Return, Goto
        <4> QED
          BY <2>1, <4>1, <4>2
      <3>2. Holding(t) /\ conn[t] \in open /\ conn[t] \in Handles
        BY <1>0, <1>i, <3>1, PoolAssumption
        DEF TypeInv, Owned, HeldOpen, Holding, Selecting
      <3>3. \A u \in Threads : pc[u] = "using" => conn[u] # conn[t]
        BY <1>i, <3>1, <3>2 DEF Owned, OneHolder, Holding
      <3> QED
        BY <1>3, <3>1, <3>2, <3>3
    <2>2. CASE ReconnectOk(t) \/ ConnectOk(t)
      <3>1. PICK to \in {"stored", "push"} :
              /\ pc[t] \in {"reconnect", "connect"} /\ pc' = [pc EXCEPT ![t] = to]
              /\ \A u \in Threads : u # t => conn'[u] = conn[u]
              /\ open \subseteq open'
        BY <1>0, <2>2 DEF ReconnectOk, ConnectOk, Goto
      <3>2. phase' = phase /\ lease' = lease
        BY <1>5, <3>1 DEF PcValues
      <3> QED
        BY <1>2, <1>i, <3>1, <3>2
    <2>3. CASE GiveUp(t) \/ ConnectFail(t) \/ TimedOut(t)
      <3>1. /\ pc[t] \notin {"idle", "using"} /\ pc' = [pc EXCEPT ![t] = "idle"]
            /\ open' = open /\ \A u \in Threads : u # t => conn'[u] = conn[u]
        BY <1>0, <2>3 DEF GiveUp, ConnectFail, TimedOut, Return, Goto, netVars
      <3> QED
        BY <1>4, <3>1
    <2>4. CASE CheckoutBroken(t)
      <3>1. /\ pc[t] = "broken" /\ pc' = [pc EXCEPT ![t] = "reconnect"] /\ conn' = conn
            /\ t \notin dangling /\ Selecting(t) /\ conn[t] # NoConn
        BY <2>4, PoolAssumption DEF CheckoutBroken, Goto, Dereference, Selecting, TypeInv
      <3>2. open' = open \ {conn[t]}
        BY <1>i, <2>4, <3>1, SelectedIsOwn DEF CheckoutBroken, Disconnect
      <3>3. \A u \in Threads : pc[u] = "using" => conn[u] # conn[t]
        BY <1>i, <3>1 DEF Owned, OneHolder, Holding
      <3>4. phase' = phase /\ lease' = lease
        BY <1>5, <3>1 DEF PcValues
      <3> QED
        BY <1>2, <1>i, <3>2, <3>3, <3>4
    <2>5. CASE SelectIdle(t) \/ ReconnectFail(t) \/ Test(t) \/ Register(t)
      <3>1. PICK to \in {"test", "checkout", "broken", "stored"} :
              /\ pc[t] \in {"scan", "reconnect", "test", "stored"}
              /\ pc' = [pc EXCEPT ![t] = to]
              /\ \A u \in Threads : u # t => conn'[u] = conn[u]
              /\ UNCHANGED open
        BY <1>0, <2>5 DEF SelectIdle, ReconnectFail, Test, Register, Goto, netVars
      <3>2. phase' = phase /\ lease' = lease
        BY <1>5, <3>1 DEF PcValues
      <3> QED
        BY <1>1, <3>1, <3>2
    <2>6. CASE NoneIdle(t) \/ Decide(t) \/ Sleep(t)
      <3>1. PICK to \in {"decide", "connect", "wait", "scan"} :
              /\ pc[t] \in {"scan", "decide", "wait"} /\ pc' = [pc EXCEPT ![t] = to]
              /\ UNCHANGED <<conn, open>>
        BY <2>6 DEF NoneIdle, Decide, Sleep, Goto, netVars
      <3>2. phase' = phase /\ lease' = lease
        BY <1>5, <3>1 DEF PcValues
      <3> QED
        BY <1>1, <3>1, <3>2
    <2> QED
      BY <1>11, <2>1, <2>2, <2>3, <2>4, <2>5, <2>6 DEF AcquireStep
  <1> QED
    BY <1>6, <1>7, <1>8, <1>9, <1>10, <1>11 DEF Next

\* The pool implements the lease contract for any number of threads, handles
\* and entries: one answer to each request, a live connection nobody else
\* holds, and no step that closes or exchanges it before it is released, until
\* a dangling `selected` is used or an address that is still stored is reused.
THEOREM PoolImplementsLease == Spec => ImplementsLease
  <1>1. Init => Lease!LeaseInit
    BY DEF Init, Lease!LeaseInit
  <1> QED
    BY <1>1, LeaseStep, TrackingInit, TrackingStep, OwnershipInit, OwnershipStep,
       TypeInit, TypeStep, PTL
    DEF Spec, ImplementsLease, Lease!LeaseSpec
=============================================================================

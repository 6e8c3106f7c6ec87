----------------------- MODULE KeepaliveManagerProofs -----------------------
(***************************************************************************)
(* Proofs about KeepaliveManager for any number of callers, connections    *)
(* and workers: types, and the safety of closing a connection after a Stop *)
(* that followed its Unregister.                                           *)
(***************************************************************************)
EXTENDS KeepaliveManager, FiniteSetTheorems, TLAPS

\* Workers are numbered in the order of their creation, and one that is not
\* created yet has nothing to check.
Numbered ==
    /\ Created = 1..Cardinality(Created)
    /\ \A w \in Workers : worker[w].at = "none" => worker[w].todo = {} /\ worker[w].on = {}

\* At most one call is between its steps. A Start owns the flag and finds no
\* thread object; only that call or a running manager keeps one.
OneCall ==
    /\ \A t, u \in Callers : pc[t].at # "idle" /\ pc[u].at # "idle" => t = u
    /\ Inside(InStart) => running /\ handle = 0
    /\ Inside(InStop) => ~running
    /\ handle # 0 => running \/ Inside(InStop)

\* Only the worker that the thread object refers to runs; the ids a Stop has
\* covered are neither registered nor in that worker's round.
OneWorker ==
    /\ Running \subseteq {handle}
    /\ registered \cap settled = {}
    /\ \A w \in Running : (worker[w].todo \cup worker[w].on) \cap settled = {}

\* The destructor runs alone, and nothing runs after it.
DestroyedAlone ==
    /\ \A t \in Callers : pc[t].destroys =>
          \A u \in Callers : pc[u].at # "idle" => u = t /\ pc[u].at \in InStop
    /\ destroyed => Running = {} /\ \A u \in Callers : pc[u].at = "idle"

\* The inductive invariant of ClosedAfterStopUntouched.
KeepaliveInv ==
    /\ TypeOK
    /\ Numbered
    /\ ~overlapped => OneCall /\ OneWorker /\ DestroyedAlone /\ ~terminated

-----------------------------------------------------------------------------
\* The number of the next worker: the workers created are the numbers up to
\* some n, and while n is below the bound n + 1 names one not created yet.
LEMMA NextWorker ==
    ASSUME TypeOK, Numbered
    PROVE  /\ Cardinality(Created) \in 0..MaxStarts
           /\ Cardinality(Created) < MaxStarts =>
                /\ Cardinality(Created) + 1 \in Workers
                /\ worker[Cardinality(Created) + 1].at = "none"
  <1>1. IsFiniteSet(Workers) /\ Cardinality(Workers) = MaxStarts
    BY KeepaliveAssumption, FS_Interval DEF Workers
  <1>2. Created \subseteq Workers
    BY DEF Created
  <1>3. Cardinality(Created) \in Nat /\ Cardinality(Created) <= MaxStarts
    BY <1>1, <1>2, FS_Subset, FS_CardinalityType
  <1>4. \A n \in Nat : n + 1 \notin 1..n
    OBVIOUS
  <1>5. Cardinality(Created) + 1 \notin Created
    BY <1>3, <1>4 DEF Numbered
  <1> QED
    BY <1>3, <1>5, KeepaliveAssumption DEF Workers, Created

\* Spawning the next worker keeps the numbering.
LEMMA SpawnNumbers ==
    ASSUME TypeOK, Numbered, NEW t \in Callers, Spawn(t)
    PROVE  Numbered'
  <1> DEFINE n == Cardinality(Created)
  <1>1. n \in Nat /\ n + 1 \in Workers /\ worker[n + 1].at = "none"
    BY NextWorker DEF Spawn
  <1>2. worker' = [worker EXCEPT ![n + 1].at = "sleep"]
    BY DEF Spawn
  <1>3. Created = 1..n
    BY DEF Numbered
  <1> HIDE DEF n
  <1>4. Created' = Created \cup {n + 1}
    BY <1>1, <1>2 DEF Created, TypeOK
  <1>5. Created' = 1..(n + 1)
    BY <1>1, <1>3, <1>4
  <1>6. Cardinality(1..(n + 1)) = n + 1
    BY <1>1, FS_Interval
  <1>7. \A w \in Workers : (worker'[w].at = "none") =>
            worker'[w].todo = {} /\ worker'[w].on = {}
    BY <1>1, <1>2 DEF Numbered, TypeOK
  <1> QED
    BY <1>5, <1>6, <1>7 DEF Numbered

\* Every step keeps the types.
LEMMA TypeStep ==
    ASSUME TypeOK, Numbered, [Next]_vars
    PROVE  TypeOK'
  <1> USE DEF InStart, InStop
  <1>1. ASSUME NEW t \in Callers, Start(t) PROVE TypeOK'
    BY <1>1 DEF Start, Goto, TypeOK
  <1>2. ASSUME NEW t \in Callers, ClearStop(t) PROVE TypeOK'
    BY <1>2 DEF ClearStop, Goto, TypeOK
  <1>3. ASSUME NEW t \in Callers, Spawn(t) PROVE TypeOK'
    BY <1>3, NextWorker DEF Spawn, Goto, TypeOK, Workers
  <1>4. ASSUME NEW t \in Callers, NEW d \in BOOLEAN, Stop(t, d) PROVE TypeOK'
    <2>1. pc' \in [Callers -> [at: {"idle"} \cup InStart \cup InStop, destroys: BOOLEAN]]
      BY <1>4 DEF Stop, TypeOK
    <2>2. /\ settled' \subseteq Ids /\ UNCHANGED <<handle, stopRequested, worker, registered, open>>
          /\ running' = FALSE
      BY <1>4 DEF Stop, StopReturned, TypeOK
    <2>3. /\ destroyed' \in BOOLEAN /\ terminated' \in BOOLEAN /\ overlapped' \in BOOLEAN
          /\ usedFreed' \in BOOLEAN
      BY <1>4 DEF Stop, StopReturned, TypeOK
    <2> QED
      BY <2>1, <2>2, <2>3 DEF TypeOK
  <1>5. ASSUME NEW t \in Callers, RequestStop(t) PROVE TypeOK'
    BY <1>5 DEF RequestStop, Goto, TypeOK
  <1>6. ASSUME NEW t \in Callers, Join(t) PROVE TypeOK'
    <2>1. pc' \in [Callers -> [at: {"idle"} \cup InStart \cup InStop, destroys: BOOLEAN]]
      BY <1>6 DEF Join, Goto, TypeOK
    <2>2. handle' \in 0..MaxStarts
      BY <1>6, KeepaliveAssumption DEF Join
    <2> QED
      BY <1>6, <2>1, <2>2 DEF Join, StopReturned, TypeOK
  <1>7. ASSUME NEW t \in Callers, NEW id \in Ids,
               Register(t, id) \/ Unregister(t, id) \/ Close(t, id)
        PROVE  TypeOK'
    <2>1. worker' \in [Workers -> [at: {"none", "sleep", "copy", "check", "validate", "ended"},
                                   todo: SUBSET Ids, on: SUBSET Ids, freed: SUBSET Ids]]
      BY <1>7 DEF Register, Unregister, Frees, Close, TypeOK
    <2> QED
      BY <1>7, <2>1 DEF Register, Unregister, Close, TypeOK
  <1>8. ASSUME NEW w \in Workers, Wake(w) \/ CheckedAll(w) \/ Copy(w)
        PROVE  TypeOK'
    BY <1>8 DEF Wake, CheckedAll, Copy, TypeOK
  <1>11. ASSUME NEW w \in Workers, NEW healthy \in BOOLEAN, Validated(w, healthy)
         PROVE  TypeOK'
    <2>1. worker' \in [Workers -> [at: {"none", "sleep", "copy", "check", "validate", "ended"},
                                   todo: SUBSET Ids, on: SUBSET Ids, freed: SUBSET Ids]]
      <3> DEFINE W == [at: {"none", "sleep", "copy", "check", "validate", "ended"},
                       todo: SUBSET Ids, on: SUBSET Ids, freed: SUBSET Ids]
                 a == [[worker[w] EXCEPT !.at = "check"] EXCEPT !.on = {}]
      <3>1. worker \in [Workers -> W]
        BY DEF TypeOK
      <3>2. [worker[w] EXCEPT !.at = "check"] \in W
        BY <3>1
      <3>3. a \in W
        BY <3>2
      <3>4. worker' = [worker EXCEPT ![w] = a]
        BY <1>11, <3>1 DEF Validated
      <3> HIDE DEF a, W
      <3>5. worker' \in [Workers -> W]
        BY <3>1, <3>3, <3>4
      <3> QED
        BY <3>5 DEF W
    <2>2. usedFreed' \in BOOLEAN
      BY <1>11 DEF Validated
    <2> QED
      BY <1>11, <2>1, <2>2 DEF Validated, TypeOK
  <1>9. ASSUME NEW w \in Workers, NEW id \in Ids, Check(w, id) PROVE TypeOK'
    <2>1. worker' \in [Workers -> [at: {"none", "sleep", "copy", "check", "validate", "ended"},
                                   todo: SUBSET Ids, on: SUBSET Ids, freed: SUBSET Ids]]
      BY <1>9 DEF Check, TypeOK
    <2>2. usedFreed' \in BOOLEAN
      BY <1>9 DEF Check
    <2> QED
      BY <1>9, <2>1, <2>2 DEF Check, TypeOK
  <1>10. CASE UNCHANGED vars
    BY <1>10 DEF vars, TypeOK
  <1> QED
    BY <1>1, <1>2, <1>3, <1>4, <1>5, <1>6, <1>7, <1>8, <1>9, <1>10, <1>11
    DEF Next, Calls, CallStep, CheckLoop, LoopRuns

\* What a step of the check loop can do: only its own worker moves, it neither
\* appears nor comes back, and its round grows only by registered connections.
LEMMA LoopStep ==
    ASSUME TypeOK, NEW w \in Workers, CheckLoop(w)
    PROVE  /\ UNCHANGED <<running, stopRequested, handle, registered, pc, open, settled,
                          destroyed, terminated, overlapped>>
           /\ \A v \in Workers \ {w} : worker'[v] = worker[v]
           /\ worker[w].at \notin {"none", "ended"} /\ worker'[w].at # "none"
           /\ worker'[w].todo \cup worker'[w].on
                  \subseteq worker[w].todo \cup worker[w].on \cup registered
  <1>0. worker[w] \in [at: {"none", "sleep", "copy", "check", "validate", "ended"},
                       todo: SUBSET Ids, on: SUBSET Ids, freed: SUBSET Ids]
    BY DEF TypeOK
  <1> USE DEF TypeOK
  <1>1. CASE Wake(w)
    BY <1>0, <1>1 DEF Wake
  <1>2. CASE Copy(w)
    BY <1>0, <1>2 DEF Copy
  <1>3. ASSUME NEW healthy \in BOOLEAN, Validated(w, healthy)
        PROVE  /\ UNCHANGED <<running, stopRequested, handle, registered, pc, open, settled,
                              destroyed, terminated, overlapped>>
               /\ \A v \in Workers \ {w} : worker'[v] = worker[v]
               /\ worker[w].at \notin {"none", "ended"} /\ worker'[w].at # "none"
               /\ worker'[w].todo \cup worker'[w].on
                      \subseteq worker[w].todo \cup worker[w].on \cup registered
    BY <1>0, <1>3 DEF Validated
  <1>4. CASE CheckedAll(w)
    BY <1>0, <1>4 DEF CheckedAll
  <1>5. ASSUME NEW id \in Ids, Check(w, id)
        PROVE  /\ UNCHANGED <<running, stopRequested, handle, registered, pc, open, settled,
                              destroyed, terminated, overlapped>>
               /\ \A v \in Workers \ {w} : worker'[v] = worker[v]
               /\ worker[w].at \notin {"none", "ended"} /\ worker'[w].at # "none"
               /\ worker'[w].todo \cup worker'[w].on
                      \subseteq worker[w].todo \cup worker[w].on \cup registered
    BY <1>0, <1>5 DEF Check
  <1> QED
    BY <1>1, <1>2, <1>3, <1>4, <1>5 DEF CheckLoop, LoopRuns

\* Freeing a tracker moves no worker and changes no round.
LEMMA FreesKeeps ==
    ASSUME TypeOK, NEW id \in Ids, Frees(id)
    PROVE  \A w \in Workers : /\ worker'[w].at = worker[w].at /\ worker'[w].todo = worker[w].todo
                              /\ worker'[w].on = worker[w].on
  <1> SUFFICES ASSUME NEW w \in Workers
               PROVE  /\ worker'[w].at = worker[w].at /\ worker'[w].todo = worker[w].todo
                      /\ worker'[w].on = worker[w].on
    OBVIOUS
  <1>1. worker[w] \in [at: {"none", "sleep", "copy", "check", "validate", "ended"},
                       todo: SUBSET Ids, on: SUBSET Ids, freed: SUBSET Ids]
    BY DEF TypeOK
  <1>2. worker'[w] = [worker[w] EXCEPT !.freed = @ \cup ((worker[w].todo \cup worker[w].on) \cap {id})]
    BY DEF Frees
  <1> QED
    BY <1>1, <1>2

\* Every step keeps the numbering of the workers.
LEMMA NumberedStep ==
    ASSUME TypeOK, Numbered, [Next]_vars
    PROVE  Numbered'
  <1>1. ASSUME NEW t \in Callers, Spawn(t) PROVE Numbered'
    BY <1>1, SpawnNumbers
  <1>2. CASE UNCHANGED worker
    BY <1>2 DEF Numbered, Created
  <1>3. ASSUME NEW w \in Workers, worker[w].at # "none", worker'[w].at # "none",
               \A v \in Workers \ {w} : worker'[v] = worker[v]
        PROVE  Numbered'
    <2>1. Created' = Created
      BY <1>3 DEF Created
    <2> QED
      BY <1>3, <2>1 DEF Numbered
  <1>4. ASSUME NEW w \in Workers, CheckLoop(w) PROVE Numbered'
    <2>1. /\ worker[w].at # "none" /\ worker'[w].at # "none"
          /\ \A v \in Workers \ {w} : worker'[v] = worker[v]
      BY <1>4, LoopStep
    <2> QED
      BY <1>3, <2>1
  <1>7. ASSUME NEW id \in Ids, Frees(id) PROVE Numbered'
    <2>1. Created' = Created
      BY <1>7, FreesKeeps DEF Created
    <2> QED
      BY <1>7, <2>1, FreesKeeps DEF Numbered
  <1>5. ASSUME NEW t \in Callers, Calls(t) PROVE Numbered'
    BY <1>2, <1>5, <1>7 DEF Calls, Start, Stop, Register, Unregister, Close
  <1>6. ASSUME NEW t \in Callers, ClearStop(t) \/ RequestStop(t) \/ Join(t) PROVE Numbered'
    BY <1>2, <1>6 DEF ClearStop, RequestStop, Join
  <1> QED
    BY <1>1, <1>2, <1>4, <1>5, <1>6 DEF Next, CallStep, vars

\* What a step keeps besides types and numbering, unless calls overlapped.
Kept == ~overlapped => OneCall /\ OneWorker /\ DestroyedAlone /\ ~terminated

\* A step inside CheckLoop keeps the invariant: the round takes in only
\* registered connections, and those are not covered by a Stop.
LEMMA LoopKeeps ==
    ASSUME KeepaliveInv, NEW w \in Workers, CheckLoop(w), ~overlapped'
    PROVE  Kept'
  <1>1. OneCall /\ OneWorker /\ DestroyedAlone /\ ~terminated
    BY LoopStep DEF KeepaliveInv
  <1>2. OneCall' /\ ~terminated'
    BY <1>1, LoopStep DEF OneCall, Inside, KeepaliveInv
  <1>3. Running' \subseteq Running
    BY LoopStep DEF Running, KeepaliveInv
  <1>4. OneWorker'
    BY <1>1, <1>3, LoopStep DEF OneWorker, Running, KeepaliveInv
  <1>5. DestroyedAlone'
    BY <1>1, <1>3, LoopStep DEF DestroyedAlone, KeepaliveInv
  <1> QED
    BY <1>2, <1>4, <1>5 DEF Kept

\* When no call is between its steps and the manager does not run, or when the
\* only Stop has joined, no worker runs.
LEMMA NoneRunning ==
    ASSUME TypeOK, OneWorker, handle # 0 => worker[handle].at = "ended"
    PROVE  Running = {}
  BY DEF OneWorker, Running, TypeOK, Workers

\* A call that starts, or a step inside one, keeps the invariant.
LEMMA CallKeeps ==
    ASSUME KeepaliveInv, NEW t \in Callers, Calls(t) \/ CallStep(t), ~overlapped'
    PROVE  Kept'
  <1> USE DEF InStart, InStop
  <1>0. TypeOK /\ Numbered /\ ~terminated
    BY DEF KeepaliveInv, Calls, CallStep
  <1>1. CASE Start(t)
    <2>1. OneCall /\ OneWorker /\ DestroyedAlone /\ ~Inside(InStop)
      BY <1>1, <1>0 DEF Start, KeepaliveInv, TypeOK
    <2>2. \A u \in Callers : pc[u].at = "idle"
      BY <1>0, <1>1, <2>1 DEF Start, OneCall, Inside, TypeOK
    <2>3. handle = 0
      BY <1>1, <2>1 DEF Start, OneCall
    <2>4. OneCall'
      BY <1>0, <1>1, <2>2, <2>3 DEF Start, OneCall, Inside, Goto, TypeOK
    <2>5. OneWorker' /\ Running' = Running
      BY <1>1, <2>1 DEF Start, OneWorker, Running
    <2>6. DestroyedAlone'
      BY <1>0, <1>1, <2>1, <2>2 DEF Start, DestroyedAlone, Goto, CanCall, TypeOK
    <2> QED
      BY <1>0, <1>1, <2>4, <2>5, <2>6 DEF Start, Kept
  <1>2. CASE ClearStop(t)
    <2>1. OneCall /\ OneWorker /\ DestroyedAlone
      BY <1>2 DEF ClearStop, KeepaliveInv
    <2>2. OneCall'
      BY <1>0, <1>2, <2>1 DEF ClearStop, OneCall, Inside, Goto, TypeOK
    <2>3. OneWorker' /\ Running' = Running
      BY <1>2, <2>1 DEF ClearStop, OneWorker, Running
    <2>4. DestroyedAlone'
      BY <1>0, <1>2, <2>1, <2>3 DEF ClearStop, DestroyedAlone, Goto, TypeOK
    <2> QED
      BY <1>0, <1>2, <2>2, <2>3, <2>4 DEF ClearStop, Kept
  <1>3. CASE Spawn(t)
    <2> DEFINE n == Cardinality(Created)
    <2>1. OneCall /\ OneWorker /\ DestroyedAlone
      BY <1>3 DEF Spawn, KeepaliveInv
    <2>2. n + 1 \in Workers /\ worker[n + 1].at = "none" /\ n + 1 # 0
      BY <1>0, <1>3, NextWorker DEF Spawn
    <2>3. worker[n + 1].todo = {} /\ worker[n + 1].on = {}
      BY <1>0, <2>2 DEF Numbered
    <2>4. worker' = [worker EXCEPT ![n + 1].at = "sleep"] /\ handle' = n + 1
      BY <1>3 DEF Spawn
    <2>5. /\ handle = 0 /\ running
          /\ \A u \in Callers : pc[u].at # "idle" => u = t
      BY <1>0, <1>3, <2>1 DEF Spawn, OneCall, Inside
    <2> HIDE DEF n
    <2>6. Running = {}
      BY <2>1, <2>5 DEF OneWorker, Running, Workers
    <2>7. OneCall'
      BY <1>0, <1>3, <2>5 DEF Spawn, OneCall, Inside, Goto, TypeOK
    <2>8. Running' \subseteq {n + 1}
      BY <1>0, <2>2, <2>4, <2>6 DEF Running, TypeOK
    <2>9. (worker'[n + 1].todo \cup worker'[n + 1].on) = {}
      BY <1>0, <2>2, <2>3, <2>4 DEF TypeOK
    <2>10. OneWorker'
      BY <1>3, <2>1, <2>4, <2>8, <2>9 DEF Spawn, OneWorker
    <2>11. ~destroyed /\ \A u \in Callers : ~pc[u].destroys
      BY <1>0, <1>3, <2>1 DEF Spawn, DestroyedAlone, TypeOK
    <2>12. DestroyedAlone'
      BY <1>0, <1>3, <2>11 DEF Spawn, DestroyedAlone, Goto, TypeOK
    <2> QED
      BY <1>3, <2>5, <2>7, <2>10, <2>12 DEF Spawn, Kept
  <1>4. ASSUME NEW d \in BOOLEAN, Stop(t, d) PROVE Kept'
    <2>1. OneCall /\ OneWorker /\ DestroyedAlone
      BY <1>4 DEF Stop, KeepaliveInv, TypeOK
    <2>2. \A u \in Callers : pc[u].at = "idle" /\ ~pc[u].destroys
      BY <1>0, <1>4 DEF Stop, CanCall, Inside, TypeOK
    <2>3. ~destroyed
      BY <1>4 DEF Stop, CanCall
    <2>4. UNCHANGED <<worker, handle, registered>> /\ Running' = Running
      BY <1>4 DEF Stop, Running
    <2>5. CASE running
      <3>1. pc' = [pc EXCEPT ![t] = [at |-> "request", destroys |-> d]]
        BY <1>4, <2>5 DEF Stop
      <3>2. UNCHANGED <<settled, destroyed, terminated>> /\ running' = FALSE
        BY <1>4, <2>5 DEF Stop
      <3>3. OneCall'
        BY <1>0, <2>2, <3>1, <3>2 DEF OneCall, Inside, TypeOK
      <3>4. OneWorker'
        BY <2>1, <2>4, <3>2 DEF OneWorker
      <3>5. DestroyedAlone'
        BY <1>0, <2>2, <2>3, <3>1, <3>2 DEF DestroyedAlone, TypeOK
      <3> QED
        BY <1>0, <3>2, <3>3, <3>4, <3>5 DEF Kept
    <2>6. CASE ~running
      <3>1. pc' = [pc EXCEPT ![t] = [at |-> "idle", destroys |-> d]]
        BY <1>4, <2>6 DEF Stop
      <3>2. StopReturned(t) /\ running' = FALSE
        BY <1>4, <2>6 DEF Stop
      <3>3. handle = 0
        BY <2>1, <2>2, <2>6 DEF OneCall, Inside
      <3>4. Running = {}
        BY <1>0, <2>1, <3>3, NoneRunning
      <3>5. OneCall'
        BY <1>0, <2>2, <2>4, <3>1, <3>3 DEF OneCall, Inside, TypeOK
      <3>6. OneWorker'
        BY <2>1, <2>4, <3>2, <3>4 DEF OneWorker, StopReturned
      <3>7. DestroyedAlone'
        BY <1>0, <2>2, <2>4, <3>1, <3>4 DEF DestroyedAlone, TypeOK
      <3> QED
        BY <2>4, <3>2, <3>3, <3>5, <3>6, <3>7 DEF Kept, StopReturned
    <2> QED
      BY <2>5, <2>6
  <1>5. CASE RequestStop(t)
    <2>1. OneCall /\ OneWorker /\ DestroyedAlone
      BY <1>5 DEF RequestStop, KeepaliveInv
    <2>2. OneCall'
      BY <1>0, <1>5, <2>1 DEF RequestStop, OneCall, Inside, Goto, TypeOK
    <2>3. OneWorker' /\ Running' = Running
      BY <1>5, <2>1 DEF RequestStop, OneWorker, Running
    <2>4. DestroyedAlone'
      BY <1>0, <1>5, <2>1, <2>3 DEF RequestStop, DestroyedAlone, Goto, TypeOK
    <2> QED
      BY <1>0, <1>5, <2>2, <2>3, <2>4 DEF RequestStop, Kept
  <1>6. CASE Join(t)
    <2>1. OneCall /\ OneWorker /\ DestroyedAlone
      BY <1>6 DEF Join, KeepaliveInv
    <2>2. \A u \in Callers : pc[u].at # "idle" => u = t
      BY <1>6, <2>1 DEF Join, OneCall
    <2>3. Running = {}
      BY <1>0, <1>6, <2>1, NoneRunning DEF Join
    <2>4. Running' = Running
      BY <1>6 DEF Join, Running
    <2>5. OneCall'
      BY <1>0, <1>6, <2>2 DEF Join, OneCall, Inside, Goto, TypeOK
    <2>6. OneWorker'
      BY <1>6, <2>1, <2>3, <2>4 DEF Join, OneWorker, StopReturned
    <2>7. \A u \in Callers : pc'[u].at = "idle"
      BY <1>0, <1>6, <2>2 DEF Join, Goto, TypeOK
    <2>8. DestroyedAlone'
      BY <2>3, <2>4, <2>7 DEF DestroyedAlone
    <2> QED
      BY <1>6, <2>5, <2>6, <2>8 DEF Join, StopReturned, Kept
  <1>7. ASSUME NEW id \in Ids, Register(t, id) \/ Unregister(t, id) \/ Close(t, id)
        PROVE  Kept'
    <2>1. /\ UNCHANGED <<running, handle, pc, destroyed, terminated, overlapped>>
          /\ settled' \subseteq settled
          /\ registered' \cap settled' \subseteq registered \cap settled
      BY <1>7 DEF Register, Unregister, Close
    <2>5. \A w \in Workers : /\ worker'[w].at = worker[w].at /\ worker'[w].todo = worker[w].todo
                             /\ worker'[w].on = worker[w].on
      BY <1>0, <1>7, FreesKeeps DEF Register, Unregister, Close
    <2>2. Running' = Running
      BY <2>5 DEF Running
    <2>6. Running \subseteq Workers
      BY DEF Running
    <2>3. OneCall /\ OneWorker /\ DestroyedAlone
      BY <2>1 DEF KeepaliveInv
    <2>4. OneCall' /\ OneWorker' /\ DestroyedAlone'
      BY <2>1, <2>2, <2>3, <2>5, <2>6 DEF OneCall, OneWorker, DestroyedAlone, Inside
    <2> QED
      BY <1>0, <2>1, <2>4 DEF Kept
  <1> QED
    BY <1>1, <1>2, <1>3, <1>4, <1>5, <1>6, <1>7 DEF Calls, CallStep

-----------------------------------------------------------------------------
\* The invariant is inductive.
LEMMA KeepaliveStep == KeepaliveInv /\ [Next]_vars => KeepaliveInv'
  <1> SUFFICES ASSUME KeepaliveInv, [Next]_vars
               PROVE  KeepaliveInv'
    OBVIOUS
  <1>1. TypeOK' /\ Numbered'
    BY TypeStep, NumberedStep DEF KeepaliveInv
  <1>2. ASSUME ~overlapped', Next PROVE Kept'
    BY <1>2, LoopKeeps, CallKeeps DEF Next
  <1>3. ASSUME UNCHANGED vars PROVE Kept'
    BY <1>3 DEF vars, KeepaliveInv, Kept, OneCall, OneWorker, DestroyedAlone, Inside, Running
  <1> QED
    BY <1>1, <1>2, <1>3 DEF KeepaliveInv, Kept

\* It holds when the manager is constructed.
LEMMA KeepaliveInit == Init => KeepaliveInv
  <1> SUFFICES ASSUME Init PROVE KeepaliveInv
    OBVIOUS
  <1>1. TypeOK
    <2>1. 0 \in 0..MaxStarts
      BY KeepaliveAssumption
    <2> QED
      BY <2>1 DEF Init, TypeOK, InStart, InStop
  <1>2. Created = {} /\ Running = {}
    BY DEF Init, Created, Running
  <1>3. Numbered
    <2>1. Cardinality(Created) = 0
      BY <1>2, FS_EmptySet
    <2> QED
      BY <1>2, <2>1 DEF Numbered, Init
  <1>4. OneCall /\ OneWorker /\ DestroyedAlone
    BY <1>2 DEF Init, OneCall, OneWorker, DestroyedAlone, Inside, InStart, InStop
  <1> QED
    BY <1>1, <1>3, <1>4 DEF KeepaliveInv, Init

\* Every variable of the manager keeps its type, for any number of threads,
\* connections and restarts of the worker.
THEOREM KeepaliveTypeCorrect == Spec => []TypeOK
  <1>1. KeepaliveInv => TypeOK
    BY DEF KeepaliveInv
  <1> QED
    BY <1>1, KeepaliveInit, KeepaliveStep, PTL DEF Spec

\* The order of sb_disconnect (Unregister, Stop, delete) keeps workers from the
\* connection, unless calls of Start and Stop overlap or a worker met a tracker
\* that Unregister had freed: no worker pings a connection deleted after a
\* Stop that followed its Unregister, none outlives the manager, and no
\* joinable thread object is overwritten or destroyed.
THEOREM CloseAfterStopIsSafe == Spec => []ClosedAfterStopUntouched
  <1>1. KeepaliveInv => ClosedAfterStopUntouched
    BY DEF KeepaliveInv, ClosedAfterStopUntouched, OneWorker, DestroyedAlone
  <1> QED
    BY <1>1, KeepaliveInit, KeepaliveStep, PTL DEF Spec
=============================================================================

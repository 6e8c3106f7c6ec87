-------------------------- MODULE KeepaliveManager --------------------------
(***************************************************************************)
(* KeepaliveManager of keepalive.cpp: a registry of connections and one    *)
(* worker thread that pings the idle ones. Any thread may call Start,      *)
(* Stop, Register and Unregister (also through the C functions), close a   *)
(* connection that it has unregistered, and destroy the manager.           *)
(* sb_disconnect is the sequence Unregister, Stop, close. LeakDetector has *)
(* the same Start and Stop and a loop that touches no connection.          *)
(*                                                                         *)
(* Start and Stop are one step per access to an atomic or to the thread    *)
(* object; Register, Unregister and the worker's copy are critical         *)
(* sections. Whether a tracker asks for validation depends on the clock    *)
(* and is a free choice. The worker's copy holds plain pointers: Register  *)
(* and Unregister free the tracker an id had, and Close the connection,    *)
(* also under the worker; from its first use of one of them on the         *)
(* behaviour is undefined, and the properties say nothing.                 *)
(***************************************************************************)
EXTENDS Naturals, FiniteSets

CONSTANTS
    Callers,    \* threads of the application
    Ids,        \* connection ids, each the name of one connection
    MaxStarts   \* bound: worker threads ever created

ASSUME KeepaliveAssumption == MaxStarts \in Nat

VARIABLES
    running, stopRequested,  \* the two atomics
    handle,      \* the worker that worker_thread_ refers to, 0 if not joinable
    worker,      \* each worker thread: where it is, what is left of its copy, whom it
                 \* pings, and which of its trackers are freed
    registered,  \* the keys of trackers_ and connections_
    pc,          \* each caller: where it is, and in which call
    open,        \* connections that are not deleted
    settled,     \* ids a Stop has covered since they were unregistered
    destroyed,   \* the manager is gone
    terminated,  \* std::terminate was called
    overlapped,  \* Start and Stop calls have overlapped
    usedFreed    \* a worker has used a tracker or a connection that was freed

vars == <<running, stopRequested, handle, worker, registered, pc, open, settled,
          destroyed, terminated, overlapped, usedFreed>>

Workers == 1..MaxStarts
InStart == {"clear", "spawn"}
InStop == {"request", "join"}

(* Every variable has its type. *)
TypeOK ==
    /\ running \in BOOLEAN /\ stopRequested \in BOOLEAN
    /\ handle \in 0..MaxStarts
    /\ worker \in [Workers -> [at: {"none", "sleep", "copy", "check", "validate", "ended"},
                               todo: SUBSET Ids, on: SUBSET Ids, freed: SUBSET Ids]]
    /\ registered \subseteq Ids /\ open \subseteq Ids /\ settled \subseteq Ids
    /\ pc \in [Callers -> [at: {"idle"} \cup InStart \cup InStop, destroys: BOOLEAN]]
    /\ destroyed \in BOOLEAN /\ terminated \in BOOLEAN /\ overlapped \in BOOLEAN
    /\ usedFreed \in BOOLEAN

Created == {w \in Workers : worker[w].at # "none"}
Running == {w \in Workers : worker[w].at \notin {"none", "ended"}}

Init ==
    /\ running = FALSE /\ stopRequested = FALSE
    /\ handle = 0
    /\ worker = [w \in Workers |-> [at |-> "none", todo |-> {}, on |-> {}, freed |-> {}]]
    /\ registered = {} /\ open = Ids /\ settled = Ids
    /\ pc = [t \in Callers |-> [at |-> "idle", destroys |-> FALSE]]
    /\ destroyed = FALSE /\ terminated = FALSE /\ overlapped = FALSE
    /\ usedFreed = FALSE

-----------------------------------------------------------------------------
(***************************************************************************)
(* Start and Stop.                                                         *)
(***************************************************************************)

(* No call is made on a manager that is gone or being destroyed.           *)
CanCall(t) == pc[t].at = "idle" /\ ~destroyed /\ \A u \in Callers : ~pc[u].destroys
Goto(t, where) == pc' = [pc EXCEPT ![t].at = where]
Inside(where) == \E u \in Callers : pc[u].at \in where

(* running_.compare_exchange_strong(false, true) *)
Start(t) ==
    /\ CanCall(t)
    /\ ~running /\ Cardinality(Created) < MaxStarts
    /\ running' = TRUE
    /\ overlapped' = (overlapped \/ Inside(InStop))
    /\ Goto(t, "clear")
    /\ UNCHANGED <<stopRequested, handle, worker, registered, open, settled,
                   destroyed, terminated, usedFreed>>

ClearStop(t) ==
    /\ pc[t].at = "clear"
    /\ stopRequested' = FALSE
    /\ Goto(t, "spawn")
    /\ UNCHANGED <<running, handle, worker, registered, open, settled,
                   destroyed, terminated, overlapped, usedFreed>>

(* worker_thread_ = std::thread(...): assigning over a joinable thread     *)
(* ends the process.                                                       *)
Spawn(t) ==
    /\ pc[t].at = "spawn" /\ Cardinality(Created) < MaxStarts
    /\ LET w == Cardinality(Created) + 1
       IN  /\ worker' = [worker EXCEPT ![w].at = "sleep"]
           /\ terminated' = (handle # 0)
           /\ handle' = w
    /\ Goto(t, "idle")
    /\ UNCHANGED <<running, stopRequested, registered, open, settled,
                   destroyed, overlapped, usedFreed>>

(* What every return of Stop leaves: connections unregistered by now are   *)
(* covered. The destructor's Stop is followed by that of worker_thread_.   *)
StopReturned(t) ==
    /\ settled' = settled \cup (Ids \ registered)
    /\ destroyed' = (destroyed \/ pc'[t].destroys)
    /\ terminated' = (pc'[t].destroys /\ handle' # 0)

(* running_.compare_exchange_strong(true, false); a Stop that finds the    *)
(* flag clear returns at once, also when another Stop is still joining.    *)
Stop(t, destroys) ==
    /\ CanCall(t)
    /\ destroys => \A u \in Callers : pc[u].at = "idle"
    /\ running' = FALSE
    /\ overlapped' = (overlapped \/ Inside(InStop \cup InStart))
    /\ pc' = [pc EXCEPT ![t] = [at |-> IF running THEN "request" ELSE "idle",
                                destroys |-> destroys]]
    /\ UNCHANGED handle
    /\ IF running THEN UNCHANGED <<settled, destroyed, terminated>> ELSE StopReturned(t)
    /\ UNCHANGED <<stopRequested, worker, registered, open, usedFreed>>

(* A Stop that forgets to ask. *)
RequestStop_Unasked(t) ==
    /\ pc[t].at = "request"
    /\ Goto(t, "join")
    /\ UNCHANGED <<running, stopRequested, handle, worker, registered, open, settled,
                   destroyed, terminated, overlapped, usedFreed>>

RequestStop(t) ==
    /\ pc[t].at = "request"
    /\ stopRequested' = TRUE
    /\ Goto(t, "join")
    /\ UNCHANGED <<running, handle, worker, registered, open, settled,
                   destroyed, terminated, overlapped, usedFreed>>

(* A Stop that detaches the worker. *)
Join_Detaches(t) ==
    /\ pc[t].at = "join"
    /\ handle' = 0
    /\ Goto(t, "idle")
    /\ StopReturned(t)
    /\ UNCHANGED <<running, stopRequested, worker, registered, open, overlapped, usedFreed>>

(* if (worker_thread_.joinable()) worker_thread_.join() *)
Join(t) ==
    /\ pc[t].at = "join"
    /\ handle # 0 => worker[handle].at = "ended"
    /\ handle' = 0
    /\ Goto(t, "idle")
    /\ StopReturned(t)
    /\ UNCHANGED <<running, stopRequested, worker, registered, open, overlapped, usedFreed>>

-----------------------------------------------------------------------------
(***************************************************************************)
(* The registry.                                                           *)
(***************************************************************************)

(* The tracker that id had, if any, is freed. *)
Frees(id) ==
    worker' = [w \in Workers |->
        [worker[w] EXCEPT !.freed = @ \cup ((worker[w].todo \cup worker[w].on) \cap {id})]]

Register(t, id) ==
    /\ CanCall(t)
    /\ id \in open
    /\ registered' = registered \cup {id}
    /\ settled' = settled \ {id}
    /\ Frees(id)
    /\ UNCHANGED <<running, stopRequested, handle, pc, open,
                   destroyed, terminated, overlapped, usedFreed>>

Unregister(t, id) ==
    /\ CanCall(t)
    /\ id \in registered
    /\ registered' = registered \ {id}
    /\ Frees(id)
    /\ UNCHANGED <<running, stopRequested, handle, pc, open, settled,
                   destroyed, terminated, overlapped, usedFreed>>

(* The end of sb_disconnect: delete conn. *)
Close(t, id) ==
    /\ pc[t].at = "idle"
    /\ id \in open \ registered
    /\ open' = open \ {id}
    /\ UNCHANGED <<running, stopRequested, handle, worker, registered, pc, settled,
                   destroyed, terminated, overlapped, usedFreed>>

-----------------------------------------------------------------------------
(***************************************************************************)
(* CheckLoop.                                                              *)
(***************************************************************************)

(* The end of the sleep, one slice or all of it. *)
Wake(w) ==
    /\ worker[w].at = "sleep"
    /\ worker' = [worker EXCEPT ![w].at = IF stopRequested THEN "ended" ELSE "copy"]
    /\ UNCHANGED <<running, stopRequested, handle, registered, pc, open, settled,
                   destroyed, terminated, overlapped, usedFreed>>

(* The copies of both maps: ids, and pointers to what they had. *)
Copy(w) ==
    /\ worker[w].at = "copy"
    /\ worker' = [worker EXCEPT ![w].at = "check", ![w].todo = registered,
                              ![w].freed = {}]
    /\ UNCHANGED <<running, stopRequested, handle, registered, pc, open, settled,
                   destroyed, terminated, overlapped, usedFreed>>

(* NeedsValidation of the next tracker, and the start of sb_is_healthy.    *)
Check(w, id) ==
    /\ worker[w].at = "check" /\ id \in worker[w].todo
    /\ \/ /\ worker' = [worker EXCEPT ![w].todo = @ \ {id}]
          /\ usedFreed' = (usedFreed \/ id \in worker[w].freed)
       \/ /\ worker' = [worker EXCEPT ![w].todo = @ \ {id}, ![w].at = "validate", ![w].on = {id}]
          /\ usedFreed' = (usedFreed \/ id \in worker[w].freed \/ id \notin open)
    /\ UNCHANGED <<running, stopRequested, handle, registered, pc, open, settled,
                   destroyed, terminated, overlapped>>

(* The ping is over; the tracker of a healthy connection is marked. *)
Validated(w, healthy) ==
    /\ worker[w].at = "validate"
    /\ worker' = [worker EXCEPT ![w].at = "check", ![w].on = {}]
    /\ usedFreed' = (\/ usedFreed
                     \/ ~(worker[w].on \subseteq open)
                     \/ healthy /\ worker[w].on \cap worker[w].freed # {})
    /\ UNCHANGED <<running, stopRequested, handle, registered, pc, open, settled,
                   destroyed, terminated, overlapped>>

CheckedAll(w) ==
    /\ worker[w].at = "check" /\ worker[w].todo = {}
    /\ worker' = [worker EXCEPT ![w].at = IF stopRequested THEN "ended" ELSE "sleep"]
    /\ UNCHANGED <<running, stopRequested, handle, registered, pc, open, settled,
                   destroyed, terminated, overlapped, usedFreed>>

-----------------------------------------------------------------------------
CallStep(t) == ~terminated /\ (ClearStop(t) \/ Spawn(t) \/ RequestStop(t) \/ Join(t))

(* The loop without the end of a ping, which is up to the server. *)
LoopRuns(w) ==
    /\ ~terminated
    /\ Wake(w) \/ Copy(w) \/ CheckedAll(w) \/ \E id \in Ids : Check(w, id)

CheckLoop(w) ==
    \/ LoopRuns(w)
    \/ ~terminated /\ \E healthy \in BOOLEAN : Validated(w, healthy)

Calls(t) ==
    /\ ~terminated
    /\ \/ Start(t)
       \/ \E destroys \in BOOLEAN : Stop(t, destroys)
       \/ \E id \in Ids : Register(t, id) \/ Unregister(t, id) \/ Close(t, id)

Next == (\E t \in Callers : Calls(t) \/ CallStep(t)) \/ (\E w \in Workers : CheckLoop(w))

Spec == Init /\ [][Next]_vars

(* Threads run: a caller inside a call goes on, and so does the worker,    *)
(* whose sleeps are bounded. A ping need not end: over TLS its read has no *)
(* timeout.                                                                *)
FairSpec ==
    /\ Spec
    /\ \A t \in Callers : WF_vars(CallStep(t))
    /\ \A w \in Workers : WF_vars(LoopRuns(w))

-----------------------------------------------------------------------------
(***************************************************************************)
(* Properties.                                                             *)
(***************************************************************************)

(* What the order of sb_disconnect (Unregister, Stop, delete) achieves: as *)
(* long as Start and Stop calls do not overlap and no worker has met a     *)
(* freed tracker, a connection deleted after a Stop that followed its      *)
(* Unregister is not pinged by any worker, now or later in its round; no   *)
(* worker outlives the manager; and no joinable thread object ends the     *)
(* process. The order does not keep the worker from the tracker, which     *)
(* Unregister frees before Stop waits for the round that uses it; and a    *)
(* connection deleted after Unregister alone has no such promise.          *)
ClosedAfterStopUntouched ==
    ~overlapped /\ ~usedFreed =>
        /\ \A w \in Running : (worker[w].todo \cup worker[w].on) \cap (settled \ open) = {}
        /\ destroyed => Running = {}
        /\ ~terminated

(* Stop returns, whatever the worker was doing when it was asked, unless a *)
(* ping waits for its answer for ever, a Start that overlapped it withdrew *)
(* the request, or the worker met a freed tracker or connection.           *)
StopReturns ==
    (\A w \in Workers : []<>(worker[w].at # "validate")) =>
        \A t \in Callers : pc[t].at \in InStop ~> (pc[t].at = "idle" \/ overlapped \/ usedFreed)
=============================================================================

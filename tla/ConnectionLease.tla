--------------------------- MODULE ConnectionLease ---------------------------
(***************************************************************************)
(* What sb_pool_acquire and sb_pool_release promise their callers, and     *)
(* nothing about how: a thread asks, is granted a live connection nobody   *)
(* else holds or is denied one, and returns it.  Connections come and go   *)
(* as the pool pleases, but never under a lease.                           *)
(***************************************************************************)
EXTENDS Naturals

CONSTANTS Threads, Handles, NoConn

VARIABLES
    phase,   \* of each thread: "out", "asking" or "holding"
    lease,   \* the connection each thread holds
    live,    \* the connections that are open
    sound    \* FALSE once the pool can promise nothing more

leaseVars == <<phase, lease, live, sound>>

Leased == {lease[t] : t \in {u \in Threads : phase[u] = "holding"}}

LeaseInit ==
    /\ phase = [t \in Threads |-> "out"]
    /\ lease = [t \in Threads |-> NoConn]
    /\ live = {}
    /\ sound = TRUE

Ask(t) ==
    /\ phase[t] = "out"
    /\ phase' = [phase EXCEPT ![t] = "asking"]
    /\ UNCHANGED <<lease, live>>

\* The connection may be an old one or opened for this request.
Grant(t) ==
    /\ phase[t] = "asking"
    /\ \E c \in Handles \ Leased :
          /\ lease' = [lease EXCEPT ![t] = c]
          /\ live' \in {live, live \cup {c}} /\ c \in live'
    /\ phase' = [phase EXCEPT ![t] = "holding"]

Deny(t) ==
    /\ phase[t] = "asking"
    /\ phase' = [phase EXCEPT ![t] = "out"]
    /\ UNCHANGED <<lease, live>>

Return(t) ==
    /\ phase[t] = "holding"
    /\ phase' = [phase EXCEPT ![t] = "out"]
    /\ lease' = [lease EXCEPT ![t] = NoConn]
    /\ UNCHANGED live

\* Connections are opened, or closed when they are not leased.
Supply ==
    /\ live' \in SUBSET Handles
    /\ Leased \cap live \subseteq live'
    /\ UNCHANGED <<phase, lease>>

\* The pool keeps its promises until it is sound no more, and then anything
\* may happen.
LeaseNext ==
    \/ /\ sound /\ sound'
       /\ Supply \/ \E t \in Threads : Ask(t) \/ Grant(t) \/ Deny(t) \/ Return(t)
    \/ ~sound'

LeaseSpec == LeaseInit /\ [][LeaseNext]_leaseVars
==============================================================================

-------------------------- MODULE MCConnectionPool --------------------------
(* ConnectionPool on a few threads and handles, which are interchangeable. *)
EXTENDS ConnectionPool, TLC

Symmetry == Permutations(Threads) \cup Permutations(Handles)

\* A pool that is not intact any more is looked at once and not followed.
WhileIntact == intact
=============================================================================

--------------------------- MODULE MCStatementCache ---------------------------
\* Two threads over one cache: two connections, three SQL texts and one
\* address more than the cache and the threads can hold at once.
EXTENDS StatementCache, TLC

Symmetry == Permutations(Threads) \cup Permutations(Conns)
            \cup Permutations(Sqls) \cup Permutations(Stmts)
===============================================================================

--------------------------- MODULE MCExecutorLoop ---------------------------
(* ExecutorLoop for model checking: the kinds of executor the runs start.   *)
EXTENDS ExecutorLoop

\* n tasks from every source and m from every thread outside the runtime.
Pushes(n, m) == [p \in Producers |-> IF p \in Sources THEN n ELSE m]

\* An IO thread on a machine that does not delay stores and one on a machine that
\* does (x86), and a worker thread on one that does.  A second push by one thread
\* is what finds a stale ready mark.
Executors ==
    [io : {TRUE}, delays : {0}, pushes : {Pushes(1, 1), Pushes(2, 0), Pushes(0, 2)}]
        \cup [io : {TRUE}, delays : {2}, pushes : {Pushes(1, 0)}]
        \cup [io : {FALSE}, delays : {1}, pushes : {Pushes(1, 1), Pushes(2, 0), Pushes(0, 2)}]

\* The IO thread whose stores are delayed, with both kinds of producer.
DelayedIoThread == [io : {TRUE}, delays : {2}, pushes : {Pushes(1, 1)}]
=============================================================================

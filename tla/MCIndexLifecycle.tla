-------------------------- MODULE MCIndexLifecycle --------------------------
(***************************************************************************)
(* Instances of IndexLifecycle for TLC.                                    *)
(***************************************************************************)
EXTENDS IndexLifecycle

\* A crash, of the consumer or of the compactor, and an eviction of the
\* consumer at work.  After a crash maintenance finds the indexer gone; evicted
\* it goes on alone until its commit is refused or it polls, and maintenance
\* waits for it.
Evictions == [crash |-> 1, revoke |-> 0, stop |-> 0, expel |-> 1]

\* A crash, of either, and a clean stop.
Restarts == [crash |-> 1, revoke |-> 0, stop |-> 1, expel |-> 0]

\* A stop, and nothing that goes wrong.
Stops == [crash |-> 0, revoke |-> 0, stop |-> 1, expel |-> 0]
=============================================================================

------------------------- MODULE MCThreadSafeQueue -------------------------
(* Three threads, each calling any operation, on a queue of two slots. *)
EXTENDS ThreadSafeQueue

\* The thread whose calls the liveness properties follow.  The specification
\* treats all threads alike, so what holds of one holds of every one, and
\* TLC's liveness check grows with each thread it has to follow.
CONSTANT Watched
ASSUME WatchedAssumption == Watched \in Threads

\* close() ends the watched thread's call (ThreadSafeQueue.h:85).
WatchedCloseReleases == CloseReleases(Watched)

\* A tryPop of the watched thread returns (ThreadSafeQueue.h:49).
WatchedTryPopReturns == TryPopReturns(Watched)
=============================================================================

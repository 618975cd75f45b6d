---------------------------- MODULE MC_SyncBarrier ----------------------------
(* Three worker threads, three runs: enough for a fast thread to arrive   *)
(* for the next run while a woken thread of the last run has not yet      *)
(* re-acquired the condition.                                             *)
EXTENDS SyncBarrier

CONSTANTS t1, t2, t3

MCThreads == {t1, t2, t3}

=============================================================================

----------------------------- MODULE SyncBarrier -----------------------------
(***************************************************************************)
(* src/grinder/examples/sync.py: the worker threads of one process meet   *)
(* at a checkpoint in every run, built from a threading.Condition c and    *)
(* the module globals waiting and checkpointReachedForRun.                *)
(*                                                                         *)
(* Every code path between c.acquire() and c.release() or c.wait() reads   *)
(* and writes only state guarded by c, so each is one atomic step and the *)
(* lock itself needs no variable.  c.wait() releases c; a woken thread     *)
(* re-acquires it and re-tests the while condition in one step.  Jython's  *)
(* Condition is a java.util.concurrent Condition, whose await may return   *)
(* without a notify (a spurious wake-up).                                  *)
(***************************************************************************)
EXTENDS Integers, FiniteSets

CONSTANTS
    Threads,    \* the worker threads of the process (grinder.threads of them)
    MaxRuns     \* grinder.runs

ASSUME Threads # {} /\ MaxRuns \in Nat \ {0}

numberOfThreads == Cardinality(Threads)

VARIABLES
    waiting,                  \* the global waiting
    checkpointReachedForRun,  \* the global of that name
    runNumber,                \* grinder.runNumber of each thread
    pc                        \* where each thread is in __call__

vars == <<waiting, checkpointReachedForRun, runNumber, pc>>

\* pc: "idle"     between runs, about to call __call__
\*     "waiting"  in c.wait()
\*     "woken"    notified (or spuriously woken), to re-acquire c
\*     "passed"   after c.release(), logging and sleeping
\*     "finished" after grinder.runs runs
Init ==
    /\ waiting = 0
    /\ checkpointReachedForRun = -1
    /\ runNumber = [t \in Threads |-> 0]
    /\ pc = [t \in Threads |-> "idle"]

\* The thread proceeds past the while loop, or waits (again) in c.wait().
AwaitCheckpoint(t) ==
    IF runNumber[t] > checkpointReachedForRun THEN "waiting" ELSE "passed"

\* Mutation-testing variants of Arrive (not part of the model): the last
\* thread forgets to reset waiting, or to call notifyAll.
ArriveNoReset(t) ==
    /\ pc[t] = "idle"
    /\ IF waiting + 1 = numberOfThreads
       THEN /\ checkpointReachedForRun' = runNumber[t]
            /\ waiting' = waiting + 1
            /\ pc' = [u \in Threads |->
                        IF u = t THEN "passed"
                        ELSE IF pc[u] = "waiting" THEN "woken" ELSE pc[u]]
       ELSE /\ waiting' = waiting + 1
            /\ pc' = [pc EXCEPT ![t] = AwaitCheckpoint(t)]
            /\ UNCHANGED checkpointReachedForRun
    /\ UNCHANGED runNumber

ArriveNoNotify(t) ==
    /\ pc[t] = "idle"
    /\ IF waiting + 1 = numberOfThreads
       THEN /\ checkpointReachedForRun' = runNumber[t]
            /\ waiting' = 0
            /\ pc' = [pc EXCEPT ![t] = "passed"]
       ELSE /\ waiting' = waiting + 1
            /\ pc' = [pc EXCEPT ![t] = AwaitCheckpoint(t)]
            /\ UNCHANGED checkpointReachedForRun
    /\ UNCHANGED runNumber

\* c.acquire(); waiting += 1; then either the last thread's branch, which
\* wakes every waiter, or the while loop; then c.release() or c.wait().
Arrive(t) ==
    /\ pc[t] = "idle"
    /\ IF waiting + 1 = numberOfThreads
       THEN /\ checkpointReachedForRun' = runNumber[t]
            /\ waiting' = 0
            /\ pc' = [u \in Threads |->
                        IF u = t THEN "passed"
                        ELSE IF pc[u] = "waiting" THEN "woken" ELSE pc[u]]
       ELSE /\ waiting' = waiting + 1
            /\ pc' = [pc EXCEPT ![t] = AwaitCheckpoint(t)]
            /\ UNCHANGED checkpointReachedForRun
    /\ UNCHANGED runNumber

\* c.wait() returns without notifyAll.
SpuriousWakeup(t) ==
    /\ pc[t] = "waiting"
    /\ pc' = [pc EXCEPT ![t] = "woken"]
    /\ UNCHANGED <<waiting, checkpointReachedForRun, runNumber>>

\* Mutation-testing variant: "if" for "while", the condition not re-tested.
ReacquireNoRecheck(t) ==
    /\ pc[t] = "woken"
    /\ pc' = [pc EXCEPT ![t] = "passed"]
    /\ UNCHANGED <<waiting, checkpointReachedForRun, runNumber>>

\* c.wait() re-acquires c, and the while condition is tested again.
Reacquire(t) ==
    /\ pc[t] = "woken"
    /\ pc' = [pc EXCEPT ![t] = AwaitCheckpoint(t)]
    /\ UNCHANGED <<waiting, checkpointReachedForRun, runNumber>>

\* The rest of __call__ (log, grinder.sleep), then the next run, if any.
EndRun(t) ==
    /\ pc[t] = "passed"
    /\ runNumber' = [runNumber EXCEPT ![t] = @ + 1]
    /\ pc' = [pc EXCEPT ![t] = IF runNumber[t] + 1 < MaxRuns THEN "idle" ELSE "finished"]
    /\ UNCHANGED <<waiting, checkpointReachedForRun>>

\* The process ends when every thread has finished.
Terminated ==
    /\ \A t \in Threads : pc[t] = "finished"
    /\ UNCHANGED vars

Next ==
    \/ \E t \in Threads : Arrive(t) \/ SpuriousWakeup(t) \/ Reacquire(t) \/ EndRun(t)
    \/ Terminated

\* Each worker thread is scheduled by the JVM; a thread that can go on
\* eventually does.  Spurious wake-ups are allowed, never required.
Fairness == \A t \in Threads : WF_vars(Arrive(t)) /\ WF_vars(Reacquire(t)) /\ WF_vars(EndRun(t))

Spec == Init /\ [][Next]_vars /\ Fairness

-----------------------------------------------------------------------------
(* Properties                                                              *)

TypeOK ==
    /\ waiting \in 0..(numberOfThreads - 1)
    /\ checkpointReachedForRun \in -1..(MaxRuns - 1)
    /\ runNumber \in [Threads -> 0..MaxRuns]
    /\ pc \in [Threads -> {"idle", "waiting", "woken", "passed", "finished"}]

\* The count of threads at the checkpoint matches the threads there: the
\* threads of the current round that are blocked or woken in c.wait().
\* A woken thread of the previous round must not be counted, although a
\* fast thread may already have arrived for the next round.
WaitingCounted ==
    waiting = Cardinality({t \in Threads : pc[t] \in {"waiting", "woken"}
                                           /\ runNumber[t] > checkpointReachedForRun})

\* Abstract view: "before" when idle, "at" in c.wait(), "past" afterwards.
AbstractPhase(t) ==
    CASE pc[t] = "idle"                -> "before"
      [] pc[t] \in {"waiting", "woken"} -> "at"
      [] pc[t] = "passed"               -> "past"
      [] pc[t] = "finished"             -> "before"

B == INSTANCE Barrier WITH phase <- [t \in Threads |-> AbstractPhase(t)],
                           run <- runNumber

\* sync.py implements the checkpoint: no thread ever gets past the
\* checkpoint of a run before all threads have reached it for that run.
ImplementsBarrier == B!Spec

\* Every thread completes all its runs: nobody waits at a checkpoint for
\* ever and the notifyAll of the last thread reaches every waiter.
AllRunsComplete == <>(\A t \in Threads : pc[t] = "finished")
=============================================================================

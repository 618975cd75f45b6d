------------------------------- MODULE Parallel -------------------------------
(***************************************************************************)
(* src/grinder/examples/parallel.py: every worker thread builds its       *)
(* TestRunner, which picks one of three scripts by grinder.threadNumber    *)
(* and delegates every run to it.  The threads of a process build their    *)
(* TestRunners concurrently, in any order.                                 *)
(***************************************************************************)
EXTENDS Naturals, FiniteSets, TLC

CONSTANT MaxThreads   \* the largest grinder.threads

ASSUME MaxThreads \in Nat \ {0}

Scripts == 1..3       \* TestScript1, TestScript2, TestScript3

VARIABLES
    threads,    \* grinder.threads of the process
    runner      \* the script each thread's TestRunner delegates to, once built

vars == <<threads, runner>>

\* Mutation-testing variant: the thread number taken modulo 3.
SelectMod3(tid) == IF tid % 3 = 2 THEN 2 ELSE IF tid % 3 = 3 THEN 3 ELSE 1

\* Mutation-testing variant: the list indexes of scripts taken as the script.
SelectIndex(tid) == IF tid % 4 = 2 THEN 1 ELSE IF tid % 4 = 3 THEN 2 ELSE 0

\* TestRunner.__init__: scripts[1] if tid % 4 == 2, scripts[2] if 3, else
\* scripts[0].
Select(tid) == IF tid % 4 = 2 THEN 2 ELSE IF tid % 4 = 3 THEN 3 ELSE 1

Init ==
    /\ threads \in 1..MaxThreads
    /\ runner = <<>>

\* Thread tid builds its TestRunner.
NewTestRunner(tid) ==
    /\ tid \notin DOMAIN runner
    /\ runner' = runner @@ (tid :> Select(tid))
    /\ UNCHANGED threads

\* All TestRunners are built; the threads run their scripts.
Running ==
    /\ DOMAIN runner = 0..(threads - 1)
    /\ UNCHANGED vars

Next == (\E tid \in 0..(threads - 1) : NewTestRunner(tid)) \/ Running

Spec == Init /\ [][Next]_vars

-----------------------------------------------------------------------------
(* Properties                                                              *)

TypeOK ==
    /\ threads \in 1..MaxThreads
    /\ DOMAIN runner \subseteq 0..(threads - 1)
    /\ \A tid \in DOMAIN runner : runner[tid] \in Scripts

\* The quarters of the threads each script is meant to run in (the
\* comment: TestScript1 in 50%, TestScript2 and TestScript3 in 25%).
Quarters == [s \in Scripts |-> IF s = 1 THEN 2 ELSE 1]

\* Once every thread has its TestRunner, each script runs in its share of
\* the threads up to rounding: at most one thread away from it, for every
\* number of threads (an exact split needs a multiple of four).
SharesAsCommented ==
    DOMAIN runner = 0..(threads - 1) =>
        \A s \in Scripts :
            LET n == Cardinality({tid \in DOMAIN runner : runner[tid] = s})
            IN  4 * n <= Quarters[s] * threads + 4 /\ Quarters[s] * threads <= 4 * n + 4
=============================================================================

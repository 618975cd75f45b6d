--------------------------- MODULE ScriptLifecycle ---------------------------
(***************************************************************************)
(* src/grinder/examples/scriptlifecycle.py: every worker thread has its   *)
(* own TestRunner and calls it once per run.  __call__ adds one to the     *)
(* module global totalNumberOfRuns, shared by all threads and not locked,  *)
(* and one to self.runsForThread, then logs both.                          *)
(*                                                                         *)
(* Jython has no global interpreter lock: "totalNumberOfRuns += 1" is a    *)
(* read of the global and a later write of the value read plus one, and    *)
(* other threads may run in between.  self.runsForThread += 1 reads the    *)
(* class attribute the first time and then writes an attribute of the     *)
(* instance, so that counter is the thread's own.                          *)
(***************************************************************************)
EXTENDS Naturals, FiniteSets, FiniteSetsExt

CONSTANTS Threads, MaxRuns

ASSUME Threads # {} /\ MaxRuns \in Nat \ {0}

VARIABLES
    totalNumberOfRuns,  \* the module global
    runsForThread,      \* each TestRunner's runsForThread
    tmp,                \* the value of totalNumberOfRuns a thread has read
    runNumber,          \* grinder.runNumber of each thread
    pc,                 \* "idle", "read", "written" or "finished"
    logged              \* the last (runsForThread, totalNumberOfRuns) logged

vars == <<totalNumberOfRuns, runsForThread, tmp, runNumber, pc, logged>>

Init ==
    /\ totalNumberOfRuns = 0
    /\ runsForThread = [t \in Threads |-> 0]
    /\ tmp = [t \in Threads |-> 0]
    /\ runNumber = [t \in Threads |-> 0]
    /\ pc = [t \in Threads |-> "idle"]
    /\ logged = [t \in Threads |-> <<0, 0>>]

\* totalNumberOfRuns += 1, first half: the global is read.
ReadTotal(t) ==
    /\ pc[t] = "idle"
    /\ tmp' = [tmp EXCEPT ![t] = totalNumberOfRuns]
    /\ pc' = [pc EXCEPT ![t] = "read"]
    /\ UNCHANGED <<totalNumberOfRuns, runsForThread, runNumber, logged>>

\* totalNumberOfRuns += 1, second half: the value read plus one is stored.
WriteTotal(t) ==
    /\ pc[t] = "read"
    /\ totalNumberOfRuns' = tmp[t] + 1
    /\ pc' = [pc EXCEPT ![t] = "written"]
    /\ UNCHANGED <<runsForThread, tmp, runNumber, logged>>

\* self.runsForThread += 1 and the log line; the run ends, and with it
\* the thread after grinder.runs runs.
CountAndLog(t) ==
    /\ pc[t] = "written"
    /\ runsForThread' = [runsForThread EXCEPT ![t] = @ + 1]
    /\ logged' = [logged EXCEPT ![t] = <<runsForThread[t] + 1, totalNumberOfRuns>>]
    /\ runNumber' = [runNumber EXCEPT ![t] = @ + 1]
    /\ pc' = [pc EXCEPT ![t] = IF runNumber[t] + 1 < MaxRuns THEN "idle" ELSE "finished"]
    /\ UNCHANGED <<totalNumberOfRuns, tmp>>

Terminated ==
    /\ \A t \in Threads : pc[t] = "finished"
    /\ UNCHANGED vars

Next ==
    \/ \E t \in Threads : ReadTotal(t) \/ WriteTotal(t) \/ CountAndLog(t)
    \/ Terminated

Spec == Init /\ [][Next]_vars

-----------------------------------------------------------------------------
(* Properties                                                              *)

TypeOK ==
    /\ totalNumberOfRuns \in 0..(Cardinality(Threads) * MaxRuns)
    /\ runsForThread \in [Threads -> 0..MaxRuns]
    /\ runNumber \in [Threads -> 0..MaxRuns]
    /\ pc \in [Threads -> {"idle", "read", "written", "finished"}]

\* The increments made so far: one per completed run, and one for every
\* thread that has written the global in its current run.
Increments ==
    MapThenSumSet(LAMBDA t : runNumber[t] + (IF pc[t] = "written" THEN 1 ELSE 0),
                  Threads)

\* totalNumberOfRuns counts every run of every thread (what the variable's
\* name and the log line say); the comment says the access should be
\* synchronised.
TotalCountsAllRuns == totalNumberOfRuns = Increments

\* Every log line reports a totalNumberOfRuns that includes at least the
\* runs of the thread writing it: the line reads the global again after
\* the thread's own increment.
LoggedTotalCoversOwnRuns == \A t \in Threads : logged[t][2] >= logged[t][1]
=============================================================================

------------------------------ MODULE Barrier ------------------------------
(***************************************************************************)
(* What the checkpoint of src/grinder/examples/sync.py promises: in every  *)
(* run, no worker thread gets past the checkpoint before every thread of   *)
(* the process has reached it for that run.  phase[t] is "before", "at"    *)
(* (arrived, not yet past) or "past" the checkpoint of run run[t].        *)
(***************************************************************************)
EXTENDS Naturals

CONSTANTS Threads, MaxRuns

VARIABLES phase, run

vars == <<phase, run>>

\* Every thread other than t has reached the checkpoint of run r.
OthersReached(t, r) ==
    \A u \in Threads \ {t} : run[u] > r \/ (run[u] = r /\ phase[u] # "before")

Init == phase = [t \in Threads |-> "before"] /\ run = [t \in Threads |-> 0]

Arrive(t) ==
    /\ phase[t] = "before"
    /\ run[t] < MaxRuns
    /\ phase' = [phase EXCEPT ![t] = "at"]
    /\ UNCHANGED run

\* A thread passes, from before or at the checkpoint, once all others are at it.
Pass(t) ==
    /\ phase[t] \in {"before", "at"}
    /\ run[t] < MaxRuns
    /\ OthersReached(t, run[t])
    /\ phase' = [phase EXCEPT ![t] = "past"]
    /\ UNCHANGED run

NextRun(t) ==
    /\ phase[t] = "past"
    /\ phase' = [phase EXCEPT ![t] = "before"]
    /\ run' = [run EXCEPT ![t] = @ + 1]

Next == \E t \in Threads : Arrive(t) \/ Pass(t) \/ NextRun(t)

Spec == Init /\ [][Next]_vars
=============================================================================

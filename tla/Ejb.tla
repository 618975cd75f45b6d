--------------------------------- MODULE Ejb ---------------------------------
(***************************************************************************)
(* src/grinder/examples/ejb.py.  The script looks up the TraderHome once   *)
(* per worker process; every run of a worker thread creates a stateful    *)
(* session bean on the server with home.create(), sells the two stocks of *)
(* stocksToSell, buys one, asks for the balance, and removes the bean.    *)
(*                                                                         *)
(* Each remote call is one step and may raise a RemoteException; an       *)
(* exception ends __call__ at once (there is no try/finally), Grinder      *)
(* logs it and starts the thread's next run.  A bean is represented by the *)
(* thread and run that created it.  The stock names, amounts and the      *)
(* sleep are left out: no property reads them.                             *)
(***************************************************************************)
EXTENDS Naturals, Sequences, FiniteSets

CONSTANTS
    Threads,    \* the worker threads of the process
    MaxRuns     \* grinder.runs

ASSUME Threads # {} /\ MaxRuns \in Nat \ {0}

\* The recorded trader calls of a run, in order: trader.sell for each of
\* the two items of stocksToSell, trader.buy for the one of stocksToBuy,
\* and trader.getBalance.
Calls == <<"sell", "sell", "buy", "getBalance">>

VARIABLES
    beans,      \* the session beans alive on the server: <<thread, run>>
    pc,         \* each thread: "idle", "calls" (trader created), "finished"
    step,       \* the trader calls of the run made so far
    runs        \* grinder.runNumber of each thread

vars == <<beans, pc, step, runs>>

Init ==
    /\ beans = {}
    /\ pc = [t \in Threads |-> "idle"]
    /\ step = [t \in Threads |-> 0]
    /\ runs = [t \in Threads |-> 0]

\* The run is over; the thread starts the next, or stops after grinder.runs.
EndRun(t) ==
    /\ runs' = [runs EXCEPT ![t] = @ + 1]
    /\ pc' = [pc EXCEPT ![t] = IF runs[t] + 1 < MaxRuns THEN "idle" ELSE "finished"]

\* trader = home.create(): a new bean for this run, or a RemoteException
\* that ends the run before any bean exists.
Create(t) ==
    /\ pc[t] = "idle"
    /\ \/ /\ beans' = beans \cup {<<t, runs[t]>>}
          /\ pc' = [pc EXCEPT ![t] = "calls"]
          /\ step' = [step EXCEPT ![t] = 0]
          /\ UNCHANGED runs
       \/ /\ EndRun(t)
          /\ UNCHANGED <<beans, step>>

\* The next of sell, sell, buy, getBalance returns.
Call(t) ==
    /\ pc[t] = "calls"
    /\ step[t] < Len(Calls)
    /\ step' = [step EXCEPT ![t] = @ + 1]
    /\ UNCHANGED <<beans, pc, runs>>

\* The next remote call (a trader call, or remove()) raises; __call__
\* ends without reaching trader.remove(), and the bean stays.
Raise(t) ==
    /\ pc[t] = "calls"
    /\ EndRun(t)
    /\ UNCHANGED <<beans, step>>

\* trader.remove() after the calls: the bean is gone and the run is over.
Remove(t) ==
    /\ pc[t] = "calls"
    /\ step[t] = Len(Calls)
    /\ beans' = beans \ {<<t, runs[t]>>}
    /\ EndRun(t)
    /\ UNCHANGED step

Terminated ==
    /\ \A t \in Threads : pc[t] = "finished"
    /\ UNCHANGED vars

Next ==
    \/ \E t \in Threads : Create(t) \/ Call(t) \/ Raise(t) \/ Remove(t)
    \/ Terminated

Spec == Init /\ [][Next]_vars

-----------------------------------------------------------------------------
(* Properties                                                              *)

TypeOK ==
    /\ beans \subseteq Threads \X (0..(MaxRuns - 1))
    /\ pc \in [Threads -> {"idle", "calls", "finished"}]
    /\ step \in [Threads -> 0..Len(Calls)]
    /\ runs \in [Threads -> 0..MaxRuns]

\* Every bean alive on the server belongs to a run still using it: a run
\* that is over, however it ended, has removed the trader it created, as
\* the trader.remove() that closes __call__ is meant to.
NoBeanLeaked ==
    \A b \in beans : pc[b[1]] = "calls" /\ runs[b[1]] = b[2]
=============================================================================

-------------------------------- MODULE Jdbc --------------------------------
(***************************************************************************)
(* src/grinder/examples/jdbc.py.  Every worker process imports the script, *)
(* which drops the table grinder_fun (ignoring any error) and creates it   *)
(* again; then each of its threads runs TestRunner.__call__ once per run:  *)
(* open a connection and an insert statement, insert a row, run the query  *)
(* through queryStatement, and close all three in the finally clause.      *)
(*                                                                         *)
(* The database is shared by all processes; each JDBC call on it is one    *)
(* step.  Any call may raise an SQLException (a lost connection, a full   *)
(* table space); an exception ends the try block and runs the finally      *)
(* clause at once.  One thread per process: the threads of a process share *)
(* nothing but the database, as processes do.                              *)
(***************************************************************************)
EXTENDS Naturals, FiniteSets

CONSTANTS
    Procs,      \* the worker processes
    MaxRuns     \* grinder.runs

ASSUME Procs # {} /\ MaxRuns \in Nat \ {0}

VARIABLES
    table,      \* grinder_fun exists
    init,       \* module initialisation: "drop", "create", "ready", "failed"
    pc,         \* __call__: "idle", "open" (connection and statement), "inserted"
    open,       \* the JDBC objects of the run not yet closed
    runs,       \* grinder.runNumber
    inserts,    \* runs whose insert was executed
    queries     \* runs whose query was executed

vars == <<table, init, pc, open, runs, inserts, queries>>

Init ==
    /\ table \in BOOLEAN            \* left over from an earlier test, or not
    /\ init = [p \in Procs |-> "drop"]
    /\ pc = [p \in Procs |-> "idle"]
    /\ open = [p \in Procs |-> {}]
    /\ runs = [p \in Procs |-> 0]
    /\ inserts = [p \in Procs |-> 0]
    /\ queries = [p \in Procs |-> 0]

Unchanged(p) == UNCHANGED <<table, init, inserts, queries>>

\* try: statement.execute("drop table grinder_fun") except: pass
DropTable(p) ==
    /\ init[p] = "drop"
    /\ table' = FALSE
    /\ init' = [init EXCEPT ![p] = "create"]
    /\ UNCHANGED <<pc, open, runs, inserts, queries>>

\* statement.execute("create table ..."), then ensureClosed twice.  If the
\* table exists the exception ends the import, and the process starts no
\* worker thread.
CreateTable(p) ==
    /\ init[p] = "create"
    /\ table' = TRUE
    /\ init' = [init EXCEPT ![p] = IF table THEN "failed" ELSE "ready"]
    /\ UNCHANGED <<pc, open, runs, inserts, queries>>

\* The finally clause: ensureClosed(insertStatement), ensureClosed(query-
\* Statement), ensureClosed(connection); close() of None raises, which
\* ensureClosed ignores.  The run is over.
Finally(p, objs) ==
    /\ open' = [open EXCEPT ![p] = {}]
    /\ pc' = [pc EXCEPT ![p] = "idle"]
    /\ runs' = [runs EXCEPT ![p] = @ + 1]

\* Mutation-testing variant: a run started after the last one.
ConnectUnbounded(p) ==
    /\ init[p] = "ready"
    /\ pc[p] = "idle"
    /\ \/ Finally(p, {})
       \/ Finally(p, {"connection"})
       \/ /\ open' = [open EXCEPT ![p] = {"connection", "insertStatement"}]
          /\ pc' = [pc EXCEPT ![p] = "open"]
          /\ UNCHANGED runs
    /\ Unchanged(p)

\* connection = getConnection(); insertStatement = connection.createStatement().
\* Either call may raise.
Connect(p) ==
    /\ init[p] = "ready"
    /\ pc[p] = "idle"
    /\ runs[p] < MaxRuns
    /\ \/ Finally(p, {})
       \/ Finally(p, {"connection"})
       \/ /\ open' = [open EXCEPT ![p] = {"connection", "insertStatement"}]
          /\ pc' = [pc EXCEPT ![p] = "open"]
          /\ UNCHANGED runs
    /\ Unchanged(p)

\* test1.record(insertStatement); insertStatement.execute("insert ...").
\* It raises when the table is gone, and may raise anyway.
Insert(p) ==
    /\ pc[p] = "open"
    /\ \/ Finally(p, open[p]) /\ UNCHANGED inserts
       \/ /\ table
          /\ inserts' = [inserts EXCEPT ![p] = @ + 1]
          /\ pc' = [pc EXCEPT ![p] = "inserted"]
          /\ UNCHANGED <<open, runs>>
    /\ UNCHANGED <<table, init, queries>>

\* test2.record(queryStatement) with queryStatement still None: record
\* raises, execute is never reached, and the finally clause runs.
Query(p) ==
    /\ pc[p] = "inserted"
    /\ Finally(p, open[p])
    /\ Unchanged(p)

\* Every process has finished its runs, or never started its threads.
Done ==
    /\ \A p \in Procs : init[p] = "failed" \/ (pc[p] = "idle" /\ runs[p] = MaxRuns)
    /\ UNCHANGED vars

Next ==
    \/ \E p \in Procs : DropTable(p) \/ CreateTable(p) \/ Connect(p) \/ Insert(p) \/ Query(p)
    \/ Done

Spec == Init /\ [][Next]_vars
-----------------------------------------------------------------------------
(* Properties                                                              *)

TypeOK ==
    /\ table \in BOOLEAN
    /\ init \in [Procs -> {"drop", "create", "ready", "failed"}]
    /\ pc \in [Procs -> {"idle", "open", "inserted"}]
    /\ open \in [Procs -> SUBSET {"connection", "insertStatement"}]
    /\ runs \in [Procs -> 0..MaxRuns]

\* Every row inserted is followed by its query ("Database query", test 2):
\* between runs, a thread has run as many queries as inserts.
QueryAfterInsert == \A p \in Procs : pc[p] = "idle" => queries[p] = inserts[p]

\* The one-time initialisation succeeds in every worker process, so each
\* of them runs its threads.
InitialisationSucceeds == \A p \in Procs : init[p] # "failed"
=============================================================================

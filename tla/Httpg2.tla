-------------------------------- MODULE Httpg2 --------------------------------
(***************************************************************************)
(* src/grinder/examples/httpg2.py: runs Grinder 2 HTTP test scripts.  At  *)
(* import the script parses grinder.test<n>.* into one G2HTTPTest per test *)
(* number, and sorts them by number; a test that names only some of the   *)
(* basic authentication realm, user and password raises and the import     *)
(* fails.  Each run of a worker thread's TestRunner calls doTest on every  *)
(* test in that order: GET or POST the URL, decide the outcome from the    *)
(* page and the test's ok string, write the page to a file named after the *)
(* iteration and the test when it failed or logHTML is set, and count the  *)
(* run.                                                                    *)
(*                                                                         *)
(* A test's properties are abstracted to which of them are set; the page   *)
(* the server returns is empty, contains the ok string, or does not.  The *)
(* sleep, the header values and the connection defaults change no state    *)
(* a property reads and are left out.                                      *)
(***************************************************************************)
EXTENDS Naturals, Sequences, FiniteSets

CONSTANTS
    TestNumbers,    \* the n of the grinder.test<n>.* properties
    MaxRuns         \* grinder.runs

ASSUME TestNumbers \subseteq Nat /\ TestNumbers # {} /\ MaxRuns \in Nat

AuthNames == {"realm", "user", "password"}

\* The per-test properties: post data file, a content-type header, ok
\* string, the authentication properties given, and a description.
TestProps == [post : BOOLEAN, contentType : BOOLEAN, ok : BOOLEAN,
              auth : {{}, {"user"}, AuthNames}, description : BOOLEAN]

Pages == {"empty", "withOk", "withoutOk"}

\* G2HTTPTest.__init__ raises when some but not all of realm, user and
\* password are given.
Raises(p) == p.auth \notin {{}, AuthNames}

\* G2HTTPTest.__init__: the parsed test.
G2HTTPTest(n, p) ==
         [number      |-> n,
          postData    |-> p.post,
          contentType |-> p.contentType \/ p.post,
          okString    |-> p.ok,
          basicAuth   |-> p.auth = AuthNames,
          description |-> p.description]

\* Mutation-testing variant: the tests sorted by their keys as strings.
SortedTestsAsStrings(T) ==
    LET S == DOMAIN T
        Dec[k \in Nat] == IF k < 10 THEN <<k>> ELSE Dec[k \div 10] \o <<k % 10>>
        Less(a, b) == \E i \in 0..Len(a) :
                        /\ i <= Len(b)
                        /\ \A j \in 1..i : a[j] = b[j]
                        /\ IF i = Len(a) THEN i < Len(b) ELSE i < Len(b) /\ a[i+1] < b[i+1]
    IN  [i \in 1..Cardinality(S) |->
            T[CHOOSE k \in S : Cardinality({j \in S : Less(Dec[j], Dec[k])}) = i - 1]]

\* sortedTests = tests.items(); sortedTests.sort(): by test number.
SortedTests(T) ==
    LET S == DOMAIN T
    IN  [i \in 1..Cardinality(S) |->
            T[CHOOSE k \in S : Cardinality({j \in S : j < k}) = i - 1]]

\* doTest's error: the ok string when the page is empty, otherwise
\* okString and page.find(okString) == -1 (truthy means the test failed).
Error(t, page) ==
    IF page = "empty" THEN t.okString ELSE t.okString /\ page = "withoutOk"

VARIABLES
    logHTML,    \* the logHTML plugin parameter
    phase,      \* "running", or "failed" when the import raised
    tests,      \* the sorted tests
    iteration,  \* self.iteration of the TestRunner
    runs,       \* the runs Grinder has started (grinder.runNumber)
    pos,        \* the next test of the for loop in __call__
    outcomes    \* every doTest so far: test, loop index, iteration, page, success,
                \* the file the page went to (or <<>>), error logged

vars == <<logHTML, phase, tests, iteration, runs, pos, outcomes>>

Init ==
    /\ logHTML \in BOOLEAN
    /\ \E props \in [TestNumbers -> TestProps] :
          IF \E n \in TestNumbers : Raises(props[n])
          THEN phase = "failed" /\ tests = <<>>
          ELSE /\ phase = "running"
               /\ tests = SortedTests([n \in TestNumbers |-> G2HTTPTest(n, props[n])])
    /\ iteration = 0
    /\ runs = 0
    /\ pos = 1
    /\ outcomes = <<>>

\* doTest(self.iteration) for the next test, with the page the server
\* returned: the outcome, and the page file when it failed or logHTML.
DoTest(page) ==
    /\ phase = "running"
    /\ runs < MaxRuns
    /\ pos <= Len(tests)
    /\ LET t     == tests[pos]
           error == Error(t, page)
           write == page # "empty" /\ (error \/ logHTML)
       IN  outcomes' = Append(outcomes,
                [test |-> t.number, index |-> pos, iteration |-> iteration, page |-> page,
                 success |-> ~error,
                 file |-> IF write THEN <<iteration, t.number, t.description>> ELSE <<>>,
                 logged |-> page # "empty" /\ error])
    /\ pos' = pos + 1
    /\ UNCHANGED <<logHTML, phase, tests, iteration, runs>>

\* request.GET or request.POST raises (connection refused, timeout): the
\* exception leaves doTest and __call__ before self.iteration += 1, and
\* Grinder logs it and starts the next run.
RequestRaises ==
    /\ phase = "running"
    /\ runs < MaxRuns
    /\ pos <= Len(tests)
    /\ runs' = runs + 1
    /\ pos' = 1
    /\ UNCHANGED <<logHTML, phase, tests, iteration, outcomes>>

\* The end of __call__: self.iteration += 1.
EndRun ==
    /\ phase = "running"
    /\ runs < MaxRuns
    /\ pos > Len(tests)
    /\ iteration' = iteration + 1
    /\ runs' = runs + 1
    /\ pos' = 1
    /\ UNCHANGED <<logHTML, phase, tests, outcomes>>

\* The runs are done, or the import failed and no worker thread runs.
Stopped ==
    /\ phase = "failed" \/ runs = MaxRuns
    /\ UNCHANGED vars

Next == (\E page \in Pages : DoTest(page)) \/ RequestRaises \/ EndRun \/ Stopped

Spec == Init /\ [][Next]_vars

-----------------------------------------------------------------------------
(* Properties                                                              *)

TypeOK ==
    /\ logHTML \in BOOLEAN
    /\ phase \in {"running", "failed"}
    /\ iteration \in 0..MaxRuns
    /\ runs \in 0..MaxRuns
    /\ pos \in 1..(Cardinality(TestNumbers) + 1)

\* The tests of a run are called in ascending order of their numbers
\* (grinder.test2 before grinder.test10).
TestsInNumericOrder ==
    \A i \in 1..(Len(outcomes) - 1) :
        outcomes[i + 1].index > 1 => outcomes[i].test < outcomes[i + 1].test

\* No page file is written twice by a thread: each names the iteration
\* and the test, so a later run never overwrites an earlier page (the
\* reason the file name carries the iteration).
NoPageOverwritten ==
    \A i, j \in 1..Len(outcomes) :
        i # j /\ outcomes[i].file # <<>> => outcomes[i].file # outcomes[j].file

\* Every failed test is reported: the error log names the ok string and
\* the file the page was written to.
FailuresReported ==
    \A i \in 1..Len(outcomes) : ~outcomes[i].success => outcomes[i].logged
=============================================================================

------------------------------- MODULE Sequence -------------------------------
(***************************************************************************)
(* src/grinder/examples/sequence.py: the scripts named by the properties  *)
(* script1, script2, ... are put in a java.util.TreeMap keyed by what     *)
(* follows "script", and every worker thread's TestRunner calls their     *)
(* TestRunners in the map's order, once per run.                          *)
(*                                                                         *)
(* Script k is the property script<k>; its key is the decimal string of k, *)
(* a sequence of digits, and TreeMap orders keys by String.compareTo.      *)
(***************************************************************************)
EXTENDS Naturals, Sequences, FiniteSets, SequencesExt

CONSTANTS
    MaxScripts, \* the largest number of scriptN properties
    MaxRuns     \* grinder.runs

ASSUME MaxScripts \in Nat \ {0} /\ MaxRuns \in Nat \ {0}

\* "%d" % k: the decimal digits of k, most significant first.
RECURSIVE Decimal(_)
Decimal(k) == IF k < 10 THEN <<k>> ELSE Decimal(k \div 10) \o <<k % 10>>

\* String.compareTo < 0 on strings of digits: the first differing character
\* decides; a proper prefix comes first.
RECURSIVE StringLess(_, _)
StringLess(a, b) ==
    IF a = <<>> THEN b # <<>>
    ELSE IF b = <<>> THEN FALSE
    ELSE IF Head(a) # Head(b) THEN Head(a) < Head(b)
    ELSE StringLess(Tail(a), Tail(b))

\* Mutation-testing variant: the values numbered from 0, as Python indexes.
TreeMapValuesFrom0(n) ==
    [i \in 0..(n - 1) |->
        CHOOSE k \in 1..n :
            Cardinality({j \in 1..n : StringLess(Decimal(j), Decimal(k))}) = i]

\* TreeMap(...).values(): the scripts 1..n in ascending order of their keys.
\* The order is total, so the i-th value is the one with i - 1 keys below.
TreeMapValues(n) ==
    [i \in 1..n |->
        CHOOSE k \in 1..n :
            Cardinality({j \in 1..n : StringLess(Decimal(j), Decimal(k))}) = i - 1]

VARIABLES
    n,              \* the number of scriptN properties
    testRunners,    \* self.testRunners, in call order; <<>> before __init__
    pos,            \* the next testRunner of the for loop in __call__
    called,         \* the scripts called so far in the current run
    done            \* the scripts each completed run called (history)

vars == <<n, testRunners, pos, called, done>>

Init ==
    /\ n \in 1..MaxScripts
    /\ testRunners = <<>>
    /\ pos = 1
    /\ called = <<>>
    /\ done = <<>>

\* TestRunner.__init__: one TestRunner per value of the map, in its order.
NewTestRunner ==
    /\ testRunners = <<>>
    /\ testRunners' = TreeMapValues(n)
    /\ UNCHANGED <<n, pos, called, done>>

\* for testRunner in self.testRunners: testRunner()
CallScript ==
    /\ testRunners # <<>>
    /\ Len(done) < MaxRuns
    /\ pos <= Len(testRunners)
    /\ called' = Append(called, testRunners[pos])
    /\ pos' = pos + 1
    /\ UNCHANGED <<n, testRunners, done>>

\* Mutation-testing variant: the run ends before the last script.
EndRunEarly ==
    /\ testRunners # <<>>
    /\ Len(done) < MaxRuns
    /\ pos >= Len(testRunners)
    /\ done' = Append(done, called)
    /\ pos' = 1
    /\ called' = <<>>
    /\ UNCHANGED <<n, testRunners>>

\* __call__ returns: the run is over, the next starts from the first script.
EndRun ==
    /\ testRunners # <<>>
    /\ Len(done) < MaxRuns
    /\ pos > Len(testRunners)
    /\ done' = Append(done, called)
    /\ pos' = 1
    /\ called' = <<>>
    /\ UNCHANGED <<n, testRunners>>

Finished ==
    /\ Len(done) = MaxRuns
    /\ UNCHANGED vars

Next == NewTestRunner \/ CallScript \/ EndRun \/ Finished

Spec == Init /\ [][Next]_vars

-----------------------------------------------------------------------------
(* Properties                                                              *)

TypeOK ==
    /\ n \in 1..MaxScripts
    /\ \E k \in 0..MaxScripts : testRunners \in [1..k -> 1..MaxScripts]
    /\ pos \in 1..(MaxScripts + 1)
    /\ called \in Seq(1..MaxScripts)
    /\ done \in Seq(Seq(1..MaxScripts))
    /\ Len(done) <= MaxRuns

\* Every run calls every configured script exactly once: the TreeMap keeps
\* one value per key and no run ends before the last of them.
EveryScriptOncePerRun ==
    \A r \in 1..Len(done) : Len(done[r]) = n /\ ToSet(done[r]) = 1..n

\* The scripts run "in sequence" as numbered, script1 before script2 and so
\* on: the i-th script called in a run is script<i>.
InNumericOrder == \A i \in 1..Len(called) : called[i] = i
=============================================================================

CONSTANTS
    t1 = t1
    t2 = t2
    t3 = t3
    Threads <- MCThreads
    MaxRuns = 3
SPECIFICATION Spec
INVARIANT TypeOK
INVARIANT WaitingCounted
PROPERTY ImplementsBarrier
PROPERTY AllRunsComplete

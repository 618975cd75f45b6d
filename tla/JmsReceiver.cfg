CONSTANTS
    r1 = r1
    r2 = r2
    Receivers <- MCOneReceiver
    MsgsPerRun = 2
    MaxRuns = 3
    SenderRuns = 3
SPECIFICATION Spec
INVARIANT TypeOK
INVARIANT NoPopFromEmpty
PROPERTY AllRunsComplete

CONSTANTS
    r1 = r1
    r2 = r2
    Receivers <- MCTwoReceivers
    MsgsPerRun = 2
    MaxRuns = 1
    SenderRuns = 2
SPECIFICATION Spec
PROPERTY AllRunsComplete

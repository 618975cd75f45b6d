CONSTANTS
    r1 = r1
    r2 = r2
    Receivers <- MCOneReceiver
    MsgsPerRun = 2
    MaxRuns = 2
    SenderRuns = 2
SPECIFICATION Spec
INVARIANT RecordsOwnRun

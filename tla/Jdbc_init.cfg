CONSTANTS
    p1 = p1
    p2 = p2
    Procs <- MCProcs
    MaxRuns = 1
SPECIFICATION Spec
INVARIANT InitialisationSucceeds

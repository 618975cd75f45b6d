CONSTANTS
    t1 = t1
    t2 = t2
    Threads <- MCThreads
    MaxRuns = 2
SYMMETRY MCSymmetry
SPECIFICATION Spec
INVARIANT NoBeanLeaked

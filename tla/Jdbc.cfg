CONSTANTS
    p1 = p1
    p2 = p2
    Procs <- MCProcs
    MaxRuns = 2
SYMMETRY MCSymmetry
SPECIFICATION Spec
INVARIANT TypeOK

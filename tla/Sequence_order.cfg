SPECIFICATION Spec
CONSTANTS
    MaxScripts = 12
    MaxRuns = 1
INVARIANT
    InNumericOrder

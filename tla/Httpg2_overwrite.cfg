CONSTANTS
    TestNumbers <- MCTestNumbers
    MaxRuns = 2
SPECIFICATION Spec
INVARIANT NoPageOverwritten

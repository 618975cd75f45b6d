CONSTANTS
    TestNumbers <- MCTestNumbers
    MaxRuns = 1
SPECIFICATION Spec
INVARIANT FailuresReported

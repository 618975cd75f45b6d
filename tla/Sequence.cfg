SPECIFICATION Spec
CONSTANTS
    MaxScripts = 12
    MaxRuns = 2
INVARIANTS
    TypeOK
    EveryScriptOncePerRun

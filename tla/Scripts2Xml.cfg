CONSTANTS
    NoAttr = NoAttr
    F = F
    Scripts <- MCScripts
    MaxFiles = 2
SPECIFICATION Spec
INVARIANT TypeOK
INVARIANT ValidNesting

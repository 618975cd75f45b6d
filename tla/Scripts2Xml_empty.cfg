CONSTANTS
    NoAttr = NoAttr
    F = F
    Scripts <- MCScripts
    MaxFiles = 1
SPECIFICATION Spec
INVARIANT NoValueError

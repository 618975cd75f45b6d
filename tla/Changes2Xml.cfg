CONSTANTS
    NoAttr = NoAttr
    R1 = R1
    R2 = R2
    H = H
    Releases <- MCReleases
    Names <- MCNames
    MaxLines = 5
    MaxDocs = 2
SPECIFICATION Spec
INVARIANT TypeOK
INVARIANT NoStackUnderflow
INVARIANT ValidNesting
INVARIANT ReleasesAtTopLevel
INVARIANT SectionIdsUnique

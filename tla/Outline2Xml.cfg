CONSTANTS
    NoAttr = NoAttr
    A = A
    Titles <- MCTitles
    MaxDepth = 3
    MaxLines = 5
    MaxDocs = 1
SPECIFICATION Spec
INVARIANT TypeOK
INVARIANT NoStackUnderflow
INVARIANT ValidNesting
INVARIANT SectionIdsUnique
PROPERTY ConsecutiveItemsShareList

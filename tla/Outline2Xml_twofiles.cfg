CONSTANTS
    NoAttr = NoAttr
    A = A
    Titles <- MCTitles
    MaxDepth = 3
    MaxLines = 3
    MaxDocs = 2
SPECIFICATION Spec
INVARIANT ValidNesting

CONSTANTS
    NoAttr = NoAttr
    A = A
    Titles <- MCTitles
    MaxDepth = 3
    MaxLines = 3
    MaxDocs = 1
SPECIFICATION Spec
INVARIANT QuoteClosesListItem

CONSTANTS
    Words <- MCWords
    MaxWords = 4
SPECIFICATION Spec
INVARIANT TypeOK
INVARIANT WellFormedMarkup
INVARIANT TextPreserved

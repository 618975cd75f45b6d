CONSTANTS
    Words <- MCWords
    MaxWords = 4
SPECIFICATION Spec
INVARIANT ShortLinksNameIssue

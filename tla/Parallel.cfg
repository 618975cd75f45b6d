CONSTANT MaxThreads = 7
SPECIFICATION Spec
INVARIANT TypeOK
INVARIANT SharesAsCommented

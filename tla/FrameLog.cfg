SPECIFICATION Spec
CONSTANTS
    c1 = c1
    c2 = c2
    c3 = c3
    Captures = {c1, c2}
    PathOf <- MCPathOf
    QueueMax = 2
    MaxLines = 2
    MaxDeaths = 1
INVARIANTS
    FlushMeansDone
    FilesInOrder
PROPERTIES
    CountReturns
CHECK_DEADLOCK FALSE

SPECIFICATION Spec
CONSTANTS
    EndTag = 5
    RxMax = 2
    MaxQueries = 3
    MaxPackets = 3
CHECK_DEADLOCK FALSE
INVARIANTS
    OwnUnlessLateHead
    SpliceNeedsLoss
    OwnReplySuffices
PROPERTIES
    AssemblesWholeReplies

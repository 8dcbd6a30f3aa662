SPECIFICATION Spec
CONSTANTS
    PageCounts <- MCPageCounts
    MaxCrashes = 2
INVARIANTS
    TidyAtExit
    TransfersWhole
PROPERTY ImplementsAtomicUpdate

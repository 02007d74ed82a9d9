SPECIFICATION FairSpec
CONSTANTS
    Worker = {w1, w2, w3}
    NTask = 4
INVARIANTS
    TypeInv
    TaskAccounting
    DrainedAtShutdown
    WorkConserving
PROPERTIES
    ImplementsExecutor
    ShutdownCompletes

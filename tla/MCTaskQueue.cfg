SPECIFICATION FairSpec
CONSTANTS
    w1 = w1
    w2 = w2
    Workers <- TwoWorkers
    Programs <- BothPrograms
    MaxLosses = 2
INVARIANTS
    TypeOK
    PrefetchBound
    RedoneOnlyAfterLoss
    NothingForgotten
    IInv
PROPERTIES
    ImplementsPromise
    EveryTaskIsWorked
CHECK_DEADLOCK FALSE

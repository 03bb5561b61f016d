SPECIFICATION SmallFairSpec
CONSTANTS
    e1 = e1
    e2 = e2
    Events <- TwoRounds
    MaxClasses = 3
    ThreadSettings <- LoopPairOrTrio
INVARIANTS
    TypeOK
    FinishMeansChecked
    NothingLeftBehind
    IInv
PROPERTIES
    ImplementsPromise
    RoundEnds
CHECK_DEADLOCK FALSE

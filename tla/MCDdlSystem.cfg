SPECIFICATION SmallFairSpec
CONSTANTS
    e1 = e1
    user = user
    order = order
    id = id
    Events <- OneRound
    MaxClasses = 2
    ThreadSettings <- LoopOrPair
    Entities <- TwoTables
    Names <- OneColumn
    Mappings <- KeyedOnly
    PoolSize = 1
    MaxFaults = 1
INVARIANTS
    FinishMeansConforms
    FinishMeansQuiet
    SystemInv
PROPERTIES
    SystemRoundEnds
CHECK_DEADLOCK FALSE

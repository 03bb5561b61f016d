SPECIFICATION FairSpec
CONSTANTS
    t1 = t1
    t2 = t2
    t3 = t3
    k1 = k1
    k2 = k2
    None = None
    Threads <- ThreeThreads
    Keys <- TwoKeys
    Known <- OneKnown
    Derived <- Tables
    Work <- OneOfThem
INVARIANTS
    TypeOK
    ComputedOnce
    EmptyOnlyWhileLoading
    SingletonWithoutRace
PROPERTIES
    LoneLookupAnswers
    CallsReturn
CHECK_DEADLOCK FALSE

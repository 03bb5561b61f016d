SPECIFICATION Spec
CONSTANTS
    main = main
    beside = beside
    Undef = Undef
    Containers = {main, beside}
    Offers <- AnyAndReset
    Values <- TwoTexts
    Sanitised <- OnlyNumbers
INVARIANTS
    TypeOK
    DomIsFresh
    NameIsKept
    ValueIsKept
PROPERTIES
    ImplementsPromise
CHECK_DEADLOCK FALSE

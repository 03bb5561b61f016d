SPECIFICATION Spec
CONSTANTS
    main = main
    beside = beside
    Undef = Undef
    Containers = {main, beside}
    Offers <- AnyAndReset
    Values <- TwoTexts
    Sanitised <- OnlyNumbers
INVARIANTS
    InputsAreStyled
CHECK_DEADLOCK FALSE

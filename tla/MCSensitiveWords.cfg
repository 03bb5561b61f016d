SPECIFICATION Spec
CONSTANTS
    MaxWords = 3
    MaxWordLength = 3
    MaxTextLength = 5
    MaxPatternText = 3
    Alphabet <- Characters
    WordLists <- AllLists
    Texts <- SmallTexts
INVARIANTS
    TypeOK
    TrieHoldsWords
    FiltersAgree
    ShortestAreWords
    NothingPassedBy
    CollectedAreGone
    LeftOnlyByOverlap
CHECK_DEADLOCK FALSE

SPECIFICATION Spec
CONSTANTS
    MaxWords = 3
    MaxWordLength = 3
    MaxTextLength = 5
    MaxPatternText = 0
    Alphabet <- TwoLetters
    WordLists <- SmallLists
    Texts <- LetterTexts
INVARIANTS
    LengthIsOfWord
CHECK_DEADLOCK FALSE

SPECIFICATION Spec
CONSTANTS
    MaxWords = 3
    MaxWordLength = 3
    MaxTextLength = 5
    MaxPatternText = 0
    Alphabet <- TwoLetters
    WordLists <- PairLists
    Texts <- LetterTexts
INVARIANTS
    ReplacedIsClean
CHECK_DEADLOCK FALSE

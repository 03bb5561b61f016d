-------------------------- MODULE MCSensitiveWords --------------------------
(* Instances of SensitiveWords for TLC: lists and texts of two letters, and  *)
(* words that are regular expressions, alone and beside a short plain word,  *)
(* with texts that spell them and texts that they match.                     *)
EXTENDS SensitiveWords

CONSTANTS MaxWords, MaxWordLength, MaxTextLength, MaxPatternText

TwoLetters == {"a", "b"}
Special == {"a", Dot, Bar, Backslash}
Characters == TwoLetters \cup Special \cup {LineEnd}

Strings(S, n) == UNION {[1 .. k -> S] : k \in 0 .. n}

\* Every list of up to MaxWords words of letters, the empty word among them.
SmallLists == UNION {kSubset(k, Strings(TwoLetters, MaxWordLength)) : k \in 0 .. MaxWords}
\* Lists of words of one length only.
PairLists == UNION {kSubset(k, [1 .. 2 -> TwoLetters]) : k \in 0 .. MaxWords}

Patterns == {word \in Strings(Special, MaxWordLength) : Compiles(word)}
PatternLists == {{pattern, word} : pattern \in Patterns, word \in Strings({"a"}, 2)}

AllLists == SmallLists \cup PatternLists
LetterTexts == Strings(TwoLetters, MaxTextLength)
SmallTexts ==
    LetterTexts \cup Strings({"a", Bar, Backslash}, MaxPatternText)
        \cup {<<"a", c, "a">> : c \in {Dot, LineEnd}}
=============================================================================

----------------------------- MODULE WordPattern -----------------------------
(***************************************************************************)
(* A word of the list read as a regular expression, which is what          *)
(* SensitivewordFilter.java:133 and RegexSensitiveWordFilter.java:16 do    *)
(* with it: neither quotes it.  Of the characters that java.util.regex     *)
(* gives a meaning, the words of src/sensitive.txt have these:             *)
(*   .  any character but the end of a line,                               *)
(*   |  an alternative, of which the first that matches counts,            *)
(*   \  the next character stands for itself.                              *)
(* A word is compiled and matched from a position on, without backtracking *)
(* since nothing in it repeats.  Letters stand for all other characters.   *)
(***************************************************************************)
EXTENDS Integers, Sequences, FiniteSets, FiniteSetsExt

ReplaceChar == "*"
Dot == "."
Bar == "|"
Backslash == "\\"
LineEnd == "LF"

\* The character at k stands behind an odd number of backslashes.
Escaped(word, k) ==
    \E n \in 1 .. k - 1 :
        /\ n % 2 = 1
        /\ \A j \in k - n .. k - 1 : word[j] = Backslash
        /\ n < k - 1 => word[k - n - 1] # Backslash

\* Where char stands with its meaning.
Unescaped(word, char) == {k \in 1 .. Len(word) : word[k] = char /\ ~Escaped(word, k)}

\* Pattern.compile throws a PatternSyntaxException when nothing follows a backslash.
Compiles(word) == Len(word) \notin Unescaped(word, Backslash)

\* An alternative is named by the bar in front of it, the first by 0.
Alternatives(word) == {0} \cup Unescaped(word, Bar)

\* The characters of an alternative that take one character of the text each.
Items(word, bar) ==
    (bar + 1 .. Min({k \in Unescaped(word, Bar) : k > bar} \cup {Len(word) + 1}) - 1)
        \ Unescaped(word, Backslash)

\* How many of them stand in front of k.
Before(word, bar, k) == Cardinality({j \in Items(word, bar) : j < k})

Accepts(word, k, char) ==
    IF k \in Unescaped(word, Dot) THEN char # LineEnd ELSE char = word[k]

Matching(word, text, p) ==
    {bar \in Alternatives(word) : \A k \in Items(word, bar) :
        /\ p + Before(word, bar, k) <= Len(text)
        /\ Accepts(word, k, text[p + Before(word, bar, k)])}

MatchesAt(word, text, p) == Matching(word, text, p) # {}

\* How many characters the match at p takes, 0 if there is none.
Width(word, text, p) ==
    IF MatchesAt(word, text, p) THEN Cardinality(Items(word, Min(Matching(word, text, p))))
    ELSE 0

-----------------------------------------------------------------------------
(* Matcher.find and String.replaceAll.                                     *)

Find(word, text) == \E p \in 1 .. Len(text) + 1 : MatchesAt(word, text, p)

\* As many replacement characters as the word has characters, whatever it matched.
ReplaceChars(word) == [k \in 1 .. Len(word) |-> ReplaceChar]

\* What replaceAll appends where it looks for a match: the replacement of one, and the
\* character that no match takes.
Emitted(word, text, p) ==
    (IF MatchesAt(word, text, p) THEN ReplaceChars(word) ELSE <<>>)
        \o (IF Width(word, text, p) = 0 /\ p <= Len(text) THEN <<text[p]>> ELSE <<>>)

\* Where it looks next: behind the match, and behind the character after an empty one.
After(word, text, p) ==
    IF Width(word, text, p) = 0 THEN p + 1 ELSE p + Width(word, text, p)

\* What replaceAll makes of the text from each position on.
Rest(word, text) ==
    LET rest[p \in 1 .. Len(text) + 2] ==
            IF p = Len(text) + 2 THEN <<>>
            ELSE Emitted(word, text, p) \o rest[After(word, text, p)]
    IN rest

\* replaceFirst.
MutReplaceAll(word, text) ==
    LET p == Min({q \in 1 .. Len(text) + 1 : MatchesAt(word, text, q)} \cup {Len(text) + 2})
    IN IF p = Len(text) + 2 THEN text
       ELSE SubSeq(text, 1, p - 1) \o ReplaceChars(word)
                \o SubSeq(text, p + Width(word, text, p), Len(text))

ReplaceAll(word, text) == Rest(word, text)[1]
=============================================================================

--------------------------- MODULE SensitiveWords ---------------------------
(***************************************************************************)
(* The filter of sensitive words: SensitiveWordInit builds a trie of maps  *)
(* from the word list, SensitivewordFilter walks it over a text, with the  *)
(* shortest or the longest match, and replaces what it found.              *)
(*                                                                         *)
(* A map of the trie is named by the characters on the way to it; "nodes"  *)
(* are the maps below the root, "ends" those whose isEnd is "1".  What is  *)
(* a word for the trie is a regular expression for the replacement and for *)
(* the other filter (WordPattern).                                         *)
(***************************************************************************)
EXTENDS Integers, Sequences, FiniteSets, FiniteSetsExt, WordPattern

CONSTANTS Alphabet,  \* the characters of words and texts
          WordLists, \* the word lists that may be read, sets of sequences
          Texts      \* the texts that are filtered

Letters == Alphabet \ {ReplaceChar}

\* As in src/sensitive.txt: no word has the replacement character in it or ends in a
\* backslash that nothing follows.
ASSUME SensitiveWordsAssumption ==
    /\ \A list \in WordLists : list \subseteq Seq(Letters) /\ \A word \in list : Compiles(word)
    /\ Texts \subseteq Seq(Alphabet)

VARIABLES
    words,      \* wordSet: the list that has been read
    pending,    \* the words not yet in the trie, in no particular order
    nodes,      \* the maps of the trie
    ends,       \* those with isEnd = "1"
    state,      \* what the filter is doing
    txt,        \* the text of the call
    matchType,  \* minMatchTYpe or maxMatchType
    i,          \* the loop variable of getSensitiveWord
    found,      \* sensitiveWordList
    covered,    \* the positions of txt that the walk has cut out (history)
    unreplaced, \* the words the iterator of replaceSensitiveWord has still to give
    resultTxt

trie == <<words, pending, nodes, ends>>
vars == <<trie, state, txt, matchType, i, found, covered, unreplaced, resultTxt>>

minMatchTYpe == 1
maxMatchType == 2

Init ==
    /\ words \in WordLists
    /\ pending = words
    /\ nodes = {}
    /\ ends = {}
    /\ state = "building"
    /\ txt = <<>>
    /\ matchType = minMatchTYpe
    /\ i = 1
    /\ found = {}
    /\ covered = {}
    /\ unreplaced = {}
    /\ resultTxt = <<>>

-----------------------------------------------------------------------------
(* addSensitiveWordToHashMap.                                              *)

NonEmptyPrefixes(word) == {SubSeq(word, 1, n) : n \in 1 .. Len(word)}

\* A loop that puts isEnd = "0" into the maps it passes, not only into new ones.
MutAddWord(word) ==
    /\ state = "building"
    /\ word \in pending
    /\ pending' = pending \ {word}
    /\ nodes' = nodes \cup NonEmptyPrefixes(word)
    /\ ends' = (ends \ NonEmptyPrefixes(word)) \cup ({word} \ {<<>>})
    /\ UNCHANGED <<words, state, txt, matchType, i, found, covered, unreplaced, resultTxt>>

\* One word: the maps on its way, and isEnd = "1" in the last, if there is one.
AddWord(word) ==
    /\ state = "building"
    /\ word \in pending
    /\ pending' = pending \ {word}
    /\ nodes' = nodes \cup NonEmptyPrefixes(word)
    /\ ends' = ends \cup ({word} \ {<<>>})
    /\ UNCHANGED <<words, state, txt, matchType, i, found, covered, unreplaced, resultTxt>>

Built ==
    /\ state = "building"
    /\ pending = {}
    /\ state' = "ready"
    /\ UNCHANGED <<trie, txt, matchType, i, found, covered, unreplaced, resultTxt>>

-----------------------------------------------------------------------------
(* CheckSensitiveWord.                                                     *)

\* The characters from begin on that the walk can follow down the trie.
Walk(text, begin) ==
    {n \in 1 .. Len(text) - begin + 1 :
        \A k \in 1 .. n : SubSeq(text, begin, begin + k - 1) \in nodes}

EndsOn(text, begin) == {n \in Walk(text, begin) : SubSeq(text, begin, begin + n - 1) \in ends}

\* A walk that goes on behind the end of a word whatever the type of match.
MutMatchFlag(text, begin, type) == Max(Walk(text, begin) \cup {0})

\* matchFlag after the loop: it stops at the first end of a word when the match is the
\* shortest, and otherwise where the trie has no further character.
MatchFlag(text, begin, type) ==
    IF type = minMatchTYpe /\ EndsOn(text, begin) # {} THEN Min(EndsOn(text, begin))
    ELSE Max(Walk(text, begin) \cup {0})

\* The test for one character off by one.
MutCheckSensitiveWord(text, begin, type) ==
    LET matchFlag == MatchFlag(text, begin, type) IN
    IF matchFlag <= 2 \/ EndsOn(text, begin) = {} THEN 0 ELSE matchFlag

\* Less than two characters, or no end of a word on the way, counts as no match.
CheckSensitiveWord(text, begin, type) ==
    LET matchFlag == MatchFlag(text, begin, type) IN
    IF matchFlag < 2 \/ EndsOn(text, begin) = {} THEN 0 ELSE matchFlag

IsContaintSensitiveWord(text, type) ==
    \E begin \in 1 .. Len(text) : CheckSensitiveWord(text, begin, type) > 0

-----------------------------------------------------------------------------
(* RegexSensitiveWordFilter, the other filter: one pattern, the words      *)
(* joined by "|", which of no words is empty and is found in every text.   *)

IsContainSensitiveWord(text) == words = {} \/ \E word \in words : Find(word, text)

-----------------------------------------------------------------------------
(* getSensitiveWord and replaceSensitiveWord.                              *)

ReplaceSensitiveWord(text, type) ==
    /\ state = "ready"
    /\ state' = "searching"
    /\ txt' = text
    /\ matchType' = type
    /\ i' = 1
    /\ found' = {}
    /\ covered' = {}
    /\ resultTxt' = text
    /\ UNCHANGED <<trie, unreplaced>>

\* A loop that steps over one character too many after a match.
MutTake ==
    LET length == CheckSensitiveWord(txt, i, matchType) IN
    /\ state = "searching" /\ i <= Len(txt)
    /\ length > 0
    /\ found' = found \cup {SubSeq(txt, i, i + length - 1)}
    /\ covered' = covered \cup (i .. i + length - 1)
    /\ i' = i + length + 1
    /\ UNCHANGED <<trie, state, txt, matchType, unreplaced, resultTxt>>

\* A match: it is collected, and the loop goes on behind it.
Take ==
    LET length == CheckSensitiveWord(txt, i, matchType) IN
    /\ state = "searching" /\ i <= Len(txt)
    /\ length > 0
    /\ found' = found \cup {SubSeq(txt, i, i + length - 1)}
    /\ covered' = covered \cup (i .. i + length - 1)
    /\ i' = i + length
    /\ UNCHANGED <<trie, state, txt, matchType, unreplaced, resultTxt>>

Skip ==
    /\ state = "searching" /\ i <= Len(txt)
    /\ CheckSensitiveWord(txt, i, matchType) = 0
    /\ i' = i + 1
    /\ UNCHANGED <<trie, state, txt, matchType, found, covered, unreplaced, resultTxt>>

Searched ==
    /\ state = "searching" /\ i > Len(txt)
    /\ state' = "replacing"
    /\ unreplaced' = found
    /\ UNCHANGED <<trie, txt, matchType, i, found, covered, resultTxt>>

\* The iterator of a HashSet gives the words in an order of its own.
Replace(word) ==
    /\ state = "replacing"
    /\ word \in unreplaced
    /\ Compiles(word)
    /\ unreplaced' = unreplaced \ {word}
    /\ resultTxt' = ReplaceAll(word, resultTxt)
    /\ UNCHANGED <<trie, state, txt, matchType, i, found, covered>>

\* What the longest match collects need be no word of the list: the beginning of one may
\* end in its backslash.
ReplaceThrows(word) ==
    /\ state = "replacing"
    /\ word \in unreplaced
    /\ ~Compiles(word)
    /\ state' = "thrown"
    /\ unreplaced' = {}
    /\ UNCHANGED <<trie, txt, matchType, i, found, covered, resultTxt>>

Replaced ==
    /\ state = "replacing"
    /\ unreplaced = {}
    /\ state' = "done"
    /\ UNCHANGED <<trie, txt, matchType, i, found, covered, unreplaced, resultTxt>>

\* The call is over: its variables are gone.
Return ==
    /\ state \in {"done", "thrown"}
    /\ state' = "ready"
    /\ txt' = <<>>
    /\ matchType' = minMatchTYpe
    /\ i' = 1
    /\ found' = {}
    /\ covered' = {}
    /\ resultTxt' = <<>>
    /\ UNCHANGED <<trie, unreplaced>>

-----------------------------------------------------------------------------
Next ==
    \/ \E word \in pending : AddWord(word)
    \/ Built
    \/ \E text \in Texts : \E type \in {minMatchTYpe, maxMatchType} :
          ReplaceSensitiveWord(text, type)
    \/ Take \/ Skip \/ Searched
    \/ \E word \in unreplaced : Replace(word) \/ ReplaceThrows(word)
    \/ Replaced
    \/ Return

Spec == Init /\ [][Next]_vars

-----------------------------------------------------------------------------
(* Properties.                                                             *)

\* Type correctness of the trie and of the local variables; the loop of getSensitiveWord
\* never leaves the text by more than one.
TypeOK ==
    /\ words \subseteq Seq(Alphabet)
    /\ pending \subseteq words
    /\ nodes \subseteq Seq(Alphabet) /\ ends \subseteq nodes
    /\ state \in {"building", "ready", "searching", "replacing", "done", "thrown"}
    /\ txt \in Seq(Alphabet)
    /\ matchType \in {minMatchTYpe, maxMatchType}
    /\ i \in 1 .. Len(txt) + 1
    /\ covered \subseteq 1 .. Len(txt)
    /\ unreplaced \subseteq found
    /\ resultTxt \in Seq(Alphabet \cup {ReplaceChar})

\* The trie holds the words read so far and nothing else, in whatever order the set
\* gave them and whichever is a prefix of which (SensitiveWordInit.java:52-84).
TrieHoldsWords ==
    /\ ends = (words \ pending) \ {<<>>}
    /\ nodes = UNION {NonEmptyPrefixes(word) : word \in words \ pending}

OccursAt(word, text, p) ==
    /\ p + Len(word) - 1 <= Len(text)
    /\ SubSeq(text, p, p + Len(word) - 1) = word

Occurs(word, text) == \E p \in 1 .. Len(text) : OccursAt(word, text, p)

\* A word that CheckSensitiveWord can do justice to: it takes no word of one character, and
\* its shortest match sees none that begins with such a word.
Servable(word) ==
    /\ Len(word) >= 2
    /\ matchType = minMatchTYpe => <<word[1]>> \notin words

HasChar(word, char) == \E k \in 1 .. Len(word) : word[k] = char

\* A word that the regular expression takes literally.
Plain(word) == \A char \in {Dot, Bar, Backslash} : ~HasChar(word, char)

\* The two filters, trie and regular expression, disagree on whether a text contains a word
\* (SensitivewordFilter.java:71-84 and RegexSensitiveWordFilter.java:51-53) only over these
\* words: the expression may miss one with a backslash in it, and it may find one that the
\* trie does not serve or that is not meant as it is spelled.
FiltersAgree ==
    state = "searching" /\ i = 1 =>
        /\ IsContaintSensitiveWord(txt, matchType) /\ ~IsContainSensitiveWord(txt) =>
              \E word \in words : Occurs(word, txt) /\ HasChar(word, Backslash)
        /\ IsContainSensitiveWord(txt) /\ ~IsContaintSensitiveWord(txt, matchType) =>
              \/ words = {}
              \/ \E word \in words : Find(word, txt) /\ ~(Servable(word) /\ Plain(word))

\* With the shortest match, what getSensitiveWord collects are words of the list.
ShortestAreWords == matchType = minMatchTYpe => found \subseteq words

\* getSensitiveWord steps over what it has found, and still passes by no word: each
\* occurrence in the text of a word that the trie serves, whatever else is in the list,
\* shares a character with one that was collected.
NothingPassedBy ==
    state = "replacing" =>
        \A word \in words : \A p \in 1 .. Len(txt) :
            Servable(word) /\ OccursAt(word, txt, p) =>
                covered \cap (p .. p + Len(word) - 1) # {}

InOccurrence(q) ==
    \E word \in found : \E p \in 1 .. Len(txt) :
        OccursAt(word, txt, p) /\ q \in p .. p + Len(word) - 1

\* The text has its length, and a character has changed only in an occurrence of a
\* collected word.
OnlyFoundReplaced ==
    /\ Len(resultTxt) = Len(txt)
    /\ \A q \in 1 .. Len(txt) :
          resultTxt[q] = txt[q] \/ (resultTxt[q] = ReplaceChar /\ InOccurrence(q))

\* replaceSensitiveWord, in whatever order it replaces, leaves none of the words it has
\* collected in the text, but for those with a backslash, which replaceAll does not take as
\* they are spelled (SensitivewordFilter.java:133); and if replaceAll takes all of them as
\* they are spelled, it touches no character outside an occurrence of one.
CollectedAreGone ==
    state = "done" =>
        /\ \A word \in found : Occurs(word, resultTxt) => HasChar(word, Backslash)
        /\ (\A word \in found : Plain(word)) => OnlyFoundReplaced

\* What the replacement leaves behind: a word that the trie serves is in the result, whose
\* length may differ, only if it stood in the text already, where it shares a character with
\* one that was collected, and was not collected itself unless it has a backslash.
LeftOnlyByOverlap ==
    state = "done" =>
        \A word \in words : Servable(word) /\ Occurs(word, resultTxt) =>
            /\ word \in found => HasChar(word, Backslash)
            /\ \E p \in 1 .. Len(txt) :
                  OccursAt(word, txt, p) /\ covered \cap (p .. p + Len(word) - 1) # {}

\* What SensitivewordFilter.java:157 says of the length: it is that of a word of the list
\* that stands in the text, or 0.
LengthIsOfWord ==
    state = "searching" =>
        \A begin \in 1 .. Len(txt) :
            LET length == CheckSensitiveWord(txt, begin, matchType) IN
            length = 0 \/ SubSeq(txt, begin, begin + length - 1) \in words

\* What SensitivewordFilter.java:114 says: the sensitive words of the text are replaced.
ReplacedIsClean ==
    state = "done" => \A word \in words : Servable(word) => ~Occurs(word, resultTxt)

-----------------------------------------------------------------------------
(* Why they hold.  Where the loop of getSensitiveWord has been, it has cut *)
(* a word out or none begins; a replacement writes only replacement        *)
(* characters, so that no word comes into being and what is gone stays so. *)

\* The trie is whole when the filter is used, and the iterator has nothing left over.
PhaseInv ==
    /\ words \subseteq Seq(Letters)
    /\ state # "building" => pending = {}
    /\ state # "replacing" => unreplaced = {}
    /\ state \in {"replacing", "done"} => i > Len(txt)

\* What has been collected is spelled by the trie and has two characters.
FoundInv == \A word \in found : word \in Seq(Letters) /\ Len(word) >= 2

\* No word that the trie serves begins in front of i outside of what has been cut out.
PassedInv ==
    \A word \in words : \A p \in 1 .. Len(txt) :
        p < i /\ Servable(word) /\ OccursAt(word, txt, p) =>
            covered \cap (p .. p + Len(word) - 1) # {}

\* Every run of characters in text that no replacement wrote stands somewhere in source.
RunsFrom(source, text) ==
    \A first, last \in 1 .. Len(text) :
        first <= last /\ (\A k \in first .. last : text[k] # ReplaceChar) =>
            \E p \in 1 .. Len(source) :
                /\ p + (last - first) <= Len(source)
                /\ \A k \in first .. last : text[k] = source[p + (k - first)]

ReplacedInv ==
    /\ state = "searching" => resultTxt = txt
    /\ RunsFrom(txt, resultTxt)
    /\ (\A word \in found : Plain(word)) => OnlyFoundReplaced
    /\ state \in {"replacing", "done"} =>
          \A word \in found \ unreplaced : Occurs(word, resultTxt) => HasChar(word, Backslash)

\* At every turn of the loops of getSensitiveWord and replaceSensitiveWord
\* (SensitivewordFilter.java:93-152).
IInv == TypeOK /\ TrieHoldsWords /\ PhaseInv /\ FoundInv /\ PassedInv /\ ReplacedInv
=============================================================================

------------------------ MODULE SensitiveWordsProofs ------------------------
(* The trie is the word list, what is collected with the shortest match    *)
(* are its words, the loop passes by no word that the trie serves, and     *)
(* replaceAll, which reads a word as a regular expression, makes no word   *)
(* and leaves a collected one only if it has a backslash: for every        *)
(* alphabet, list and text.                                                *)
EXTENDS SensitiveWords, TLAPS, WellFoundedInduction, SequenceTheorems, FiniteSetTheorems

\* What the trie holds stays tied to the words already read.
TrieInv ==
    /\ pending \subseteq words
    /\ TrieHoldsWords

\* The trie is right from the first word to the last (SensitiveWordInit.java:52-84).
LEMMA TrieStep == TrieInv /\ [Next]_vars => TrieInv'
<1> SUFFICES ASSUME TrieInv, [Next]_vars PROVE TrieInv'
  OBVIOUS
<1> USE DEF TrieInv, TrieHoldsWords
<1>1. ASSUME NEW word \in pending, AddWord(word) PROVE TrieInv'
  <2>1. /\ words' = words /\ pending' = pending \ {word}
        /\ nodes' = nodes \cup NonEmptyPrefixes(word)
        /\ ends' = ends \cup ({word} \ {<<>>})
    BY <1>1 DEF AddWord
  <2>2. words' \ pending' = (words \ pending) \cup {word}
    BY <2>1
  <2>3. ends' = (words' \ pending') \ {<<>>}
    BY <2>1, <2>2
  <2>4. nodes' = UNION {NonEmptyPrefixes(w) : w \in words' \ pending'}
    BY <2>1, <2>2
  <2> QED
    BY <2>1, <2>3, <2>4
<1>2. ASSUME UNCHANGED trie PROVE TrieInv'
  BY <1>2 DEF trie
<1>3. CASE Built
  BY <1>2, <1>3 DEF Built
<1>4. CASE \E text \in Texts : \E type \in {minMatchTYpe, maxMatchType} :
              ReplaceSensitiveWord(text, type)
  BY <1>2, <1>4 DEF ReplaceSensitiveWord
<1>5. CASE Take \/ Skip \/ Searched
  BY <1>2, <1>5 DEF Take, Skip, Searched
<1>6. CASE (\E word \in unreplaced : Replace(word) \/ ReplaceThrows(word)) \/ Replaced \/ Return
  BY <1>2, <1>6 DEF Replace, ReplaceThrows, Replaced, Return
<1>7. CASE UNCHANGED vars
  BY <1>2, <1>7 DEF vars
<1> QED
  BY <1>1, <1>3, <1>4, <1>5, <1>6, <1>7 DEF Next

\* The trie holds the words read so far and nothing else, in whatever order they come.
THEOREM TrieCorrect == Spec => []TrieHoldsWords
<1>1. Init => TrieInv
  BY DEF Init, TrieInv, TrieHoldsWords
<1>2. TrieInv => TrieHoldsWords
  BY DEF TrieInv
<1> QED
  BY <1>1, <1>2, TrieStep, PTL DEF Spec

-----------------------------------------------------------------------------
\* A nonempty set of natural numbers contains its minimum.
LEMMA MinMember ==
    ASSUME NEW S \in SUBSET Nat, S # {}
    PROVE  Min(S) \in S /\ \A n \in S : Min(S) <= n
<1> DEFINE less == {ss \in Nat \X Nat : ss[1] < ss[2]}
<1>1. IsWellFoundedOn(less, Nat)
  BY NatLessThanWellFounded DEF OpToRel
<1>2. PICK x \in S : \A y \in S : ~(<<y, x>> \in less)
  BY <1>1, WFMin
<1>3. ASSUME NEW y \in S PROVE x <= y
  <2>1. x \in Nat /\ y \in Nat
    OBVIOUS
  <2>2. ~(<<y, x>> \in less)
    BY <1>2
  <2>3. y < x => <<y, x>> \in less
    BY <2>1
  <2> QED
    BY <2>1, <2>2, <2>3
<1> QED
  BY <1>3 DEF Min

\* What CheckSensitiveWord finds with the shortest match ends in the trie.
LEMMA ShortestEnds ==
    ASSUME NEW text, NEW begin,
           CheckSensitiveWord(text, begin, minMatchTYpe) > 0
    PROVE  SubSeq(text, begin, begin + CheckSensitiveWord(text, begin, minMatchTYpe) - 1)
               \in ends
<1> DEFINE length == CheckSensitiveWord(text, begin, minMatchTYpe)
           S == EndsOn(text, begin)
<1>1. S # {} /\ length = MatchFlag(text, begin, minMatchTYpe)
  BY DEF CheckSensitiveWord
<1>2. length = Min(S)
  BY <1>1 DEF MatchFlag
<1>3. S \in SUBSET Nat
  BY DEF EndsOn, Walk
<1>4. length \in S
  BY <1>1, <1>2, <1>3, MinMember
<1> QED
  BY <1>4 DEF EndsOn

ShortestInv == TrieInv /\ ShortestAreWords

\* With the shortest match, what getSensitiveWord collects are words of the list
\* (SensitivewordFilter.java:93-111, 182-195).
THEOREM ShortestCorrect == Spec => []ShortestAreWords
<1>1. Init => ShortestInv
  BY DEF Init, ShortestInv, TrieInv, TrieHoldsWords, ShortestAreWords
<1>2. ShortestInv /\ [Next]_vars => ShortestInv'
  <2> SUFFICES ASSUME ShortestInv, [Next]_vars PROVE ShortestAreWords'
    BY TrieStep DEF ShortestInv
  <2> USE DEF ShortestAreWords
  <2>1. ASSUME UNCHANGED <<words, matchType, found>> PROVE ShortestAreWords'
    BY <2>1 DEF ShortestInv
  <2>2. CASE Take
    <3>1. SUFFICES ASSUME matchType = minMatchTYpe PROVE found' \subseteq words
      BY <2>2 DEF Take, trie
    <3> DEFINE length == CheckSensitiveWord(txt, i, minMatchTYpe)
    <3>2. length > 0 /\ found' = found \cup {SubSeq(txt, i, i + length - 1)}
      BY <2>2, <3>1 DEF Take
    <3>3. SubSeq(txt, i, i + length - 1) \in ends
      BY <3>2, ShortestEnds
    <3>4. ends \subseteq words
      BY DEF ShortestInv, TrieInv, TrieHoldsWords
    <3> QED
      BY <3>1, <3>2, <3>3, <3>4 DEF ShortestInv
  <2>3. CASE \E text \in Texts : \E type \in {minMatchTYpe, maxMatchType} :
                ReplaceSensitiveWord(text, type)
    BY <2>3 DEF ReplaceSensitiveWord
  <2>4. CASE (\E word \in pending : AddWord(word)) \/ Built
    BY <2>1, <2>4 DEF AddWord, Built, trie
  <2>5. CASE Skip \/ Searched
    BY <2>1, <2>5 DEF Skip, Searched, trie
  <2>6. CASE (\E word \in unreplaced : Replace(word) \/ ReplaceThrows(word)) \/ Replaced
    BY <2>1, <2>6 DEF Replace, ReplaceThrows, Replaced, trie
  <2>8. CASE Return
    BY <2>8 DEF Return
  <2>7. CASE UNCHANGED vars
    BY <2>1, <2>7 DEF vars, trie
  <2> QED
    BY <2>2, <2>3, <2>4, <2>5, <2>6, <2>7, <2>8 DEF Next
<1>3. ShortestInv => ShortestAreWords
  BY DEF ShortestInv
<1> QED
  BY <1>1, <1>2, <1>3, PTL DEF Spec

-----------------------------------------------------------------------------
(* What the operators on words and texts return.                           *)

\* A nonempty set of natural numbers that is bounded contains its maximum.
LEMMA MaxMember ==
    ASSUME NEW S \in SUBSET Nat, S # {}, NEW bound \in Nat, \A n \in S : n <= bound
    PROVE  Max(S) \in S /\ \A n \in S : n <= Max(S)
<1> DEFINE T == {bound - n : n \in S}
<1>1. T \in SUBSET Nat /\ T # {}
  <2>1. ASSUME NEW n \in S PROVE bound - n \in Nat
    OBVIOUS
  <2> QED
    BY <2>1
<1>2. PICK low \in T : \A m \in T : low <= m
  <2>1. Min(T) \in T
    BY <1>1, MinMember
  <2> DEFINE less == {ss \in Nat \X Nat : ss[1] < ss[2]}
  <2>2. IsWellFoundedOn(less, Nat)
    BY NatLessThanWellFounded DEF OpToRel
  <2>3. PICK x \in T : \A y \in T : ~(<<y, x>> \in less)
    BY <1>1, <2>2, WFMin
  <2>4. ASSUME NEW y \in T PROVE x <= y
    <3>1. x \in Nat /\ y \in Nat
      BY <1>1
    <3>2. y < x => <<y, x>> \in less
      BY <3>1
    <3> QED
      BY <2>3, <3>1, <3>2
  <2> QED
    BY <2>4
<1>3. PICK top \in S : low = bound - top
  OBVIOUS
<1>4. \A n \in S : n <= top
  <2> SUFFICES ASSUME NEW n \in S PROVE n <= top
    OBVIOUS
  <2>1. bound - n \in T /\ n \in Nat /\ top \in Nat
    OBVIOUS
  <2> QED
    BY <1>2, <1>3, <2>1
<1>5. \E x \in S : \A y \in S : x >= y
  BY <1>4
<1>6. Max(S) \in S /\ \A y \in S : Max(S) >= y
  BY <1>5 DEF Max
<1> QED
  BY <1>6

\* A part of a text, character by character.
LEMMA PartOfText ==
    ASSUME NEW T, NEW text \in Seq(T), NEW p \in Nat \ {0}, NEW n \in Nat,
           p + n - 1 <= Len(text)
    PROVE  /\ SubSeq(text, p, p + n - 1) \in Seq(T)
           /\ Len(SubSeq(text, p, p + n - 1)) = n
           /\ \A k \in 1 .. n : SubSeq(text, p, p + n - 1)[k] = text[p + k - 1]
<1>1. Len(text) \in Nat /\ text \in [1 .. Len(text) -> T]
  BY LenProperties
<1>2. \A j \in p .. p + n - 1 : text[j] \in T
  BY <1>1
<1>3. p \in Int /\ p + n - 1 \in Int /\ (p + n - 1) - p + 1 = n
  OBVIOUS
<1>4. /\ SubSeq(text, p, p + n - 1) \in Seq(T)
      /\ Len(SubSeq(text, p, p + n - 1)) =
            IF p <= p + n - 1 THEN (p + n - 1) - p + 1 ELSE 0
      /\ \A k \in 1 .. (p + n - 1) - p + 1 :
            SubSeq(text, p, p + n - 1)[k] = text[p + k - 1]
  BY <1>2, <1>3, SubSeqProperties
<1>5. p <= p + n - 1 <=> n # 0
  OBVIOUS
<1> QED
  BY <1>3, <1>4, <1>5

\* A word stands at p when its characters do.
LEMMA OccursByCharacters ==
    ASSUME NEW S, NEW word \in Seq(S), NEW T, NEW text \in Seq(T), NEW p \in Nat \ {0}
    PROVE  OccursAt(word, text, p) <=>
               /\ p + Len(word) - 1 <= Len(text)
               /\ \A k \in 1 .. Len(word) : text[p + k - 1] = word[k]
<1> DEFINE part == SubSeq(text, p, p + Len(word) - 1)
<1>1. Len(word) \in Nat
  BY LenProperties
<1> SUFFICES ASSUME p + Len(word) - 1 <= Len(text)
             PROVE  part = word <=> \A k \in 1 .. Len(word) : text[p + k - 1] = word[k]
  BY DEF OccursAt
<1>2. /\ part \in Seq(T) /\ Len(part) = Len(word)
      /\ \A k \in 1 .. Len(word) : part[k] = text[p + k - 1]
  BY <1>1, PartOfText
<1>3. part \in Seq(S \cup T) /\ word \in Seq(S \cup T)
  BY <1>2, SeqMonotonic
<1> HIDE DEF part
<1>4. (\A k \in 1 .. Len(part) : part[k] = word[k]) => part = word
  BY <1>2, <1>3, SeqEqual
<1> QED
  BY <1>2, <1>4

\* Where CheckSensitiveWord finds something, the trie spells it, and it has two characters.
LEMMA CheckSpells ==
    ASSUME NEW text \in Seq(Alphabet), NEW begin \in 1 .. Len(text), NEW type,
           CheckSensitiveWord(text, begin, type) > 0
    PROVE  /\ CheckSensitiveWord(text, begin, type) \in Walk(text, begin)
           /\ CheckSensitiveWord(text, begin, type) >= 2
           /\ EndsOn(text, begin) # {}
<1> DEFINE length == CheckSensitiveWord(text, begin, type)
           walk == Walk(text, begin) \cup {0}
<1>1. Len(text) \in Nat
  BY LenProperties
<1>2. walk \in SUBSET Nat /\ \A n \in walk : n <= Len(text)
  BY <1>1 DEF Walk
<1>3. length = MatchFlag(text, begin, type) /\ ~(length < 2) /\ EndsOn(text, begin) # {}
  BY DEF CheckSensitiveWord
<1>4. MatchFlag(text, begin, type) \in walk
  <2>1. CASE type = minMatchTYpe /\ EndsOn(text, begin) # {}
    <3>1. EndsOn(text, begin) \in SUBSET Nat
      BY DEF EndsOn, Walk
    <3>2. MatchFlag(text, begin, type) = Min(EndsOn(text, begin))
      BY <2>1 DEF MatchFlag
    <3> QED
      BY <2>1, <3>1, <3>2, MinMember DEF EndsOn
  <2>2. CASE ~(type = minMatchTYpe /\ EndsOn(text, begin) # {})
    <3>1. MatchFlag(text, begin, type) = Max(walk)
      BY <2>2 DEF MatchFlag
    <3> HIDE DEF walk
    <3> QED
      BY <1>1, <1>2, <3>1, MaxMember DEF walk
  <2> QED
    BY <2>1, <2>2
<1> HIDE DEF length
<1>5. length \in walk /\ length \in Nat
  BY <1>2, <1>3, <1>4
<1> QED
  BY <1>3, <1>5 DEF length

\* The trie leads along every word of the list that stands in the text.
LEMMA WordIsEnd ==
    ASSUME TrieHoldsWords, pending = {}, words \subseteq Seq(Letters),
           NEW text \in Seq(Alphabet), NEW begin \in 1 .. Len(text),
           NEW word \in words, Len(word) > 0, OccursAt(word, text, begin)
    PROVE  Len(word) \in EndsOn(text, begin)
<1>1. word \in Seq(Letters) /\ Len(word) \in Nat \ {0} /\ Len(text) \in Nat
  BY LenProperties
<1>2. /\ begin + Len(word) - 1 <= Len(text)
      /\ SubSeq(text, begin, begin + Len(word) - 1) = word
      /\ \A k \in 1 .. Len(word) : text[begin + k - 1] = word[k]
  <2>1. begin \in Nat \ {0}
    BY <1>1
  <2>2. OccursAt(word, text, begin) <=>
            /\ begin + Len(word) - 1 <= Len(text)
            /\ \A k \in 1 .. Len(word) : text[begin + k - 1] = word[k]
    BY <1>1, <2>1, OccursByCharacters
  <2> QED
    BY <2>2 DEF OccursAt
<1>3. ASSUME NEW k \in 1 .. Len(word)
      PROVE  SubSeq(text, begin, begin + k - 1) \in nodes
  <2>1. /\ SubSeq(text, begin, begin + k - 1) \in Seq(Alphabet)
        /\ Len(SubSeq(text, begin, begin + k - 1)) = k
        /\ \A j \in 1 .. k : SubSeq(text, begin, begin + k - 1)[j] = text[begin + j - 1]
    <3>1. begin + k - 1 <= Len(text) /\ k \in Nat /\ begin \in Nat \ {0}
      BY <1>1, <1>2
    <3> QED
      BY <3>1, PartOfText
  <2>2. /\ SubSeq(word, 1, 1 + k - 1) \in Seq(Letters)
        /\ Len(SubSeq(word, 1, 1 + k - 1)) = k
        /\ \A j \in 1 .. k : SubSeq(word, 1, 1 + k - 1)[j] = word[1 + j - 1]
    <3>1. 1 + k - 1 <= Len(word) /\ k \in Nat /\ 1 \in Nat \ {0}
      BY <1>1
    <3> QED
      BY <1>1, <3>1, PartOfText
  <2>3. SubSeq(word, 1, 1 + k - 1) \in Seq(Alphabet)
    BY <2>2, SeqMonotonic DEF Letters
  <2>4. ASSUME NEW j \in 1 .. k
        PROVE  SubSeq(text, begin, begin + k - 1)[j] = SubSeq(word, 1, 1 + k - 1)[j]
    <3>1. j \in 1 .. Len(word) /\ 1 + j - 1 = j
      BY <1>1
    <3> QED
      BY <1>2, <2>1, <2>2, <3>1
  <2>5. SubSeq(text, begin, begin + k - 1) = SubSeq(word, 1, 1 + k - 1)
    BY <2>1, <2>2, <2>3, <2>4, SeqEqual
  <2>6. 1 + k - 1 = k
    OBVIOUS
  <2>7. SubSeq(word, 1, k) \in NonEmptyPrefixes(word)
    BY DEF NonEmptyPrefixes
  <2> QED
    BY <2>5, <2>6, <2>7 DEF TrieHoldsWords
<1>4. Len(word) \in Walk(text, begin)
  <2>1. Len(word) \in 1 .. Len(text) - begin + 1
    BY <1>1, <1>2
  <2> QED
    BY <1>3, <2>1 DEF Walk
<1>5. word \in ends
  <2>1. word # <<>>
    BY <1>1, EmptySeq
  <2> QED
    BY <2>1 DEF TrieHoldsWords
<1> QED
  BY <1>2, <1>4, <1>5 DEF EndsOn

\* CheckSensitiveWord misses no word that it can do justice to.
LEMMA CheckMissesNone ==
    ASSUME TrieHoldsWords, pending = {}, words \subseteq Seq(Letters),
           NEW text \in Seq(Alphabet), NEW begin \in 1 .. Len(text),
           NEW word \in words, Servable(word), OccursAt(word, text, begin)
    PROVE  CheckSensitiveWord(text, begin, matchType) > 0
<1> DEFINE walk == Walk(text, begin) \cup {0}
<1>1. Len(text) \in Nat /\ Len(word) >= 2 /\ Len(word) \in Nat
  BY LenProperties DEF Servable
<1>2. Len(word) \in EndsOn(text, begin)
  BY <1>1, WordIsEnd
<1>3. MatchFlag(text, begin, matchType) \in Nat /\ MatchFlag(text, begin, matchType) >= 2
  <2>1. CASE matchType = minMatchTYpe
    <3>1. EndsOn(text, begin) \in SUBSET Nat
      BY DEF EndsOn, Walk
    <3>2. MatchFlag(text, begin, matchType) = Min(EndsOn(text, begin))
      BY <1>2, <2>1 DEF MatchFlag
    <3>3. MatchFlag(text, begin, matchType) \in EndsOn(text, begin)
      BY <1>2, <3>1, <3>2, MinMember
    <3> DEFINE n == MatchFlag(text, begin, matchType)
    <3>4. SubSeq(text, begin, begin + n - 1) \in words /\ n \in 1 .. Len(text) - begin + 1
      BY <3>3 DEF EndsOn, Walk, TrieHoldsWords
    <3> HIDE DEF n
    <3>5. n \in Nat /\ begin \in Nat \ {0} /\ begin + n - 1 <= Len(text)
      BY <1>1, <3>4
    <3>6. Len(SubSeq(text, begin, begin + n - 1)) = n
      BY <3>5, PartOfText
    <3>7. ASSUME n = 1 PROVE FALSE
      <4>1. SubSeq(text, begin, begin + n - 1) \in Seq(Alphabet)
        BY <3>5, PartOfText
      <4>2. \A k \in 1 .. n : SubSeq(text, begin, begin + n - 1)[k] = text[begin + k - 1]
        BY <3>5, PartOfText
      <4>3. 1 \in 1 .. n /\ begin + 1 - 1 = begin /\ begin \in Nat \ {0}
        BY <3>5, <3>7
      <4>4. SubSeq(text, begin, begin + n - 1)[1] = text[begin]
        BY <4>2, <4>3
      <4>5. text[begin] = word[1]
        <5>1. word \in Seq(Letters)
          OBVIOUS
        <5>2. \A k \in 1 .. Len(word) : text[begin + k - 1] = word[k]
          BY <4>3, <5>1, OccursByCharacters
        <5>3. 1 \in 1 .. Len(word)
          BY <1>1
        <5> QED
          BY <4>3, <5>2, <5>3
      <4>6. SubSeq(text, begin, begin + n - 1) = <<word[1]>>
        <5>1. text[begin] \in Alphabet
          BY ElementOfSeq
        <5>2. <<word[1]>> \in Seq(Alphabet) /\ Len(<<word[1]>>) = 1 /\ <<word[1]>>[1] = word[1]
          BY <4>5, <5>1
        <5>3. Len(SubSeq(text, begin, begin + n - 1)) = 1
          BY <3>6, <3>7
        <5>4. \A k \in 1 .. 1 : SubSeq(text, begin, begin + n - 1)[k] = <<word[1]>>[k]
          <6>1. SubSeq(text, begin, begin + n - 1)[1] = <<word[1]>>[1]
            BY <4>4, <4>5, <5>2
          <6>2. \A k \in 1 .. 1 : k = 1
            OBVIOUS
          <6> QED
            BY <6>1, <6>2
        <5> HIDE DEF n
        <5> QED
          BY <4>1, <5>2, <5>3, <5>4, SeqEqual
      <4> QED
        BY <2>1, <3>4, <4>6 DEF Servable
    <3>8. n >= 1
      BY <1>1, <3>4
    <3> QED
      BY <3>5, <3>7, <3>8 DEF n
  <2>2. CASE matchType # minMatchTYpe
    <3>1. MatchFlag(text, begin, matchType) = Max(walk)
      BY <2>2 DEF MatchFlag
    <3>2. walk \in SUBSET Nat /\ \A n \in walk : n <= Len(text)
      BY <1>1 DEF Walk
    <3>3. Len(word) \in walk
      BY <1>2 DEF EndsOn
    <3> HIDE DEF walk
    <3>4. Max(walk) \in walk /\ Len(word) <= Max(walk)
      BY <1>1, <3>2, <3>3, MaxMember
    <3>5. Max(walk) \in Nat
      BY <3>2, <3>4
    <3> QED
      BY <1>1, <3>1, <3>4, <3>5
  <2> QED
    BY <2>1, <2>2
<1> QED
  BY <1>2, <1>3 DEF CheckSensitiveWord

-----------------------------------------------------------------------------
(* What the regular expressions of WordPattern match and replace.          *)

\* The characters of an alternative lie behind its bar, in the word.
LEMMA ItemsInWord ==
    ASSUME NEW S, NEW word \in Seq(S), NEW bar \in Alternatives(word)
    PROVE  /\ Items(word, bar) \subseteq 1 .. Len(word)
           /\ Items(word, bar) \in SUBSET Nat
           /\ IsFiniteSet(Items(word, bar))
           /\ Cardinality(Items(word, bar)) \in Nat
<1> DEFINE bars == {k \in Unescaped(word, Bar) : k > bar} \cup {Len(word) + 1}
<1>1. Len(word) \in Nat
  BY LenProperties
<1>2. bar \in Nat
  BY <1>1 DEF Alternatives, Unescaped
<1>3. bars \in SUBSET Nat /\ \A k \in bars : k <= Len(word) + 1
  BY <1>1 DEF Unescaped
<1>4. Min(bars) \in bars
  BY <1>3, MinMember
<1> HIDE DEF bars
<1>5. Min(bars) \in Nat /\ Min(bars) <= Len(word) + 1
  BY <1>3, <1>4
<1>6. Items(word, bar) \subseteq bar + 1 .. Min(bars) - 1
  BY DEF Items, bars
<1>7. Items(word, bar) \subseteq 1 .. Len(word)
  BY <1>1, <1>2, <1>5, <1>6
<1>8. IsFiniteSet(Items(word, bar))
  <2>1. IsFiniteSet(1 .. Len(word))
    <3>1. 1 \in Int /\ Len(word) \in Int
      BY <1>1
    <3> QED
      BY <3>1, FS_Interval
  <2> QED
    BY <1>7, <2>1, FS_Subset
<1>9. Cardinality(Items(word, bar)) \in Nat
  BY <1>8, FS_CardinalityType
<1> QED
  BY <1>7, <1>8, <1>9

\* A match lies in the text.
LEMMA WidthInText ==
    ASSUME NEW S, NEW word \in Seq(S), NEW T, NEW text \in Seq(T),
           NEW p \in 1 .. Len(text) + 1
    PROVE  /\ Width(word, text, p) \in Nat
           /\ p + Width(word, text, p) <= Len(text) + 1
<1>1. Len(text) \in Nat /\ Len(word) \in Nat
  BY LenProperties
<1>2. CASE ~MatchesAt(word, text, p)
  BY <1>1, <1>2 DEF Width
<1>3. CASE MatchesAt(word, text, p)
  <2> DEFINE bar == Min(Matching(word, text, p))
             items == Items(word, bar)
  <2>1. Matching(word, text, p) \in SUBSET Nat
    BY <1>1 DEF Matching, Alternatives, Unescaped
  <2>2. bar \in Matching(word, text, p)
    BY <1>3, <2>1, MinMember DEF MatchesAt
  <2> HIDE DEF bar
  <2>3. bar \in Alternatives(word)
    BY <2>2 DEF Matching
  <2>4. \A k \in items : p + Before(word, bar, k) <= Len(text)
    BY <2>2 DEF Matching
  <2>5. /\ items \in SUBSET Nat /\ IsFiniteSet(items) /\ Cardinality(items) \in Nat
        /\ items \subseteq 1 .. Len(word)
    BY <2>3, ItemsInWord
  <2> HIDE DEF items
  <2>6. Width(word, text, p) = Cardinality(items)
    BY <1>3 DEF Width, bar, items
  <2>7. CASE items = {}
    BY <1>1, <2>6, <2>7, FS_EmptySet
  <2>8. CASE items # {}
    <3> DEFINE last == Max(items)
    <3>1. last \in items /\ \A k \in items : k <= last
      <4>1. \A k \in items : k <= Len(word)
        BY <1>1, <2>5
      <4> QED
        BY <1>1, <2>5, <2>8, <4>1, MaxMember
    <3> HIDE DEF last
    <3>2. {j \in items : j < last} = items \ {last}
      <4>1. \A j \in items : j < last <=> j # last
        <5>1. \A j \in items : j \in Nat /\ j <= last
          BY <2>5, <3>1
        <5>2. last \in Nat
          BY <2>5, <3>1
        <5> QED
          BY <5>1, <5>2
      <4> QED
        BY <4>1
    <3>3. Before(word, bar, last) = Cardinality(items) - 1
      BY <2>5, <3>1, <3>2, FS_RemoveElement DEF Before, items
    <3> QED
      BY <1>1, <2>4, <2>5, <2>6, <3>1, <3>3
  <2> QED
    BY <2>7, <2>8
<1> QED
  BY <1>2, <1>3

\* Where replaceAll looks next.
LEMMA AfterInText ==
    ASSUME NEW S, NEW word \in Seq(S), NEW T, NEW text \in Seq(T),
           NEW p \in 1 .. Len(text) + 1
    PROVE  After(word, text, p) \in p + 1 .. Len(text) + 2
<1>1. Len(text) \in Nat
  BY LenProperties
<1>2. Width(word, text, p) \in Nat /\ p + Width(word, text, p) <= Len(text) + 1
  BY WidthInText
<1> QED
  BY <1>1, <1>2 DEF After

\* How many replacement characters replaceAll appends at p, and how many of the text.
Written(word, text, p) == IF MatchesAt(word, text, p) THEN Len(word) ELSE 0
Kept(word, text, p) == IF Width(word, text, p) = 0 /\ p <= Len(text) THEN 1 ELSE 0

\* What replaceAll appends: replacement characters for a match, and the character at p
\* unless it is in one.
EmittedRight(word, text, p) ==
    /\ Written(word, text, p) \in Nat /\ Kept(word, text, p) \in {0, 1}
    /\ Len(Emitted(word, text, p)) = Written(word, text, p) + Kept(word, text, p)
    /\ \A k \in 1 .. Written(word, text, p) : Emitted(word, text, p)[k] = ReplaceChar
    /\ Kept(word, text, p) = 1 => Emitted(word, text, p)[Written(word, text, p) + 1] = text[p]

LEMMA EmittedCharacters ==
    ASSUME NEW S, NEW word \in Seq(S), NEW T, NEW text \in Seq(T),
           NEW p \in 1 .. Len(text) + 1
    PROVE  Emitted(word, text, p) \in Seq(T \cup {ReplaceChar}) /\ EmittedRight(word, text, p)
<1> DEFINE stars == Written(word, text, p)
           rest == Kept(word, text, p)
           head == IF MatchesAt(word, text, p) THEN ReplaceChars(word) ELSE <<>>
           tail == IF Width(word, text, p) = 0 /\ p <= Len(text) THEN <<text[p]>> ELSE <<>>
           U == T \cup {ReplaceChar}
<1>1. Len(word) \in Nat /\ Len(text) \in Nat /\ \A q \in 1 .. Len(text) : text[q] \in U
  BY LenProperties
<1>2. /\ head \in Seq(U) /\ Len(head) = stars
      /\ \A k \in 1 .. stars : head[k] = ReplaceChar
  <2>1. CASE MatchesAt(word, text, p)
    <3>1. ReplaceChars(word) \in [1 .. Len(word) -> U]
      BY DEF ReplaceChars
    <3>2. ReplaceChars(word) \in Seq(U) /\ Len(ReplaceChars(word)) = Len(word)
      BY <1>1, <3>1
    <3>3. \A k \in 1 .. Len(word) : ReplaceChars(word)[k] = ReplaceChar
      BY DEF ReplaceChars
    <3> QED
      BY <2>1, <3>2, <3>3 DEF Written
  <2>2. CASE ~MatchesAt(word, text, p)
    BY <2>2, EmptySeq DEF Written
  <2> QED
    BY <2>1, <2>2
<1>3. /\ tail \in Seq(U) /\ Len(tail) = rest
      /\ rest = 1 => tail[1] = text[p]
  <2>1. CASE Width(word, text, p) = 0 /\ p <= Len(text)
    <3>1. text[p] \in U
      BY <1>1, <2>1
    <3> QED
      BY <2>1, <3>1 DEF Kept
  <2>2. CASE ~(Width(word, text, p) = 0 /\ p <= Len(text))
    BY <2>2, EmptySeq DEF Kept
  <2> QED
    BY <2>1, <2>2
<1>4. Emitted(word, text, p) = head \o tail
  BY DEF Emitted
<1>5. stars \in Nat /\ rest \in {0, 1}
  BY <1>1 DEF Written, Kept
<1> HIDE DEF head, tail, stars, rest, U
<1>6. /\ head \o tail \in Seq(U) /\ Len(head \o tail) = stars + rest
      /\ \A k \in 1 .. stars + rest :
            (head \o tail)[k] = IF k <= stars THEN head[k] ELSE tail[k - stars]
  BY <1>2, <1>3, ConcatProperties
<1>7. ASSUME NEW k \in 1 .. stars PROVE (head \o tail)[k] = ReplaceChar
  <2>1. k \in 1 .. stars + rest /\ k <= stars
    BY <1>5
  <2>2. (head \o tail)[k] = head[k]
    BY <1>6, <2>1
  <2> QED
    BY <1>2, <2>2
<1>8. rest = 1 => (head \o tail)[stars + 1] = text[p]
  <2> SUFFICES ASSUME rest = 1 PROVE (head \o tail)[stars + 1] = text[p]
    OBVIOUS
  <2>1. stars + 1 \in 1 .. stars + rest /\ ~(stars + 1 <= stars) /\ (stars + 1) - stars = 1
    BY <1>5
  <2>2. (head \o tail)[stars + 1] = tail[(stars + 1) - stars]
    BY <1>6, <2>1
  <2> QED
    BY <1>3, <2>1, <2>2
<1> QED
  BY <1>4, <1>5, <1>6, <1>7, <1>8 DEF stars, rest, U, EmittedRight

\* The scan of replaceAll is what its recursive definition says: a function that satisfies
\* the equation is built down to each position, and the last where none is does not exist.
LEMMA RestIsScan ==
    ASSUME NEW S, NEW word \in Seq(S), NEW T, NEW text \in Seq(T)
    PROVE  \A p \in 1 .. Len(text) + 2 :
               Rest(word, text)[p] =
                   IF p = Len(text) + 2 THEN <<>>
                   ELSE Emitted(word, text, p) \o Rest(word, text)[After(word, text, p)]
<1> DEFINE N == Len(text) + 2
           Body(g, p) == IF p = N THEN <<>>
                         ELSE Emitted(word, text, p) \o g[After(word, text, p)]
           Scan(m) == \E g : g = [p \in m .. N |-> Body(g, p)]
           Without == {m \in 1 .. N : ~Scan(m)}
<1>0. Len(text) \in Nat /\ N \in Nat /\ N >= 2
  BY LenProperties
<1>1. Scan(N)
  <2> DEFINE h == [p \in N .. N |-> <<>>]
  <2>1. h = [p \in N .. N |-> Body(h, p)]
    <3>1. \A p \in N .. N : p = N
      BY <1>0
    <3> QED
      BY <3>1
  <2> QED
    BY <2>1
<1>2. ASSUME NEW m \in 1 .. N - 1, Scan(m + 1) PROVE Scan(m)
  <2>1. PICK g : g = [p \in m + 1 .. N |-> Body(g, p)]
    BY <1>2
  <2> HIDE DEF Body
  <2> DEFINE h == [p \in m .. N |-> IF p > m THEN g[p] ELSE Body(g, m)]
  <2>2. ASSUME NEW p \in m .. N PROVE Body(h, p) = Body(g, p)
    <3>1. CASE p = N
      BY <3>1 DEF Body
    <3>2. CASE p # N
      <4>1. p \in 1 .. Len(text) + 1
        BY <1>0, <3>2
      <4>2. After(word, text, p) \in p + 1 .. N
        BY <4>1, AfterInText
      <4>3. After(word, text, p) \in m .. N /\ After(word, text, p) > m
        BY <1>0, <4>2
      <4>4. h[After(word, text, p)] = g[After(word, text, p)]
        BY <4>3
      <4> HIDE DEF h
      <4> QED
        BY <4>4 DEF Body
    <3> QED
      BY <3>1, <3>2
  <2>3. ASSUME NEW p \in m .. N PROVE h[p] = Body(g, p)
    <3>1. CASE p > m
      <4>1. p \in m + 1 .. N
        BY <1>0, <3>1
      <4>2. g[p] = Body(g, p)
        BY <2>1, <4>1
      <4> QED
        BY <3>1, <4>2
    <3>2. CASE ~(p > m)
      <4>1. p = m
        BY <1>0, <3>2
      <4> QED
        BY <4>1
    <3> QED
      BY <3>1, <3>2
  <2>4. h = [p \in m .. N |-> h[p]]
    OBVIOUS
  <2> HIDE DEF h
  <2>5. h = [p \in m .. N |-> Body(h, p)]
    BY <2>2, <2>3, <2>4
  <2> QED
    BY <2>5
<1>3. Scan(1)
  <2> HIDE DEF Scan
  <2>1. SUFFICES ASSUME Without # {} PROVE FALSE
    BY <1>0
  <2>2. PICK m \in Without : \A n \in Without : n <= m
    <3>1. Without \in SUBSET Nat /\ \A n \in Without : n <= N
      BY <1>0
    <3> HIDE DEF Without
    <3> QED
      BY <1>0, <2>1, <3>1, MaxMember
  <2>3. m # N
    BY <1>1
  <2>4. m \in 1 .. N - 1 /\ m + 1 \in 1 .. N
    BY <1>0, <2>3
  <2>5. m + 1 \notin Without
    <3>1. m + 1 > m
      BY <2>4
    <3> QED
      BY <2>2, <2>4, <3>1
  <2> QED
    BY <1>2, <2>4, <2>5
<1>4. Rest(word, text) = CHOOSE g : g = [p \in 1 .. N |-> Body(g, p)]
  BY DEF Rest
<1>5. Rest(word, text) = [p \in 1 .. N |-> Body(Rest(word, text), p)]
  BY <1>3, <1>4
<1> QED
  BY <1>5

\* What replaceAll makes of the text from each position on is text.
LEMMA RestIsText ==
    ASSUME NEW S, NEW word \in Seq(S), NEW T, NEW text \in Seq(T)
    PROVE  \A p \in 1 .. Len(text) + 2 : Rest(word, text)[p] \in Seq(T \cup {ReplaceChar})
<1> DEFINE U == T \cup {ReplaceChar}
           rest == Rest(word, text)
           Bad == {p \in 1 .. Len(text) + 2 : rest[p] \notin Seq(U)}
<1>1. Len(text) \in Nat /\ Len(text) + 2 \in Nat
  BY LenProperties
<1>2. SUFFICES ASSUME Bad # {} PROVE FALSE
  OBVIOUS
<1>3. PICK p \in Bad : \A q \in Bad : q <= p
  <2>1. Bad \in SUBSET Nat /\ \A q \in Bad : q <= Len(text) + 2
    BY <1>1
  <2> HIDE DEF Bad
  <2> QED
    BY <1>1, <1>2, <2>1, MaxMember
<1>4. p \in 1 .. Len(text) + 2 /\ rest[p] \notin Seq(U)
  OBVIOUS
<1>5. p # Len(text) + 2
  <2>1. <<>> \in Seq(U)
    BY EmptySeq
  <2>2. p = Len(text) + 2 => rest[p] = <<>>
    BY <1>4, RestIsScan
  <2> QED
    BY <1>4, <2>1, <2>2
<1>6. p \in 1 .. Len(text) + 1
  BY <1>1, <1>4, <1>5
<1>7. After(word, text, p) \in p + 1 .. Len(text) + 2
  BY <1>6, AfterInText
<1>8. rest[After(word, text, p)] \in Seq(U)
  <2>1. After(word, text, p) \in 1 .. Len(text) + 2 /\ ~(After(word, text, p) <= p)
    BY <1>1, <1>6, <1>7
  <2> QED
    BY <1>3, <2>1
<1>9. rest[p] = Emitted(word, text, p) \o rest[After(word, text, p)]
  BY <1>4, <1>5, RestIsScan
<1>10. Emitted(word, text, p) \in Seq(U)
  BY <1>6, EmittedCharacters
<1> QED
  BY <1>4, <1>8, <1>9, <1>10, ConcatProperties

\* One turn of replaceAll: what it appends, and then what it makes of the text behind.
LEMMA RestTurn ==
    ASSUME NEW S, NEW word \in Seq(S), NEW T, NEW text \in Seq(T),
           NEW p \in 1 .. Len(text) + 1
    PROVE  LET head == Emitted(word, text, p)
               tail == Rest(word, text)[After(word, text, p)]
           IN /\ After(word, text, p) \in p + 1 .. Len(text) + 2
              /\ Len(head) \in Nat /\ Len(tail) \in Nat
              /\ Len(Rest(word, text)[p]) = Len(head) + Len(tail)
              /\ \A k \in 1 .. Len(head) + Len(tail) :
                    Rest(word, text)[p][k] =
                        IF k <= Len(head) THEN head[k] ELSE tail[k - Len(head)]
<1> DEFINE head == Emitted(word, text, p)
           tail == Rest(word, text)[After(word, text, p)]
           U == T \cup {ReplaceChar}
<1>1. Len(text) \in Nat
  BY LenProperties
<1>2. After(word, text, p) \in p + 1 .. Len(text) + 2
  BY AfterInText
<1>3. After(word, text, p) \in 1 .. Len(text) + 2 /\ p \in 1 .. Len(text) + 2 /\ p # Len(text) + 2
  BY <1>1, <1>2
<1>4. head \in Seq(U) /\ tail \in Seq(U)
  BY <1>3, EmittedCharacters, RestIsText
<1>5. Rest(word, text)[p] = head \o tail
  BY <1>3, RestIsScan
<1> HIDE DEF head, tail, U
<1>6. Len(head) \in Nat /\ Len(tail) \in Nat
  BY <1>4, LenProperties
<1> QED
  BY <1>2, <1>4, <1>5, <1>6, ConcatProperties DEF head, tail

\* No match lies among the n characters of the text from q on; an empty one may stand in
\* front of them.
Copied(word, text, q, n) ==
    /\ q \in 1 .. Len(text) /\ q + n - 1 <= Len(text)
    /\ \A j \in q .. q + n - 1 : Width(word, text, j) = 0
    /\ \A j \in q + 1 .. q + n - 1 : ~MatchesAt(word, text, j)

\* n characters in a row that replaceAll did not write, from k on in what it makes of the
\* text from p on, stand in a row in the text, and it found no match among them.
CopiedFrom(word, text, p, k, n) ==
    \E q \in p .. Len(text) :
        /\ Copied(word, text, q, n)
        /\ \A j \in 0 .. n - 1 : Rest(word, text)[p][k + j] = text[q + j]
        /\ k = 1 => q = p /\ ~MatchesAt(word, text, p)

RunsCopied(word, text, p) ==
    \A k, n \in Nat \ {0} :
        /\ k + n - 1 <= Len(Rest(word, text)[p])
        /\ \A j \in 0 .. n - 1 : Rest(word, text)[p][k + j] # ReplaceChar
        => CopiedFrom(word, text, p, k, n)

\* One turn of replaceAll copies a character or writes only replacement characters.
LEMMA TurnCopies ==
    ASSUME NEW S, NEW word \in Seq(S), Len(word) > 0, NEW T, NEW text \in Seq(T),
           NEW p \in 1 .. Len(text) + 1, RunsCopied(word, text, After(word, text, p))
    PROVE  RunsCopied(word, text, p)
<1> DEFINE head == Emitted(word, text, p)
           next == After(word, text, p)
           tail == Rest(word, text)[next]
           whole == Rest(word, text)[p]
           stars == Written(word, text, p)
           one == Kept(word, text, p)
<1>3. /\ Len(head) = stars + one
      /\ \A j \in 1 .. stars : head[j] = ReplaceChar
      /\ one = 1 => head[stars + 1] = text[p]
      /\ stars \in Nat /\ one \in {0, 1}
  <2>1. EmittedRight(word, text, p)
    BY EmittedCharacters
  <2> QED
    BY <2>1 DEF EmittedRight
<1> SUFFICES ASSUME NEW k \in Nat \ {0}, NEW n \in Nat \ {0}, k + n - 1 <= Len(whole),
                    \A j \in 0 .. n - 1 : whole[k + j] # ReplaceChar
             PROVE  CopiedFrom(word, text, p, k, n)
  BY DEF RunsCopied
<1>1. Len(text) \in Nat /\ Len(word) \in Nat
  BY LenProperties
<1>2. /\ next \in p + 1 .. Len(text) + 2
      /\ Len(head) \in Nat /\ Len(tail) \in Nat /\ Len(whole) = Len(head) + Len(tail)
      /\ \A j \in 1 .. Len(head) + Len(tail) :
            whole[j] = IF j <= Len(head) THEN head[j] ELSE tail[j - Len(head)]
  BY RestTurn
<1>5. \A a, b \in Nat \ {0} :
          /\ a + b - 1 <= Len(tail)
          /\ \A j \in 0 .. b - 1 : tail[a + j] # ReplaceChar
          => CopiedFrom(word, text, next, a, b)
  BY DEF RunsCopied
<1>6. CASE k > Len(head)
  <2> DEFINE a == k - Len(head)
  <2>1. a \in Nat \ {0} /\ a + n - 1 <= Len(tail)
    BY <1>2, <1>6
  <2>2. \A j \in 0 .. n - 1 : whole[k + j] = tail[a + j]
    <3> SUFFICES ASSUME NEW j \in 0 .. n - 1 PROVE whole[k + j] = tail[a + j]
      OBVIOUS
    <3>1. /\ k + j \in 1 .. Len(head) + Len(tail) /\ ~(k + j <= Len(head))
          /\ (k + j) - Len(head) = a + j
      BY <1>2, <1>6
    <3> QED
      BY <1>2, <3>1
  <2>3. CopiedFrom(word, text, next, a, n)
    <3> HIDE DEF a, next, tail, whole
    <3> QED
      BY <1>5, <2>1, <2>2
  <2>4. PICK q \in next .. Len(text) :
            /\ Copied(word, text, q, n)
            /\ \A j \in 0 .. n - 1 : tail[a + j] = text[q + j]
    BY <2>3 DEF CopiedFrom
  <2>5. q \in p .. Len(text)
    BY <1>1, <1>2, <2>4
  <2>6. k # 1
    <3>1. CASE Len(head) = 0
      <4>1. stars = 0 /\ one = 0
        <5>1. Len(head) = stars + one /\ stars \in Nat /\ one \in {0, 1}
          BY <1>3
        <5>2. \A x \in Nat, y \in {0, 1} : x + y = 0 => x = 0 /\ y = 0
          OBVIOUS
        <5>3. stars + one = 0
          BY <3>1, <5>1, Zenon
        <5> QED
          BY <5>1, <5>2, <5>3, Zenon
      <4>2. ~MatchesAt(word, text, p)
        BY <1>1, <4>1 DEF Written
      <4>3. Width(word, text, p) = 0
        BY <4>2 DEF Width
      <4>4. ~(p <= Len(text))
        BY <4>1, <4>3 DEF Kept
      <4> QED
        BY <1>1, <2>5, <4>4
    <3>2. CASE Len(head) # 0
      BY <1>2, <1>6, <3>2
    <3> QED
      BY <3>1, <3>2
  <2>7. \A j \in 0 .. n - 1 : whole[k + j] = text[q + j]
    BY <2>2, <2>4
  <2> QED
    BY <2>4, <2>5, <2>6, <2>7 DEF CopiedFrom
<1>7. CASE k <= Len(head)
  <2>1. whole[k] # ReplaceChar /\ whole[k] = head[k]
    <3>1. 0 \in 0 .. n - 1 /\ k + 0 = k /\ k \in 1 .. Len(head) + Len(tail)
      BY <1>2, <1>7
    <3>2. whole[k] # ReplaceChar
      BY <3>1
    <3> HIDE DEF whole, head, tail
    <3> QED
      BY <1>2, <1>7, <3>1, <3>2
  <2>2. k = stars + 1 /\ one = 1 /\ Len(head) = k
    <3>1. k \notin 1 .. stars
      BY <1>3, <2>1
    <3>2. Len(head) = stars + one /\ stars \in Nat /\ one \in {0, 1}
      BY <1>3
    <3> HIDE DEF stars, one, head
    <3> QED
      BY <1>7, <3>1, <3>2
  <2>3. Width(word, text, p) = 0 /\ p \in 1 .. Len(text) /\ next = p + 1
    BY <1>1, <2>2 DEF After, Kept
  <2>4. whole[k] = text[p]
    BY <1>3, <2>1, <2>2
  <2>5. k = 1 => ~MatchesAt(word, text, p)
    BY <1>1, <2>2 DEF Written
  <2>6. Copied(word, text, p, n) /\ \A j \in 1 .. n - 1 : whole[k + j] = text[p + j]
    <3>1. CASE n = 1
      <4>1. p + n - 1 = p /\ p .. p + n - 1 = {p} /\ p + 1 .. p + n - 1 = {} /\ 1 .. n - 1 = {}
        BY <2>3, <3>1
      <4> QED
        BY <1>1, <2>3, <4>1 DEF Copied
    <3>2. CASE n # 1
      <4>1. n - 1 \in Nat \ {0} /\ 1 \in Nat \ {0} /\ 1 + (n - 1) - 1 <= Len(tail)
        <5>1. Len(whole) = k + Len(tail) /\ Len(tail) \in Nat /\ k + n - 1 <= Len(whole)
          BY <1>2, <2>2
        <5> HIDE DEF whole, tail
        <5> QED
          BY <3>2, <5>1
      <4>2. \A j \in 0 .. (n - 1) - 1 : tail[1 + j] = whole[k + (j + 1)] /\ tail[1 + j] # ReplaceChar
        <5> SUFFICES ASSUME NEW j \in 0 .. (n - 1) - 1
                     PROVE  tail[1 + j] = whole[k + (j + 1)] /\ tail[1 + j] # ReplaceChar
          OBVIOUS
        <5>1. /\ k + (j + 1) \in 1 .. Len(head) + Len(tail) /\ ~(k + (j + 1) <= Len(head))
              /\ (k + (j + 1)) - Len(head) = 1 + j
              /\ j + 1 \in 0 .. n - 1
          <6>1. Len(head) = k /\ Len(whole) = k + Len(tail) /\ Len(tail) \in Nat
            BY <1>2, <2>2
          <6> HIDE DEF whole, head, tail
          <6> QED
            BY <6>1
        <5>2. whole[k + (j + 1)] # ReplaceChar
          BY <5>1
        <5>3. whole[k + (j + 1)] = tail[1 + j]
          <6> HIDE DEF whole, head, tail
          <6> QED
            BY <1>2, <5>1
        <5> QED
          BY <5>2, <5>3
      <4>3. CopiedFrom(word, text, next, 1, n - 1)
        <5>1. \A j \in 0 .. (n - 1) - 1 : tail[1 + j] # ReplaceChar
          BY <4>2
        <5> HIDE DEF next, tail
        <5> QED
          BY <1>5, <4>1, <5>1
      <4>4. /\ Copied(word, text, next, n - 1) /\ ~MatchesAt(word, text, next)
            /\ \A j \in 0 .. (n - 1) - 1 : tail[1 + j] = text[next + j]
        BY <4>3 DEF CopiedFrom
      <4>5. ASSUME NEW j \in 1 .. n - 1 PROVE whole[k + j] = text[p + j]
        <5>1. j - 1 \in 0 .. (n - 1) - 1 /\ (j - 1) + 1 = j /\ next + (j - 1) = p + j
          <6> HIDE DEF next
          <6> QED
            BY <1>1, <2>3
        <5> HIDE DEF whole, tail, next
        <5>2. tail[1 + (j - 1)] = whole[k + j]
          BY <4>2, <5>1
        <5>3. tail[1 + (j - 1)] = text[p + j]
          BY <4>4, <5>1
        <5> QED
          BY <5>2, <5>3
      <4>6. Copied(word, text, p, n)
        <5>1. /\ next + (n - 1) - 1 <= Len(text)
              /\ \A j \in next .. next + (n - 1) - 1 : Width(word, text, j) = 0
              /\ \A j \in next + 1 .. next + (n - 1) - 1 : ~MatchesAt(word, text, j)
          BY <4>4 DEF Copied
        <5>2. next + (n - 1) - 1 = p + n - 1
          BY <2>3
        <5>3. \A j \in p .. p + n - 1 : j = p \/ j \in next .. p + n - 1
          BY <2>3
        <5>4. \A j \in p + 1 .. p + n - 1 : j = next \/ j \in next + 1 .. p + n - 1
          BY <2>3
        <5> HIDE DEF next
        <5>5. \A j \in p .. p + n - 1 : Width(word, text, j) = 0
          BY <2>3, <5>1, <5>2, <5>3
        <5>6. \A j \in p + 1 .. p + n - 1 : ~MatchesAt(word, text, j)
          BY <4>4, <5>1, <5>2, <5>4
        <5> QED
          BY <2>3, <5>1, <5>2, <5>5, <5>6 DEF Copied
      <4> QED
        BY <4>5, <4>6
    <3> QED
      BY <3>1, <3>2
  <2>7. \A j \in 0 .. n - 1 : whole[k + j] = text[p + j]
    <3> SUFFICES ASSUME NEW j \in 0 .. n - 1 PROVE whole[k + j] = text[p + j]
      OBVIOUS
    <3>1. CASE j = 0
      <4>1. k + j = k /\ p + j = p
        BY <3>1
      <4> QED
        BY <2>4, <4>1
    <3>2. CASE j # 0
      <4>1. j \in 1 .. n - 1
        BY <3>2
      <4> QED
        BY <2>6, <4>1
    <3> QED
      BY <3>1, <3>2
  <2>8. p \in p .. Len(text)
    BY <2>3
  <2> QED
    BY <2>5, <2>6, <2>7, <2>8 DEF CopiedFrom
<1> QED
  BY <1>2, <1>6, <1>7

\* Every run of characters that replaceAll did not write stands in the text.
LEMMA RestCopies ==
    ASSUME NEW S, NEW word \in Seq(S), Len(word) > 0, NEW T, NEW text \in Seq(T)
    PROVE  \A p \in 1 .. Len(text) + 2 : RunsCopied(word, text, p)
<1> DEFINE Bad == {p \in 1 .. Len(text) + 2 : ~RunsCopied(word, text, p)}
<1>1. Len(text) \in Nat /\ Len(text) + 2 \in Nat
  BY LenProperties
<1>2. SUFFICES ASSUME Bad # {} PROVE FALSE
  OBVIOUS
<1>3. PICK p \in Bad : \A q \in Bad : q <= p
  <2>1. Bad \in SUBSET Nat /\ \A q \in Bad : q <= Len(text) + 2
    BY <1>1
  <2> HIDE DEF Bad
  <2> QED
    BY <1>1, <1>2, <2>1, MaxMember
<1>4. p \in 1 .. Len(text) + 2 /\ ~RunsCopied(word, text, p)
  OBVIOUS
<1>5. p # Len(text) + 2
  <2> SUFFICES ASSUME p = Len(text) + 2 PROVE FALSE
    OBVIOUS
  <2>1. Len(Rest(word, text)[p]) = 0
    BY <1>4, RestIsScan
  <2>2. \A k, n \in Nat \ {0} : ~(k + n - 1 <= 0)
    OBVIOUS
  <2> QED
    BY <1>4, <2>1, <2>2 DEF RunsCopied
<1>6. p \in 1 .. Len(text) + 1
  BY <1>1, <1>4, <1>5
<1>7. After(word, text, p) \in p + 1 .. Len(text) + 2
  BY <1>6, AfterInText
<1>8. After(word, text, p) \in 1 .. Len(text) + 2 /\ ~(After(word, text, p) <= p)
  BY <1>1, <1>6, <1>7
<1>9. RunsCopied(word, text, After(word, text, p))
  BY <1>3, <1>8
<1> QED
  BY <1>4, <1>6, <1>9, TurnCopies

-----------------------------------------------------------------------------
(* Words that are matched as they are spelled.                             *)

\* Of a word without a backslash every character has its meaning.
LEMMA NoneEscaped ==
    ASSUME NEW S, NEW word \in Seq(S), ~HasChar(word, Backslash)
    PROVE  /\ \A char : Unescaped(word, char) = {k \in 1 .. Len(word) : word[k] = char}
           /\ Unescaped(word, Backslash) = {}
<1>1. Len(word) \in Nat
  BY LenProperties
<1>2. ASSUME NEW k \in 1 .. Len(word), Escaped(word, k) PROVE FALSE
  <2>1. PICK n \in 1 .. k - 1 : \A j \in k - n .. k - 1 : word[j] = Backslash
    BY <1>2 DEF Escaped
  <2>2. k - 1 \in k - n .. k - 1 /\ k - 1 \in 1 .. Len(word)
    BY <1>1
  <2> QED
    BY <2>1, <2>2 DEF HasChar
<1>3. \A char : Unescaped(word, char) = {k \in 1 .. Len(word) : word[k] = char}
  BY <1>2 DEF Unescaped
<1> QED
  BY <1>3 DEF HasChar

\* The first alternative of such a word is what stands in front of its first bar.
LEMMA FirstAlternative ==
    ASSUME NEW S, NEW word \in Seq(S), ~HasChar(word, Backslash)
    PROVE  \E e \in 0 .. Len(word) :
               /\ Items(word, 0) = 1 .. e
               /\ e < Len(word) => HasChar(word, Bar)
               /\ \A k \in 1 .. e : Before(word, 0, k) = k - 1
               /\ Cardinality(Items(word, 0)) = e
<1> DEFINE bars == {k \in Unescaped(word, Bar) : k > 0} \cup {Len(word) + 1}
           e == Min(bars) - 1
<1>1. Len(word) \in Nat
  BY LenProperties
<1>2. bars \in SUBSET Nat /\ bars # {}
  BY <1>1 DEF Unescaped
<1>3. Min(bars) \in bars
  BY <1>2, MinMember
<1>4. e \in 0 .. Len(word) /\ Min(bars) - 1 = e
  <2>1. \A k \in bars : k \in 1 .. Len(word) + 1
    BY <1>1 DEF Unescaped
  <2> HIDE DEF bars
  <2> QED
    BY <1>1, <1>3, <2>1
<1>5. Items(word, 0) = 1 .. e
  <2>1. Items(word, 0) = (0 + 1 .. Min(bars) - 1) \ Unescaped(word, Backslash)
    BY DEF Items
  <2>2. Unescaped(word, Backslash) = {}
    BY NoneEscaped
  <2> QED
    BY <2>1, <2>2
<1>6. e < Len(word) => HasChar(word, Bar)
  <2> SUFFICES ASSUME e < Len(word) PROVE HasChar(word, Bar)
    OBVIOUS
  <2>1. Min(bars) \in Unescaped(word, Bar)
    BY <1>1, <1>3, <1>4
  <2> HIDE DEF bars
  <2> QED
    BY <2>1 DEF Unescaped, HasChar
<1> HIDE DEF e
<1>7. ASSUME NEW k \in 1 .. e PROVE Before(word, 0, k) = k - 1
  <2>1. {j \in 1 .. e : j < k} = 1 .. k - 1
    BY <1>4
  <2>2. 1 \in Int /\ k - 1 \in Int
    BY <1>4
  <2>3. Cardinality(1 .. k - 1) = k - 1
    BY <1>4, <2>2, FS_Interval
  <2> QED
    BY <1>5, <2>1, <2>3 DEF Before
<1>8. Cardinality(1 .. e) = e
  <2>1. 1 \in Int /\ e \in Int
    BY <1>4
  <2> QED
    BY <1>4, <2>1, FS_Interval
<1> QED
  BY <1>4, <1>5, <1>6, <1>7, <1>8

\* Where such a word stands in a text, its first alternative matches.
LEMMA LiteralMatches ==
    ASSUME NEW S, NEW word \in Seq(S), ~HasChar(word, Backslash),
           NEW T, NEW text \in Seq(T), NEW p \in Nat \ {0}, OccursAt(word, text, p)
    PROVE  /\ MatchesAt(word, text, p)
           /\ Width(word, text, p) = Cardinality(Items(word, 0))
<1>1. Len(word) \in Nat /\ Len(text) \in Nat
  BY LenProperties
<1>2. /\ p + Len(word) - 1 <= Len(text)
      /\ \A k \in 1 .. Len(word) : text[p + k - 1] = word[k]
  BY OccursByCharacters
<1>3. PICK e \in 0 .. Len(word) :
          Items(word, 0) = 1 .. e /\ \A k \in 1 .. e : Before(word, 0, k) = k - 1
  BY FirstAlternative
<1>4. ASSUME NEW k \in 1 .. e
      PROVE  p + Before(word, 0, k) <= Len(text) /\ Accepts(word, k, text[p + Before(word, 0, k)])
  <2>1. Before(word, 0, k) = k - 1 /\ k \in 1 .. Len(word) /\ p + (k - 1) = p + k - 1
    BY <1>1, <1>3
  <2>2. text[p + Before(word, 0, k)] = word[k]
    BY <1>2, <2>1
  <2>3. k \in Unescaped(word, Dot) => word[k] # LineEnd
    BY DEF Unescaped, Dot, LineEnd
  <2> QED
    BY <1>1, <1>2, <2>1, <2>2, <2>3 DEF Accepts
<1>5. 0 \in Matching(word, text, p)
  BY <1>3, <1>4 DEF Matching, Alternatives
<1>6. Matching(word, text, p) \in SUBSET Nat
  BY <1>1 DEF Matching, Alternatives, Unescaped
<1>7. Min(Matching(word, text, p)) = 0
  <2>1. Min(Matching(word, text, p)) \in Nat /\ Min(Matching(word, text, p)) <= 0
    BY <1>5, <1>6, MinMember
  <2> QED
    BY <2>1
<1> QED
  BY <1>5, <1>7 DEF MatchesAt, Width

\* Such a word cannot stand where replaceAll has found no match of it.
LEMMA LiteralNotCopied ==
    ASSUME NEW S, NEW word \in Seq(S), ~HasChar(word, Backslash), Len(word) >= 2,
           NEW T, NEW text \in Seq(T), NEW q \in Nat \ {0}, OccursAt(word, text, q)
    PROVE  ~Copied(word, text, q, Len(word))
<1> SUFFICES ASSUME Copied(word, text, q, Len(word)) PROVE FALSE
  OBVIOUS
<1>1. Len(word) \in Nat /\ Len(text) \in Nat
  BY LenProperties
<1>2. Width(word, text, q) = 0
  <2>1. q \in q .. q + Len(word) - 1
    BY <1>1
  <2> QED
    BY <2>1 DEF Copied
<1>3. Cardinality(Items(word, 0)) = 0
  BY <1>2, LiteralMatches
<1>4. Items(word, 0) = {}
  <2>1. PICK e \in 0 .. Len(word) : Items(word, 0) = 1 .. e /\ Cardinality(Items(word, 0)) = e
    BY FirstAlternative
  <2> QED
    BY <1>3, <2>1
<1>5. MatchesAt(word, text, q + 1)
  BY <1>4 DEF MatchesAt, Matching, Alternatives
<1>6. q + 1 \in q + 1 .. q + Len(word) - 1
  BY <1>1
<1> QED
  BY <1>5, <1>6 DEF Copied

\* A plain word matches where it stands and nowhere else.
LEMMA PlainMatches ==
    ASSUME NEW S, NEW word \in Seq(S), Plain(word),
           NEW T, NEW text \in Seq(T), NEW p \in Nat \ {0}
    PROVE  /\ MatchesAt(word, text, p) => OccursAt(word, text, p) \/ Len(word) = 0
           /\ OccursAt(word, text, p) => MatchesAt(word, text, p)
           /\ MatchesAt(word, text, p) => Width(word, text, p) = Len(word)
<1>1. Len(word) \in Nat /\ Len(text) \in Nat
  BY LenProperties
<1>2. /\ ~HasChar(word, Backslash) /\ ~HasChar(word, Bar) /\ ~HasChar(word, Dot)
  BY DEF Plain
<1>3. PICK e \in 0 .. Len(word) :
          /\ Items(word, 0) = 1 .. e /\ Cardinality(Items(word, 0)) = e
          /\ e < Len(word) => HasChar(word, Bar)
          /\ \A k \in 1 .. e : Before(word, 0, k) = k - 1
  BY <1>2, FirstAlternative
<1>4. e = Len(word)
  BY <1>1, <1>2, <1>3
<1>5. Unescaped(word, Bar) = {} /\ Unescaped(word, Dot) = {}
  BY <1>2, NoneEscaped DEF HasChar
<1>6. OccursAt(word, text, p) => MatchesAt(word, text, p)
  BY <1>2, LiteralMatches
<1>7. ASSUME MatchesAt(word, text, p)
      PROVE  /\ OccursAt(word, text, p) \/ Len(word) = 0
             /\ Width(word, text, p) = Len(word)
  <2>1. Matching(word, text, p) = {0}
    BY <1>5, <1>7 DEF MatchesAt, Matching, Alternatives
  <2>2. ASSUME NEW k \in 1 .. Len(word)
        PROVE  p + k - 1 <= Len(text) /\ text[p + k - 1] = word[k]
    <3>1. k \in Items(word, 0) /\ Before(word, 0, k) = k - 1 /\ p + (k - 1) = p + k - 1
      BY <1>3, <1>4
    <3>2. /\ p + Before(word, 0, k) <= Len(text)
          /\ Accepts(word, k, text[p + Before(word, 0, k)])
      BY <2>1, <3>1 DEF Matching
    <3> QED
      BY <1>5, <3>1, <3>2 DEF Accepts
  <2>3. ASSUME Len(word) # 0
        PROVE  p + Len(word) - 1 <= Len(text)
    <3>1. Len(word) \in 1 .. Len(word)
      BY <1>1, <2>3
    <3> QED
      BY <2>2, <3>1
  <2>4. OccursAt(word, text, p) \/ Len(word) = 0
    BY <2>2, <2>3, OccursByCharacters
  <2>5. Min(Matching(word, text, p)) = 0
    <3>1. {0} \in SUBSET Nat /\ {0} # {}
      OBVIOUS
    <3>2. Min({0}) \in {0}
      BY <3>1, MinMember
    <3> QED
      BY <2>1, <3>2
  <2> QED
    BY <1>3, <1>4, <1>7, <2>4, <2>5 DEF Width
<1> QED
  BY <1>6, <1>7

\* What replaceAll makes of the text from p on, when the word is plain: as many characters,
\* the same ones but for those in an occurrence of the word.
RestSame(word, text, p) ==
    /\ Len(Rest(word, text)[p]) = IF p <= Len(text) THEN Len(text) + 1 - p ELSE 0
    /\ \A j \in 1 .. Len(text) + 1 - p :
          \/ Rest(word, text)[p][j] = text[p + j - 1]
          \/ /\ Rest(word, text)[p][j] = ReplaceChar
             /\ \E q \in 1 .. Len(text) :
                   OccursAt(word, text, q) /\ p + j - 1 \in q .. q + Len(word) - 1

\* One turn of replaceAll with a plain word.
LEMMA TurnSame ==
    ASSUME NEW S, NEW word \in Seq(S), Len(word) > 0, Plain(word), NEW T, NEW text \in Seq(T),
           NEW p \in 1 .. Len(text) + 1, RestSame(word, text, After(word, text, p))
    PROVE  RestSame(word, text, p)
<1> DEFINE head == Emitted(word, text, p)
           next == After(word, text, p)
           tail == Rest(word, text)[next]
           whole == Rest(word, text)[p]
           L == Len(word)
           N == Len(text)
<1>1. N \in Nat /\ L \in Nat \ {0} /\ p \in Nat \ {0}
  BY LenProperties
<1>2. /\ next \in p + 1 .. N + 2
      /\ Len(head) \in Nat /\ Len(tail) \in Nat /\ Len(whole) = Len(head) + Len(tail)
      /\ \A j \in 1 .. Len(head) + Len(tail) :
            whole[j] = IF j <= Len(head) THEN head[j] ELSE tail[j - Len(head)]
  BY RestTurn
<1>3. EmittedRight(word, text, p)
  BY EmittedCharacters
<1>4. /\ Len(tail) = IF next <= N THEN N + 1 - next ELSE 0
      /\ \A j \in 1 .. N + 1 - next :
            \/ tail[j] = text[next + j - 1]
            \/ /\ tail[j] = ReplaceChar
               /\ \E q \in 1 .. N : OccursAt(word, text, q) /\ next + j - 1 \in q .. q + L - 1
  BY DEF RestSame
<1>5. CASE MatchesAt(word, text, p)
  <2>1. OccursAt(word, text, p) /\ Width(word, text, p) = L
    BY <1>1, <1>5, PlainMatches
  <2>2. p + L - 1 <= N /\ p \in 1 .. N
    BY <1>1, <2>1 DEF OccursAt
  <2>3. next = p + L /\ Len(head) = L /\ \A j \in 1 .. L : head[j] = ReplaceChar
    BY <1>1, <1>3, <1>5, <2>1 DEF After, EmittedRight, Written, Kept
  <2> HIDE DEF head, next, tail, whole, L, N
  <2>4. Len(tail) = N + 1 - next
    BY <1>1, <1>4, <2>2, <2>3
  <2>5. Len(whole) = N + 1 - p
    <3>1. Len(whole) = Len(head) + Len(tail)
      BY <1>2
    <3>2. next = p + L /\ Len(head) = L
      BY <2>3
    <3>3. next \in Nat
      BY <1>1, <3>2
    <3> QED
      BY <1>1, <2>4, <3>1, <3>2, <3>3
  <2>8. next = p + L /\ Len(head) = L /\ Len(tail) \in Nat /\ p + L - 1 <= N
    BY <1>2, <2>2, <2>3
  <2>6. ASSUME NEW j \in 1 .. N + 1 - p
        PROVE  \/ whole[j] = text[p + j - 1]
               \/ /\ whole[j] = ReplaceChar
                  /\ \E q \in 1 .. N : OccursAt(word, text, q) /\ p + j - 1 \in q .. q + L - 1
    <3>1. CASE j <= L
      <4>1. j \in 1 .. L /\ j \in 1 .. Len(head) + Len(tail) /\ p + j - 1 \in p .. p + L - 1
        BY <1>1, <2>8, <3>1
      <4>2. whole[j] = ReplaceChar
        BY <1>2, <2>3, <3>1, <4>1
      <4> QED
        BY <2>1, <2>2, <4>1, <4>2
    <3>2. CASE ~(j <= L)
      <4>1. /\ j - L \in 1 .. N + 1 - next /\ j \in 1 .. Len(head) + Len(tail)
            /\ next + (j - L) - 1 = p + j - 1
        BY <1>1, <2>4, <2>8, <3>2
      <4>2. whole[j] = tail[j - L]
        BY <1>2, <2>3, <3>2, <4>1
      <4> QED
        BY <1>4, <4>1, <4>2
    <3> QED
      BY <3>1, <3>2
  <2>7. p <= N
    BY <1>1, <2>2
  <2> QED
    BY <2>5, <2>6, <2>7 DEF RestSame, whole, L, N
<1>6. CASE ~MatchesAt(word, text, p)
  <2>1. Width(word, text, p) = 0 /\ next = p + 1
    BY <1>6 DEF Width, After
  <2>2. CASE p = N + 1
    <3>1. Len(head) = 0
      BY <1>1, <1>3, <1>6, <2>2 DEF EmittedRight, Written, Kept
    <3> HIDE DEF head, next, tail, whole, L, N
    <3>2. Len(tail) = 0
      BY <1>1, <1>4, <2>1, <2>2
    <3>3. Len(whole) = 0 /\ ~(p <= N) /\ 1 .. N + 1 - p = {}
      BY <1>1, <1>2, <2>2, <3>1, <3>2
    <3> QED
      BY <3>3 DEF RestSame, whole, N
  <2>3. CASE p # N + 1
    <3>1. p <= N
      BY <1>1, <2>3
    <3>2. Len(head) = 1 /\ head[1] = text[p]
      BY <1>1, <1>3, <1>6, <2>1, <3>1 DEF EmittedRight, Written, Kept
    <3> HIDE DEF head, next, tail, whole, L, N
    <3>3. Len(tail) = N - p
      BY <1>1, <1>4, <2>1, <3>1
    <3>4. Len(whole) = N + 1 - p
      BY <1>1, <1>2, <3>2, <3>3
    <3>6. Len(head) = 1 /\ Len(tail) = N - p /\ next = p + 1
      BY <2>1, <3>2, <3>3
    <3>5. ASSUME NEW j \in 1 .. N + 1 - p
          PROVE  \/ whole[j] = text[p + j - 1]
                 \/ /\ whole[j] = ReplaceChar
                    /\ \E q \in 1 .. N : OccursAt(word, text, q) /\ p + j - 1 \in q .. q + L - 1
      <4>1. CASE j = 1
        <5>1. 1 \in 1 .. Len(head) + Len(tail) /\ 1 <= Len(head) /\ p + 1 - 1 = p
          BY <1>1, <1>2, <3>2
        <5>2. whole[1] = text[p]
          BY <1>2, <3>2, <5>1
        <5> QED
          BY <4>1, <5>1, <5>2
      <4>2. CASE j # 1
        <5>1. /\ j - 1 \in 1 .. N + 1 - next /\ j \in 1 .. Len(head) + Len(tail) /\ ~(j <= 1)
              /\ next + (j - 1) - 1 = p + j - 1
          BY <1>1, <3>1, <3>6, <4>2
        <5>2. whole[j] = tail[j - 1]
          BY <1>2, <3>2, <5>1
        <5> QED
          BY <1>4, <5>1, <5>2
      <4> QED
        BY <4>1, <4>2
    <3> QED
      BY <3>1, <3>4, <3>5 DEF RestSame, whole, L, N
  <2> QED
    BY <2>2, <2>3
<1> QED
  BY <1>5, <1>6

\* replaceAll of a plain word keeps the length of the text and what is in no occurrence.
LEMMA ReplaceAllSame ==
    ASSUME NEW S, NEW word \in Seq(S), Len(word) > 0, Plain(word), NEW T, NEW text \in Seq(T)
    PROVE  /\ Len(ReplaceAll(word, text)) = Len(text)
           /\ \A k \in 1 .. Len(text) :
                 \/ ReplaceAll(word, text)[k] = text[k]
                 \/ /\ ReplaceAll(word, text)[k] = ReplaceChar
                    /\ \E q \in 1 .. Len(text) :
                          OccursAt(word, text, q) /\ k \in q .. q + Len(word) - 1
<1> DEFINE Bad == {p \in 1 .. Len(text) + 2 : ~RestSame(word, text, p)}
<1>1. Len(text) \in Nat /\ Len(text) + 2 \in Nat
  BY LenProperties
<1>2. ASSUME Bad # {} PROVE FALSE
  <2>1. PICK p \in Bad : \A q \in Bad : q <= p
    <3>1. Bad \in SUBSET Nat /\ \A q \in Bad : q <= Len(text) + 2
      BY <1>1
    <3> HIDE DEF Bad
    <3> QED
      BY <1>1, <1>2, <3>1, MaxMember
  <2>2. p \in 1 .. Len(text) + 2 /\ ~RestSame(word, text, p)
    OBVIOUS
  <2>3. p # Len(text) + 2
    <3> SUFFICES ASSUME p = Len(text) + 2 PROVE FALSE
      OBVIOUS
    <3>1. Len(Rest(word, text)[p]) = 0
      BY <2>2, RestIsScan
    <3>2. ~(p <= Len(text)) /\ 1 .. Len(text) + 1 - p = {}
      BY <1>1
    <3> QED
      BY <2>2, <3>1, <3>2 DEF RestSame
  <2>4. p \in 1 .. Len(text) + 1
    BY <1>1, <2>2, <2>3
  <2>5. After(word, text, p) \in p + 1 .. Len(text) + 2
    BY <2>4, AfterInText
  <2>6. After(word, text, p) \in 1 .. Len(text) + 2 /\ ~(After(word, text, p) <= p)
    BY <1>1, <2>4, <2>5
  <2>7. RestSame(word, text, After(word, text, p))
    BY <2>1, <2>6
  <2> QED
    BY <2>2, <2>4, <2>7, TurnSame
<1>3. RestSame(word, text, 1)
  BY <1>1, <1>2
<1>4. Len(ReplaceAll(word, text)) = Len(text)
  BY <1>1, <1>3 DEF RestSame, ReplaceAll
<1>5. \A k \in 1 .. Len(text) : k \in 1 .. Len(text) + 1 - 1 /\ 1 + k - 1 = k
  BY <1>1
<1> QED
  BY <1>3, <1>4, <1>5 DEF RestSame, ReplaceAll

\* Every run of characters in what replaceAll returns that it did not write was copied from
\* the text.
AllCopied(word, text) ==
    \A k, n \in Nat \ {0} :
        /\ k + n - 1 <= Len(ReplaceAll(word, text))
        /\ \A j \in 0 .. n - 1 : ReplaceAll(word, text)[k + j] # ReplaceChar
        => \E q \in 1 .. Len(text) :
              /\ Copied(word, text, q, n)
              /\ \A j \in 0 .. n - 1 : ReplaceAll(word, text)[k + j] = text[q + j]

\* What replaceAll returns is text, and copied where it did not write.
LEMMA ReplaceAllCopies ==
    ASSUME NEW S, NEW word \in Seq(S), Len(word) > 0, NEW T, NEW text \in Seq(T)
    PROVE  ReplaceAll(word, text) \in Seq(T \cup {ReplaceChar}) /\ AllCopied(word, text)
<1>1. Len(text) \in Nat
  BY LenProperties
<1>2. 1 \in 1 .. Len(text) + 2
  BY <1>1
<1>3. RunsCopied(word, text, 1)
  BY <1>2, RestCopies
<1>4. ReplaceAll(word, text) \in Seq(T \cup {ReplaceChar})
  BY <1>2, RestIsText DEF ReplaceAll
<1> QED
  BY <1>3, <1>4 DEF RunsCopied, CopiedFrom, AllCopied, ReplaceAll

\* A word without the replacement character that stands in what replaceAll returns was
\* copied from the text.
LEMMA WordCopied ==
    ASSUME NEW S, NEW word \in Seq(S), Len(word) > 0, NEW T, NEW text \in Seq(T),
           NEW w \in Seq(Letters), Len(w) > 0, NEW p \in Nat \ {0},
           OccursAt(w, ReplaceAll(word, text), p)
    PROVE  \E q \in 1 .. Len(text) : OccursAt(w, text, q) /\ Copied(word, text, q, Len(w))
<1> DEFINE result == ReplaceAll(word, text)
           n == Len(w)
<1>1. Len(text) \in Nat /\ n \in Nat \ {0} /\ \A k \in 1 .. n : w[k] # ReplaceChar
  BY LenProperties DEF Letters
<1>2. result \in Seq(T \cup {ReplaceChar})
  BY ReplaceAllCopies
<1>3. /\ p + n - 1 <= Len(result)
      /\ \A k \in 1 .. n : result[p + k - 1] = w[k]
  BY <1>2, OccursByCharacters
<1>4. ASSUME NEW j \in 0 .. n - 1 PROVE result[p + j] = w[j + 1] /\ result[p + j] # ReplaceChar
  <2>1. j + 1 \in 1 .. n /\ p + (j + 1) - 1 = p + j
    BY <1>1
  <2> HIDE DEF result, n
  <2> QED
    BY <1>1, <1>3, <2>1
<1>5. PICK q \in 1 .. Len(text) :
          /\ Copied(word, text, q, n)
          /\ \A j \in 0 .. n - 1 : result[p + j] = text[q + j]
  <2>1. \A k, m \in Nat \ {0} :
            /\ k + m - 1 <= Len(result)
            /\ \A j \in 0 .. m - 1 : result[k + j] # ReplaceChar
            => \E q \in 1 .. Len(text) :
                  /\ Copied(word, text, q, m)
                  /\ \A j \in 0 .. m - 1 : result[k + j] = text[q + j]
    <3>1. AllCopied(word, text)
      BY ReplaceAllCopies
    <3> QED
      BY <3>1 DEF AllCopied
  <2> HIDE DEF result, n
  <2> QED
    BY <1>1, <1>3, <1>4, <2>1
<1>6. ASSUME NEW k \in 1 .. n PROVE text[q + k - 1] = w[k]
  <2>1. k - 1 \in 0 .. n - 1 /\ (k - 1) + 1 = k /\ q + (k - 1) = q + k - 1
    BY <1>1
  <2> HIDE DEF result, n
  <2> QED
    BY <1>4, <1>5, <2>1
<1>7. q \in Nat \ {0} /\ q + n - 1 <= Len(text)
  BY <1>1, <1>5 DEF Copied
<1>8. OccursAt(w, text, q)
  BY <1>6, <1>7, OccursByCharacters
<1> QED
  BY <1>5, <1>8

-----------------------------------------------------------------------------
(* The loops of getSensitiveWord and replaceSensitiveWord.                 *)

\* The characters of a text, and the text of a replacement as a sequence.
LEMMA TextsAreSequences ==
    ASSUME TypeOK
    PROVE  /\ txt \in Seq(Alphabet) /\ Len(txt) \in Nat /\ DOMAIN txt = 1 .. Len(txt)
           /\ resultTxt \in Seq(Alphabet \cup {ReplaceChar}) /\ Len(resultTxt) \in Nat
BY LenProperties DEF TypeOK

\* The trie and the phases of the filter.
LEMMA PhaseStep ==
    ASSUME TypeOK, PhaseInv, [Next]_vars
    PROVE  PhaseInv'
<1> USE DEF PhaseInv, TypeOK, trie
<1>1. CASE \E word \in pending : AddWord(word)
  BY <1>1 DEF AddWord
<1>2. CASE Built
  BY <1>2 DEF Built
<1>3. CASE \E text \in Texts : \E type \in {minMatchTYpe, maxMatchType} :
              ReplaceSensitiveWord(text, type)
  BY <1>3 DEF ReplaceSensitiveWord
<1>4. CASE Take \/ Skip
  BY <1>4 DEF Take, Skip
<1>5. CASE Searched
  BY <1>5 DEF Searched
<1>6. CASE (\E word \in unreplaced : Replace(word) \/ ReplaceThrows(word)) \/ Replaced \/ Return
  BY <1>6 DEF Replace, ReplaceThrows, Replaced, Return
<1>7. CASE UNCHANGED vars
  BY <1>7 DEF vars
<1> QED
  BY <1>1, <1>2, <1>3, <1>4, <1>5, <1>6, <1>7 DEF Next

\* What Take finds lies in the text and is spelled by the trie.
LEMMA TakeFinds ==
    ASSUME TypeOK, TrieHoldsWords, PhaseInv, Take
    PROVE  LET length == CheckSensitiveWord(txt, i, matchType)
               word == SubSeq(txt, i, i + length - 1)
           IN /\ length \in Nat /\ length >= 2 /\ i + length - 1 <= Len(txt)
              /\ i \in 1 .. Len(txt)
              /\ word \in Seq(Letters) /\ Len(word) = length
<1> DEFINE length == CheckSensitiveWord(txt, i, matchType)
           part == SubSeq(txt, i, i + length - 1)
<1>0. txt \in Seq(Alphabet) /\ Len(txt) \in Nat
  BY TextsAreSequences
<1>1. i \in 1 .. Len(txt) /\ length > 0
  BY <1>0 DEF Take, TypeOK
<1>2. length \in Walk(txt, i) /\ length >= 2
  BY <1>0, <1>1, CheckSpells
<1> HIDE DEF length
<1>3. length \in 1 .. Len(txt) - i + 1 /\ SubSeq(txt, i, i + length - 1) \in nodes
  <2>1. length \in 1 .. Len(txt) - i + 1 /\ \A k \in 1 .. length : SubSeq(txt, i, i + k - 1) \in nodes
    BY <1>2 DEF Walk
  <2>2. length \in 1 .. length
    BY <2>1
  <2> QED
    BY <2>1, <2>2
<1>4. length \in Nat /\ i \in Nat \ {0} /\ i + length - 1 <= Len(txt)
  BY <1>0, <1>1, <1>3
<1>5. Len(part) = length
  BY <1>0, <1>4, PartOfText
<1>6. part \in Seq(Letters)
  <2>1. PICK word \in words : part \in NonEmptyPrefixes(word)
    BY <1>3 DEF TrieHoldsWords
  <2>2. PICK n \in 1 .. Len(word) : part = SubSeq(word, 1, n)
    BY <2>1 DEF NonEmptyPrefixes
  <2>3. word \in Seq(Letters) /\ Len(word) \in Nat
    BY LenProperties DEF PhaseInv
  <2>4. n \in Nat /\ 1 + n - 1 <= Len(word) /\ 1 + n - 1 = n
    BY <2>3
  <2>5. SubSeq(word, 1, 1 + n - 1) \in Seq(Letters)
    BY <2>3, <2>4, PartOfText
  <2> QED
    BY <2>2, <2>4, <2>5
<1> QED
  BY <1>1, <1>2, <1>4, <1>5, <1>6 DEF length

\* Everything that is collected is spelled by the trie.
LEMMA FoundStep ==
    ASSUME TypeOK, TrieHoldsWords, PhaseInv, FoundInv, [Next]_vars
    PROVE  FoundInv'
<1>1. CASE Take
  <2>1. found' = found \cup {SubSeq(txt, i, i + CheckSensitiveWord(txt, i, matchType) - 1)}
    BY <1>1 DEF Take
  <2> QED
    BY <1>1, <2>1, TakeFinds DEF FoundInv
<1>2. CASE \E text \in Texts : \E type \in {minMatchTYpe, maxMatchType} :
              ReplaceSensitiveWord(text, type)
  BY <1>2 DEF ReplaceSensitiveWord, FoundInv
<1>3. ASSUME UNCHANGED found PROVE FoundInv'
  BY <1>3 DEF FoundInv
<1>4. CASE (\E word \in pending : AddWord(word)) \/ Built \/ Skip \/ Searched
  BY <1>3, <1>4 DEF AddWord, Built, Skip, Searched
<1>5. CASE (\E word \in unreplaced : Replace(word) \/ ReplaceThrows(word)) \/ Replaced
  BY <1>3, <1>5 DEF Replace, ReplaceThrows, Replaced
<1>7. CASE Return
  BY <1>7 DEF Return, FoundInv
<1>6. CASE UNCHANGED vars
  BY <1>3, <1>6 DEF vars
<1> QED
  BY <1>1, <1>2, <1>4, <1>5, <1>6, <1>7 DEF Next

\* Every step keeps the types; a match ends within the text.
LEMMA WordsTypeStep ==
    ASSUME TypeOK, TrieHoldsWords, PhaseInv, FoundInv, [Next]_vars
    PROVE  TypeOK'
<1>1. CASE \E word \in pending : AddWord(word)
  <2>1. PICK word \in pending : AddWord(word)
    BY <1>1
  <2>2. word \in Seq(Alphabet) /\ Len(word) \in Nat
    BY LenProperties DEF TypeOK
  <2>3. ASSUME NEW n \in 1 .. Len(word) PROVE SubSeq(word, 1, n) \in Seq(Alphabet)
    <3>1. n \in Nat /\ 1 + n - 1 <= Len(word) /\ 1 + n - 1 = n
      BY <2>2
    <3>2. SubSeq(word, 1, 1 + n - 1) \in Seq(Alphabet)
      BY <2>2, <3>1, PartOfText
    <3> QED
      BY <3>1, <3>2
  <2>4. NonEmptyPrefixes(word) \subseteq Seq(Alphabet)
    BY <2>3 DEF NonEmptyPrefixes
  <2>5. word # <<>> => word \in NonEmptyPrefixes(word)
    <3>1. word # <<>> => Len(word) \in 1 .. Len(word)
      BY <2>2, EmptySeq
    <3>2. SubSeq(word, 1, Len(word)) = word
      BY <2>2, SubSeqFull
    <3> QED
      BY <3>1, <3>2 DEF NonEmptyPrefixes
  <2>6. nodes' \subseteq Seq(Alphabet) /\ ends' \subseteq nodes'
    BY <2>1, <2>4, <2>5 DEF AddWord, TypeOK
  <2> QED
    BY <2>1, <2>6 DEF AddWord, TypeOK
<1>2. CASE Built
  BY <1>2 DEF Built, TypeOK, trie
<1>3. ASSUME NEW text \in Texts, NEW type \in {minMatchTYpe, maxMatchType},
             ReplaceSensitiveWord(text, type)
      PROVE  TypeOK'
  <2>1. text \in Seq(Alphabet)
    BY SensitiveWordsAssumption
  <2>2. Len(text) \in Nat
    BY <2>1, LenProperties
  <2>3. text \in Seq(Alphabet \cup {ReplaceChar})
    BY <2>1, SeqMonotonic
  <2>4. 1 \in 1 .. Len(text) + 1
    BY <2>2
  <2>5. unreplaced = {}
    BY <1>3 DEF PhaseInv, ReplaceSensitiveWord
  <2> QED
    BY <1>3, <2>1, <2>3, <2>4, <2>5 DEF ReplaceSensitiveWord, TypeOK, trie
<1>4. CASE Take
  <2> DEFINE length == CheckSensitiveWord(txt, i, matchType)
  <2>1. /\ i' = i + length /\ covered' = covered \cup (i .. i + length - 1)
        /\ found \subseteq found'
        /\ UNCHANGED <<trie, state, txt, matchType, unreplaced, resultTxt>>
    BY <1>4 DEF Take
  <2>2. length \in Nat /\ length >= 2 /\ i + length - 1 <= Len(txt) /\ i \in 1 .. Len(txt)
    BY <1>4, TakeFinds
  <2>3. Len(txt) \in Nat
    BY TextsAreSequences
  <2> HIDE DEF length
  <2>4. i' \in 1 .. Len(txt) + 1 /\ covered' \subseteq 1 .. Len(txt)
    BY <2>1, <2>2, <2>3 DEF TypeOK
  <2> QED
    BY <2>1, <2>4 DEF TypeOK, trie
<1>5. CASE Skip
  <2>1. i' \in 1 .. Len(txt) + 1
    BY <1>5, TextsAreSequences DEF Skip, TypeOK
  <2> QED
    BY <1>5, <2>1 DEF Skip, TypeOK, trie
<1>6. CASE Searched
  BY <1>6 DEF Searched, TypeOK, trie
<1>7. ASSUME NEW word \in unreplaced, Replace(word)
      PROVE  TypeOK'
  <2>1. word \in Seq(Letters) /\ Len(word) > 0
    BY LenProperties DEF TypeOK, FoundInv
  <2>2. ReplaceAll(word, resultTxt) \in Seq((Alphabet \cup {ReplaceChar}) \cup {ReplaceChar})
    BY <2>1, TextsAreSequences, ReplaceAllCopies
  <2>3. resultTxt' \in Seq(Alphabet \cup {ReplaceChar})
    <3>1. (Alphabet \cup {ReplaceChar}) \cup {ReplaceChar} = Alphabet \cup {ReplaceChar}
      OBVIOUS
    <3>2. resultTxt' = ReplaceAll(word, resultTxt)
      BY <1>7 DEF Replace
    <3> QED
      BY <2>2, <3>1, <3>2
  <2> QED
    BY <1>7, <2>3 DEF Replace, TypeOK, trie
<1>8. CASE (\E word \in unreplaced : ReplaceThrows(word)) \/ Replaced
  BY <1>8 DEF ReplaceThrows, Replaced, TypeOK, trie
<1>9. CASE Return
  <2>1. unreplaced = {}
    BY <1>9 DEF Return, PhaseInv
  <2>2. /\ <<>> \in Seq(Alphabet) /\ <<>> \in Seq(Alphabet \cup {ReplaceChar})
        /\ 1 \in 1 .. Len(<<>>) + 1
    BY EmptySeq
  <2> QED
    BY <1>9, <2>1, <2>2 DEF Return, TypeOK, trie
<1>10. CASE UNCHANGED vars
  BY <1>10 DEF vars, TypeOK, trie
<1> QED
  BY <1>1, <1>2, <1>3, <1>4, <1>5, <1>6, <1>7, <1>8, <1>9, <1>10 DEF Next

\* The loop passes no word by: it cuts a part out, or finds that no word begins at i.
LEMMA PassedStep ==
    ASSUME TypeOK, TrieHoldsWords, PhaseInv, PassedInv, [Next]_vars
    PROVE  PassedInv'
<1>0. txt \in Seq(Alphabet) /\ Len(txt) \in Nat
  BY TextsAreSequences
<1>1. CASE Take
  <2> DEFINE length == CheckSensitiveWord(txt, i, matchType)
  <2>1. /\ i' = i + length /\ covered' = covered \cup (i .. i + length - 1)
        /\ UNCHANGED <<words, txt, matchType>>
    BY <1>1 DEF Take, trie
  <2>2. length \in Nat /\ length >= 2 /\ i + length - 1 <= Len(txt) /\ i \in 1 .. Len(txt)
    BY <1>1, TakeFinds
  <2> HIDE DEF length
  <2> SUFFICES ASSUME NEW word \in words, NEW p \in 1 .. Len(txt),
                      p < i + length, Servable(word), OccursAt(word, txt, p)
               PROVE  covered' \cap (p .. p + Len(word) - 1) # {}
    BY <2>1 DEF PassedInv, Servable, OccursAt
  <2>3. CASE p < i
    BY <2>1, <2>3 DEF PassedInv
  <2>4. CASE ~(p < i)
    <3>1. p \in i .. i + length - 1
      BY <2>2, <2>4
    <3>2. Len(word) \in Nat /\ Len(word) >= 2
      BY LenProperties DEF Servable, PhaseInv
    <3>3. p \in p .. p + Len(word) - 1
      BY <3>2
    <3> QED
      BY <2>1, <3>1, <3>3
  <2> QED
    BY <2>3, <2>4
<1>2. CASE Skip
  <2>1. i' = i + 1 /\ UNCHANGED <<words, txt, covered, matchType>>
    BY <1>2 DEF Skip, trie
  <2>2. i \in 1 .. Len(txt) /\ CheckSensitiveWord(txt, i, matchType) = 0 /\ pending = {}
    BY <1>0, <1>2 DEF Skip, TypeOK, PhaseInv
  <2> SUFFICES ASSUME NEW word \in words, NEW p \in 1 .. Len(txt),
                      p < i + 1, Servable(word), OccursAt(word, txt, p)
               PROVE  covered \cap (p .. p + Len(word) - 1) # {}
    BY <2>1 DEF PassedInv, Servable, OccursAt
  <2>3. p # i
    BY <1>0, <2>2, CheckMissesNone DEF PhaseInv
  <2>4. p < i
    BY <2>2, <2>3
  <2> QED
    BY <2>4 DEF PassedInv
<1>3. CASE \E text \in Texts : \E type \in {minMatchTYpe, maxMatchType} :
              ReplaceSensitiveWord(text, type)
  <2>1. i' = 1
    BY <1>3 DEF ReplaceSensitiveWord
  <2> QED
    BY <2>1 DEF PassedInv
<1>4. ASSUME UNCHANGED <<words, txt, matchType, i, covered>> PROVE PassedInv'
  BY <1>4 DEF PassedInv, Servable, OccursAt
<1>5. CASE (\E word \in pending : AddWord(word)) \/ Built \/ Searched
  BY <1>4, <1>5 DEF AddWord, Built, Searched, trie
<1>6. CASE (\E word \in unreplaced : Replace(word) \/ ReplaceThrows(word)) \/ Replaced
  BY <1>4, <1>6 DEF Replace, ReplaceThrows, Replaced, trie
<1>8. CASE Return
  <2>1. i' = 1
    BY <1>8 DEF Return
  <2> QED
    BY <2>1 DEF PassedInv
<1>7. CASE UNCHANGED vars
  BY <1>4, <1>7 DEF vars, trie
<1> QED
  BY <1>1, <1>2, <1>3, <1>5, <1>6, <1>7, <1>8 DEF Next

\* A word stands in the text if it stands in the text of the replacement.
LEMMA OccursInText ==
    ASSUME TypeOK, ReplacedInv, NEW word \in Seq(Letters), Len(word) > 0,
           Occurs(word, resultTxt)
    PROVE  Occurs(word, txt)
<1>1. /\ Len(word) \in Nat \ {0} /\ \A k \in 1 .. Len(word) : word[k] # ReplaceChar
      /\ txt \in Seq(Alphabet) /\ Len(txt) \in Nat
      /\ resultTxt \in Seq(Alphabet \cup {ReplaceChar}) /\ Len(resultTxt) \in Nat
  BY LenProperties, TextsAreSequences DEF Letters
<1>2. PICK first \in 1 .. Len(resultTxt) : OccursAt(word, resultTxt, first)
  BY DEF Occurs
<1> DEFINE last == first + Len(word) - 1
<1>3. /\ last <= Len(resultTxt)
      /\ \A k \in 1 .. Len(word) : resultTxt[first + k - 1] = word[k]
  BY <1>1, <1>2, OccursByCharacters
<1>4. ASSUME NEW k \in first .. last
      PROVE  /\ k - first + 1 \in 1 .. Len(word)
             /\ resultTxt[k] = word[k - first + 1] /\ resultTxt[k] # ReplaceChar
  <2>1. k - first + 1 \in 1 .. Len(word) /\ first + (k - first + 1) - 1 = k
    BY <1>1
  <2> QED
    BY <1>1, <1>3, <2>1
<1>5. last \in 1 .. Len(resultTxt) /\ first <= last
  BY <1>1, <1>3
<1>6. RunsFrom(txt, resultTxt)
  BY DEF ReplacedInv
<1> HIDE DEF last
<1>7. PICK p \in 1 .. Len(txt) :
          /\ p + (last - first) <= Len(txt)
          /\ \A k \in first .. last : resultTxt[k] = txt[p + (k - first)]
  BY <1>4, <1>5, <1>6 DEF RunsFrom
<1>8. ASSUME NEW k \in 1 .. Len(word) PROVE txt[p + k - 1] = word[k]
  <2>1. /\ first + k - 1 \in first .. last /\ p + ((first + k - 1) - first) = p + k - 1
        /\ (first + k - 1) - first + 1 = k
    BY <1>1 DEF last
  <2>2. resultTxt[first + k - 1] = word[k]
    BY <1>3
  <2> QED
    BY <1>7, <2>1, <2>2
<1>9. p + Len(word) - 1 <= Len(txt) /\ p \in Nat \ {0}
  BY <1>1, <1>7 DEF last
<1>10. OccursAt(word, txt, p)
  BY <1>1, <1>8, <1>9, OccursByCharacters
<1> QED
  BY <1>10 DEF Occurs

\* A replacement leaves none of the word, brings back none that is gone, and touches nothing
\* else if the word is plain.
LEMMA ReplaceStep ==
    ASSUME TypeOK, PhaseInv, FoundInv, ReplacedInv, NEW word \in unreplaced, Replace(word)
    PROVE  ReplacedInv'
<1> DEFINE T == Alphabet \cup {ReplaceChar}
<1>1. /\ txt \in Seq(Alphabet) /\ Len(txt) \in Nat
      /\ resultTxt \in Seq(T) /\ Len(resultTxt) \in Nat
  BY TextsAreSequences
<1>2. /\ resultTxt' = ReplaceAll(word, resultTxt) /\ unreplaced' = unreplaced \ {word}
      /\ state = "replacing" /\ UNCHANGED <<state, txt, found>>
  BY DEF Replace
<1>3. word \in found /\ word \in Seq(Letters) /\ Len(word) \in Nat /\ Len(word) >= 2 /\ Len(word) > 0
  BY LenProperties DEF TypeOK, FoundInv
<1>4. AllCopied(word, resultTxt)
  BY <1>1, <1>3, ReplaceAllCopies
<1>5. ReplaceAll(word, resultTxt) \in Seq(T \cup {ReplaceChar})
  BY <1>1, <1>3, ReplaceAllCopies
<1> HIDE DEF T
<1>6. Len(resultTxt') \in Nat
  BY <1>2, <1>5, LenProperties
<1>7. RunsFrom(txt, resultTxt')
  <2> SUFFICES ASSUME NEW first \in 1 .. Len(resultTxt'), NEW last \in 1 .. Len(resultTxt'),
                      first <= last, \A k \in first .. last : resultTxt'[k] # ReplaceChar
               PROVE  \E p \in 1 .. Len(txt) :
                          /\ p + (last - first) <= Len(txt)
                          /\ \A k \in first .. last : resultTxt'[k] = txt[p + (k - first)]
    BY DEF RunsFrom
  <2> DEFINE n == last - first + 1
  <2>1. n \in Nat \ {0} /\ first \in Nat \ {0} /\ first + n - 1 <= Len(resultTxt')
    BY <1>6
  <2>2. ASSUME NEW j \in 0 .. n - 1 PROVE resultTxt'[first + j] # ReplaceChar
    <3>1. first + j \in first .. last
      BY <1>6
    <3> QED
      BY <3>1
  <2> HIDE DEF n
  <2>3. PICK q \in 1 .. Len(resultTxt) :
            /\ Copied(word, resultTxt, q, n)
            /\ \A j \in 0 .. n - 1 : resultTxt'[first + j] = resultTxt[q + j]
    <3>1. \A k, m \in Nat \ {0} :
              /\ k + m - 1 <= Len(resultTxt')
              /\ \A j \in 0 .. m - 1 : resultTxt'[k + j] # ReplaceChar
              => \E q \in 1 .. Len(resultTxt) :
                    /\ Copied(word, resultTxt, q, m)
                    /\ \A j \in 0 .. m - 1 : resultTxt'[k + j] = resultTxt[q + j]
      BY <1>2, <1>4 DEF AllCopied
    <3> QED
      BY <2>1, <2>2, <3>1
  <2> DEFINE end == q + (last - first)
  <2>4. end \in 1 .. Len(resultTxt) /\ q <= end
    <3>1. q + n - 1 <= Len(resultTxt)
      BY <2>3 DEF Copied
    <3> QED
      BY <1>1, <1>6, <3>1 DEF n
  <2>5. ASSUME NEW k \in first .. last
        PROVE  /\ resultTxt'[k] = resultTxt[q + (k - first)]
               /\ q + (k - first) \in q .. end
    <3>1. /\ k - first \in 0 .. n - 1 /\ first + (k - first) = k
          /\ q + (k - first) \in q .. end
      BY <1>1, <1>6 DEF n
    <3> QED
      BY <2>3, <3>1
  <2>6. ASSUME NEW j \in q .. end PROVE resultTxt[j] # ReplaceChar
    <3>1. first + (j - q) \in first .. last /\ q + ((first + (j - q)) - first) = j
      BY <1>1, <1>6
    <3>2. resultTxt'[first + (j - q)] = resultTxt[j]
      BY <2>5, <3>1
    <3> QED
      BY <3>1, <3>2
  <2> HIDE DEF end
  <2>7. PICK p \in 1 .. Len(txt) :
            /\ p + (end - q) <= Len(txt)
            /\ \A j \in q .. end : resultTxt[j] = txt[p + (j - q)]
    BY <2>4, <2>6 DEF ReplacedInv, RunsFrom
  <2>8. p + (last - first) <= Len(txt)
    BY <1>1, <1>6, <2>7 DEF end
  <2>9. ASSUME NEW k \in first .. last PROVE resultTxt'[k] = txt[p + (k - first)]
    <3>1. p + ((q + (k - first)) - q) = p + (k - first)
      BY <1>1, <1>6
    <3> QED
      BY <2>5, <2>7, <3>1
  <2> QED
    BY <2>8, <2>9
<1>8. ASSUME NEW w \in found \ unreplaced', Occurs(w, resultTxt'), ~HasChar(w, Backslash)
      PROVE  FALSE
  <2>1. w \in Seq(Letters) /\ Len(w) \in Nat /\ Len(w) >= 2 /\ Len(w) > 0
    BY LenProperties DEF FoundInv
  <2>2. PICK p \in 1 .. Len(resultTxt') : OccursAt(w, resultTxt', p)
    BY <1>8 DEF Occurs
  <2>3. PICK q \in 1 .. Len(resultTxt) :
            OccursAt(w, resultTxt, q) /\ Copied(word, resultTxt, q, Len(w))
    <3>1. p \in Nat \ {0} /\ OccursAt(w, ReplaceAll(word, resultTxt), p)
      BY <1>2, <1>6, <2>2
    <3> QED
      BY <1>1, <1>3, <2>1, <3>1, WordCopied
  <2>4. CASE w = word
    <3>1. q \in Nat \ {0}
      BY <1>1
    <3>2. ~Copied(w, resultTxt, q, Len(w))
      BY <1>1, <1>8, <2>1, <2>3, <3>1, LiteralNotCopied
    <3> QED
      BY <2>3, <2>4, <3>2
  <2>5. CASE w # word
    <3>1. w \in found \ unreplaced
      BY <1>2, <2>5
    <3>2. Occurs(w, resultTxt)
      BY <2>3 DEF Occurs
    <3> QED
      BY <1>2, <1>8, <3>1, <3>2 DEF ReplacedInv
  <2> QED
    BY <2>4, <2>5
<1>9. ASSUME \A w \in found : Plain(w) PROVE OnlyFoundReplaced'
  <2>1. OnlyFoundReplaced /\ Plain(word)
    BY <1>3, <1>9 DEF ReplacedInv
  <2>2. /\ Len(resultTxt') = Len(resultTxt)
        /\ \A k \in 1 .. Len(resultTxt) :
              \/ resultTxt'[k] = resultTxt[k]
              \/ /\ resultTxt'[k] = ReplaceChar
                 /\ \E q \in 1 .. Len(resultTxt) :
                       OccursAt(word, resultTxt, q) /\ k \in q .. q + Len(word) - 1
    BY <1>1, <1>2, <1>3, <2>1, ReplaceAllSame
  <2>3. Len(resultTxt) = Len(txt)
    BY <2>1 DEF OnlyFoundReplaced
  <2>4. ASSUME NEW k \in 1 .. Len(txt)
        PROVE  resultTxt'[k] = txt[k] \/ (resultTxt'[k] = ReplaceChar /\ InOccurrence(k))
    <3>1. CASE resultTxt'[k] = resultTxt[k]
      BY <2>1, <3>1 DEF OnlyFoundReplaced
    <3>2. ASSUME NEW q \in 1 .. Len(resultTxt), resultTxt'[k] = ReplaceChar,
                 OccursAt(word, resultTxt, q), k \in q .. q + Len(word) - 1
          PROVE  InOccurrence(k)
      <4>1. q \in Nat \ {0} /\ q \in 1 .. Len(txt) /\ Len(txt) \in Nat
        BY <1>1, <2>3
      <4>2. /\ q + Len(word) - 1 <= Len(txt)
            /\ \A j \in 1 .. Len(word) : resultTxt[q + j - 1] = word[j]
        BY <1>1, <1>3, <2>3, <3>2, <4>1, OccursByCharacters
      <4>3. ASSUME NEW j \in 1 .. Len(word) PROVE txt[q + j - 1] = word[j]
        <5>1. q + j - 1 \in 1 .. Len(txt)
          BY <1>3, <4>1, <4>2
        <5>2. word[j] # ReplaceChar
          BY <1>3, ElementOfSeq DEF Letters
        <5> QED
          BY <2>1, <4>2, <5>1, <5>2 DEF OnlyFoundReplaced
      <4>4. OccursAt(word, txt, q)
        BY <1>1, <1>3, <4>1, <4>2, <4>3, OccursByCharacters
      <4> QED
        BY <1>3, <3>2, <4>1, <4>4 DEF InOccurrence
    <3> QED
      BY <2>2, <2>3, <3>1, <3>2
  <2>5. \A k : InOccurrence(k)' = InOccurrence(k)
    BY <1>2 DEF InOccurrence, OccursAt
  <2> QED
    BY <1>2, <2>2, <2>3, <2>4, <2>5 DEF OnlyFoundReplaced
<1>10. RunsFrom(txt', resultTxt')
  BY <1>2, <1>7
<1> QED
  BY <1>2, <1>8, <1>9, <1>10 DEF ReplacedInv, RunsFrom, Plain, HasChar, Occurs, OccursAt

\* A text that has not been touched.
LEMMA Untouched ==
    ASSUME NEW text
    PROVE  RunsFrom(text, text)
<1> SUFFICES ASSUME NEW first \in 1 .. Len(text), NEW last \in 1 .. Len(text), first <= last
             PROVE  /\ first + (last - first) <= Len(text)
                    /\ \A k \in first .. last : text[k] = text[first + (k - first)]
  BY DEF RunsFrom
<1>1. first + (last - first) = last /\ \A k \in first .. last : first + (k - first) = k
  OBVIOUS
<1> QED
  BY <1>1

\* The other steps leave the text of the replacement alone, or begin a new one.
LEMMA ReplacedStep ==
    ASSUME TypeOK, TrieHoldsWords, PhaseInv, FoundInv, ReplacedInv, [Next]_vars
    PROVE  ReplacedInv'
<1> USE DEF Plain, HasChar
<1>0. ASSUME state' = "searching", resultTxt' = txt' PROVE ReplacedInv'
  <2>1. RunsFrom(txt', resultTxt')
    BY <1>0, Untouched
  <2>2. OnlyFoundReplaced'
    BY <1>0 DEF OnlyFoundReplaced
  <2> QED
    BY <1>0, <2>1, <2>2 DEF ReplacedInv, RunsFrom
<1>1. ASSUME NEW word \in unreplaced, Replace(word) PROVE ReplacedInv'
  BY <1>1, ReplaceStep
<1>2. ASSUME NEW text \in Texts, NEW type \in {minMatchTYpe, maxMatchType},
             ReplaceSensitiveWord(text, type)
      PROVE  ReplacedInv'
  BY <1>0, <1>2 DEF ReplaceSensitiveWord
<1>3. CASE Take
  <2>1. state' = "searching" /\ resultTxt' = txt'
    BY <1>3 DEF Take, ReplacedInv
  <2> QED
    BY <1>0, <2>1
<1>4. ASSUME UNCHANGED <<txt, found, resultTxt>>, state' # "searching",
             state' \in {"replacing", "done"} =>
                 \A word \in found \ unreplaced' :
                     Occurs(word, resultTxt) => HasChar(word, Backslash)
      PROVE  ReplacedInv'
  <2>1. OnlyFoundReplaced' = OnlyFoundReplaced
    BY <1>4 DEF OnlyFoundReplaced, InOccurrence, OccursAt
  <2>2. RunsFrom(txt', resultTxt')
    BY <1>4 DEF ReplacedInv
  <2> QED
    BY <1>4, <2>1, <2>2 DEF ReplacedInv, RunsFrom, Occurs, OccursAt
<1>5. CASE Searched
  BY <1>4, <1>5 DEF Searched
<1>6. CASE Replaced
  BY <1>4, <1>6 DEF Replaced, ReplacedInv
<1>7. CASE Built \/ \E word \in unreplaced : ReplaceThrows(word)
  BY <1>4, <1>7 DEF Built, ReplaceThrows
<1>8. CASE Return
  <2>1. txt' = <<>> /\ resultTxt' = txt' /\ state' = "ready"
    BY <1>8 DEF Return
  <2>2. RunsFrom(txt', resultTxt')
    BY <2>1, Untouched
  <2>3. OnlyFoundReplaced'
    BY <2>1 DEF OnlyFoundReplaced
  <2> QED
    BY <2>1, <2>2, <2>3 DEF ReplacedInv, RunsFrom
<1>9. ASSUME UNCHANGED <<state, txt, found, resultTxt, unreplaced>> PROVE ReplacedInv'
  <2>1. OnlyFoundReplaced' = OnlyFoundReplaced
    BY <1>9 DEF OnlyFoundReplaced, InOccurrence, OccursAt
  <2>2. RunsFrom(txt', resultTxt')
    BY <1>9 DEF ReplacedInv
  <2> QED
    BY <1>9, <2>1, <2>2 DEF ReplacedInv, RunsFrom, Occurs, OccursAt
<1>10. CASE (\E word \in pending : AddWord(word)) \/ Skip \/ UNCHANGED vars
  BY <1>9, <1>10 DEF AddWord, Skip, vars
<1> QED
  BY <1>1, <1>2, <1>3, <1>5, <1>6, <1>7, <1>8, <1>10 DEF Next

-----------------------------------------------------------------------------
\* The invariant of the loops of getSensitiveWord and replaceSensitiveWord is inductive,
\* for every alphabet, word list and text (SensitivewordFilter.java:93-152).
THEOREM Inductive == Spec => []IInv
<1>1. Init => IInv
  <2> SUFFICES ASSUME Init PROVE IInv
    OBVIOUS
  <2>1. words \subseteq Seq(Letters) /\ \A word \in Seq(Letters) : word \in Seq(Alphabet)
    BY SensitiveWordsAssumption, SeqMonotonic DEF Init, Letters
  <2>2. <<>> \in Seq(Alphabet) /\ Len(<<>>) = 0 /\ <<>> \in Seq(Alphabet \cup {ReplaceChar})
    BY EmptySeq
  <2>3. DOMAIN <<>> = {} /\ 1 \in 1 .. Len(<<>>) + 1 /\ 1 .. Len(<<>>) = {}
    OBVIOUS
  <2>4. TypeOK
    BY <2>1, <2>2, <2>3 DEF Init, TypeOK
  <2>5. TrieHoldsWords /\ PhaseInv
    BY <2>1 DEF Init, TrieHoldsWords, PhaseInv
  <2>6. FoundInv /\ PassedInv /\ ReplacedInv
    BY <2>3 DEF Init, FoundInv, PassedInv, ReplacedInv, RunsFrom, OnlyFoundReplaced
  <2> QED
    BY <2>4, <2>5, <2>6 DEF IInv
<1>2. IInv /\ [Next]_vars => IInv'
  <2> SUFFICES ASSUME IInv, [Next]_vars PROVE IInv'
    OBVIOUS
  <2>1. TrieHoldsWords'
    BY TrieStep DEF IInv, TrieInv, TypeOK
  <2> QED
    BY <2>1, WordsTypeStep, PhaseStep, FoundStep, PassedStep, ReplacedStep DEF IInv
<1> QED
  BY <1>1, <1>2, PTL DEF Spec

\* Every reachable state has its type; the loop of getSensitiveWord stays in the text
\* (SensitivewordFilter.java:96-108).
THEOREM TypeCorrect == Spec => []TypeOK
<1>1. IInv => TypeOK
  BY DEF IInv
<1> QED
  BY <1>1, Inductive, PTL

\* The filter by the trie and the filter by the regular expression disagree about a text
\* only over the words that FiltersAgree names, whatever the list
\* (SensitivewordFilter.java:71-84, RegexSensitiveWordFilter.java:51-53).
THEOREM FiltersCorrect == Spec => []FiltersAgree
<1>1. IInv => FiltersAgree
  <2> SUFFICES ASSUME IInv, state = "searching"
               PROVE  /\ IsContaintSensitiveWord(txt, matchType) /\ ~IsContainSensitiveWord(txt) =>
                            \E word \in words : Occurs(word, txt) /\ HasChar(word, Backslash)
                      /\ IsContainSensitiveWord(txt) /\ ~IsContaintSensitiveWord(txt, matchType) =>
                            \/ words = {}
                            \/ \E word \in words :
                                  Find(word, txt) /\ ~(Servable(word) /\ Plain(word))
    BY DEF FiltersAgree
  <2>0. /\ TypeOK /\ TrieHoldsWords /\ PhaseInv /\ pending = {}
        /\ words \subseteq Seq(Letters)
        /\ txt \in Seq(Alphabet) /\ Len(txt) \in Nat
    BY TextsAreSequences DEF IInv, PhaseInv
  <2>1. ASSUME NEW begin \in 1 .. Len(txt), CheckSensitiveWord(txt, begin, matchType) > 0
        PROVE  \E word \in words : OccursAt(word, txt, begin)
    <3>1. PICK n \in EndsOn(txt, begin) : TRUE
      BY <2>0, <2>1, CheckSpells
    <3> DEFINE word == SubSeq(txt, begin, begin + n - 1)
    <3>2. word \in words /\ n \in 1 .. Len(txt) - begin + 1
      BY <2>0 DEF EndsOn, Walk, TrieHoldsWords
    <3>3. n \in Nat /\ begin \in Nat \ {0} /\ begin + n - 1 <= Len(txt)
      BY <2>0, <3>2
    <3>4. Len(word) = n
      BY <2>0, <3>3, PartOfText
    <3>5. OccursAt(word, txt, begin)
      BY <3>3, <3>4 DEF OccursAt
    <3> HIDE DEF word
    <3> QED
      BY <3>2, <3>5
  <2>2. ASSUME IsContaintSensitiveWord(txt, matchType), ~IsContainSensitiveWord(txt)
        PROVE  \E word \in words : Occurs(word, txt) /\ HasChar(word, Backslash)
    <3>1. PICK begin \in 1 .. Len(txt) : CheckSensitiveWord(txt, begin, matchType) > 0
      BY <2>2 DEF IsContaintSensitiveWord
    <3>2. PICK word \in words : OccursAt(word, txt, begin)
      BY <2>1, <3>1
    <3>3. begin \in Nat \ {0} /\ begin \in 1 .. Len(txt) + 1 /\ word \in Seq(Letters)
      BY <2>0
    <3>4. ~HasChar(word, Backslash) => MatchesAt(word, txt, begin)
      BY <2>0, <3>2, <3>3, LiteralMatches
    <3>5. ~MatchesAt(word, txt, begin)
      BY <2>2, <3>3 DEF IsContainSensitiveWord, Find
    <3> QED
      BY <3>2, <3>4, <3>5 DEF Occurs
  <2>3. ASSUME NEW word \in words, Find(word, txt), Servable(word), Plain(word)
        PROVE  IsContaintSensitiveWord(txt, matchType)
    <3>1. PICK p \in 1 .. Len(txt) + 1 : MatchesAt(word, txt, p)
      BY <2>3 DEF Find
    <3>2. Len(word) \in Nat /\ Len(word) >= 2 /\ p \in Nat \ {0} /\ word \in Seq(Letters)
      BY <2>0, <2>3, LenProperties DEF Servable
    <3>3. OccursAt(word, txt, p)
      BY <2>0, <2>3, <3>1, <3>2, PlainMatches
    <3>4. p \in 1 .. Len(txt)
      BY <2>0, <3>2, <3>3 DEF OccursAt
    <3>5. CheckSensitiveWord(txt, p, matchType) > 0
      BY <2>0, <2>3, <3>3, <3>4, CheckMissesNone
    <3> QED
      BY <3>4, <3>5 DEF IsContaintSensitiveWord
  <2>4. IsContainSensitiveWord(txt) => words = {} \/ \E word \in words : Find(word, txt)
    BY DEF IsContainSensitiveWord
  <2> QED
    BY <2>2, <2>3, <2>4
<1> QED
  BY <1>1, Inductive, PTL

\* The loop of getSensitiveWord passes by no word that it can do justice to, though it steps
\* over what it has found (SensitivewordFilter.java:96-108).
THEOREM PassedCorrect == Spec => []NothingPassedBy
<1>1. IInv => NothingPassedBy
  <2> SUFFICES ASSUME IInv, state = "replacing", NEW word \in words,
                      NEW p \in 1 .. Len(txt), Servable(word), OccursAt(word, txt, p)
               PROVE  covered \cap (p .. p + Len(word) - 1) # {}
    BY DEF NothingPassedBy
  <2>1. i > Len(txt) /\ i \in Nat /\ Len(txt) \in Nat
    BY TextsAreSequences DEF IInv, PhaseInv, TypeOK
  <2>2. p < i
    BY <2>1
  <2> QED
    BY <2>2 DEF IInv, PassedInv
<1> QED
  BY <1>1, Inductive, PTL

\* After the replacement none of the words that were collected is left but for those with a
\* backslash, and if all of them are plain, no character outside of them has changed
\* (SensitivewordFilter.java:121-138).
THEOREM CollectedCorrect == Spec => []CollectedAreGone
<1>1. IInv => CollectedAreGone
  <2> SUFFICES ASSUME IInv, state = "done"
               PROVE  /\ \A word \in found : Occurs(word, resultTxt) => HasChar(word, Backslash)
                      /\ (\A word \in found : Plain(word)) => OnlyFoundReplaced
    BY DEF CollectedAreGone
  <2>1. unreplaced = {} /\ ReplacedInv
    BY DEF IInv, PhaseInv
  <2>2. \A word \in found : Occurs(word, resultTxt) => HasChar(word, Backslash)
    BY <2>1 DEF ReplacedInv
  <2>3. (\A word \in found : Plain(word)) => OnlyFoundReplaced
    BY <2>1 DEF ReplacedInv
  <2> QED
    BY <2>2, <2>3
<1> QED
  BY <1>1, Inductive, PTL

\* No replacement, whatever the words mean as regular expressions, makes a word, and none
\* that the trie serves is left but of those that overlap a collected one or have a
\* backslash (SensitivewordFilter.java:121-138): the finding about line 114 goes no further.
THEOREM LeftCorrect == Spec => []LeftOnlyByOverlap
<1>1. IInv => LeftOnlyByOverlap
  <2> SUFFICES ASSUME IInv, state = "done", NEW word \in words, Servable(word),
                      Occurs(word, resultTxt)
               PROVE  /\ word \in found => HasChar(word, Backslash)
                      /\ \E p \in 1 .. Len(txt) :
                            OccursAt(word, txt, p) /\ covered \cap (p .. p + Len(word) - 1) # {}
    BY DEF LeftOnlyByOverlap
  <2>1. /\ TypeOK /\ ReplacedInv /\ PassedInv /\ unreplaced = {}
        /\ i > Len(txt) /\ i \in Nat /\ Len(txt) \in Nat
    BY TextsAreSequences DEF IInv, PhaseInv, TypeOK
  <2>2. word \in Seq(Letters) /\ Len(word) \in Nat /\ Len(word) > 0
    BY LenProperties DEF IInv, PhaseInv, Servable
  <2>3. PICK p \in 1 .. Len(txt) : OccursAt(word, txt, p)
    BY <2>1, <2>2, OccursInText DEF Occurs
  <2>4. word \in found => HasChar(word, Backslash)
    BY <2>1 DEF ReplacedInv
  <2>5. p < i
    BY <2>1
  <2> QED
    BY <2>1, <2>3, <2>4, <2>5 DEF PassedInv
<1> QED
  BY <1>1, Inductive, PTL
=============================================================================

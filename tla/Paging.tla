------------------------------- MODULE Paging -------------------------------
(***************************************************************************)
(* The arithmetic of CollectionUtil.subList and DefaultPager.getTotalPages *)
(* with Java's integers: which part of a list a page is, and how many      *)
(* pages there are.  A list is its size; a page <<from, to>> holds the     *)
(* elements from, ..., to - 1.                                             *)
(***************************************************************************)
EXTENDS Integers, TLAPS

MaxInt == 2147483647

\* The int of a sum of two ints.
Add(a, b) ==
    IF a + b > MaxInt THEN a + b - 2 * (MaxInt + 1)
    ELSE IF a + b < -MaxInt - 1 THEN a + b + 2 * (MaxInt + 1)
    ELSE a + b

\* Java's division goes towards zero.
Quotient(a, b) ==
    IF a >= 0 THEN a \div b ELSE -((-a) \div b)

\* The bounds that List.subList is called with: a list that is not paged is returned whole.
SubList(size, start, limit) ==
    LET startIndex == IF start >= size THEN 0 ELSE start
        end == Add(start, limit)
        endIndex == IF end >= size THEN size ELSE end
    IN IF size > 0 /\ limit # 0
       THEN IF startIndex < endIndex THEN <<startIndex, endIndex>> ELSE <<endIndex, startIndex>>
       ELSE <<0, size>>

\* List.subList throws an IndexOutOfBoundsException on the others.
InBounds(page, size) == 0 <= page[1] /\ page[1] <= page[2] /\ page[2] <= size

\* Of totals and limits whose quotient is an int; a limit of 0 divides by zero, caught.
GetTotalPages(total, limit) ==
    IF limit = 0 THEN 1 ELSE Add(Quotient(total - 1, limit), 1)

-----------------------------------------------------------------------------
\* What the proofs use of the width.
LEMMA Width == MaxInt \in Nat /\ MaxInt > 3
BY SMT DEF MaxInt

\* A page that begins in the list has the limit's number of elements, or ends with
\* the list (CollectionUtil.java:17-20).
THEOREM PageCorrect ==
    ASSUME NEW size \in 1 .. MaxInt, NEW start \in 0 .. size - 1, NEW limit \in 1 .. MaxInt,
           start + limit <= MaxInt
    PROVE  /\ SubList(size, start, limit)[1] = start
           /\ SubList(size, start, limit)[2] = (IF start + limit <= size THEN start + limit ELSE size)
           /\ InBounds(SubList(size, start, limit), size)
BY Width DEF SubList, Add, InBounds

\* A page that begins behind the end is the whole list, and no empty one
\* (CollectionUtil.java:17).
THEOREM BehindTheEnd ==
    ASSUME NEW size \in 1 .. MaxInt, NEW start \in size .. MaxInt, NEW limit \in 1 .. MaxInt,
           start + limit <= MaxInt
    PROVE  SubList(size, start, limit) = <<0, size>>
BY Width DEF SubList, Add

\* Where start + limit overflows, the bounds are those of no list: the call throws
\* (CollectionUtil.java:18), also for a start within the list.
THEOREM OverflowThrows ==
    ASSUME NEW size \in 1 .. MaxInt, NEW start \in 0 .. MaxInt, NEW limit \in 1 .. MaxInt,
           start + limit > MaxInt
    PROVE  ~InBounds(SubList(size, start, limit), size)
BY Width DEF SubList, Add, InBounds

\* Of a list that is not empty the pages hold everything, and none of them is empty
\* (DefaultPager.java:55).
THEOREM PagesCoverTotal ==
    ASSUME NEW total \in Nat \ {0}, NEW limit \in 1 .. MaxInt,
           (total - 1) \div limit < MaxInt
    PROVE  /\ total <= GetTotalPages(total, limit) * limit
           /\ (GetTotalPages(total, limit) - 1) * limit < total
<1>1. total - 1 \in Nat /\ limit \in Nat \ {0}
  BY Width
<1> DEFINE q == (total - 1) \div limit
<1>2. q \in Nat /\ q * limit <= total - 1 /\ total - 1 < q * limit + limit
  BY <1>1
<1>3. GetTotalPages(total, limit) = q + 1
  BY <1>1, <1>2, Width DEF GetTotalPages, Quotient, Add
<1>4. (q + 1) * limit = q * limit + limit
  BY <1>1, <1>2
<1> HIDE DEF q
<1> QED
  BY <1>1, <1>2, <1>3, <1>4

\* An empty list has one page, unless a page holds one element; so has a pager that does
\* not know its total, from three elements on (DefaultPager.java:10, 55).
THEOREM PagesOfNothing ==
    ASSUME NEW limit \in 1 .. MaxInt
    PROVE  /\ GetTotalPages(0, limit) = (IF limit = 1 THEN 0 ELSE 1)
           /\ GetTotalPages(-1, limit) =
                 (IF limit = 1 THEN -1 ELSE IF limit = 2 THEN 0 ELSE 1)
<1>1. CASE limit = 1
  BY <1>1, Width DEF GetTotalPages, Quotient, Add
<1>2. CASE limit = 2
  BY <1>2, Width DEF GetTotalPages, Quotient, Add
<1>3. CASE limit > 2
  <2>1. 1 \div limit = 0 /\ 2 \div limit = 0
    BY <1>3
  <2> QED
    BY <1>3, <2>1, Width DEF GetTotalPages, Quotient, Add
<1> QED
  BY <1>1, <1>2, <1>3
=============================================================================

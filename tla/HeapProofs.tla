---------------------------- MODULE HeapProofs ----------------------------
(***************************************************************************)
(* Proofs about the heap, for every size of the two memories, of the table *)
(* of internal RAM and of the requests: no two blocks that callers hold    *)
(* overlap, and a request is only refused where there is no room for it.   *)
(***************************************************************************)
EXTENDS Heap, SequenceTheorems, WellFoundedInduction, TLAPS

-----------------------------------------------------------------------------
(* The inductive invariant.                                                *)

Address == [head : Int, end : Int]
Entry   == [start : Int, end : Int]
InIram(h) == h.ptr \in IramStart..IramEnd

(* The headers lie in the memory in the order of the list, on words, each  *)
(* with room behind it for its block and the next header.                  *)
ListInv ==
  /\ list \in Seq(Address) /\ Len(list) >= 1
  /\ list[1] = [head |-> ListHead, end |-> ListHead + Word]
  /\ \A i \in 1..Len(list) : /\ list[i].head % Word = 0 /\ list[i].end % Word = 0
                             /\ ListHead <= list[i].head /\ list[i].end + Word <= EndHead
  /\ \A i \in 2..Len(list) : list[i].head + 2 * Word <= list[i].end
  /\ \A i, j \in 1..Len(list) : i < j => list[i].end + Word <= list[j].head

(* The used entries come first, in the order of their addresses, and every *)
(* block begins and ends on a word.                                        *)
IramInv ==
  /\ iram \in [Slots -> Entry]
  /\ \A i \in Slots : iram[i].start = 0 \/
       /\ IramStart <= iram[i].start /\ iram[i].start <= iram[i].end /\ iram[i].end <= IramEnd
       /\ iram[i].start % Word = 0 /\ (iram[i].end + 1) % Word = 0
  /\ \A i, j \in Slots : i < j /\ iram[j].start # 0 => iram[i].start # 0 /\ iram[i].end < iram[j].start

(* The block of a header, and of an entry, is what a caller holds.         *)
IsBlock(b, h) == b.head + 2 * Word = h.ptr /\ b.end = h.ptr + Word * (Words(h.size) - 1)
IsEntry(e, h) == e.start = h.ptr /\ e.end = h.ptr + RoundUp(h.size) - 1

HeldInv ==
  /\ held \subseteq [ptr : Int, size : Sizes \ {0}, align : Aligns \cup {1}]
  /\ \A h \in held : h.ptr % h.align = 0
  /\ \A g, h \in held : g.ptr = h.ptr => g = h
ListHeld ==
  /\ \A h \in held : ~InIram(h) => \E i \in 2..Len(list) : IsBlock(list[i], h)
  /\ \A i \in 2..Len(list) : \E h \in held : IsBlock(list[i], h)
IramHeld ==
  /\ \A h \in held : InIram(h) => \E i \in Slots : iram[i].start # 0 /\ IsEntry(iram[i], h)
  /\ \A i \in Slots : iram[i].start # 0 => \E h \in held : IsEntry(iram[i], h)

HeapInv == ListInv /\ IramInv /\ HeldInv /\ ListHeld /\ IramHeld
-----------------------------------------------------------------------------
(* Arithmetic.                                                             *)

LEMMA AlignUpAligns ==
  ASSUME NEW x \in Int, NEW a \in {1, 4, 16, 32, 64}
  PROVE  AlignUp(x, a) \in Int /\ AlignUp(x, a) % a = 0 /\ x <= AlignUp(x, a)
<1>1. CASE a = 1
  BY <1>1 DEF AlignUp
<1>2. CASE a = 4
  BY <1>2 DEF AlignUp
<1>3. CASE a = 16
  BY <1>3 DEF AlignUp
<1>4. CASE a = 32
  BY <1>4 DEF AlignUp
<1>5. CASE a = 64
  BY <1>5 DEF AlignUp
<1> QED
  BY <1>1, <1>2, <1>3, <1>4, <1>5

(* AlignUp finds the least multiple from x on.                             *)
LEMMA AlignUpIsLeast ==
  ASSUME NEW x \in Int, NEW a \in {1, 4, 16, 32, 64}, NEW y \in Int, x <= y, y % a = 0
  PROVE  AlignUp(x, a) <= y
<1>1. CASE a = 1
  BY <1>1 DEF AlignUp
<1>2. CASE a = 4
  BY <1>2 DEF AlignUp
<1>3. CASE a = 16
  BY <1>3 DEF AlignUp
<1>4. CASE a = 32
  BY <1>4 DEF AlignUp
<1>5. CASE a = 64
  BY <1>5 DEF AlignUp
<1> QED
  BY <1>1, <1>2, <1>3, <1>4, <1>5

(* What is aligned already stays.                                          *)
LEMMA AlignUpStays ==
  ASSUME NEW x \in Int, NEW a \in {1, 4, 16, 32, 64}, x % a = 0
  PROVE  AlignUp(x, a) = x
<1>1. AlignUp(x, a) <= x
  BY AlignUpIsLeast
<1>2. AlignUp(x, a) \in Int /\ x <= AlignUp(x, a)
  BY AlignUpAligns
<1> QED
  BY <1>1, <1>2

(* A multiple of an alignment is one of a word.                            *)
LEMMA AlignedOnWords ==
  ASSUME NEW x \in Int, NEW a \in {4, 16, 32, 64}, x % a = 0
  PROVE  x % 4 = 0
<1>1. CASE a = 16
  BY <1>1
<1>2. CASE a = 32
  BY <1>2
<1>3. CASE a = 64
  BY <1>3
<1> QED
  BY <1>1, <1>2, <1>3

LEMMA WordsCover ==
  ASSUME NEW size \in Nat \ {0}
  PROVE  Words(size) \in Nat /\ Words(size) >= 1 /\ size <= Word * Words(size)
BY DEF Words, Word

LEMMA RoundUpCovers ==
  ASSUME NEW size \in Nat \ {0}
  PROVE  /\ RoundUp(size) \in Nat /\ RoundUp(size) % 4 = 0
         /\ RoundUp(size) >= 4 /\ size <= RoundUp(size)
<1>1. RoundUp(size) \in Int /\ RoundUp(size) % 4 = 0 /\ size <= RoundUp(size)
  BY AlignUpAligns DEF RoundUp, Word
<1> QED
  BY <1>1

(* The two ends of the list are on words.                                  *)
LEMMA Ends ==
  /\ ListHead \in Int /\ ListHead % Word = 0 /\ ListHead >= 1
  /\ EndHead \in Int /\ EndHead % Word = 0 /\ EndHead <= SdramEnd /\ ListHead + 2 * Word <= EndHead
  /\ SdramEnd < IramStart /\ IramStart < IramEnd /\ IramStart \in Nat /\ IramEnd \in Nat /\ IramStart % Word = 0
  /\ Sizes \subseteq Nat /\ Aligns \subseteq {4, 16, 32, 64} /\ SdramEnd \in Nat
<1>1. ListHead \in Int /\ ListHead % 4 = 0 /\ ListHead >= 1
  BY AlignUpAligns, HeapAssumption DEF ListHead, Word
<1>2. EndHead \in Int /\ EndHead % 4 = 0 /\ EndHead <= SdramEnd
  BY HeapAssumption DEF EndHead, Word
<1> QED
  BY <1>1, <1>2, HeapAssumption DEF Word

(* Least finds a least element.                                            *)
Less == {p \in Nat \X Nat : p[1] < p[2]}

LEMMA LessIsWellFounded == IsWellFoundedOn(Less, Nat)
BY NatLessThanWellFounded DEF Less, OpToRel

LEMMA LeastIsLeast ==
  ASSUME NEW T, T \subseteq Nat, T # {}
  PROVE  Least(T) \in T /\ \A m \in T : Least(T) <= m
<1>1. PICK n \in T : \A m \in T : ~(<<m, n>> \in Less)
  BY LessIsWellFounded, WFMin
<1>2. ASSUME NEW m \in T PROVE n <= m
  <2>1. n \in Nat /\ m \in Nat /\ ~(m < n)
    BY <1>1 DEF Less
  <2> QED
    BY <2>1
<1> QED
  BY <1>2 DEF Least

-----------------------------------------------------------------------------
(* The list.                                                               *)

(* A block of w words at data, and its header                              *)
LEMMA BlockEnds ==
  ASSUME NEW data \in Int, NEW w \in Nat, w >= 1, data % 4 = 0
  PROVE  /\ (data - 8) % 4 = 0 /\ (data + 4 * (w - 1)) % 4 = 0
         /\ data <= data + 4 * (w - 1) /\ data + 4 * (w - 1) + 4 = data + 4 * w
<1>1. (data - 8) % 4 = 0
  OBVIOUS
<1>2. (data + 4 * (w - 1)) % 4 = 0
  OBVIOUS
<1>3. data <= data + 4 * (w - 1)
  OBVIOUS
<1>4. data + 4 * (w - 1) + 4 = data + 4 * w
  OBVIOUS
<1> QED
  BY <1>1, <1>2, <1>3, <1>4

(* What ListInv says of two headers                                        *)
LEMMA ListFacts ==
  ASSUME ListInv
  PROVE  /\ Len(list) \in Nat /\ Len(list) >= 1 /\ list \in [1..Len(list) -> Address]
         /\ \A i \in 1..Len(list) :
              /\ list[i].head \in Int /\ list[i].head % 4 = 0 /\ ListHead <= list[i].head
              /\ list[i].end \in Int /\ list[i].end % 4 = 0 /\ list[i].end + 4 <= EndHead
              /\ list[i].head + 4 <= list[i].end
         /\ \A i \in 2..Len(list) : list[i].head + 8 <= list[i].end
         /\ \A i, j \in 1..Len(list) : i < j => list[i].end + 4 <= list[j].head
<1>1. Len(list) \in Nat /\ Len(list) >= 1 /\ list \in [1..Len(list) -> Address]
  BY LenProperties DEF ListInv
<1>2. ASSUME NEW i \in 1..Len(list)
      PROVE  /\ list[i].head \in Int /\ list[i].head % 4 = 0 /\ ListHead <= list[i].head
             /\ list[i].end \in Int /\ list[i].end % 4 = 0 /\ list[i].end + 4 <= EndHead
  <2>1. list[i] \in Address
    BY <1>1
  <2> QED
    BY <2>1 DEF ListInv, Address, Word
<1>3. ASSUME NEW i \in 2..Len(list) PROVE list[i].head + 8 <= list[i].end
  BY <1>3 DEF ListInv, Word
<1>4. list[1].head + 4 <= list[1].end
  BY Ends DEF ListInv, Word
<1>5. ASSUME NEW i \in 1..Len(list) PROVE list[i].head + 4 <= list[i].end
  <2>1. CASE i = 1
    BY <1>4, <2>1
  <2>2. CASE i # 1
    <3>1. i \in 2..Len(list)
      BY <1>1, <2>2
    <3>2. list[i].head + 8 <= list[i].end
      BY <1>3, <3>1
    <3> QED
      BY <1>2, <3>2
  <2> QED
    BY <2>1, <2>2
<1>6. ASSUME NEW i \in 1..Len(list), NEW j \in 1..Len(list), i < j PROVE list[i].end + 4 <= list[j].head
  BY <1>6 DEF ListInv, Word
<1> QED
  BY <1>1, <1>2, <1>3, <1>5, <1>6

(* The header behind the i-th one                                          *)
LEMMA NextHeadIs ==
  ASSUME ListInv, NEW i \in 1..Len(list)
  PROVE  /\ NextHead(i) \in Int /\ NextHead(i) % 4 = 0 /\ NextHead(i) <= EndHead
         /\ list[i].end + 4 <= NextHead(i)
         /\ \A j \in 1..Len(list) : i < j => NextHead(i) <= list[j].head
<1>1. CASE i < Len(list)
  <2>1. i + 1 \in 1..Len(list) /\ NextHead(i) = list[i + 1].head
    BY <1>1, ListFacts DEF NextHead
  <2>2. ASSUME NEW j \in 1..Len(list), i < j PROVE list[i + 1].head <= list[j].head
    <3>1. CASE j = i + 1
      BY <2>1, <3>1, ListFacts
    <3>2. CASE i + 1 < j
      <4>1. list[i + 1].end + 4 <= list[j].head /\ list[i + 1].head + 4 <= list[i + 1].end
        BY <2>1, <3>2, ListFacts
      <4>2. list[i + 1].head \in Int /\ list[i + 1].end \in Int /\ list[j].head \in Int
        BY <2>1, ListFacts
      <4> QED
        BY <4>1, <4>2
    <3> QED
      BY <2>1, <2>2, <3>1, <3>2
  <2>3. /\ list[i + 1].head \in Int /\ list[i + 1].end \in Int /\ list[i + 1].head % 4 = 0
        /\ list[i + 1].end + 4 <= EndHead /\ list[i + 1].head + 4 <= list[i + 1].end
        /\ list[i].end + 4 <= list[i + 1].head
    BY <1>1, <2>1, ListFacts
  <2>4. list[i + 1].head <= EndHead
    <3>1. EndHead \in Int
      BY Ends
    <3> QED
      BY ONLY <2>3, <3>1
  <2> QED
    BY <2>1, <2>2, <2>3, <2>4
<1>2. CASE i = Len(list)
  <2>1. NextHead(i) = EndHead
    BY <1>2, ListFacts DEF NextHead
  <2>2. EndHead \in Int /\ EndHead % 4 = 0 /\ list[i].end + 4 <= EndHead
    BY Ends, ListFacts DEF Word
  <2>3. \A j \in 1..Len(list) : ~(i < j)
    BY <1>2, ListFacts
  <2> QED
    BY <2>1, <2>2, <2>3
<1>3. i < Len(list) \/ i = Len(list)
  <2>1. Len(list) \in Nat
    BY ListFacts
  <2> QED
    BY <2>1
<1> QED
  BY <1>1, <1>2, <1>3

(* A block is linked in behind the i-th header.                            *)
LEMMA InsertedList ==
  ASSUME ListInv, NEW i \in 1..Len(list), NEW data \in Int, NEW w \in Nat, Insert(i, data, w)
  PROVE  /\ list' \in Seq(Address) /\ Len(list') = Len(list) + 1
         /\ \A j \in 1..i : list'[j] = list[j]
         /\ list'[i + 1].head = data - 8 /\ list'[i + 1].end = data + 4 * (w - 1)
         /\ \A j \in (i + 2)..(Len(list) + 1) : list'[j] = list[j - 1]
<1> DEFINE n == Len(list) + 1
           new == [head |-> data - 2 * Word, end |-> data + Word * (w - 1)]
<1>1. Len(list) \in Nat /\ n \in Nat /\ list \in [1..Len(list) -> Address]
  <2>1. Len(list) \in Nat /\ list \in [1..Len(list) -> Address]
    BY ListFacts
  <2> QED
    BY <2>1
<1>2. list' = [j \in 1..n |-> IF j <= i THEN list[j] ELSE IF j = i + 1 THEN new ELSE list[j - 1]]
  BY DEF Insert
<1>3. new \in Address /\ new.head = data - 8 /\ new.end = data + 4 * (w - 1)
  BY DEF Address, Word
<1> HIDE DEF new
<1>4. ASSUME NEW j \in 1..n
      PROVE  (IF j <= i THEN list[j] ELSE IF j = i + 1 THEN new ELSE list[j - 1]) \in Address
  BY <1>1, <1>3
<1>5. list' \in [1..n -> Address]
  BY <1>2, <1>4
<1>6. list' \in Seq(Address) /\ Len(list') = n
  BY <1>1, <1>5
<1>7. /\ \A j \in 1..i : list'[j] = list[j]
      /\ list'[i + 1] = new
      /\ \A j \in (i + 2)..n : list'[j] = list[j - 1]
  BY <1>1, <1>2
<1> QED
  BY <1>3, <1>6, <1>7

(* Where a header of the new list has been in the old one                  *)
LEMMA OldPlace ==
  ASSUME ListInv, NEW i \in 1..Len(list), NEW data \in Int, NEW w \in Nat, Insert(i, data, w),
         NEW j \in 1..Len(list'), j # i + 1
  PROVE  IF j <= i THEN j \in 1..Len(list) /\ list'[j] = list[j]
                   ELSE j - 1 \in 1..Len(list) /\ i < j - 1 /\ list'[j] = list[j - 1]
<1>1. /\ Len(list') = Len(list) + 1 /\ Len(list) \in Nat
      /\ \A k \in 1..i : list'[k] = list[k]
      /\ \A k \in (i + 2)..(Len(list) + 1) : list'[k] = list[k - 1]
  BY InsertedList, ListFacts
<1>2. CASE j <= i
  BY <1>1, <1>2
<1>3. CASE i < j
  <2>1. j \in (i + 2)..(Len(list) + 1)
    BY <1>1, <1>3
  <2> QED
    BY <1>1, <1>3, <2>1
<1> QED
  BY <1>1, <1>2, <1>3

LEMMA InsertKeepsList ==
  ASSUME ListInv, NEW i \in 1..Len(list), NEW data \in Int, NEW w \in Nat, w >= 1, data % 4 = 0,
         list[i].end + 12 <= data, data + 4 * w <= NextHead(i), Insert(i, data, w)
  PROVE  ListInv'
<1> DEFINE n == Len(list)
           new == list'[i + 1]
<1>1. list' \in Seq(Address) /\ Len(list') = n + 1 /\ n \in Nat /\ n >= 1
  BY InsertedList, ListFacts
<1>2. new.head = data - 8 /\ new.end = data + 4 * (w - 1)
  BY InsertedList
<1>3. new = list'[i + 1]
  OBVIOUS
<1> HIDE DEF new
<1>4. /\ list[i].head \in Int /\ list[i].end \in Int
      /\ list[i].head + 4 <= list[i].end /\ ListHead <= list[i].head
  BY ListFacts
<1>5. NextHead(i) \in Int /\ NextHead(i) <= EndHead
  BY NextHeadIs
<1>6. ListHead \in Int /\ EndHead \in Int
  BY Ends
<1>7. /\ new.head \in Int /\ new.end \in Int
      /\ new.head + 8 <= new.end /\ new.end + 4 <= NextHead(i)
      /\ list[i].end + 4 <= new.head
  BY <1>2, <1>4, BlockEnds
<1>8. new.head % 4 = 0 /\ new.end % 4 = 0
  BY <1>2, BlockEnds
<1>9. ListHead <= new.head /\ new.end + 4 <= EndHead
  <2>1. ListHead <= list[i].end
    BY <1>4, <1>6
  <2>2. ListHead <= new.head
    BY <1>4, <1>6, <1>7, <2>1
  <2>3. new.end + 4 <= EndHead
    BY <1>5, <1>6, <1>7
  <2> QED
    BY <2>2, <2>3
<1>10. list'[1] = [head |-> ListHead, end |-> ListHead + Word]
  <2>1. list'[1] = list[1]
    BY InsertedList
  <2> QED
    BY <2>1 DEF ListInv
<1>11. ASSUME NEW j \in 1..(n + 1)
       PROVE  /\ list'[j].head % 4 = 0 /\ list'[j].end % 4 = 0
              /\ ListHead <= list'[j].head /\ list'[j].end + 4 <= EndHead
              /\ j \in 2..(n + 1) => list'[j].head + 8 <= list'[j].end
  <2>1. CASE j = i + 1
    BY <1>3, <1>7, <1>9, <1>8, <2>1
  <2>2. CASE j <= i
    <3>1. j \in 1..Len(list') /\ j # i + 1
      BY <1>1, <2>2
    <3>2. j \in 1..n /\ list'[j] = list[j]
      BY <2>2, <3>1, OldPlace
    <3>3. j \in 2..(n + 1) => j \in 2..n
      BY <3>2
    <3> QED
      BY <3>2, <3>3, ListFacts
  <2>3. CASE i + 1 < j
    <3>1. j \in 1..Len(list') /\ j # i + 1 /\ ~(j <= i)
      BY <1>1, <2>3
    <3>2. j - 1 \in 1..n /\ i < j - 1 /\ list'[j] = list[j - 1]
      BY <3>1, OldPlace
    <3>3. j - 1 \in 2..n
      BY <3>2
    <3> QED
      BY <3>2, <3>3, ListFacts
  <2> QED
    BY <1>1, <2>1, <2>2, <2>3
<1>12. ASSUME NEW j \in 1..(n + 1), NEW l \in 1..(n + 1), j < l
       PROVE  list'[j].end + 4 <= list'[l].head
  <2>1. CASE j = i + 1
    <3>0. l \in 1..Len(list') /\ l # i + 1 /\ ~(l <= i)
      BY <1>1, <1>12, <2>1
    <3>1. list'[l] = list[l - 1] /\ l - 1 \in 1..n /\ i < l - 1
      BY <3>0, OldPlace
    <3>2. list[l - 1].head \in Int /\ NextHead(i) <= list[l - 1].head
      BY <3>1, NextHeadIs, ListFacts
    <3>3. list'[j] = new
      BY <1>3, <2>1
    <3> QED
      <4>1. new.end + 4 <= list[l - 1].head
        BY ONLY <1>5, <1>7, <3>2
      <4> QED
        BY <3>1, <3>3, <4>1
  <2>2. CASE l = i + 1
    <3>0. j \in 1..Len(list') /\ j # i + 1 /\ j <= i
      BY <1>1, <1>12, <2>2
    <3>1. j \in 1..n /\ j <= i /\ list'[j] = list[j]
      BY <3>0, OldPlace
    <3>2. list[j].end \in Int
      BY <3>1, ListFacts
    <3>3. list[j].end <= list[i].end
      <4>1. CASE j = i
        BY <3>2, <4>1
      <4>2. CASE j < i
        <5>1. list[j].end + 4 <= list[i].head
          BY <3>1, <4>2, ListFacts
        <5> QED
          BY ONLY <1>4, <3>2, <5>1
      <4> QED
        BY <3>1, <4>1, <4>2
    <3>4. list'[l] = new
      BY <1>3, <2>2
    <3> QED
      <4>1. list[j].end + 4 <= new.head
        <5>1. list[i].end + 4 <= new.head /\ new.head \in Int /\ list[i].end \in Int
          BY <1>4, <1>7
        <5> QED
          BY ONLY <3>2, <3>3, <5>1
      <4> QED
        BY <3>1, <3>4, <4>1
  <2>3. CASE j # i + 1 /\ l # i + 1
    <3> DEFINE k == IF j <= i THEN j ELSE j - 1
               m == IF l <= i THEN l ELSE l - 1
    <3>0. j \in 1..Len(list') /\ l \in 1..Len(list') /\ j # i + 1 /\ l # i + 1
      BY <1>1, <2>3
    <3>1. k \in 1..n /\ list'[j] = list[k]
      BY <3>0, OldPlace
    <3>2. m \in 1..n /\ list'[l] = list[m]
      BY <3>0, OldPlace
    <3>3. k < m
      BY <1>12, <2>3
    <3> HIDE DEF k, m
    <3> QED
      BY <3>1, <3>2, <3>3, ListFacts
  <2> QED
    BY <2>1, <2>2, <2>3
<1> QED
  BY <1>1, <1>10, <1>11, <1>12 DEF ListInv, Word

(* Where a header of the old list is in the new one                        *)
LEMMA NewPlace ==
  ASSUME ListInv, NEW i \in 1..Len(list), NEW data \in Int, NEW w \in Nat, Insert(i, data, w),
         NEW k \in 1..Len(list)
  PROVE  \E j \in 1..Len(list') : list'[j] = list[k] /\ (k >= 2 => j >= 2)
<1>1. /\ Len(list') = Len(list) + 1 /\ Len(list) \in Nat
      /\ \A l \in 1..i : list'[l] = list[l]
      /\ \A l \in (i + 2)..(Len(list) + 1) : list'[l] = list[l - 1]
  BY InsertedList, ListFacts
<1>2. CASE k <= i
  BY <1>1, <1>2
<1>3. CASE i < k
  <2> DEFINE j == k + 1
  <2>1. j \in (i + 2)..(Len(list) + 1) /\ j \in 1..Len(list') /\ j >= 2 /\ j - 1 = k
    BY <1>1, <1>3
  <2> HIDE DEF j
  <2>2. list'[j] = list[k]
    BY <1>1, <2>1
  <2> QED
    BY <2>1, <2>2
<1> QED
  BY <1>2, <1>3

(* What a caller holds of SDRAM, and where                                 *)
LEMMA HeldFacts ==
  ASSUME HeldInv, NEW h \in held
  PROVE  /\ h.ptr \in Int /\ h.size \in Nat \ {0} /\ h.size \in Sizes
         /\ Words(h.size) \in Nat /\ Words(h.size) >= 1 /\ h.size <= 4 * Words(h.size)
         /\ RoundUp(h.size) \in Nat /\ RoundUp(h.size) % 4 = 0
         /\ RoundUp(h.size) >= 4 /\ h.size <= RoundUp(h.size)
<1>1. h.ptr \in Int /\ h.size \in Nat \ {0} /\ h.size \in Sizes
  BY Ends DEF HeldInv
<1> QED
  BY <1>1, WordsCover, RoundUpCovers DEF Word

LEMMA BlockSums ==
  ASSUME NEW p \in Int, NEW n \in Int, NEW e \in Int, NEW w \in Int, e = p + 4 * (w - 1), n <= 4 * w
  PROVE  e + 4 = p + 4 * w /\ p + n <= e + 4
OBVIOUS

LEMMA BlockFacts ==
  ASSUME ListInv, HeldInv, NEW h \in held, NEW k \in 2..Len(list), IsBlock(list[k], h)
  PROVE  /\ h.ptr = list[k].head + 8 /\ list[k].end + 4 = h.ptr + 4 * Words(h.size)
         /\ h.ptr + h.size <= list[k].end + 4
<1>1. /\ h.ptr \in Int /\ h.size \in Nat /\ Words(h.size) \in Nat /\ h.size <= 4 * Words(h.size)
      /\ list[k].head \in Int /\ list[k].end \in Int
  <2>1. k \in 1..Len(list)
    BY ListFacts
  <2> QED
    BY <2>1, HeldFacts, ListFacts
<1>2. list[k].head + 8 = h.ptr /\ list[k].end = h.ptr + 4 * (Words(h.size) - 1)
  BY DEF IsBlock, Word
<1> DEFINE p == h.ptr  n == h.size  e == list[k].end  w == Words(h.size)
<1>3. /\ p \in Int /\ n \in Int /\ e \in Int /\ w \in Int
      /\ e = p + 4 * (w - 1) /\ n <= 4 * w
  BY <1>1, <1>2
<1>4. h.ptr = list[k].head + 8
  BY <1>1, <1>2
<1> HIDE DEF p, n, e, w
<1>5. e + 4 = p + 4 * w /\ p + n <= e + 4
  BY <1>3, BlockSums
<1> QED
  BY <1>4, <1>5 DEF p, n, e, w

LEMMA BlockBelow ==
  ASSUME ListInv, HeldInv, NEW h \in held, NEW k \in 2..Len(list), IsBlock(list[k], h),
         NEW i \in 1..Len(list), k <= i
  PROVE  h.ptr + h.size <= list[i].end + 4
<1>1. h.ptr \in Int /\ h.size \in Int /\ h.ptr + h.size <= list[k].end + 4
  BY HeldFacts, BlockFacts
<1>2. k \in 1..Len(list)
  BY ListFacts
<1>3. CASE k = i
  BY <1>1, <1>3
<1>4. CASE k < i
  <2>1. list[k].end + 4 <= list[i].head /\ list[i].head + 4 <= list[i].end
        /\ list[i].head \in Int /\ list[i].end \in Int /\ list[k].end \in Int
    BY <1>2, <1>4, ListFacts
  <2> QED
    BY ONLY <1>1, <2>1, SMTT(30)
<1> QED
  BY <1>2, <1>3, <1>4

LEMMA BlockAbove ==
  ASSUME ListInv, HeldInv, NEW h \in held, NEW k \in 2..Len(list), IsBlock(list[k], h),
         NEW i \in 1..Len(list), i < k
  PROVE  NextHead(i) + 8 <= h.ptr
<1>1. k \in 1..Len(list)
  BY ListFacts
<1>2. NextHead(i) \in Int /\ NextHead(i) <= list[k].head /\ list[k].head \in Int
  BY <1>1, NextHeadIs, ListFacts
<1>3. h.ptr = list[k].head + 8
  BY BlockFacts
<1> QED
  BY <1>2, <1>3

(* What lies in the gap behind the i-th block touches nothing that is held. *)
InGap(i, data, size) ==
  /\ data \in Int /\ size \in Nat \ {0}
  /\ list[i].end + 12 <= data /\ data + size <= NextHead(i)

LEMMA ListApart ==
  ASSUME HeapInv, NEW i \in 1..Len(list), NEW data, NEW size, InGap(i, data, size), NEW h \in held
  PROVE  (data + size <= h.ptr \/ h.ptr + h.size <= data) /\ h.ptr # data
<1> USE DEF HeapInv
<1>1. h.ptr \in Int /\ h.size \in Nat \ {0}
  BY HeldFacts
<1>2. list[i].end \in Int /\ NextHead(i) \in Int /\ NextHead(i) <= EndHead
  BY ListFacts, NextHeadIs
<1> DEFINE below == data + size <= NextHead(i)
           above == list[i].end + 12 <= data
<1>0. data \in Int /\ size \in Nat \ {0} /\ above /\ below
  BY DEF InGap
<1>3. CASE InIram(h)
  <2>1. IramStart <= h.ptr /\ EndHead < IramStart /\ IramStart \in Int /\ EndHead \in Int
    BY <1>1, <1>3, Ends DEF InIram
  <2> QED
    BY ONLY <1>0, <1>1, <1>2, <2>1
<1>4. CASE ~InIram(h)
  <2>1. PICK k \in 2..Len(list) : IsBlock(list[k], h)
    BY <1>4 DEF ListHeld
  <2>2. k \in 1..Len(list) /\ (i < k \/ k <= i)
    BY ListFacts
  <2>3. CASE i < k
    <3>1. NextHead(i) + 8 <= h.ptr
      BY <2>1, <2>3, BlockAbove
    <3> QED
      BY ONLY <1>0, <1>1, <1>2, <3>1
  <2>4. CASE k <= i
    <3>1. h.ptr + h.size <= list[i].end + 4
      BY <2>1, <2>4, BlockBelow
    <3> QED
      BY ONLY <1>0, <1>1, <1>2, <3>1, SMTT(30)
  <2> QED
    BY <2>2, <2>3, <2>4
<1> QED
  BY <1>3, <1>4

LEMMA TakeKeeps ==
  ASSUME HeapInv, NEW i \in 1..Len(list), NEW data \in Int, NEW size \in Sizes \ {0},
         NEW a \in Aligns \cup {1}, data % 4 = 0, data % a = 0, list[i].end + 12 <= data, data + 4 * Words(size) <= NextHead(i),
         Insert(i, data, Words(size)), Returns(data, size, a), UNCHANGED iram
  PROVE  HeapInv'
<1> DEFINE w == Words(size)
           new == [ptr |-> data, size |-> size, align |-> a]
<1>1. size \in Nat \ {0} /\ w \in Nat /\ w >= 1 /\ size <= 4 * w
  BY Ends, WordsCover DEF Word
<1>2. held' = held \cup {new}
  BY DEF Returns
<1>3. ListInv /\ IramInv /\ HeldInv /\ ListHeld /\ IramHeld
  BY DEF HeapInv
<1>4. ASSUME NEW h \in held PROVE h.ptr # data
  <2>1. InGap(i, data, size)
    <3>1. NextHead(i) \in Int
      BY <1>3, NextHeadIs
    <3> QED
      BY <1>1, <3>1 DEF InGap
  <2> QED
    BY <2>1, ListApart
<1>5. ListInv'
  BY <1>1, <1>3, InsertKeepsList
<1>6. IramInv'
  BY <1>3 DEF IramInv, Slots
<1>7. HeldInv'
  BY <1>2, <1>3, <1>4 DEF HeldInv
<1>8. ~InIram(new)
  <2>1. data + 4 <= EndHead
    <3>1. NextHead(i) \in Int /\ NextHead(i) <= EndHead /\ EndHead \in Int
      BY <1>3, NextHeadIs, Ends
    <3> HIDE DEF w
    <3>2. data + 4 <= data + 4 * w /\ data + 4 * w \in Int
      BY <1>1
    <3>3. data + 4 * w <= NextHead(i)
      BY DEF w
    <3> QED
      BY <3>1, <3>2, <3>3
  <2>2. EndHead \in Int /\ IramStart \in Int /\ EndHead < IramStart
    BY Ends
  <2> QED
    BY <2>1, <2>2 DEF InIram
<1>9. i + 1 \in 2..Len(list') /\ IsBlock(list'[i + 1], new)
  <2>1. Len(list') = Len(list) + 1 /\ list'[i + 1].head = data - 8 /\ list'[i + 1].end = data + 4 * (w - 1)
    BY <1>1, <1>3, InsertedList
  <2>2. Len(list) \in Nat
    BY <1>3, ListFacts
  <2> QED
    BY <1>1, <2>1, <2>2 DEF IsBlock, Word
<1>10. ListHeld'
  <2>1. ASSUME NEW h \in held', ~InIram(h) PROVE \E j \in 2..Len(list') : IsBlock(list'[j], h)
    <3>1. CASE h = new
      BY <1>9, <3>1
    <3>2. CASE h \in held
      <4>1. PICK k \in 2..Len(list) : IsBlock(list[k], h)
        BY <1>3, <2>1, <3>2 DEF ListHeld
      <4>2. k \in 1..Len(list) /\ k >= 2
        BY <1>3, ListFacts
      <4>3. PICK j \in 1..Len(list') : list'[j] = list[k] /\ j >= 2
        BY <1>1, <1>3, <4>2, NewPlace
      <4> QED
        BY <4>1, <4>3
    <3> QED
      BY <1>2, <3>1, <3>2
  <2>2. ASSUME NEW j \in 2..Len(list') PROVE \E h \in held' : IsBlock(list'[j], h)
    <3>1. CASE j = i + 1
      BY <1>2, <1>9, <3>1
    <3>2. CASE j # i + 1
      <4>1. PICK k \in 2..Len(list) : list'[j] = list[k]
        <5>1. j \in 1..Len(list') /\ Len(list) \in Nat
          BY <1>3, <1>5, ListFacts
        <5>2. IF j <= i THEN j \in 1..Len(list) /\ list'[j] = list[j]
              ELSE j - 1 \in 1..Len(list) /\ i < j - 1 /\ list'[j] = list[j - 1]
          BY <1>1, <1>3, <3>2, <5>1, OldPlace
        <5>3. CASE j <= i
          BY <5>1, <5>2, <5>3
        <5>4. CASE ~(j <= i)
          BY <5>1, <5>2, <5>4
        <5> QED
          BY <5>3, <5>4
      <4>2. PICK h \in held : IsBlock(list[k], h)
        BY <1>3 DEF ListHeld
      <4> QED
        BY <1>2, <4>1, <4>2
    <3> QED
      BY <3>1, <3>2
  <2> QED
    BY <2>1, <2>2 DEF ListHeld, InIram
<1>11. IramHeld'
  BY <1>2, <1>3, <1>8 DEF IramHeld, InIram, Slots
<1> QED
  BY <1>5, <1>6, <1>7, <1>10, <1>11 DEF HeapInv

-----------------------------------------------------------------------------
(* gp_malloc and gp_malloc_align take SDRAM.                               *)

(* A call has taken the bytes of size, aligned to a, from a gap.           *)
Taken(size, a) ==
  \E i \in 1..Len(list), data \in Int :
    /\ size # 0 /\ data % a = 0 /\ data % 4 = 0
    /\ list[i].end + 12 <= data /\ data + 4 * Words(size) <= NextHead(i)
    /\ Insert(i, data, Words(size)) /\ Returns(data, size, a) /\ UNCHANGED iram

(* The strict comparison of gp_malloc leaves room for the header.          *)
LEMMA GapOnWords ==
  ASSUME NEW e \in Int, NEW n \in Int, NEW w \in Int, e % 4 = 0, n % 4 = 0, n - e > 4 * (w + 2)
  PROVE  (e + 12) % 4 = 0 /\ (e + 12) + 4 * w <= n
<1>1. (e + 12) % 4 = 0
  OBVIOUS
<1>2. PICK x \in Int, y \in Int : e = 4 * x /\ n = 4 * y
  OBVIOUS
<1>3. y - x > w + 2
  BY <1>2
<1>4. y - x >= w + 3
  BY <1>2, <1>3
<1> QED
  BY <1>1, <1>2, <1>4

LEMMA MallocTakes == ASSUME HeapInv, NEW size \in Sizes, Malloc(size) PROVE Taken(size, 1)
<1> DEFINE w == Words(size)
           i == Least(Fits(w))
           data == list[i].end + 12
<1>1. size # 0 /\ Fits(w) # {} /\ Insert(i, data, w) /\ Returns(data, size, 1) /\ UNCHANGED iram
  BY DEF Malloc, Word
<1>2. i \in Fits(w)
  <2>1. Fits(w) \subseteq Nat
    BY ListFacts DEF HeapInv, Fits
  <2> QED
    BY <1>1, <2>1, LeastIsLeast
<1>3. i \in 1..Len(list) /\ NextHead(i) - list[i].end > 4 * (w + 2)
  BY <1>2 DEF Fits, Word
<1>4. w \in Int
  BY <1>1, Ends, WordsCover
<1> HIDE DEF i, w
<1>5. list[i].end \in Int /\ list[i].end % 4 = 0 /\ NextHead(i) \in Int /\ NextHead(i) % 4 = 0
  BY <1>3, ListFacts, NextHeadIs DEF HeapInv
<1>6. data % 4 = 0 /\ data + 4 * w <= NextHead(i) /\ data \in Int
  BY <1>3, <1>4, <1>5, GapOnWords
<1>7. data % 1 = 0 /\ list[i].end + 12 <= data
  BY <1>5, <1>6
<1> HIDE DEF data
<1> QED
  BY <1>1, <1>3, <1>6, <1>7 DEF Taken, w

LEMMA MallocAlignTakes ==
  ASSUME HeapInv, NEW size \in Sizes, NEW a \in Aligns, MallocAlign(size, a)
  PROVE  Taken(size, a)
<1> DEFINE w == Words(size)
           i == Least(FitsAligned(w, a))
           data == AlignedData(i, a)
<1>1. size # 0 /\ FitsAligned(w, a) # {} /\ Insert(i, data, w) /\ Returns(data, size, a) /\ UNCHANGED iram
  BY DEF MallocAlign
<1>2. i \in FitsAligned(w, a)
  <2>1. FitsAligned(w, a) \subseteq Nat
    BY ListFacts DEF HeapInv, FitsAligned
  <2> QED
    BY <1>1, <2>1, LeastIsLeast
<1>3. i \in 1..Len(list) /\ NextHead(i) - data > 4 * w
  BY <1>2 DEF FitsAligned, Word
<1>4. w \in Int /\ a \in {4, 16, 32, 64}
  BY <1>1, Ends, WordsCover
<1> HIDE DEF i, w
<1>5. list[i].end \in Int /\ NextHead(i) \in Int
  BY <1>3, ListFacts, NextHeadIs DEF HeapInv
<1>6. data \in Int /\ data % a = 0 /\ list[i].end + 12 <= data
  <2> DEFINE x == list[i].end + 12
  <2>1. x \in Int /\ data = AlignUp(x, a) /\ a \in {1, 4, 16, 32, 64}
    BY <1>4, <1>5 DEF AlignedData, Word
  <2> HIDE DEF x, data
  <2>2. data \in Int /\ data % a = 0 /\ x <= data
    <3>1. AlignUp(x, a) \in Int /\ AlignUp(x, a) % a = 0 /\ x <= AlignUp(x, a)
      BY <2>1, AlignUpAligns
    <3> QED
      BY <2>1, <3>1
  <2> QED
    BY <2>2 DEF x
<1> HIDE DEF data
<1>7. data % 4 = 0
  BY <1>4, <1>6, AlignedOnWords
<1>8. data + 4 * w <= NextHead(i)
  BY <1>3, <1>4, <1>5, <1>6
<1> QED
  BY <1>1, <1>3, <1>6, <1>7, <1>8 DEF Taken, w

LEMMA TakenKeeps ==
  ASSUME HeapInv, NEW size \in Sizes, NEW a \in Aligns \cup {1}, Taken(size, a)
  PROVE  HeapInv'
<1>1. PICK i \in 1..Len(list), data \in Int :
        /\ size # 0 /\ data % a = 0 /\ data % 4 = 0
        /\ list[i].end + 12 <= data /\ data + 4 * Words(size) <= NextHead(i)
        /\ Insert(i, data, Words(size)) /\ Returns(data, size, a) /\ UNCHANGED iram
  BY DEF Taken
<1> QED
  BY <1>1, TakeKeeps
-----------------------------------------------------------------------------
(* gp_free gives SDRAM back.                                               *)

Old(j, i) == IF j < i THEN j ELSE j + 1

LEMMA UnlinkedList ==
  ASSUME ListInv, NEW i \in 2..Len(list), list' = Unlink(i)
  PROVE  /\ list' \in Seq(Address) /\ Len(list') = Len(list) - 1
         /\ \A j \in 1..(Len(list) - 1) :
              list'[j] = list[Old(j, i)] /\ Old(j, i) \in 1..Len(list) /\ Old(j, i) # i
<1> DEFINE n == Len(list) - 1
<1>1. Len(list) \in Nat /\ list \in [1..Len(list) -> Address]
  BY ListFacts
<1>2. n \in Nat
  BY <1>1
<1>3. ASSUME NEW j \in 1..n PROVE Old(j, i) \in 1..Len(list) /\ Old(j, i) # i
  BY <1>1 DEF Old
<1>4. list' = [j \in 1..n |-> list[Old(j, i)]]
  BY DEF Unlink, Old
<1>5. list' \in [1..n -> Address]
  BY <1>1, <1>3, <1>4
<1>6. list' \in Seq(Address) /\ Len(list') = n
  BY <1>2, <1>5
<1> QED
  BY <1>3, <1>4, <1>6

LEMMA UnlinkKeepsList == ASSUME ListInv, NEW i \in 2..Len(list), list' = Unlink(i) PROVE ListInv'
<1> DEFINE n == Len(list) - 1
<1>1. /\ list' \in Seq(Address) /\ Len(list') = n
      /\ \A j \in 1..n : list'[j] = list[Old(j, i)] /\ Old(j, i) \in 1..Len(list)
  BY UnlinkedList
<1>2. Len(list) \in Nat /\ n \in Nat /\ n >= 1
  <2>1. Len(list) \in Nat
    BY ListFacts
  <2> QED
    BY <2>1
<1>3. list'[1] = [head |-> ListHead, end |-> ListHead + Word]
  <2>1. 1 \in 1..n /\ Old(1, i) = 1
    BY <1>2 DEF Old
  <2>2. list'[1] = list[1]
    BY <1>1, <2>1
  <2> QED
    BY <2>2 DEF ListInv
<1>4. ASSUME NEW j \in 1..n
      PROVE  /\ list'[j].head % 4 = 0 /\ list'[j].end % 4 = 0
             /\ ListHead <= list'[j].head /\ list'[j].end + 4 <= EndHead
             /\ j \in 2..n => list'[j].head + 8 <= list'[j].end
  <2>1. list'[j] = list[Old(j, i)] /\ Old(j, i) \in 1..Len(list)
    BY <1>1
  <2>2. j \in 2..n => Old(j, i) \in 2..Len(list)
    BY <1>2 DEF Old
  <2> QED
    BY <2>1, <2>2, ListFacts
<1>5. ASSUME NEW j \in 1..n, NEW l \in 1..n, j < l PROVE list'[j].end + 4 <= list'[l].head
  <2>1. Old(j, i) < Old(l, i)
    BY <1>5 DEF Old
  <2> QED
    BY <1>1, <2>1, ListFacts
<1> QED
  BY <1>1, <1>2, <1>3, <1>4, <1>5 DEF ListInv, Word

LEMMA EntryInIram ==
  ASSUME IramInv, HeldInv, NEW j \in Slots, iram[j].start # 0, NEW g \in held, IsEntry(iram[j], g)
  PROVE  InIram(g)
<1>1. iram[j].start = g.ptr /\ g.ptr \in Int
  BY HeldFacts DEF IsEntry
<1>2. IramStart <= iram[j].start /\ iram[j].start <= iram[j].end /\ iram[j].end <= IramEnd
      /\ iram[j].end \in Int
  BY DEF IramInv, Entry
<1> QED
  BY <1>1, <1>2, Ends DEF InIram

LEMMA SdramFreeKeeps ==
  ASSUME HeapInv, NEW h \in held, ~InIram(h), SdramFree(h.ptr), held' = held \ {h}
  PROVE  HeapInv'
<1>1. ListInv /\ IramInv /\ HeldInv /\ ListHeld /\ IramHeld
  BY DEF HeapInv
<1>2. \E i \in 2..Len(list) : list[i].head + 2 * Word = h.ptr
  BY <1>1 DEF ListHeld, IsBlock
<1>3. PICK i \in 2..Len(list) : list[i].head + 2 * Word = h.ptr /\ list' = Unlink(i)
  BY <1>2 DEF SdramFree
<1>4. UNCHANGED iram
  BY DEF SdramFree
<1>5. ListInv'
  BY <1>1, <1>3, UnlinkKeepsList
<1>6. IramInv'
  BY <1>1, <1>4 DEF IramInv, Slots
<1>7. HeldInv'
  BY <1>1 DEF HeldInv
<1>8. IramHeld'
  <2>1. ASSUME NEW g \in held', InIram(g)
        PROVE  \E j \in Slots : iram[j].start # 0 /\ IsEntry(iram[j], g)
    BY <1>1, <2>1 DEF IramHeld
  <2>2. ASSUME NEW j \in Slots, iram[j].start # 0 PROVE \E g \in held' : IsEntry(iram[j], g)
    <3>1. PICK g \in held : IsEntry(iram[j], g)
      BY <1>1, <2>2 DEF IramHeld
    <3>2. InIram(g)
      BY <1>1, <2>2, <3>1, EntryInIram
    <3> QED
      BY <3>1, <3>2
  <2> QED
    BY <1>4, <2>1, <2>2 DEF IramHeld, InIram, Slots
<1>9. /\ Len(list) \in Nat /\ Len(list') = Len(list) - 1
      /\ \A j \in 1..(Len(list) - 1) :
           list'[j] = list[Old(j, i)] /\ Old(j, i) \in 1..Len(list) /\ Old(j, i) # i
  BY <1>1, <1>3, ListFacts, UnlinkedList
<1>10. ASSUME NEW g \in held', ~InIram(g) PROVE \E j \in 2..Len(list') : IsBlock(list'[j], g)
  <2>1. PICK k \in 2..Len(list) : IsBlock(list[k], g)
    BY <1>1, <1>10 DEF ListHeld
  <2>2. k # i
    BY <1>1, <1>3, <2>1 DEF HeldInv, IsBlock
  <2> DEFINE j == IF k < i THEN k ELSE k - 1
  <2>3. j \in 1..(Len(list) - 1) /\ j \in 2..Len(list') /\ Old(j, i) = k
    BY <1>9, <2>2 DEF Old
  <2> HIDE DEF j
  <2>4. list'[j] = list[k]
    BY <1>9, <2>3
  <2> QED
    BY <2>1, <2>3, <2>4
<1>11. ASSUME NEW j \in 2..Len(list') PROVE \E g \in held' : IsBlock(list'[j], g)
  <2> DEFINE k == Old(j, i)
  <2>1. j \in 1..(Len(list) - 1) /\ k \in 2..Len(list)
    BY <1>9 DEF Old
  <2>2. list'[j] = list[k] /\ k # i
    BY <1>9, <2>1
  <2> HIDE DEF k
  <2>3. PICK g \in held : IsBlock(list[k], g)
    BY <1>1, <2>1 DEF ListHeld
  <2>4. g # h
    <3>1. list[k].head # list[i].head
      <4>1. i \in 1..Len(list) /\ k \in 1..Len(list) /\ (i < k \/ k < i)
        BY <1>9, <2>1, <2>2
      <4>2. /\ list[i].head \in Int /\ list[k].head \in Int /\ list[i].end \in Int /\ list[k].end \in Int
            /\ list[i].head + 4 <= list[i].end /\ list[k].head + 4 <= list[k].end
        BY <1>1, <4>1, ListFacts
      <4>3. (i < k => list[i].end + 4 <= list[k].head) /\ (k < i => list[k].end + 4 <= list[i].head)
        BY <1>1, <4>1, ListFacts
      <4> QED
        BY <4>1, <4>2, <4>3
    <3>2. list[k].head \in Int /\ list[i].head \in Int
      BY <1>1, <1>9, <2>1, ListFacts
    <3> QED
      BY <1>3, <2>3, <3>1, <3>2 DEF IsBlock, Word
  <2> QED
    BY <2>2, <2>3, <2>4
<1>12. ListHeld'
  BY <1>10, <1>11 DEF ListHeld, InIram
<1> QED
  BY <1>5, <1>6, <1>7, <1>8, <1>12 DEF HeapInv

-----------------------------------------------------------------------------
(* The table of internal RAM.                                              *)

LEMMA IramFacts ==
  ASSUME IramInv, NEW i \in Slots
  PROVE  /\ iram[i].start \in Int /\ iram[i].end \in Int
         /\ iram[i].start # 0 =>
              /\ IramStart <= iram[i].start /\ iram[i].start <= iram[i].end /\ iram[i].end <= IramEnd
              /\ iram[i].start % 4 = 0 /\ (iram[i].end + 1) % 4 = 0
<1>1. iram[i] \in Entry
  BY DEF IramInv
<1> QED
  BY <1>1 DEF IramInv, Entry, Word

LEMMA IramOrder ==
  ASSUME IramInv, NEW i \in Slots, NEW j \in Slots, i < j, iram[j].start # 0
  PROVE  iram[i].start # 0 /\ iram[i].end < iram[j].start
BY DEF IramInv

(* The table with the block b at entry i, and the used entries from there  *)
(* on moved up                                                             *)
Shifted(i, b) ==
  [j \in Slots |-> IF j = i THEN b
                   ELSE IF j > i /\ iram[j - 1].start # 0 THEN iram[j - 1]
                   ELSE iram[j]]

(* The block b fits in front of entry i.                                   *)
FitsAt(i, b) ==
  /\ i \in Slots /\ b \in Entry
  /\ b.start % 4 = 0 /\ (b.end + 1) % 4 = 0
  /\ IramStart <= b.start /\ b.start <= b.end /\ b.end <= IramEnd
  /\ i > 0 => iram[i - 1].start # 0 /\ iram[i - 1].end < b.start
  /\ iram[i].start # 0 => b.end < iram[i].start /\ iram[Links - 1].start = 0

LEMMA SlotFacts == Links \in Nat /\ Links >= 2 /\ Slots = 0..(Links - 1) /\ Links - 1 \in Slots
BY HeapAssumption DEF Slots

(* What stands where in the shifted table                                  *)
LEMMA ShiftedPlaces ==
  ASSUME IramInv, NEW i, NEW b, FitsAt(i, b), iram' = Shifted(i, b)
  PROVE  /\ iram'[i] = b
         /\ \A j \in Slots : j < i => iram'[j] = iram[j]
         /\ \A j \in Slots : j > i /\ iram'[j].start # 0 =>
              j - 1 \in Slots /\ j - 1 >= i /\ iram[j - 1].start # 0 /\ iram'[j] = iram[j - 1]
<1>1. i \in Slots
  BY DEF FitsAt
<1>2. \A j \in Slots : iram'[j] = IF j = i THEN b
                                  ELSE IF j > i /\ iram[j - 1].start # 0 THEN iram[j - 1] ELSE iram[j]
  BY DEF Shifted
<1>3. ASSUME NEW j \in Slots, j > i, iram'[j].start # 0
      PROVE  j - 1 \in Slots /\ j - 1 >= i /\ iram[j - 1].start # 0 /\ iram'[j] = iram[j - 1]
  <2>1. j - 1 \in Slots /\ j - 1 >= i /\ j - 1 < j /\ j # i
    BY <1>1, <1>3, SlotFacts
  <2>2. CASE iram[j - 1].start # 0
    BY <1>2, <1>3, <2>1, <2>2
  <2>3. CASE iram[j - 1].start = 0
    <3>1. iram'[j] = iram[j]
      BY <1>2, <2>1, <2>3
    <3>2. iram[j - 1].start # 0
      BY <1>3, <2>1, <3>1, IramOrder
    <3> QED
      BY <2>3, <3>2
  <2> QED
    BY <2>2, <2>3
<1>4. ASSUME NEW j \in Slots, j < i PROVE iram'[j] = iram[j]
  <2>1. j # i /\ ~(j > i)
    BY <1>1, <1>4, SlotFacts
  <2> QED
    BY <1>2, <2>1
<1> QED
  BY <1>1, <1>2, <1>3, <1>4

(* Where b lies between the blocks of the table                            *)
LEMMA BetweenEntries ==
  ASSUME IramInv, NEW i, NEW b, FitsAt(i, b), NEW k \in Slots, iram[k].start # 0
  PROVE  IF k < i THEN iram[k].end < b.start ELSE b.end < iram[k].start
<1>1. i \in Slots /\ b.start \in Int /\ b.end \in Int
  BY DEF FitsAt, Entry
<1>2. iram[k].start \in Int /\ iram[k].end \in Int
  BY IramFacts
<1>3. CASE k < i
  <2>1. i - 1 \in Slots /\ k <= i - 1 /\ i > 0
    BY <1>1, <1>3, SlotFacts
  <2>2. iram[i - 1].start # 0 /\ iram[i - 1].end < b.start
    BY <2>1 DEF FitsAt
  <2>3. CASE k = i - 1
    BY <1>3, <2>2, <2>3
  <2>4. CASE k < i - 1
    <3>1. iram[k].end < iram[i - 1].start
      BY <2>1, <2>2, <2>4, IramOrder
    <3>2. iram[i - 1].start <= iram[i - 1].end /\ iram[i - 1].start \in Int /\ iram[i - 1].end \in Int
      BY <2>1, <2>2, IramFacts
    <3>3. iram[k].end < b.start
      BY <1>1, <1>2, <2>2, <3>1, <3>2
    <3> QED
      BY <1>3, <3>3
  <2>5. k = i - 1 \/ k < i - 1
    BY <1>1, <2>1, SlotFacts
  <2> QED
    BY <2>3, <2>4, <2>5
<1>4. CASE k = i
  BY <1>1, <1>4, SlotFacts DEF FitsAt
<1>5. CASE i < k
  <2>1. iram[i].start # 0 /\ iram[i].end < iram[k].start
    BY <1>1, <1>5, IramOrder
  <2>2. b.end < iram[i].start /\ iram[i].start <= iram[i].end
    BY <1>1, <2>1, IramFacts DEF FitsAt
  <2>3. iram[i].start \in Int /\ iram[i].end \in Int
    BY <1>1, IramFacts
  <2>4. b.end < iram[k].start
    BY <1>1, <1>2, <2>1, <2>2, <2>3
  <2>5. ~(k < i)
    BY <1>1, <1>5, SlotFacts
  <2> QED
    BY <2>4, <2>5
<1>6. k < i \/ k = i \/ i < k
  BY <1>1, SlotFacts
<1> QED
  BY <1>3, <1>4, <1>5, <1>6

LEMMA ShiftKeepsTable ==
  ASSUME IramInv, NEW i, NEW b, FitsAt(i, b), iram' = Shifted(i, b)
  PROVE  IramInv'
<1>1. /\ iram'[i] = b
      /\ \A j \in Slots : j < i => iram'[j] = iram[j]
      /\ \A j \in Slots : j > i /\ iram'[j].start # 0 =>
           j - 1 \in Slots /\ j - 1 >= i /\ iram[j - 1].start # 0 /\ iram'[j] = iram[j - 1]
  BY ShiftedPlaces
<1>2. i \in Slots /\ b \in Entry /\ iram \in [Slots -> Entry]
  BY DEF FitsAt, IramInv
<1>3. iram' \in [Slots -> Entry]
  <2>1. ASSUME NEW j \in Slots
        PROVE  (IF j = i THEN b ELSE IF j > i /\ iram[j - 1].start # 0 THEN iram[j - 1] ELSE iram[j]) \in Entry
    <3>1. CASE j > i
      <4>1. j - 1 \in Slots
        BY <1>2, <3>1, SlotFacts
      <4> QED
        BY <1>2, <4>1
    <3>2. CASE ~(j > i)
      BY <1>2, <3>2
    <3> QED
      BY <3>1, <3>2
  <2> QED
    BY <2>1 DEF Shifted
<1>4. ASSUME NEW j \in Slots
      PROVE  iram'[j].start = 0 \/
               /\ IramStart <= iram'[j].start /\ iram'[j].start <= iram'[j].end /\ iram'[j].end <= IramEnd
               /\ iram'[j].start % 4 = 0 /\ (iram'[j].end + 1) % 4 = 0
  <2>1. CASE j = i
    BY <1>1, <2>1 DEF FitsAt
  <2>2. CASE j < i
    <3>1. iram'[j] = iram[j]
      BY <1>1, <2>2
    <3> QED
      BY <3>1, IramFacts
  <2>3. CASE j > i /\ iram'[j].start # 0
    <3>1. j - 1 \in Slots /\ iram[j - 1].start # 0 /\ iram'[j] = iram[j - 1]
      BY <1>1, <2>3
    <3> QED
      BY <3>1, IramFacts
  <2>4. j = i \/ j < i \/ j > i
    BY <1>2, SlotFacts
  <2> QED
    BY <2>1, <2>2, <2>3, <2>4
<1>5. ASSUME NEW j \in Slots, NEW l \in Slots, j < l, iram'[l].start # 0
      PROVE  iram'[j].start # 0 /\ iram'[j].end < iram'[l].start
  <2>1. b.start # 0
    BY Ends DEF FitsAt, Entry
  <2>2. CASE l < i
    <3>1. j < i /\ iram'[j] = iram[j] /\ iram'[l] = iram[l]
      BY <1>1, <1>2, <1>5, <2>2, SlotFacts
    <3> QED
      BY <1>5, <3>1, IramOrder
  <2>3. CASE l = i
    <3>1. iram'[j] = iram[j] /\ iram'[l] = b
      BY <1>1, <1>5, <2>3
    <3>2. iram[j].start # 0
      <4>1. i > 0 /\ i - 1 \in Slots /\ (j = i - 1 \/ j < i - 1)
        BY <1>2, <1>5, <2>3, SlotFacts
      <4>2. iram[i - 1].start # 0
        BY <4>1 DEF FitsAt
      <4> QED
        BY <4>1, <4>2, IramOrder
    <3>3. iram[j].end < b.start
      BY <1>5, <2>3, <3>2, BetweenEntries
    <3> QED
      BY <3>1, <3>2, <3>3
  <2>4. CASE l > i
    <3>1. l - 1 \in Slots /\ iram[l - 1].start # 0 /\ iram'[l] = iram[l - 1] /\ l - 1 >= i
      BY <1>1, <1>5, <2>4
    <3>2. CASE j = i
      <4>1. ~(l - 1 < i)
        BY <1>2, <3>1, SlotFacts
      <4>2. b.end < iram[l - 1].start
        BY <3>1, <4>1, BetweenEntries
      <4> QED
        BY <1>1, <2>1, <3>1, <3>2, <4>2
    <3>3. CASE j < i
      <4>1. j < l - 1 /\ iram'[j] = iram[j]
        BY <1>1, <1>2, <3>1, <3>3, SlotFacts
      <4> QED
        BY <3>1, <4>1, IramOrder
    <3>4. CASE j > i
      <4>1. j - 1 \in Slots /\ j - 1 < l - 1 /\ j # i
        BY <1>2, <1>5, <3>4, SlotFacts
      <4>2. iram[j - 1].start # 0 /\ iram[j - 1].end < iram[l - 1].start
        BY <3>1, <4>1, IramOrder
      <4>3. iram'[j] = iram[j - 1]
        BY <3>4, <4>1, <4>2 DEF Shifted
      <4> QED
        BY <3>1, <4>2, <4>3
    <3>5. j = i \/ j < i \/ j > i
      BY <1>2, SlotFacts
    <3> QED
      BY <3>2, <3>3, <3>4, <3>5
  <2>5. l < i \/ l = i \/ l > i
    BY <1>2, SlotFacts
  <2> QED
    BY <2>2, <2>3, <2>4, <2>5
<1> QED
  BY <1>3, <1>4, <1>5 DEF IramInv, Word, Slots

-----------------------------------------------------------------------------
(* The allocators take internal RAM.                                       *)

IramTaken(size, a) ==
  \E i \in Slots, b \in Entry :
    /\ size # 0 /\ b.start % a = 0 /\ b.end = b.start + RoundUp(size) - 1
    /\ FitsAt(i, b) /\ iram' = Shifted(i, b) /\ Returns(b.start, size, a) /\ UNCHANGED list

(* A new block touches nothing that is held.                               *)
LEMMA IramApart ==
  ASSUME HeapInv, NEW i, NEW b, FitsAt(i, b), NEW size \in Nat \ {0}, size <= b.end - b.start + 1,
         NEW h \in held
  PROVE  (b.start + size <= h.ptr \/ h.ptr + h.size <= b.start) /\ h.ptr # b.start
<1> USE DEF HeapInv
<1>1. h.ptr \in Int /\ h.size \in Nat \ {0} /\ RoundUp(h.size) \in Nat /\ h.size <= RoundUp(h.size)
  BY HeldFacts
<1>2. b.start \in Int /\ b.end \in Int /\ IramStart <= b.start
  BY DEF FitsAt, Entry
<1>3. CASE InIram(h)
  <2>1. PICK k \in Slots : iram[k].start # 0 /\ IsEntry(iram[k], h)
    BY <1>3 DEF IramHeld
  <2>2. h.ptr = iram[k].start /\ h.ptr + h.size <= iram[k].end + 1
    <3>1. iram[k].start = h.ptr /\ iram[k].end = h.ptr + RoundUp(h.size) - 1
      BY <2>1 DEF IsEntry
    <3> QED
      BY <1>1, <3>1
  <2>3. IF k < i THEN iram[k].end < b.start ELSE b.end < iram[k].start
    BY <2>1, BetweenEntries
  <2>4. iram[k].end \in Int
    BY IramFacts
  <2>5. iram[k].end < b.start \/ b.end < h.ptr
    BY <2>2, <2>3
  <2> QED
    BY <1>1, <1>2, <2>2, <2>4, <2>5
<1>4. CASE ~InIram(h)
  <2>1. PICK k \in 2..Len(list) : IsBlock(list[k], h)
    BY <1>4 DEF ListHeld
  <2>2. h.ptr + h.size <= list[k].end + 4
    BY <2>1, BlockFacts
  <2>3. list[k].end \in Int /\ list[k].end + 4 <= EndHead
    <3>1. k \in 1..Len(list)
      BY ListFacts
    <3> QED
      BY <3>1, ListFacts
  <2>4. EndHead \in Int /\ IramStart \in Int /\ EndHead < IramStart
    BY Ends
  <2>5. h.ptr + h.size <= b.start /\ h.ptr # b.start
    BY ONLY <1>1, <1>2, <2>2, <2>3, <2>4, SMTT(30)
  <2> QED
    BY <2>5
<1> QED
  BY <1>3, <1>4

LEMMA IramTakenKeeps ==
  ASSUME HeapInv, NEW size \in Sizes, NEW a \in Aligns \cup {1}, IramTaken(size, a)
  PROVE  HeapInv'
<1>1. PICK i \in Slots, b \in Entry :
        /\ size # 0 /\ b.start % a = 0 /\ b.end = b.start + RoundUp(size) - 1
        /\ FitsAt(i, b) /\ iram' = Shifted(i, b) /\ Returns(b.start, size, a) /\ UNCHANGED list
  BY DEF IramTaken
<1> DEFINE new == [ptr |-> b.start, size |-> size, align |-> a]
<1>2. held' = held \cup {new}
  BY <1>1 DEF Returns
<1>3. ListInv /\ IramInv /\ HeldInv /\ ListHeld /\ IramHeld
  BY DEF HeapInv
<1>4. ListInv'
  BY <1>1, <1>3 DEF ListInv
<1>5. IramInv'
  BY <1>1, <1>3, ShiftKeepsTable
<1>6. size \in Nat \ {0} /\ RoundUp(size) \in Nat /\ size <= RoundUp(size) /\ b.start \in Int /\ b.end \in Int
  BY <1>1, Ends, RoundUpCovers DEF Entry
<1>7. ASSUME NEW h \in held PROVE h.ptr # b.start
  <2>1. size <= b.end - b.start + 1
    BY <1>1, <1>6
  <2> QED
    BY <1>1, <1>6, <2>1, IramApart
<1>8. HeldInv'
  BY <1>1, <1>2, <1>3, <1>6, <1>7 DEF HeldInv
<1>9. InIram(new) /\ IsEntry(b, new) /\ b.start # 0
  <2>1. IramStart <= b.start /\ b.start <= b.end /\ b.end <= IramEnd
    BY <1>1 DEF FitsAt
  <2> QED
    BY <1>1, <1>6, <2>1, Ends DEF InIram, IsEntry
<1>10. ListHeld'
  <2>1. ASSUME NEW h \in held', ~InIram(h) PROVE \E j \in 2..Len(list) : IsBlock(list[j], h)
    BY <1>2, <1>3, <1>9, <2>1 DEF ListHeld
  <2>2. ASSUME NEW j \in 2..Len(list) PROVE \E h \in held' : IsBlock(list[j], h)
    BY <1>2, <1>3 DEF ListHeld
  <2> QED
    BY <1>1, <2>1, <2>2 DEF ListHeld, InIram
<1>11. /\ iram'[i] = b
       /\ \A j \in Slots : j < i => iram'[j] = iram[j]
       /\ \A j \in Slots : j > i /\ iram'[j].start # 0 =>
            j - 1 \in Slots /\ j - 1 >= i /\ iram[j - 1].start # 0 /\ iram'[j] = iram[j - 1]
  BY <1>1, <1>3, ShiftedPlaces
<1>12. ASSUME NEW h \in held', InIram(h)
       PROVE  \E j \in Slots : iram'[j].start # 0 /\ IsEntry(iram'[j], h)
  <2>1. CASE h = new
    BY <1>9, <1>11, <2>1
  <2>2. CASE h \in held
    <3>1. PICK k \in Slots : iram[k].start # 0 /\ IsEntry(iram[k], h)
      BY <1>3, <1>12, <2>2 DEF IramHeld
    <3>2. CASE k < i
      BY <1>11, <3>1, <3>2
    <3>3. CASE k >= i
      <4>1. iram[i].start # 0
        <5>1. k = i \/ i < k
          BY <3>3, SlotFacts
        <5> QED
          BY <1>3, <3>1, <5>1, IramOrder
      <4>2. iram[Links - 1].start = 0
        BY <1>1, <4>1 DEF FitsAt
      <4> DEFINE l == k + 1
      <4>3. l \in Slots /\ l > i /\ l # i /\ l - 1 = k
        BY <3>1, <3>3, <4>2, SlotFacts
      <4> HIDE DEF l
      <4>4. iram'[l] = iram[k]
        BY <1>1, <3>1, <4>3 DEF Shifted
      <4> QED
        BY <3>1, <4>3, <4>4
    <3>4. k < i \/ k >= i
      BY SlotFacts
    <3> QED
      BY <3>2, <3>3, <3>4
  <2> QED
    BY <1>2, <2>1, <2>2
<1>13. ASSUME NEW j \in Slots, iram'[j].start # 0 PROVE \E h \in held' : IsEntry(iram'[j], h)
  <2>1. CASE j = i
    BY <1>2, <1>9, <1>11, <2>1
  <2>2. CASE j < i
    <3>1. iram'[j] = iram[j]
      BY <1>11, <2>2
    <3> QED
      BY <1>2, <1>3, <1>13, <3>1 DEF IramHeld
  <2>3. CASE j > i
    <3>1. j - 1 \in Slots /\ iram[j - 1].start # 0 /\ iram'[j] = iram[j - 1]
      BY <1>11, <1>13, <2>3
    <3> QED
      BY <1>2, <1>3, <3>1 DEF IramHeld
  <2>4. j = i \/ j < i \/ j > i
    BY SlotFacts
  <2> QED
    BY <2>1, <2>2, <2>3, <2>4
<1>14. IramHeld'
  BY <1>12, <1>13 DEF IramHeld, InIram, Slots
<1> QED
  BY <1>4, <1>5, <1>8, <1>10, <1>14 DEF HeapInv

(* Where the data at an entry would begin                                  *)
LEMMA DataPlace ==
  ASSUME IramInv, NEW i \in Slots, NEW a \in {1, 4, 16, 32, 64}, i > 0 => iram[i - 1].start # 0
  PROVE  /\ IramData(i, a) \in Int /\ IramData(i, a) % a = 0 /\ IramData(i, a) % 4 = 0
         /\ IramStart <= IramData(i, a)
         /\ i > 0 => iram[i - 1].end < IramData(i, a) /\ i - 1 \in Slots
         /\ i > 0 /\ a = 1 => IramData(i, a) = iram[i - 1].end + 1
<1>1. CASE i = 0
  <2>1. IramStart \in Nat /\ IramStart % 64 = 0
    BY HeapAssumption
  <2>2. IramStart % a = 0 /\ IramStart % 4 = 0
    BY <2>1
  <2>3. IramData(i, a) = IramStart
    BY <1>1, <2>1, <2>2, AlignUpStays DEF IramData
  <2> QED
    BY <1>1, <2>1, <2>2, <2>3
<1>2. CASE i # 0
  <2> DEFINE x == iram[i - 1].end + 1
  <2>1. i > 0 /\ i - 1 \in Slots
    BY <1>2, SlotFacts
  <2>2. x \in Int /\ x % 4 = 0 /\ IramStart <= x
    <3>1. /\ iram[i - 1].end \in Int /\ (iram[i - 1].end + 1) % 4 = 0 /\ iram[i - 1].start \in Int
          /\ IramStart <= iram[i - 1].start /\ iram[i - 1].start <= iram[i - 1].end
      BY <2>1, IramFacts
    <3> QED
      BY <3>1, Ends
  <2>3. IramData(i, a) = AlignUp(x, a) /\ iram[i - 1].end = x - 1
    <3>1. iram[i - 1].end \in Int
      BY <2>1, IramFacts
    <3> QED
      BY <1>2, <3>1 DEF IramData
  <2> HIDE DEF x
  <2>4. AlignUp(x, a) \in Int /\ AlignUp(x, a) % a = 0 /\ x <= AlignUp(x, a)
    BY <2>2, AlignUpAligns
  <2>5. a = 1 => AlignUp(x, a) = x
    <3>1. x % 1 = 0
      BY <2>2
    <3> QED
      BY <2>2, <3>1, AlignUpStays
  <2>6. AlignUp(x, a) % 4 = 0
    <3>1. CASE a = 1
      BY <2>2, <2>5, <3>1
    <3>2. CASE a \in {4, 16, 32, 64}
      BY <2>4, <3>2, AlignedOnWords
    <3> QED
      BY <3>1, <3>2
  <2>7. IramStart \in Int
    BY Ends
  <2>8. IramStart <= AlignUp(x, a) /\ x - 1 < AlignUp(x, a)
    BY <2>2, <2>4, <2>7
  <2> QED
    BY <2>1, <2>3, <2>4, <2>5, <2>6, <2>8
<1> QED
  BY <1>1, <1>2


(* A block put at entry i with room up to the next block, or to the end    *)
LEMMA PlacedIsTaken ==
  ASSUME HeapInv, NEW size \in Sizes \ {0}, NEW a \in {1, 4, 16, 32, 64}, NEW i \in Slots,
         i > 0 => iram[i - 1].start # 0,
         IF iram[i].start = 0 THEN IramData(i, a) + RoundUp(size) - 1 <= IramEnd
         ELSE IramData(i, a) + RoundUp(size) - 1 < iram[i].start /\ iram[Links - 1].start = 0,
         iram' = Shifted(i, Block(i, a, size)), Returns(IramData(i, a), size, a), UNCHANGED list
  PROVE  IramTaken(size, a)
<1> DEFINE b == Block(i, a, size)
           d == IramData(i, a)
<1>1. IramInv
  BY DEF HeapInv
<1>2. /\ d \in Int /\ d % a = 0 /\ d % 4 = 0 /\ IramStart <= d
      /\ i > 0 => iram[i - 1].end < d
  BY <1>1, DataPlace
<1>3. size \in Nat \ {0} /\ RoundUp(size) \in Nat /\ RoundUp(size) % 4 = 0 /\ RoundUp(size) >= 4
  BY Ends, RoundUpCovers
<1>4. b.start = d /\ b.end = d + RoundUp(size) - 1 /\ b = [start |-> d, end |-> d + RoundUp(size) - 1]
  BY DEF Block
<1> HIDE DEF b, d
<1>5. b \in Entry /\ (b.end + 1) % 4 = 0 /\ b.start <= b.end
  <2>1. d + RoundUp(size) - 1 \in Int /\ d <= d + RoundUp(size) - 1
    BY <1>2, <1>3
  <2>2. (d + RoundUp(size) - 1) + 1 = d + RoundUp(size) /\ (d + RoundUp(size)) % 4 = 0
    BY <1>2, <1>3
  <2> QED
    BY <1>2, <1>4, <2>1, <2>2 DEF Entry
<1>6. b.end <= IramEnd /\ (iram[i].start # 0 => b.end < iram[i].start)
  <2>1. CASE iram[i].start = 0
    BY <1>4, <2>1 DEF d
  <2>2. CASE iram[i].start # 0
    <3>1. b.end < iram[i].start
      BY <1>4, <2>2 DEF d
    <3>2. iram[i].start <= iram[i].end /\ iram[i].end <= IramEnd /\ iram[i].start \in Int /\ iram[i].end \in Int
      BY <1>1, <2>2, IramFacts
    <3>3. b.end \in Int
      BY <1>5 DEF Entry
    <3> QED
      BY <3>1, <3>2, <3>3, Ends
  <2> QED
    BY <2>1, <2>2
<1>7. FitsAt(i, b)
  BY <1>2, <1>4, <1>5, <1>6 DEF FitsAt
<1>8. iram' = Shifted(i, b) /\ Returns(b.start, size, a)
  BY <1>4 DEF b, d
<1> QED
  BY <1>2, <1>3, <1>4, <1>5, <1>7, <1>8 DEF IramTaken

(* Behind the last used entry there is nothing to move.                    *)
LEMMA AppendIsShift ==
  ASSUME IramInv, NEW i \in Slots, NEW b, iram[i].start = 0
  PROVE  [iram EXCEPT ![i] = b] = Shifted(i, b)
<1>1. iram \in [Slots -> Entry]
  BY DEF IramInv
<1>2. ASSUME NEW j \in Slots, j > i PROVE iram[j - 1].start = 0
  <2>1. j - 1 \in Slots /\ (i = j - 1 \/ i < j - 1)
    BY <1>2, SlotFacts
  <2> QED
    BY <2>1, IramOrder
<1> QED
  BY <1>1, <1>2 DEF Shifted

LEMMA AppendIsTaken ==
  ASSUME HeapInv, NEW size \in Sizes \ {0}, NEW a \in {1, 4, 16, 32, 64}, NEW i \in Slots,
         i > 0 => iram[i - 1].start # 0, iram[i].start = 0, IramAppend(i, a, size), UNCHANGED list
  PROVE  IramTaken(size, a)
<1>1. IramInv
  BY DEF HeapInv
<1>2. iram' = Shifted(i, Block(i, a, size)) /\ Returns(IramData(i, a), size, a)
  BY <1>1, AppendIsShift DEF IramAppend
<1>3. IramData(i, a) + RoundUp(size) - 1 <= IramEnd
  <2>1. IramData(i, a) \in Int
    BY <1>1, DataPlace
  <2>2. RoundUp(size) \in Nat
    BY Ends, RoundUpCovers
  <2> QED
    BY <2>1, <2>2, Ends DEF IramAppend
<1> QED
  BY <1>2, <1>3, PlacedIsTaken

(* What the loops find is a gap.                                           *)
LEMMA TakeIsTaken ==
  ASSUME HeapInv, NEW size \in Sizes, NEW a \in {1, 4, 16, 32, 64}, NEW gaps \in SUBSET Used,
         \A i \in gaps : size # 0 => IramData(i, a) + RoundUp(size) - 1 < iram[i].start,
         IramTake(a, size, gaps)
  PROVE  IramTaken(size, a)
<1>1. size \in Sizes \ {0} /\ UNCHANGED list /\ IramInv
  BY DEF IramTake, HeapInv
<1>2. CASE iram[0].start = 0 /\ IramAppend(0, a, size)
  BY <1>1, <1>2, SlotFacts, AppendIsTaken
<1>3. CASE iram[0].start # 0 /\ iram[Links - 1].start = 0 /\ gaps # {} /\ IramInsert(Least(gaps), a, size)
  <2> DEFINE i == Least(gaps)
  <2>1. i \in gaps
    <3>1. gaps \subseteq Nat
      BY SlotFacts DEF Used
    <3> QED
      BY <1>3, <3>1, LeastIsLeast
  <2>2. i \in 1..(Links - 2) /\ \A j \in 1..i : iram[j].start # 0
    BY <2>1 DEF Used
  <2>3. IramInsert(i, a, size) /\ IramData(i, a) + RoundUp(size) - 1 < iram[i].start
    BY <1>1, <1>3, <2>1
  <2> HIDE DEF i
  <2>4. i \in Slots /\ i > 0 /\ iram[i].start # 0 /\ iram[i - 1].start # 0
    <3>1. i \in Slots /\ i \in 1..i /\ (i - 1 = 0 \/ i - 1 \in 1..i)
      BY <2>2, SlotFacts
    <3> QED
      BY <1>3, <2>2, <3>1
  <2>5. iram' = Shifted(i, Block(i, a, size)) /\ Returns(IramData(i, a), size, a)
    BY <2>3 DEF IramInsert, Shifted
  <2> QED
    BY <1>1, <1>3, <2>3, <2>4, <2>5, PlacedIsTaken
<1>4. CASE /\ iram[0].start # 0 /\ iram[Links - 1].start = 0
           /\ IramAppend(Least({j \in 1..(Links - 1) : iram[j].start = 0}), a, size)
  <2> DEFINE free == {j \in 1..(Links - 1) : iram[j].start = 0}
             i == Least(free)
  <2>1. i \in free /\ \A j \in free : i <= j
    <3>1. free \subseteq Nat /\ Links - 1 \in free
      BY <1>4, SlotFacts
    <3> QED
      BY <3>1, LeastIsLeast
  <2>2. i \in 1..(Links - 1) /\ iram[i].start = 0 /\ IramAppend(i, a, size)
    BY <1>4, <2>1
  <2>3. \A j \in 1..(Links - 1) : iram[j].start = 0 => i <= j
    BY <2>1
  <2> HIDE DEF i, free
  <2>4. i \in Slots /\ iram[i - 1].start # 0
    <3>1. i \in Slots /\ (i - 1 = 0 \/ i - 1 \in 1..(Links - 1)) /\ ~(i <= i - 1)
      BY <2>2, SlotFacts
    <3> QED
      BY <1>4, <2>3, <3>1
  <2> QED
    BY <1>1, <2>2, <2>4, AppendIsTaken
<1> QED
  BY <1>2, <1>3, <1>4 DEF IramTake

(* All blocks begin and end on words, so the two bytes that the test of    *)
(* the gap gives away are never there to be taken.                         *)
LEMMA GapTest ==
  ASSUME NEW s \in Int, NEW e \in Int, NEW r \in Int, s % 4 = 0, (e + 1) % 4 = 0, r % 4 = 0, r <= s - e + 1
  PROVE  (e + 1) + r - 1 < s
<1>1. PICK x \in Int, y \in Int, z \in Int : s = 4 * x /\ e = 4 * y - 1 /\ r = 4 * z
  <2>1. PICK y \in Int : e + 1 = 4 * y
    OBVIOUS
  <2>2. PICK x \in Int, z \in Int : s = 4 * x /\ r = 4 * z
    OBVIOUS
  <2> QED
    BY <2>1, <2>2
<1>2. z <= x - y
  BY <1>1
<1> QED
  BY <1>1, <1>2

LEMMA IramMallocTakes ==
  ASSUME HeapInv, NEW size \in Sizes, IramMalloc(size)
  PROVE  IramTaken(size, 1)
<1> DEFINE gaps == {i \in Used : RoundUp(size) <= iram[i].start - iram[i - 1].end + 1}
<1>1. IramTake(1, size, gaps)
  BY DEF IramMalloc
<1>2. ASSUME NEW i \in gaps, size # 0 PROVE IramData(i, 1) + RoundUp(size) - 1 < iram[i].start
  <2>1. /\ i \in 1..(Links - 2) /\ iram[i].start # 0
        /\ RoundUp(size) <= iram[i].start - iram[i - 1].end + 1
    BY SlotFacts DEF Used
  <2>2. IramInv /\ i \in Slots /\ i - 1 \in Slots /\ i - 1 < i /\ i > 0
    BY <2>1, SlotFacts DEF HeapInv
  <2>3. iram[i - 1].start # 0
    BY <2>1, <2>2, IramOrder
  <2>4. /\ iram[i].start \in Int /\ iram[i].start % 4 = 0
        /\ iram[i - 1].end \in Int /\ (iram[i - 1].end + 1) % 4 = 0
    BY <2>1, <2>2, <2>3, IramFacts
  <2>5. RoundUp(size) \in Int /\ RoundUp(size) % 4 = 0
    BY <1>2, Ends, RoundUpCovers
  <2>6. IramData(i, 1) = iram[i - 1].end + 1
    BY <2>2, <2>3, DataPlace
  <2>7. (iram[i - 1].end + 1) + RoundUp(size) - 1 < iram[i].start
    BY <2>1, <2>4, <2>5, GapTest
  <2> QED
    BY <2>6, <2>7
<1> HIDE DEF gaps
<1>3. gaps \in SUBSET Used
  BY DEF gaps
<1> QED
  BY <1>1, <1>2, <1>3, TakeIsTaken

LEMMA IramMallocAlignTakes ==
  ASSUME HeapInv, NEW size \in Sizes, NEW a \in Aligns, IramMallocAlign(size, a)
  PROVE  IramTaken(size, a)
<1> DEFINE gaps == {i \in Used : RoundUp(size) <= iram[i].start - IramData(i, a)}
<1>1. IramTake(a, size, gaps) /\ a \in {1, 4, 16, 32, 64}
  BY Ends DEF IramMallocAlign
<1>2. ASSUME NEW i \in gaps, size # 0 PROVE IramData(i, a) + RoundUp(size) - 1 < iram[i].start
  <2>1. /\ i \in 1..(Links - 2) /\ iram[i].start # 0
        /\ RoundUp(size) <= iram[i].start - IramData(i, a)
    BY SlotFacts DEF Used
  <2>2. IramInv /\ i \in Slots /\ i - 1 \in Slots /\ i - 1 < i
    BY <2>1, SlotFacts DEF HeapInv
  <2>3. iram[i - 1].start # 0
    BY <2>1, <2>2, IramOrder
  <2>4. iram[i].start \in Int
    BY <2>2, IramFacts
  <2>5. RoundUp(size) \in Int
    BY <1>2, Ends, RoundUpCovers
  <2>6. IramData(i, a) \in Int
    BY <1>1, <2>2, <2>3, DataPlace
  <2> QED
    BY <2>1, <2>4, <2>5, <2>6
<1> HIDE DEF gaps
<1>3. gaps \in SUBSET Used
  BY DEF gaps
<1> QED
  BY <1>1, <1>2, <1>3, TakeIsTaken
-----------------------------------------------------------------------------
(* gp_free gives internal RAM back.                                        *)

(* What stands where when the entries behind i have moved down             *)
LEMMA ClosedPlaces ==
  ASSUME IramInv, NEW i \in Slots, iram' = CloseUp(i)
  PROVE  /\ iram' \in [Slots -> Entry]
         /\ \A j \in Slots : iram'[j].start # 0 =>
              Old(j, i) \in Slots /\ iram'[j] = iram[Old(j, i)]
         /\ \A j \in Slots : Old(j, i) \in Slots /\ iram[Old(j, i)].start # 0 =>
              iram'[j] = iram[Old(j, i)]
<1> DEFINE ends == {j \in i..(Links - 1) : j = Links - 1 \/ iram[j + 1].start = 0}
           last == Least(ends)
<1>1. last \in ends /\ \A j \in ends : last <= j
  <2>1. ends \subseteq Nat /\ Links - 1 \in ends
    BY SlotFacts
  <2> QED
    BY <2>1, LeastIsLeast
<1>2. last \in i..(Links - 1) /\ (last = Links - 1 \/ iram[last + 1].start = 0)
  BY <1>1
<1>3. iram' = [j \in Slots |-> IF j >= i /\ j < last THEN iram[j + 1]
                               ELSE IF j = last THEN Unused ELSE iram[j]]
  BY DEF CloseUp
<1> HIDE DEF last, ends
<1>4. iram \in [Slots -> Entry] /\ Unused \in Entry /\ Unused.start = 0
  BY DEF IramInv, Entry, Unused
<1>5. ASSUME NEW j \in Slots
      PROVE  (IF j >= i /\ j < last THEN iram[j + 1] ELSE IF j = last THEN Unused ELSE iram[j]) \in Entry
  <2>1. j >= i /\ j < last => j + 1 \in Slots
    BY <1>2, SlotFacts
  <2> QED
    BY <1>4, <2>1
<1>6. ASSUME NEW j \in Slots, j > last PROVE iram[j].start = 0
  <2>1. last + 1 \in Slots /\ iram[last + 1].start = 0 /\ (j = last + 1 \/ last + 1 < j)
    BY <1>2, <1>6, SlotFacts
  <2> QED
    BY <2>1, IramOrder
<1>7. ASSUME NEW j \in Slots, iram'[j].start # 0
      PROVE  Old(j, i) \in Slots /\ iram'[j] = iram[Old(j, i)]
  <2>1. CASE j < i
    <3>1. iram'[j] = iram[j] /\ Old(j, i) = j
      BY <1>2, <1>3, <2>1, SlotFacts DEF Old
    <3> QED
      BY <3>1
  <2>2. CASE j >= i
    <3>1. Old(j, i) = j + 1
      BY <2>2, SlotFacts DEF Old
    <3>2. CASE j < last
      <4>1. j + 1 \in Slots /\ iram'[j] = iram[j + 1]
        BY <1>2, <1>3, <2>2, <3>2, SlotFacts
      <4> QED
        BY <3>1, <4>1
    <3>3. j # last
      <4>1. j = last => iram'[j] = Unused
        BY <1>2, <1>3, SlotFacts
      <4> QED
        BY <1>4, <1>7, <4>1
    <3>4. ~(j > last)
      <4>1. j > last => iram'[j] = iram[j]
        BY <1>2, <1>3, SlotFacts
      <4> QED
        BY <1>6, <1>7, <4>1
    <3> QED
      BY <1>2, <3>2, <3>3, <3>4, SlotFacts
  <2> QED
    BY <2>1, <2>2, SlotFacts
<1>8. ASSUME NEW j \in Slots, Old(j, i) \in Slots, iram[Old(j, i)].start # 0
      PROVE  iram'[j] = iram[Old(j, i)]
  <2>1. CASE j < i
    <3>1. iram'[j] = iram[j] /\ Old(j, i) = j
      BY <1>2, <1>3, <2>1, SlotFacts DEF Old
    <3> QED
      BY <3>1
  <2>2. CASE j >= i
    <3>1. Old(j, i) = j + 1
      BY <2>2, SlotFacts DEF Old
    <3>2. ~(j + 1 > last)
      BY <1>6, <1>8, <3>1
    <3>3. j < last
      BY <1>2, <3>2, SlotFacts
    <3> QED
      BY <1>3, <2>2, <3>1, <3>3
  <2> QED
    BY <2>1, <2>2, SlotFacts
<1> QED
  BY <1>3, <1>5, <1>7, <1>8

LEMMA CloseKeepsTable == ASSUME IramInv, NEW i \in Slots, iram' = CloseUp(i) PROVE IramInv'
<1>1. /\ iram' \in [Slots -> Entry]
      /\ \A j \in Slots : iram'[j].start # 0 => Old(j, i) \in Slots /\ iram'[j] = iram[Old(j, i)]
      /\ \A j \in Slots : Old(j, i) \in Slots /\ iram[Old(j, i)].start # 0 =>
           iram'[j] = iram[Old(j, i)]
  BY ClosedPlaces
<1>2. ASSUME NEW j \in Slots
      PROVE  iram'[j].start = 0 \/
               /\ IramStart <= iram'[j].start /\ iram'[j].start <= iram'[j].end /\ iram'[j].end <= IramEnd
               /\ iram'[j].start % 4 = 0 /\ (iram'[j].end + 1) % 4 = 0
  BY <1>1, IramFacts
<1>3. ASSUME NEW j \in Slots, NEW l \in Slots, j < l, iram'[l].start # 0
      PROVE  iram'[j].start # 0 /\ iram'[j].end < iram'[l].start
  <2>1. Old(l, i) \in Slots /\ iram'[l] = iram[Old(l, i)]
    BY <1>1, <1>3
  <2>2. Old(j, i) \in Slots /\ Old(j, i) < Old(l, i)
    BY <1>3, <2>1, SlotFacts DEF Old
  <2>3. iram[Old(j, i)].start # 0 /\ iram[Old(j, i)].end < iram[Old(l, i)].start
    BY <1>3, <2>1, <2>2, IramOrder
  <2>4. iram'[j] = iram[Old(j, i)]
    BY <1>1, <2>2, <2>3
  <2> QED
    BY <2>1, <2>3, <2>4
<1> QED
  BY <1>1, <1>2, <1>3 DEF IramInv, Word, Slots

LEMMA IramFreeKeeps ==
  ASSUME HeapInv, NEW h \in held, InIram(h), IramFree(h.ptr), held' = held \ {h}
  PROVE  HeapInv'
<1> DEFINE found == {j \in Slots : iram[j].start = h.ptr}
           i == Least(found)
<1>1. ListInv /\ IramInv /\ HeldInv /\ ListHeld /\ IramHeld
  BY DEF HeapInv
<1>2. found # {}
  BY <1>1 DEF IramHeld, IsEntry
<1>3. i \in found /\ iram' = CloseUp(i) /\ UNCHANGED list
  <2>1. found \subseteq Nat
    BY SlotFacts
  <2> QED
    BY <1>2, <2>1, LeastIsLeast DEF IramFree
<1>4. i \in Slots /\ iram[i].start = h.ptr
  BY <1>3
<1> HIDE DEF i, found
<1>5. h.ptr # 0
  BY Ends DEF InIram
<1>6. ListInv'
  BY <1>1, <1>3 DEF ListInv
<1>7. IramInv'
  BY <1>1, <1>3, <1>4, CloseKeepsTable
<1>8. HeldInv'
  BY <1>1 DEF HeldInv
<1>9. ListHeld'
  <2>1. ASSUME NEW g \in held', ~InIram(g) PROVE \E j \in 2..Len(list) : IsBlock(list[j], g)
    BY <1>1, <2>1 DEF ListHeld
  <2>2. ASSUME NEW j \in 2..Len(list) PROVE \E g \in held' : IsBlock(list[j], g)
    <3>1. PICK g \in held : IsBlock(list[j], g)
      BY <1>1, <2>2 DEF ListHeld
    <3>2. g # h
      <4>1. j \in 1..Len(list)
        BY <1>1, ListFacts
      <4>2. list[j].head \in Int /\ list[j].end \in Int /\ list[j].end + 4 <= EndHead
            /\ g.ptr = list[j].head + 8 /\ list[j].head + 8 <= list[j].end
        BY <1>1, <3>1, <4>1, ListFacts, BlockFacts DEF ListInv, Word
      <4>3. g.ptr < IramStart
        BY <4>2, Ends
      <4>4. g.ptr \in Int
        BY <4>2
      <4> QED
        BY <4>3, <4>4, Ends DEF InIram
    <3> QED
      BY <3>1, <3>2
  <2> QED
    BY <1>3, <2>1, <2>2 DEF ListHeld, InIram
<1>10. /\ \A j \in Slots : iram'[j].start # 0 => Old(j, i) \in Slots /\ iram'[j] = iram[Old(j, i)]
       /\ \A j \in Slots : Old(j, i) \in Slots /\ iram[Old(j, i)].start # 0 =>
            iram'[j] = iram[Old(j, i)]
  BY <1>1, <1>3, <1>4, ClosedPlaces
<1>11. ASSUME NEW g \in held', InIram(g)
       PROVE  \E j \in Slots : iram'[j].start # 0 /\ IsEntry(iram'[j], g)
  <2>1. PICK k \in Slots : iram[k].start # 0 /\ IsEntry(iram[k], g)
    BY <1>1, <1>11 DEF IramHeld
  <2>2. k # i
    BY <1>1, <1>4, <2>1 DEF HeldInv, IsEntry
  <2> DEFINE j == IF k < i THEN k ELSE k - 1
  <2>3. j \in Slots /\ Old(j, i) = k
    BY <1>4, <2>2, SlotFacts DEF Old
  <2> HIDE DEF j
  <2>4. iram'[j] = iram[k]
    BY <1>10, <2>1, <2>3
  <2> QED
    BY <2>1, <2>3, <2>4
<1>12. ASSUME NEW j \in Slots, iram'[j].start # 0 PROVE \E g \in held' : IsEntry(iram'[j], g)
  <2> DEFINE k == Old(j, i)
  <2>1. k \in Slots /\ iram'[j] = iram[k] /\ iram[k].start # 0
    BY <1>10, <1>12
  <2>2. k # i
    BY <1>4, SlotFacts DEF Old
  <2> HIDE DEF k
  <2>3. PICK g \in held : IsEntry(iram[k], g)
    BY <1>1, <2>1 DEF IramHeld
  <2>4. iram[k].start # iram[i].start
    <3>1. /\ iram[i].start \in Int /\ iram[i].end \in Int /\ iram[i].start <= iram[i].end
          /\ iram[k].start \in Int /\ iram[k].end \in Int /\ iram[k].start <= iram[k].end
      BY <1>1, <1>4, <1>5, <2>1, IramFacts
    <3>2. (i < k => iram[i].end < iram[k].start) /\ (k < i => iram[k].end < iram[i].start)
      BY <1>1, <1>4, <1>5, <2>1, IramOrder
    <3>3. i < k \/ k < i
      BY <1>4, <2>1, <2>2, SlotFacts
    <3> QED
      BY <3>1, <3>2, <3>3
  <2>5. g # h
    BY <1>4, <2>3, <2>4 DEF IsEntry
  <2> QED
    BY <2>1, <2>3, <2>5
<1>13. IramHeld'
  BY <1>11, <1>12 DEF IramHeld, InIram, Slots
<1> QED
  BY <1>6, <1>7, <1>8, <1>9, <1>13 DEF HeapInv
-----------------------------------------------------------------------------
(* The invariant holds.                                                    *)

LEMMA InitHeap == Init => HeapInv
<1> SUFFICES ASSUME Init PROVE HeapInv
  OBVIOUS
<1>1. Len(list) = 1 /\ list[1] = [head |-> ListHead, end |-> ListHead + 4]
  BY DEF Init, Word
<1>2. ListHead \in Int /\ ListHead % 4 = 0 /\ EndHead \in Int /\ ListHead + 8 <= EndHead
  BY Ends DEF Word
<1>3. (ListHead + 4) % 4 = 0 /\ ListHead + 4 \in Int
  BY <1>2
<1>4. list \in Seq(Address)
  <2>1. [head |-> ListHead, end |-> ListHead + 4] \in Address
    BY <1>2, <1>3 DEF Address
  <2> QED
    BY <2>1 DEF Init, Word
<1>5. ListInv
  <2>1. ASSUME NEW i \in 1..Len(list)
        PROVE  /\ list[i].head % Word = 0 /\ list[i].end % Word = 0
               /\ ListHead <= list[i].head /\ list[i].end + Word <= EndHead
    <3>1. i = 1
      BY <1>1
    <3>2. list[i].head = ListHead /\ list[i].end = ListHead + 4
      BY <1>1, <3>1
    <3> QED
      BY <1>2, <1>3, <3>2 DEF Word
  <2>2. 2..Len(list) = {} /\ \A i, j \in 1..Len(list) : ~(i < j)
    BY <1>1
  <2> QED
    BY <1>1, <1>4, <2>1, <2>2 DEF ListInv, Word
<1>6. IramInv
  <2>1. Unused \in Entry /\ \A i \in Slots : iram[i].start = 0
    BY DEF Init, Unused, Entry
  <2> QED
    BY <2>1 DEF IramInv, Init
<1>7. HeldInv
  BY DEF HeldInv, Init
<1>8. ListHeld
  BY <1>1 DEF ListHeld, Init
<1>9. IramHeld
  BY DEF IramHeld, Init, Unused
<1> QED
  BY <1>5, <1>6, <1>7, <1>8, <1>9 DEF HeapInv

LEMMA FreeKeeps == ASSUME HeapInv, NEW h \in held, Free(h) PROVE HeapInv'
<1>1. CASE InIram(h)
  BY <1>1, IramFreeKeeps DEF Free, InIram
<1>2. CASE ~InIram(h)
  BY <1>2, SdramFreeKeeps DEF Free, InIram
<1> QED
  BY <1>1, <1>2

LEMMA HeapStep == HeapInv /\ [Next]_vars => HeapInv'
<1> SUFFICES ASSUME HeapInv, [Next]_vars PROVE HeapInv'
  OBVIOUS
<1>1. ASSUME NEW size \in Sizes, Malloc(size) PROVE HeapInv'
  BY <1>1, MallocTakes, TakenKeeps
<1>2. ASSUME NEW size \in Sizes, IramMalloc(size) PROVE HeapInv'
  BY <1>2, IramMallocTakes, IramTakenKeeps
<1>3. ASSUME NEW size \in Sizes, NEW a \in Aligns, MallocAlign(size, a) PROVE HeapInv'
  BY <1>3, MallocAlignTakes, TakenKeeps
<1>4. ASSUME NEW size \in Sizes, NEW a \in Aligns, IramMallocAlign(size, a) PROVE HeapInv'
  BY <1>4, IramMallocAlignTakes, IramTakenKeeps
<1>5. ASSUME NEW h \in held, Free(h) PROVE HeapInv'
  BY <1>5, FreeKeeps
<1>6. CASE UNCHANGED vars
  <2>1. UNCHANGED list /\ UNCHANGED iram /\ UNCHANGED held
    BY <1>6 DEF vars
  <2>2. ListInv' /\ IramInv' /\ HeldInv' /\ ListHeld' /\ IramHeld'
    BY <2>1 DEF HeapInv, ListInv, IramInv, HeldInv, ListHeld, IramHeld, InIram, Slots
  <2> QED
    BY <2>2 DEF HeapInv
<1> QED
  BY <1>1, <1>2, <1>3, <1>4, <1>5, <1>6 DEF Next

(* In every reachable state the list of SDRAM and the table of internal    *)
(* RAM are in order, and each of their blocks is exactly what one caller   *)
(* holds (gp_malloc, gp_malloc_align, gp_iram_malloc, gp_free).              *)
THEOREM HeapInvariant == Spec => []HeapInv
BY InitHeap, HeapStep, PTL DEF Spec
-----------------------------------------------------------------------------
(* The heap is an allocator.                                               *)

(* Bytes that touch nothing held, in one of the two memories, are a grant. *)
LEMMA IsGrant ==
  ASSUME HeldInv, NEW size \in Sizes \ {0}, NEW a \in Aligns \cup {1}, NEW p \in Int, p % a = 0, p % 4 = 0,
         \/ ListHead <= p /\ p + size <= EndHead
         \/ IramStart <= p /\ p + size - 1 <= IramEnd,
         \A h \in held : p + size <= h.ptr \/ h.ptr + h.size <= p,
         Returns(p, size, a)
  PROVE  Abstract!Next
<1> DEFINE Mem == (ListHead..(EndHead - 1)) \cup (IramStart..IramEnd)
<1>1. size \in Nat /\ size > 0
  BY Ends
<1>2. p \in Mem /\ p + size - 1 \in Mem
  <2>1. CASE ListHead <= p /\ p + size <= EndHead
    <3>1. p \in ListHead..(EndHead - 1) /\ p + size - 1 \in ListHead..(EndHead - 1)
      BY <1>1, <2>1, Ends
    <3> QED
      BY <3>1
  <2>2. CASE IramStart <= p /\ p + size - 1 <= IramEnd
    <3>1. p \in IramStart..IramEnd /\ p + size - 1 \in IramStart..IramEnd
      BY <1>1, <2>2, Ends
    <3> QED
      BY <3>1
  <2> QED
    BY <2>1, <2>2
<1>3. \A h \in held : Abstract!Apart(p, size, h.ptr, h.size)
  BY DEF Abstract!Apart
<1>4. Abstract!Grant(size, a)
  BY <1>1, <1>2, <1>3 DEF Abstract!Grant, Returns, Word
<1> QED
  BY <1>4 DEF Abstract!Next

LEMMA TakenIsGrant ==
  ASSUME HeapInv, NEW size \in Sizes, NEW a \in Aligns \cup {1}, Taken(size, a)
  PROVE  Abstract!Next
<1>1. PICK i \in 1..Len(list), data \in Int :
        /\ size # 0 /\ data % a = 0 /\ data % 4 = 0
        /\ list[i].end + 12 <= data /\ data + 4 * Words(size) <= NextHead(i)
        /\ Insert(i, data, Words(size)) /\ Returns(data, size, a) /\ UNCHANGED iram
  BY DEF Taken
<1>2. ListInv /\ HeldInv
  BY DEF HeapInv
<1>3. size \in Nat /\ Words(size) \in Nat /\ size <= 4 * Words(size)
  BY <1>1, Ends, WordsCover DEF Word
<1>4. /\ ListHead \in Int /\ EndHead \in Int
      /\ list[i].head \in Int /\ ListHead <= list[i].head
      /\ list[i].end \in Int /\ list[i].head + 4 <= list[i].end
      /\ NextHead(i) \in Int /\ NextHead(i) <= EndHead
  BY <1>2, Ends, ListFacts, NextHeadIs
<1> DEFINE w == Words(size)
           n == NextHead(i)
<1>5. /\ list[i].end + 12 <= data /\ data + 4 * w <= n
      /\ size \in Nat \ {0} /\ w \in Nat /\ size <= 4 * w
      /\ n \in Int /\ n <= EndHead
  BY <1>1, <1>3, <1>4
<1> HIDE DEF w, n
<1>6. data + size <= n
  BY <1>5
<1>7. ListHead <= data /\ data + size <= EndHead
  BY <1>4, <1>5, <1>6
<1>8. InGap(i, data, size)
  BY <1>5, <1>6 DEF InGap, n
<1>9. \A h \in held : data + size <= h.ptr \/ h.ptr + h.size <= data
  BY <1>8, ListApart
<1> QED
  BY <1>1, <1>2, <1>7, <1>9, IsGrant

LEMMA IramTakenIsGrant ==
  ASSUME HeapInv, NEW size \in Sizes, NEW a \in Aligns \cup {1}, IramTaken(size, a)
  PROVE  Abstract!Next
<1>1. PICK i \in Slots, b \in Entry :
        /\ size # 0 /\ b.start % a = 0 /\ b.end = b.start + RoundUp(size) - 1
        /\ FitsAt(i, b) /\ iram' = Shifted(i, b) /\ Returns(b.start, size, a) /\ UNCHANGED list
  BY DEF IramTaken
<1>2. HeldInv
  BY DEF HeapInv
<1>3. size \in Nat \ {0} /\ RoundUp(size) \in Nat /\ size <= RoundUp(size)
  BY <1>1, Ends, RoundUpCovers
<1>4. /\ b.start \in Int /\ b.end \in Int /\ IramStart <= b.start /\ b.end <= IramEnd
      /\ b.start % 4 = 0
  BY <1>1 DEF FitsAt, Entry
<1>5. size <= b.end - b.start + 1 /\ b.start + size - 1 <= IramEnd
  BY <1>1, <1>3, <1>4, Ends
<1>6. \A h \in held : b.start + size <= h.ptr \/ h.ptr + h.size <= b.start
  BY <1>1, <1>3, <1>5, IramApart
<1> QED
  BY <1>1, <1>2, <1>4, <1>5, <1>6, IsGrant

LEMMA StepIsAllocation == HeapInv /\ [Next]_vars => [Abstract!Next]_held
<1> SUFFICES ASSUME HeapInv, Next PROVE Abstract!Next \/ UNCHANGED held
  BY DEF vars
<1>1. ASSUME NEW size \in Sizes, Malloc(size) PROVE Abstract!Next
  BY <1>1, MallocTakes, TakenIsGrant
<1>2. ASSUME NEW size \in Sizes, IramMalloc(size) PROVE Abstract!Next
  BY <1>2, IramMallocTakes, IramTakenIsGrant
<1>3. ASSUME NEW size \in Sizes, NEW a \in Aligns, MallocAlign(size, a) PROVE Abstract!Next
  BY <1>3, MallocAlignTakes, TakenIsGrant
<1>4. ASSUME NEW size \in Sizes, NEW a \in Aligns, IramMallocAlign(size, a) PROVE Abstract!Next
  BY <1>4, IramMallocAlignTakes, IramTakenIsGrant
<1>5. ASSUME NEW h \in held, Free(h) PROVE Abstract!Next
  BY <1>5 DEF Free, Abstract!Next, Abstract!Return
<1> QED
  BY <1>1, <1>2, <1>3, <1>4, <1>5 DEF Next

(* The list of SDRAM and the table of internal RAM implement module        *)
(* Allocator: whatever gp_malloc, gp_malloc_align and their counterparts   *)
(* for internal RAM return lies in the memory, begins where it was asked   *)
(* to, and overlaps no block that has not been freed.                      *)
THEOREM HeapIsAllocator == Spec => ImplementsAllocator
<1>1. Init => Abstract!Init
  BY DEF Init, Abstract!Init
<1> QED
  BY <1>1, StepIsAllocation, HeapInvariant, PTL DEF Spec, ImplementsAllocator, Abstract!Spec
-----------------------------------------------------------------------------
(* A request is only refused where there is no room.                       *)

(* Free memory from p on, with room for the header in front of it, is      *)
(* behind one of the blocks.                                               *)
LEMMA RoomIsGap ==
  ASSUME HeapInv, NEW p \in Int, NEW after \in Int, ListHead + 16 <= p, p <= after, after <= EndHead,
         \A h \in held : after <= h.ptr - 8 \/ h.ptr + 4 * Words(h.size) <= p - 8
  PROVE  \E i \in 1..Len(list) : list[i].end + 12 <= p /\ after <= NextHead(i)
<1> DEFINE Above == {j \in 1..Len(list) : list[j].end + 12 > p}
<1>1. ListInv /\ HeldInv /\ ListHeld
  BY DEF HeapInv
<1>2. /\ Len(list) \in Nat /\ Len(list) >= 1
      /\ \A j \in 1..Len(list) : list[j].head \in Int /\ list[j].end \in Int
  BY <1>1, ListFacts
<1>3. list[1].end + 12 <= p
  <2>1. list[1].end = ListHead + 4
    BY <1>1 DEF ListInv, Word
  <2> QED
    BY <2>1, Ends
<1>4. CASE Above = {}
  <2> DEFINE i == Len(list)
  <2>1. i \in 1..Len(list)
    BY <1>2
  <2>2. ~(list[i].end + 12 > p)
    BY <1>4, <2>1
  <2>3. list[i].end + 12 <= p
    BY <1>2, <2>1, <2>2
  <2>4. NextHead(i) = EndHead
    BY <1>2 DEF NextHead
  <2> QED
    BY <2>1, <2>3, <2>4
<1>5. CASE Above # {}
  <2> DEFINE j == Least(Above)
             i == j - 1
  <2>1. j \in Above /\ \A m \in Above : j <= m
    <3>1. Above \subseteq Nat
      BY <1>2
    <3> QED
      BY <1>5, <3>1, LeastIsLeast
  <2>2. /\ j \in 1..Len(list) /\ list[j].end + 12 > p
        /\ \A m \in 1..Len(list) : list[m].end + 12 > p => j <= m
    BY <2>1
  <2> HIDE DEF j
  <2>3. j # 1
    BY <1>2, <1>3, <2>2
  <2>4. j \in 2..Len(list) /\ i \in 1..Len(list) /\ i < Len(list) /\ i + 1 = j /\ ~(j <= i)
    BY <1>2, <2>2, <2>3
  <2> HIDE DEF i
  <2>5. list[i].end + 12 <= p
    <3>1. ~(list[i].end + 12 > p)
      BY <2>2, <2>4
    <3> QED
      BY <1>2, <2>4, <3>1
  <2>6. PICK h \in held : IsBlock(list[j], h)
    BY <1>1, <2>4 DEF ListHeld
  <2>7. h.ptr = list[j].head + 8 /\ list[j].end + 4 = h.ptr + 4 * Words(h.size)
    BY <1>1, <2>4, <2>6, BlockFacts
  <2>8. list[j].end \in Int /\ list[j].head \in Int
    BY <1>2, <2>2
  <2>9. ~(h.ptr + 4 * Words(h.size) <= p - 8)
    <3>1. ~(list[j].end + 4 <= p - 8)
      BY <2>2, <2>8
    <3> QED
      BY <2>7, <3>1
  <2>10. after <= h.ptr - 8
    BY <2>9
  <2>11. after <= list[j].head
    BY <2>7, <2>8, <2>10
  <2>12. NextHead(i) = list[j].head
    BY <2>4 DEF NextHead
  <2> QED
    BY <2>4, <2>5, <2>11, <2>12
<1> QED
  BY <1>4, <1>5

LEMMA RoomGives ==
  ASSUME HeapInv, NEW s \in Sizes \ {0}, NEW a \in {4, 16, 32, 64}, NEW spare \in {0, 1},
         Room(Words(s), a, spare)
  PROVE  \E p \in Int, i \in 1..Len(list) :
           /\ p % a = 0 /\ list[i].end \in Int /\ NextHead(i) \in Int
           /\ list[i].end + 12 <= p /\ p + 4 * (Words(s) + spare) <= NextHead(i)
<1> DEFINE w == Words(s)
<1>1. w \in Nat /\ HeldInv /\ ListInv
  BY Ends, WordsCover DEF HeapInv
<1>2. PICK p \in (ListHead + 4 * Word)..EndHead :
        /\ p % a = 0 /\ p + Word * (w + spare) <= EndHead
        /\ \A h \in held : \/ p + Word * (w + spare) <= h.ptr - 2 * Word
                           \/ h.ptr + Word * Words(h.size) <= p - 2 * Word
  BY DEF Room
<1> HIDE DEF w
<1> DEFINE after == p + 4 * (w + spare)
<1>3. p \in Int /\ ListHead + 16 <= p /\ after \in Int /\ p <= after
  BY <1>1, <1>2, Ends DEF Word
<1>4. /\ after <= EndHead
      /\ \A h \in held : after <= h.ptr - 8 \/ h.ptr + 4 * Words(h.size) <= p - 8
  <2>1. 2 * Word = 8 /\ Word = 4
    BY DEF Word
  <2> QED
    BY <1>2, <2>1
<1> HIDE DEF after
<1>5. PICK i \in 1..Len(list) : list[i].end + 12 <= p /\ after <= NextHead(i)
  BY <1>3, <1>4, RoomIsGap
<1>6. list[i].end \in Int /\ NextHead(i) \in Int
  BY <1>1, ListFacts, NextHeadIs
<1> QED
  BY <1>2, <1>3, <1>5, <1>6 DEF after, w

LEMMA NoRoomIsMissed == HeapInv => NoRoomMissed
<1> SUFFICES ASSUME HeapInv, NEW s \in Sizes \ {0}
             PROVE  /\ Room(Words(s), Word, 0) => Fits(Words(s)) # {}
                    /\ \A a \in Aligns : Room(Words(s), a, 1) => FitsAligned(Words(s), a) # {}
  BY DEF NoRoomMissed
<1>1. Words(s) \in Nat /\ Word = 4
  BY Ends, WordsCover DEF Word
<1>2. ASSUME Room(Words(s), Word, 0) PROVE Fits(Words(s)) # {}
  <2>1. PICK p \in Int, i \in 1..Len(list) :
          /\ p % 4 = 0 /\ list[i].end \in Int /\ NextHead(i) \in Int
          /\ list[i].end + 12 <= p /\ p + 4 * (Words(s) + 0) <= NextHead(i)
    BY <1>1, <1>2, RoomGives
  <2>2. NextHead(i) - list[i].end > 4 * (Words(s) + 2)
    BY ONLY <1>1, <2>1, SMTT(30)
  <2> QED
    BY <1>1, <2>2 DEF Fits
<1>3. ASSUME NEW a \in Aligns, Room(Words(s), a, 1) PROVE FitsAligned(Words(s), a) # {}
  <2>1. a \in {4, 16, 32, 64}
    BY Ends
  <2>2. PICK p \in Int, i \in 1..Len(list) :
          /\ p % a = 0 /\ list[i].end \in Int /\ NextHead(i) \in Int
          /\ list[i].end + 12 <= p /\ p + 4 * (Words(s) + 1) <= NextHead(i)
    <3>1. 1 \in {0, 1}
      OBVIOUS
    <3> QED
      BY <1>3, <2>1, <3>1, RoomGives, ZenonT(60)
  <2> DEFINE x == list[i].end + 12
  <2>3. x \in Int /\ x <= p /\ AlignedData(i, a) = AlignUp(x, a)
    BY <1>1, <2>2 DEF AlignedData
  <2> HIDE DEF x
  <2>4. AlignUp(x, a) \in Int /\ AlignUp(x, a) <= p
    <3>1. a \in {1, 4, 16, 32, 64} /\ p % a = 0
      BY <2>1, <2>2
    <3>2. AlignUp(x, a) \in Int
      BY <2>3, <3>1, AlignUpAligns
    <3> QED
      BY <2>3, <3>1, <3>2, AlignUpIsLeast
  <2>5. NextHead(i) - AlignedData(i, a) > 4 * Words(s)
    <3>1. AlignedData(i, a) \in Int /\ AlignedData(i, a) <= p
      BY <2>3, <2>4
    <3> QED
      BY <1>1, <2>2, <3>1
  <2> QED
    BY <1>1, <2>5 DEF FitsAligned
<1> QED
  BY <1>2, <1>3

(* gp_malloc refuses only when no block of that many words fits anywhere   *)
(* in SDRAM with its header, and gp_malloc_align when none fits with one   *)
(* word to spare: no freed memory is lost, in whatever order the blocks    *)
(* are given back.                                                         *)
THEOREM RoomNeverMissed == Spec => []NoRoomMissed
BY HeapInvariant, NoRoomIsMissed, PTL
=============================================================================

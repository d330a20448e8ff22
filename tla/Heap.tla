-------------------------------- MODULE Heap --------------------------------
(***************************************************************************)
(* The heap of gplib/mm/src/gplib_mm_gplus.c: a linked list of blocks in   *)
(* SDRAM, kept in the memory it manages (a header of two words in front of *)
(* each block), and a table of blocks of internal RAM.  gp_malloc and      *)
(* gp_malloc_align take the first gap that is large enough; they and       *)
(* gp_free run with the scheduler locked, so each is one step.  (The table *)
(* of internal RAM is freed without that lock; it has no caller in this    *)
(* product, and one is modelled.)  All addresses are in bytes.  The list   *)
(* is the sequence of its headers without the one that ends it, at EndHead.*)
(***************************************************************************)
EXTENDS Integers, Sequences

CONSTANTS
  SdramStart, SdramEnd, \* free_memory_start, free_memory_end
  IramStart, IramEnd,   \* free_iram_start, free_iram_end: the last byte
  Links,                \* C_MM_IRAM_LINK_NUM
  Sizes, Aligns         \* the sizes and alignments asked for

Word == 4

(* The least multiple of a from x on.                                      *)
AlignUp(x, a) == x + ((-x) % a)

Words(size) == (size + 3) \div Word

ListHead == AlignUp(SdramStart, Word)     \* gp_mm_sdram_head
EndHead  == SdramEnd - (SdramEnd % Word) - 2 * Word

ASSUME HeapAssumption ==
  /\ SdramStart \in Nat \ {0} /\ SdramEnd \in Nat /\ ListHead + 2 * Word <= EndHead
  /\ IramStart \in Nat /\ IramEnd \in Nat /\ IramStart % 64 = 0
  /\ SdramEnd < IramStart /\ IramStart < IramEnd
  /\ Links \in Nat /\ Links >= 2
  /\ Sizes \subseteq Nat /\ Aligns \subseteq {4, 16, 32, 64}

VARIABLES
  list,   \* the headers from gp_mm_sdram_head on: where each is, and its last word
  iram,   \* gp_mm_iram_table; a start of 0 marks a free entry
  held    \* what the callers hold: the pointer they got for the bytes, and the
          \* alignment, they asked for

vars == <<list, iram, held>>

Slots == 0..(Links - 1)
Unused == [start |-> 0, end |-> 0]

Init ==
  /\ list = <<[head |-> ListHead, end |-> ListHead + Word]>>
  /\ iram = [i \in Slots |-> Unused]
  /\ held = {}

Least(S) == CHOOSE i \in S : \A j \in S : i <= j

(* A call returns p for a request of size bytes, aligned to a; gp_malloc   *)
(* and gp_iram_malloc ask for no alignment beyond the word.                *)
Returns(p, size, a) == held' = held \cup {[ptr |-> p, size |-> size, align |-> a]}
-----------------------------------------------------------------------------
(* SDRAM.                                                                  *)

(* The header after the i-th one.                                          *)
NextHead(i) == IF i < Len(list) THEN list[i + 1].head ELSE EndHead

(* Variant: the gap behind the first header is passed over.                *)
FitsBehindFirst(w) == {i \in 2..Len(list) : NextHead(i) - list[i].end > Word * (w + 2)}

(* The gaps gp_malloc can take a header and w words from.                  *)
Fits(w) == {i \in 1..Len(list) : NextHead(i) - list[i].end > Word * (w + 2)}

(* Variant: the data is put where the header ends.                         *)
AlignedDataNot(i, a) == list[i].end + 3 * Word

(* Where aligned data would begin behind the i-th block.                   *)
AlignedData(i, a) == AlignUp(list[i].end + 3 * Word, a)

FitsAligned(w, a) == {i \in 1..Len(list) : NextHead(i) - AlignedData(i, a) > Word * w}

(* A block of w words at data is linked in behind the i-th one.            *)
Insert(i, data, w) ==
  list' = [j \in 1..(Len(list) + 1) |->
             IF j <= i THEN list[j]
             ELSE IF j = i + 1
               THEN [head |-> data - 2 * Word, end |-> data + Word * (w - 1)]
               ELSE list[j - 1]]

Malloc(size) ==
  LET w == Words(size)  i == Least(Fits(w))  data == list[i].end + 3 * Word IN
  /\ size # 0 /\ Fits(w) # {}
  /\ Insert(i, data, w) /\ Returns(data, size, 1)
  /\ UNCHANGED iram

MallocAlign(size, a) ==
  LET w == Words(size)  i == Least(FitsAligned(w, a)) IN
  /\ size # 0 /\ FitsAligned(w, a) # {}
  /\ Insert(i, AlignedData(i, a), w) /\ Returns(AlignedData(i, a), size, a)
  /\ UNCHANGED iram

Unlink(i) == [j \in 1..(Len(list) - 1) |-> IF j < i THEN list[j] ELSE list[j + 1]]

(* gp_free looks for the header in front of p and unlinks it: the gaps on  *)
(* both sides of the block become one.                                     *)
SdramFree(p) ==
  /\ \/ \E i \in 2..Len(list) : list[i].head + 2 * Word = p /\ list' = Unlink(i)
     \/ (\A i \in 2..Len(list) : list[i].head + 2 * Word # p) /\ UNCHANGED list
  /\ UNCHANGED iram
-----------------------------------------------------------------------------
(* Internal RAM.                                                           *)

RoundUp(size) == AlignUp(size, Word)

(* The entries in front of which the loops look for a gap.                 *)
Used == {i \in 1..(Links - 2) : \A j \in 1..i : iram[j].start # 0}

(* Where data behind the entry i - 1 would begin.                          *)
IramData(i, a) == IF i = 0 THEN AlignUp(IramStart, a) ELSE AlignUp(iram[i - 1].end + 1, a)

(* The block at entry i, before the entries behind it are moved.           *)
Block(i, a, size) == [start |-> IramData(i, a), end |-> IramData(i, a) + RoundUp(size) - 1]

(* Entry i is free: the table was empty, or the loop came to its end.      *)
IramAppend(i, a, size) ==
  /\ IramData(i, a) + RoundUp(size) <= IramEnd + 1
  /\ iram' = [iram EXCEPT ![i] = Block(i, a, size)]
  /\ Returns(IramData(i, a), size, a)

(* The used entries from i on move up by one.                              *)
IramInsert(i, a, size) ==
  /\ iram' = [j \in Slots |-> IF j = i THEN Block(i, a, size)
                              ELSE IF j > i /\ iram[j - 1].start # 0 THEN iram[j - 1]
                              ELSE iram[j]]
  /\ Returns(IramData(i, a), size, a)

(* The two allocators differ in the alignment and in their test for a gap. *)
IramTake(a, size, gaps) ==
  /\ size # 0
  /\ \/ iram[0].start = 0 /\ IramAppend(0, a, size)
     \/ /\ iram[0].start # 0 /\ iram[Links - 1].start = 0
        /\ IF gaps # {}
             THEN IramInsert(Least(gaps), a, size)
             ELSE IramAppend(Least({j \in 1..(Links - 1) : iram[j].start = 0}), a, size)
  /\ UNCHANGED list

(* The gap is two bytes shorter than this test says; no size is odd.       *)
IramMalloc(size) ==
  IramTake(1, size, {i \in Used : RoundUp(size) <= iram[i].start - iram[i - 1].end + 1})

IramMallocAlign(size, a) ==
  IramTake(a, size, {i \in Used : RoundUp(size) <= iram[i].start - IramData(i, a)})

(* The entries behind i move down by one, up to the first free one.        *)
CloseUp(i) ==
  LET last == Least({j \in i..(Links - 1) : j = Links - 1 \/ iram[j + 1].start = 0}) IN
  [j \in Slots |-> IF j >= i /\ j < last THEN iram[j + 1]
                   ELSE IF j = last THEN Unused ELSE iram[j]]

IramFree(p) ==
  /\ LET found == {i \in Slots : iram[i].start = p} IN
       iram' = IF found = {} THEN iram ELSE CloseUp(Least(found))
  /\ UNCHANGED list
-----------------------------------------------------------------------------
(* gp_free tells the two memories apart by the address.                    *)
Free(h) ==
  /\ IF h.ptr \in IramStart..IramEnd THEN IramFree(h.ptr) ELSE SdramFree(h.ptr)
  /\ held' = held \ {h}

(* A call that is refused changes nothing.                                 *)
Next ==
  \/ \E s \in Sizes : Malloc(s) \/ IramMalloc(s)
  \/ \E s \in Sizes, a \in Aligns : MallocAlign(s, a) \/ IramMallocAlign(s, a)
  \/ \E h \in held : Free(h)

Spec == Init /\ [][Next]_vars
-----------------------------------------------------------------------------
(* If gp_malloc or gp_malloc_align refuses, there really is no room:       *)
(* wherever the header and the data are put, they touch a block somebody   *)
(* holds or its header (gp_malloc_align wants one word more).  So nothing  *)
(* that has been given back is lost, in whatever order blocks are freed    *)
(* (gp_free joins a block with the gaps on both its sides).                *)
Room(w, a, spare) ==
  \E p \in (ListHead + 4 * Word)..EndHead :
    LET after == p + Word * (w + spare) IN
    /\ p % a = 0 /\ after <= EndHead
    /\ \A h \in held : \/ after <= h.ptr - 2 * Word
                       \/ h.ptr + Word * Words(h.size) <= p - 2 * Word

NoRoomMissed ==
  \A s \in Sizes \ {0} :
    /\ Room(Words(s), Word, 0) => Fits(Words(s)) # {}
    /\ \A a \in Aligns : Room(Words(s), a, 1) => FitsAligned(Words(s), a) # {}

(* The list and the table together keep the promises of module Allocator,  *)
(* for both memories.                                                      *)
Abstract == INSTANCE Allocator WITH
  Memory <- (ListHead..(EndHead - 1)) \cup (IramStart..IramEnd), Aligns <- Aligns \cup {1}

ImplementsAllocator == Abstract!Spec
=============================================================================

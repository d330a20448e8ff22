----------------------------- MODULE Allocator -----------------------------
(***************************************************************************)
(* What a heap promises its callers: the bytes it grants lie in the memory *)
(* it manages, begin on a word and at a multiple of the alignment that the *)
(* very request asked for, overlap nothing that is still held, and are the *)
(* caller's until it gives them back.  It may refuse.                      *)
(***************************************************************************)
EXTENDS Integers

CONSTANTS Memory, Word,  \* the bytes managed; the bytes of a word
          Sizes, Aligns  \* what is asked for; 1 for no alignment

VARIABLE held   \* the blocks in use: first byte; bytes and alignment asked for

Apart(p, n, q, m) == p + n <= q \/ q + m <= p

Init == held = {}

Grant(size, a) ==
  \E p \in Memory :
    /\ p % Word = 0 /\ p % a = 0 /\ size > 0 /\ p + size - 1 \in Memory
    /\ \A h \in held : Apart(p, size, h.ptr, h.size)
    /\ held' = held \cup {[ptr |-> p, size |-> size, align |-> a]}

Return == \E h \in held : held' = held \ {h}

Next == Return \/ \E size \in Sizes, a \in Aligns : Grant(size, a)

Spec == Init /\ [][Next]_held
=============================================================================

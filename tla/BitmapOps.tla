------------------------------ MODULE BitmapOps ------------------------------
(***************************************************************************)
(* The arithmetic of kernel/lib/bitmap: which indices of a bitmap a call   *)
(* reads and writes.  A bitmap of len indices is an array of W-bit words;  *)
(* index i is bit W - 1 - i % W of word i / W, and a bit that is 1 is free.*)
(* An operator's ones are the indices whose bits are 1.  The array is      *)
(* always longer than len: the bits behind it start out as 1 as well.      *)
(***************************************************************************)
EXTENDS Naturals

CONSTANTS
    W,   \* bits of a u64
    INT  \* bits of an int, the type of the literal bitmap_unset shifts

ASSUME WidthAssumption ==
    W \in Nat \ {0} /\ INT \in Nat \ {0} /\ INT <= W

BITMAP_SIZE_IN_BLOCK(len) == (len \div W) + 1

\* The indices the words of a bitmap have bits for.
Indices(len) == 0 .. (BITMAP_SIZE_IN_BLOCK(len) * W - 1)

Least(ones) == CHOOSE i \in ones : \A k \in ones : i <= k

\* Mutant: the result is not limited to len.
Found_Unclamped(ones, len) == IF ones = {} THEN 0 .. len ELSE {Least(ones)}

\* What bitmap_find_and_set may return: the first index that is free, and len
\* for one behind the last.  With every word 0 its index is never assigned.
Found(ones, len) ==
    IF ones = {} THEN 0 .. len
    ELSE {IF Least(ones) < len THEN Least(ones) ELSE len}

\* Mutant: the bit is read and not cleared.
Taken_Kept(ones) == ones

\* The bits that are 1 after it.
Taken(ones) == IF ones = {} THEN {} ELSE ones \ {Least(ones)}

\* The bits of (u64)(1 << n), the shift an int shift: the processor takes n
\* modulo INT, and an int whose top bit is 1 is sign-extended.
ShiftedBits(n) == IF n % INT = INT - 1 THEN (INT - 1) .. (W - 1) ELSE {n % INT}

\* Mutant: the length is not checked and the word index is not scaled.
UnsetIndices_Word0(len, i) ==
    IF i >= len THEN {} ELSE {W - 1 - n : n \in ShiftedBits(W - 1 - (i % W))}

\* The indices bitmap_unset makes free when it is asked to free i.
UnsetIndices(len, i) ==
    IF i >= len THEN {}
    ELSE {W * (i \div W) + W - 1 - n : n \in ShiftedBits(W - 1 - (i % W))}
=============================================================================

---------------------------- MODULE BitmapProofs ----------------------------
(***************************************************************************)
(* Proofs about kernel/lib/bitmap for words and ints of any width, bitmaps *)
(* of any length and any number of calls.                                  *)
(***************************************************************************)
EXTENDS Bitmap, WellFoundedInduction, TLAPS

-----------------------------------------------------------------------------
(* The operators.                                                          *)

\* A set of indices has a least one, and Least finds it.
LEMMA LeastProperty ==
    ASSUME NEW S \in SUBSET Nat, S # {}
    PROVE  Least(S) \in S /\ \A k \in S : Least(S) <= k
<1> DEFINE Less == {ss \in Nat \X Nat : ss[1] < ss[2]}
<1>1. IsWellFoundedOn(Less, Nat)
  BY Zenon, NatLessThanWellFounded DEF OpToRel
<1> HIDE DEF Less
<1>2. PICK x \in S : \A y \in S : ~ (<<y, x>> \in Less)
  BY <1>1, WFMin
<1>3. ASSUME NEW y \in S PROVE x <= y
  <2>1. x \in Nat /\ y \in Nat /\ <<y, x>> \in Nat \X Nat
    OBVIOUS
  <2>2. y < x => <<y, x>> \in Less
    BY <2>1 DEF Less
  <2> QED BY <1>2, <2>1, <2>2
<1> QED BY <1>2, <1>3 DEF Least

\* The words of a bitmap have a bit for every index below its length.
LEMMA WordsSuffice ==
    /\ LEN \div W \in Nat
    /\ LEN < BITMAP_SIZE_IN_BLOCK(LEN) * W
    /\ BITMAP_SIZE_IN_BLOCK(LEN) * W = W * (LEN \div W) + W
<1>1. LEN \in Nat /\ W \in Nat /\ W > 0
  BY WidthAssumption, LenAssumption
<1>2. /\ LEN \div W \in Nat /\ LEN % W \in 0 .. W - 1
      /\ LEN = W * (LEN \div W) + (LEN % W)
  BY <1>1
<1>3. (LEN \div W + 1) * W = W * (LEN \div W) + W
  BY <1>1, <1>2
<1> QED BY <1>1, <1>2, <1>3 DEF BITMAP_SIZE_IN_BLOCK

\* bitmap_unset writes to a word the bitmap has, whatever its shift comes to.
LEMMA UnsetInside ==
    ASSUME NEW i \in 0 .. LEN - 1
    PROVE  UnsetIndices(LEN, i) \subseteq Indices(LEN)
<1> DEFINE q == i \div W
           Q == LEN \div W
<1>1. LEN \in Nat /\ W \in Nat /\ W > 0 /\ INT \in Nat /\ INT > 0 /\ INT <= W
  BY WidthAssumption, LenAssumption
<1>2. q \in Nat /\ i % W \in 0 .. W - 1 /\ i = W * q + (i % W)
  BY <1>1
<1>3. Q \in Nat /\ LEN % W \in 0 .. W - 1 /\ LEN = W * Q + (LEN % W)
  BY <1>1
<1>4. 0 <= W * q /\ W * q <= W * Q
  <2> HIDE DEF q, Q
  <2>1. W * q < W * Q + W
    BY <1>1, <1>2, <1>3
  <2>2. q <= Q
    <3> SUFFICES ASSUME q >= Q + 1 PROVE FALSE
      BY <1>2, <1>3
    <3>1. W * q >= W * (Q + 1)
      BY <1>1, <1>2, <1>3
    <3>2. W * (Q + 1) = W * Q + W
      BY <1>1, <1>3
    <3> QED BY <2>1, <3>1, <3>2, <1>1, <1>2, <1>3
  <2> QED BY <2>2, <1>1, <1>2, <1>3
<1>5. ShiftedBits(W - 1 - (i % W)) \subseteq 0 .. W - 1
  BY <1>1, <1>2 DEF ShiftedBits
<1>6. W * q \in Nat /\ W * Q \in Nat
  BY <1>1, <1>2, <1>3
<1>7. \A n \in 0 .. W - 1 : W * q + W - 1 - n \in 0 .. (W * Q + W) - 1
  <2> HIDE DEF q, Q
  <2> QED BY <1>1, <1>4, <1>6
<1> QED BY <1>5, <1>7, WordsSuffice DEF UnsetIndices, Indices

-----------------------------------------------------------------------------
(* The inductive invariant.                                                *)

\* What GrowingOrder needs to know between two calls: bitmap_find_and_set has
\* left no free index at or below the one it returned last.
BelowLastTaken == last # -1 /\ ~garbage => \A k \in ones : k >= LEN \/ k > last

BitmapInv == TypeOK /\ ExactUntilMissed /\ BelowLastTaken

LEMMA InitBitmapInv == Init => BitmapInv
<1> SUFFICES ASSUME Init PROVE BitmapInv
  OBVIOUS
<1>1. LEN \in Nat /\ MAX_FREES \in Nat
  BY LenAssumption
<1>2. TypeOK
  <2>1. frees \in 0 .. MAX_FREES /\ held \in [0 .. LEN - 1 -> Nat]
    BY <1>1 DEF Init
  <2>2. last \in -1 .. LEN
    BY <1>1 DEF Init
  <2>3. ones \subseteq Indices(LEN) /\ missed \in BOOLEAN /\ garbage \in BOOLEAN
    BY Zenon DEF Init
  <2> QED BY <2>1, <2>2, <2>3 DEF TypeOK
<1>3. 0 .. LEN - 1 \subseteq ones
  <2>1. BITMAP_SIZE_IN_BLOCK(LEN) * W \in Nat /\ LEN < BITMAP_SIZE_IN_BLOCK(LEN) * W
    BY WordsSuffice, WidthAssumption
  <2> QED BY <1>1, <2>1 DEF Init, Indices
<1>4. Held = {} /\ NeverTwice
  BY <1>1 DEF Init, Held, NeverTwice
<1> QED BY <1>2, <1>3, <1>4 DEF BitmapInv, ExactUntilMissed, BelowLastTaken, Init

\* A call of bitmap_find_and_set that finds a free bit.
LEMMA FindKeepsInv ==
    ASSUME BitmapInv, bitmap_find_and_set, ones # {}
    PROVE  BitmapInv'
<1> DEFINE f == Least(ones)
<1>1. LEN \in Nat /\ MAX_FREES \in Nat /\ ones \subseteq Nat
  BY LenAssumption DEF BitmapInv, TypeOK, Indices
<1>2. f \in ones /\ \A k \in ones : f <= k
  BY <1>1, LeastProperty
<1> HIDE DEF f
<1>3. PICK i \in Found(ones, LEN) :
        /\ ones' = Taken(ones)
        /\ held' = IF i = LEN THEN held ELSE [held EXCEPT ![i] = @ + 1]
        /\ garbage' = (garbage \/ ones = {})
        /\ last' = i
        /\ UNCHANGED <<frees, missed>>
  BY DEF bitmap_find_and_set
<1>4. ~garbage /\ ~garbage' /\ ones' = ones \ {f}
  BY <1>3 DEF bitmap_find_and_set, Taken, f
<1>5. i = IF f < LEN THEN f ELSE LEN
  BY <1>3 DEF Found, f
<1>6. i \in 0 .. LEN
  BY <1>1, <1>2, <1>5
<1>7. TypeOK'
  <2>1. ones' \subseteq Indices(LEN) /\ frees' \in 0 .. MAX_FREES
    BY <1>3, <1>4 DEF BitmapInv, TypeOK
  <2>4. last' \in -1 .. LEN
    BY <1>1, <1>3, <1>6
  <2>2. held' \in [0 .. LEN - 1 -> Nat]
    BY <1>1, <1>3, <1>6 DEF BitmapInv, TypeOK
  <2>3. missed' \in BOOLEAN /\ garbage' \in BOOLEAN
    BY Zenon, <1>3, <1>4 DEF BitmapInv, TypeOK
  <2> QED BY <2>1, <2>2, <2>3, <2>4 DEF TypeOK
<1>8. ExactUntilMissed'
  <2> SUFFICES ASSUME ~missed PROVE (NeverTwice /\ ones \cap Held = {}
                                       /\ 0 .. LEN - 1 \subseteq ones \cup Held)'
    BY <1>3 DEF ExactUntilMissed
  <2>1. NeverTwice /\ ones \cap Held = {} /\ 0 .. LEN - 1 \subseteq ones \cup Held
    BY <1>4 DEF BitmapInv, ExactUntilMissed
  <2>2. held \in [0 .. LEN - 1 -> Nat]
    BY DEF BitmapInv, TypeOK
  <2>3. CASE f < LEN
    <3>1. i = f /\ f \in 0 .. LEN - 1 /\ held' = [held EXCEPT ![f] = @ + 1]
      BY <1>1, <1>2, <1>3, <1>5, <2>3
    <3>2. held[f] = 0
      BY <1>2, <2>1, <2>2, <3>1 DEF Held
    <3>3. Held' = Held \cup {f} /\ NeverTwice'
      BY <2>1, <2>2, <3>1, <3>2 DEF Held, NeverTwice
    <3> QED BY <1>4, <2>1, <3>3
  <2>4. CASE ~(f < LEN)
    <3>1. held' = held /\ f \notin 0 .. LEN - 1
      BY <1>1, <1>2, <1>3, <1>5, <2>4
    <3> QED BY <1>4, <2>1, <3>1 DEF Held, NeverTwice
  <2> QED BY <2>3, <2>4
<1>9. BelowLastTaken'
  BY <1>1, <1>2, <1>3, <1>4, <1>5 DEF BelowLastTaken
<1> QED BY <1>7, <1>8, <1>9 DEF BitmapInv

\* A call that finds none: nothing is said of what follows.
LEMMA EmptyKeepsInv ==
    ASSUME BitmapInv, bitmap_find_and_set, ones = {}
    PROVE  BitmapInv'
<1>1. LEN \in Nat /\ MAX_FREES \in Nat
  BY LenAssumption
<1>2. PICK i \in 0 .. LEN :
        /\ ones' = {} /\ garbage' = TRUE /\ last' = i
        /\ held' = IF i = LEN THEN held ELSE [held EXCEPT ![i] = @ + 1]
        /\ UNCHANGED <<frees, missed>>
  BY DEF bitmap_find_and_set, Found, Taken
<1>3. TypeOK'
  BY <1>1, <1>2 DEF BitmapInv, TypeOK
<1> QED BY <1>2, <1>3 DEF BitmapInv, ExactUntilMissed, BelowLastTaken

\* A holder gives its index back.
LEMMA UnsetKeepsInv ==
    ASSUME BitmapInv, NEW i \in Held, bitmap_unset(i)
    PROVE  BitmapInv'
<1>1. LEN \in Nat /\ MAX_FREES \in Nat /\ i \in 0 .. LEN - 1 /\ held[i] > 0
  BY LenAssumption DEF Held
<1>2. held \in [0 .. LEN - 1 -> Nat] /\ held' = [held EXCEPT ![i] = @ - 1]
  BY DEF BitmapInv, TypeOK, bitmap_unset
<1>3. TypeOK'
  <2>1. ones' \subseteq Indices(LEN)
    BY <1>1, UnsetInside DEF BitmapInv, TypeOK, bitmap_unset
  <2>2. held' \in [0 .. LEN - 1 -> Nat]
    BY <1>1, <1>2
  <2>3. frees' \in 0 .. MAX_FREES /\ last' \in -1 .. LEN
    BY <1>1 DEF BitmapInv, TypeOK, bitmap_unset
  <2>4. missed' \in BOOLEAN /\ garbage' \in BOOLEAN
    BY Zenon DEF BitmapInv, TypeOK, bitmap_unset
  <2> QED BY <2>1, <2>2, <2>3, <2>4 DEF TypeOK
<1>4. ExactUntilMissed'
  <2> SUFFICES ASSUME ~missed', ~garbage'
               PROVE (NeverTwice /\ ones \cap Held = {}
                        /\ 0 .. LEN - 1 \subseteq ones \cup Held)'
    BY DEF ExactUntilMissed
  <2>1. ~missed /\ ~garbage /\ ones' = ones \cup {i}
    BY DEF bitmap_unset
  <2>2. NeverTwice /\ ones \cap Held = {} /\ 0 .. LEN - 1 \subseteq ones \cup Held
    BY <2>1 DEF BitmapInv, ExactUntilMissed
  <2>3. held[i] = 1
    BY <1>1, <1>2, <2>2 DEF NeverTwice
  <2>4. Held' = Held \ {i} /\ NeverTwice'
    BY <1>1, <1>2, <2>2, <2>3 DEF Held, NeverTwice
  <2> QED BY <2>1, <2>2, <2>4
<1>5. BelowLastTaken'
  BY DEF BelowLastTaken, bitmap_unset
<1> QED BY <1>3, <1>4, <1>5 DEF BitmapInv

LEMMA NextBitmapInv == BitmapInv /\ [Next]_vars => BitmapInv'
<1> SUFFICES ASSUME BitmapInv, [Next]_vars PROVE BitmapInv'
  OBVIOUS
<1>1. CASE bitmap_find_and_set
  BY <1>1, FindKeepsInv, EmptyKeepsInv
<1>2. CASE \E i \in Held : bitmap_unset(i)
  BY <1>2, UnsetKeepsInv
<1>3. CASE UNCHANGED vars
  BY <1>3 DEF vars, BitmapInv, TypeOK, ExactUntilMissed, BelowLastTaken, NeverTwice, Held
<1> QED BY <1>1, <1>2, <1>3 DEF Next

-----------------------------------------------------------------------------
(* The theorems.                                                           *)

\* bitmap_unset and bitmap_find_and_set touch no word that bitmap_init was not
\* given memory for, and return no index above len.
THEOREM BitmapTypes == Spec => []TypeOK
<1>1. BitmapInv => TypeOK
  BY DEF BitmapInv
<1> QED BY <1>1, InitBitmapInv, NextBitmapInv, PTL DEF Spec

\* Until bitmap_unset frees another index than its own, and until the words run
\* out, every index is free or held by one caller and never both.
THEOREM BitmapExact == Spec => []ExactUntilMissed
<1>1. BitmapInv => ExactUntilMissed
  BY DEF BitmapInv
<1> QED BY <1>1, InitBitmapInv, NextBitmapInv, PTL DEF Spec

\* Between two calls of bitmap_unset, bitmap_find_and_set returns growing
\* indices, whatever earlier calls of bitmap_unset freed.
THEOREM BitmapGrows == Spec => GrowingOrder
<1>1. BitmapInv /\ [Next]_vars => [last' # -1 /\ ~garbage' => last' > last \/ last' = LEN]_vars
  <2> SUFFICES ASSUME BitmapInv, Next, last' # -1, ~garbage', last' # LEN
               PROVE  last' > last
    BY DEF vars
  <2>1. LEN \in Nat /\ ones \subseteq Nat /\ last \in -1 .. LEN
    BY LenAssumption DEF BitmapInv, TypeOK, Indices
  <2>2. bitmap_find_and_set /\ ones # {}
    BY DEF Next, bitmap_unset, bitmap_find_and_set
  <2>3. last' = Least(ones) /\ ~garbage
    BY <2>2 DEF bitmap_find_and_set, Found
  <2>4. PICK f \in ones : last' = f
    BY <2>1, <2>2, <2>3, LeastProperty
  <2>5. f \in Nat /\ f < LEN
    BY <2>1, <2>2, <2>4 DEF bitmap_find_and_set, Found
  <2>6. CASE last = -1
    BY <2>4, <2>5, <2>6
  <2>7. CASE last # -1
    <3>1. f >= LEN \/ f > last
      BY <2>3, <2>7 DEF BitmapInv, BelowLastTaken
    <3> QED BY <2>1, <2>4, <2>5, <3>1
  <2> QED BY <2>6, <2>7
<1> QED BY <1>1, InitBitmapInv, NextBitmapInv, PTL DEF Spec, GrowingOrder
=============================================================================

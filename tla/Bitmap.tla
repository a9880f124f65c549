------------------------------- MODULE Bitmap -------------------------------
(***************************************************************************)
(* One bitmap of kernel/lib/bitmap/bitmap.c and the callers that take      *)
(* indices from it and give back the ones they hold.                       *)
(***************************************************************************)
EXTENDS BitmapOps, Integers

CONSTANTS
    LEN,      \* bm->len
    MAX_FREES \* bound: how many times bitmap_unset is called

ASSUME LenAssumption == LEN \in Nat /\ MAX_FREES \in Nat

VARIABLES
    ones,    \* the indices whose bits are 1
    held,    \* index -> how many callers were given it and did not give it back
    frees,   \* bound: bitmap_unset calls made so far
    missed,  \* history: a bitmap_unset did not free exactly its index
    garbage, \* history: a bitmap_find_and_set returned an unassigned value
    last     \* history: what the last bitmap_find_and_set returned, -1 when
             \* a bitmap_unset came after it

vars == <<ones, held, frees, missed, garbage, last>>

Held == {i \in 0 .. LEN - 1 : held[i] > 0}

\* bitmap_init, bitmap_init_static and bitmap_init_kheap fill the words with 1s.
Init ==
    /\ ones = Indices(LEN)
    /\ held = [i \in 0 .. LEN - 1 |-> 0]
    /\ frees = 0 /\ last = -1 /\ missed = FALSE /\ garbage = FALSE

\* Bound: what callers do after an unassigned value was returned is left out.
bitmap_find_and_set ==
    ~garbage /\ \E i \in Found(ones, LEN) :
        /\ ones' = Taken(ones)
        /\ held' = IF i = LEN THEN held ELSE [held EXCEPT ![i] = @ + 1]
        /\ garbage' = (garbage \/ ones = {})
        /\ last' = i
        /\ UNCHANGED <<frees, missed>>

bitmap_unset(i) ==
    /\ ~garbage /\ frees < MAX_FREES /\ frees' = frees + 1
    /\ ones' = ones \cup UnsetIndices(LEN, i)
    /\ held' = [held EXCEPT ![i] = @ - 1]
    /\ missed' = (missed \/ UnsetIndices(LEN, i) # {i})
    /\ last' = -1
    /\ UNCHANGED garbage

Next == bitmap_find_and_set \/ \E i \in Held : bitmap_unset(i)

Spec == Init /\ [][Next]_vars
-----------------------------------------------------------------------------
(* Properties.                                                             *)

\* Types: the bits stay inside the words bitmap_init was given memory for, and
\* callers hold indices below len.
TypeOK ==
    /\ ones \subseteq Indices(LEN) /\ held \in [0 .. LEN - 1 -> Nat]
    /\ frees \in 0 .. MAX_FREES /\ last \in -1 .. LEN
    /\ missed \in BOOLEAN /\ garbage \in BOOLEAN

\* "bitmap return twice the same place": no index is returned while it is held.
NeverTwice == \A i \in 0 .. LEN - 1 : held[i] <= 1

\* Until bitmap_unset frees something other than its index, and until the words
\* run out, every index is either free or held by one caller: none is handed
\* out twice and none is lost.
ExactUntilMissed ==
    ~missed /\ ~garbage =>
        /\ NeverTwice
        /\ ones \cap Held = {}
        /\ 0 .. LEN - 1 \subseteq ones \cup Held

\* "bitmap should returns values in growing order": between two bitmap_unset, no
\* call returns an index below the one before, len when it fails included.
GrowingOrder ==
    [][last' # -1 /\ ~garbage' => last' > last \/ last' = LEN]_vars

\* However the indices alias each other, they are all free again once callers
\* have given back what they hold, in whatever order they did: what the
\* release-all and take-all loops of the test rely on.
AllReusable == ~garbage /\ Held = {} => 0 .. LEN - 1 \subseteq ones
=============================================================================

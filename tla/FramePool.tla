------------------------------ MODULE FramePool ------------------------------
(***************************************************************************)
(* What pmm_xalloc and pmm_free of kernel/mm/pmm.c promise the rest of the *)
(* kernel, mmu_map_page and the page tables above all: a pool of frames,   *)
(* each of them free or in the hands of one holder, where the first free   *)
(* frame is handed out.  Once the promise is lost nothing is said.         *)
(***************************************************************************)
EXTENDS Naturals

VARIABLES
    free, \* frames nobody holds
    held, \* frames handed out
    lost  \* the pool no longer keeps its promise

vars == <<free, held, lost>>

First(S) == CHOOSE f \in S : \A g \in S : f <= g

Init == free = {} /\ held = {} /\ lost = FALSE

\* Boot: the pool gets its frames.
Fill == free = {} /\ held = {} /\ free' \subseteq Nat /\ UNCHANGED held

Alloc == free # {} /\ free' = free \ {First(free)} /\ held' = held \cup {First(free)}

Free(f) == free' = free \cup {f} /\ held' = held \ {f}

Next == lost' \/ (~lost /\ ~lost' /\ (Fill \/ Alloc \/ \E f \in held : Free(f)))

Spec == Init /\ [][Next]_vars
=============================================================================

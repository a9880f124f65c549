---------------------------- MODULE KheapProofs -----------------------------
(***************************************************************************)
(* Proofs about the kernel heap for all header sizes, alignments, page     *)
(* sizes, request sizes and any number of containers and blocks.           *)
(***************************************************************************)
EXTENDS KheapFreeProofs

-----------------------------------------------------------------------------
(* The theorems.                                                           *)

\* Every step of the heap keeps the inductive invariant.
LEMMA NextHeapInv == HeapInv /\ [Next]_vars => HeapInv'
<1> SUFFICES ASSUME HeapInv, [Next]_vars, ~followed' PROVE HeapOK'
  BY DEF HeapInv
<1>1. CASE \E size \in Sizes : kmalloc(size)
  <2>1. PICK size \in Sizes : kmalloc(size)
    BY <1>1
  <2>2. HeapOK
    BY <2>1 DEF HeapInv, kmalloc
  <2> QED BY <2>1, <2>2, KmallocStep
<1>2. CASE ScanBlock
  BY Zenon, <1>2, ScanBlockStep DEF HeapInv, ScanBlock
<1>3. CASE ScanFound
  BY Zenon, <1>3, ScanFoundStep DEF HeapInv, ScanFound
<1>4. CASE ScanContainer
  BY <1>4, ScanContainerStep DEF HeapInv, ScanContainer
<1>5. CASE ScanGrow
  BY Zenon, <1>5, ScanGrowStep DEF HeapInv, ScanGrow
<1>6. CASE ScanPanic
  BY <1>6, ScanPanicStep DEF HeapInv, ScanPanic
<1>7. CASE \E ptr \in DOMAIN live : kfree(ptr)
  <2>1. PICK ptr \in DOMAIN live : kfree(ptr)
    BY <1>7
  <2>2. ~followed
    BY Zenon, <2>1 DEF kfree, Coalesce
  <2>3. HeapOK /\ followed = FALSE
    BY <2>2 DEF HeapInv, HeapOK, TypeOK
  <2> QED BY Zenon, <2>1, <2>3, KfreeStep
<1>8. CASE UNCHANGED vars
  <2>1. HeapOK /\ UNCHANGED <<heap, containers, mem, held, live, listed, followed,
                              calls, call, status>>
    BY <1>8 DEF HeapInv, vars
  <2>2. /\ calls' \in Nat /\ call' \in Cursor /\ call'.blk \in listed \cup {NULL}
        /\ status' \in {"run", "panic"}
    BY <2>1 DEF HeapOK, TypeOK, Cursor
  <2> QED BY <2>1, <2>2, CursorStep
<1> QED BY <1>1, <1>2, <1>3, <1>4, <1>5, <1>6, <1>7, <1>8 DEF Next, ScanStep

\* The heap is never broken by kmalloc, by its search, by the growth and the
\* return of containers, or by a kfree that finds its neighbours on the list:
\* until a kfree merges into a header that an earlier merge took off the list,
\* the containers, the blocks, their links and the live allocations agree.
THEOREM HeapInvariant == Spec => []HeapInv
<1>1. Init => HeapInv
  BY InitHeapInv
<1>2. HeapInv /\ [Next]_vars => HeapInv'
  BY NextHeapInv
<1> QED BY <1>1, <1>2, PTL DEF Spec

\* The live allocations of a heap whose invariant holds are disjoint, lie in
\* containers that are still on the heap, and nothing foreign was written.
LEMMA HeapInvSound == HeapInv => SoundUntilFollowed
<1> SUFFICES ASSUME HeapOK PROVE PayloadsDisjoint /\ PayloadsMapped /\ status # "corrupt"
  BY DEF HeapInv, SoundUntilFollowed
<1>1. HDR \in Nat /\ CHDR \in Nat
  BY Zenon, KheapAssumption
<1>2. ASSUME NEW p \in DOMAIN live
      PROVE  /\ p \in Nat /\ live[p] \in Nat /\ DATA_BLOCK(p) \in listed
             /\ DATA_BLOCK(p) \in Nat /\ p = DATA_BLOCK(p) + HDR
             /\ BlockEnd(DATA_BLOCK(p)) \in Nat
             /\ p + live[p] <= BlockEnd(DATA_BLOCK(p))
  <2>1. p \in Nat /\ live[p] \in Nat /\ DATA_BLOCK(p) \in listed
    BY Zenon DEF HeapOK, TypeOK, LiveInv
  <2>2. /\ DATA_BLOCK(p) \in Nat /\ BlockEnd(DATA_BLOCK(p)) \in Nat
        /\ mem[DATA_BLOCK(p)].size_in_bytes \in Nat
    BY Zenon, <2>1, Extents DEF Header
  <2>3. live[p] <= mem[DATA_BLOCK(p)].size_in_bytes
    BY DEF HeapOK, LiveInv
  <2>4. p = DATA_BLOCK(p) + HDR
    BY SMTT(30), <1>1, <2>1 DEF DATA_BLOCK
  <2>5. p + live[p] <= BlockEnd(DATA_BLOCK(p))
    BY SMTT(30), <1>1, <2>1, <2>2, <2>3, <2>4 DEF BlockEnd, BLOCK_DATA
  <2> QED BY Zenon, <2>1, <2>2, <2>4, <2>5
<1>3. PayloadsDisjoint
  <2>1. SUFFICES ASSUME NEW p \in DOMAIN live, NEW q \in DOMAIN live, p # q
                 PROVE  ~Overlap(DATA_BLOCK(p), p + live[p], DATA_BLOCK(q), q + live[q])
    BY DEF PayloadsDisjoint
  <2>2. DATA_BLOCK(p) # DATA_BLOCK(q)
    BY Zenon, <1>2, <2>1
  <2>3. /\ DATA_BLOCK(p) < DATA_BLOCK(q) => BlockEnd(DATA_BLOCK(p)) <= DATA_BLOCK(q)
        /\ DATA_BLOCK(q) < DATA_BLOCK(p) => BlockEnd(DATA_BLOCK(q)) <= DATA_BLOCK(p)
    BY Zenon, <1>2 DEF HeapOK, BlocksInv
  <2> QED BY <1>1, <1>2, <2>2, <2>3 DEF Overlap
<1>4. PayloadsMapped
  <2>1. SUFFICES ASSUME NEW p \in DOMAIN live
                 PROVE  \E c \in DOMAIN containers :
                          /\ CONTAINER_DATA(c) <= DATA_BLOCK(p)
                          /\ p + live[p] <= CONTAINER_DATA(c) + containers[c].size_in_bytes
    BY Zenon DEF PayloadsMapped
  <2> DEFINE c == mem[DATA_BLOCK(p)].container
  <2>2. /\ c \in DOMAIN containers /\ CONTAINER_DATA(c) <= DATA_BLOCK(p)
        /\ BlockEnd(DATA_BLOCK(p)) <= ContainerEnd(c)
    BY Zenon, <1>2 DEF HeapOK, BlocksInv
  <2>3. ContainerEnd(c) \in Nat
    BY <2>2, Extents
  <2>4. p + live[p] <= ContainerEnd(c)
    BY <1>2, <2>2, <2>3
  <2> QED BY <2>2, <2>4 DEF ContainerEnd
<1> QED BY <1>3, <1>4 DEF HeapOK

\* No two live allocations share a byte, each lies inside a container of the
\* heap, and kmalloc and kfree write to nobody's memory, until a kfree merges
\* into a header that is off the list.
THEOREM Soundness == Spec => []SoundUntilFollowed
  BY HeapInvariant, HeapInvSound, PTL

\* The records of the heap keep their types until then.
THEOREM TypeCorrect == Spec => [](~followed => TypeOK)
<1>1. HeapInv => (~followed => TypeOK)
  BY DEF HeapInv, HeapOK
<1> QED BY <1>1, HeapInvariant, PTL
=============================================================================

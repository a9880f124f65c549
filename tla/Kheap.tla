-------------------------------- MODULE Kheap --------------------------------
(***************************************************************************)
(* The kernel heap, kernel/mm/kheap.c: first-fit allocation in containers  *)
(* of pages obtained from the virtual memory manager.  Every container     *)
(* starts with a struct container and is cut into blocks, each one a       *)
(* struct block header followed by its payload.  The headers are linked    *)
(* through prev and next.                                                  *)
(*                                                                         *)
(* Memory is byte addressed.  mem holds the headers whose bytes are still  *)
(* what the allocator wrote, the ones a merge has taken off the list       *)
(* included: kfree still reads those through a prev pointer it did not     *)
(* update.  A header some payload or some newer header was written over is *)
(* no longer in mem, and reading it may give anything.                     *)
(*                                                                         *)
(* The loops of kmalloc and try_alloc_block are steps of their own (the    *)
(* cursor is call), so a cyclic list would show as a kmalloc that never    *)
(* returns.                                                                *)
(***************************************************************************)
EXTENDS Integers, Sequences, FiniteSets

CONSTANTS
    WORD,       \* sizeof(u64)
    HDR,        \* sizeof(struct block), five words
    CHDR,       \* sizeof(struct container)
    ALIGN,      \* KHEAP_ALIGN_IN_BYTES
    PAGE,       \* PAGE_SIZE_IN_BYTES
    MIN_PAGES,  \* KHEAP_MIN_ALLOC_IN_PAGES
    INIT_PAGES, \* the argument of kheap_init
    U64,        \* number of values of a u64: sums wrap around at it
    Sizes,      \* the request sizes callers use
    Bases,      \* page aligned addresses vmm_alloc_between may return
    MAX_CALLS   \* bound: how many times kmalloc is called

NULL == 0

ASSUME KheapAssumption ==
    /\ WORD \in Nat /\ HDR \in Nat /\ CHDR \in Nat /\ ALIGN \in Nat \ {0}
    /\ PAGE \in Nat \ {0} /\ MIN_PAGES \in Nat /\ INIT_PAGES \in Nat
    /\ U64 \in Nat \ {0} /\ MAX_CALLS \in Nat
    /\ HDR > 0
    /\ CHDR + HDR <= PAGE * MIN_PAGES
    /\ Sizes \subseteq Nat
    /\ Bases \subseteq Nat \ {0}

VARIABLES
    heap,       \* the first container of the list, or NULL
    containers, \* container address -> the struct container there
    mem,        \* header address -> the struct block there
    held,       \* what the VMM has given out: start -> stop
    call,       \* the kmalloc in progress
    status,     \* "run", or why the kernel's next step is not this code's:
                \* "panic", or "corrupt" once it wrote to foreign memory
    calls,      \* bound: kmalloc calls made so far
    live,       \* history: pointers handed out -> the size asked for
    listed,     \* history: headers on the next chains
    followed    \* history: a kfree merged into a header that is off the list

vars == <<heap, containers, mem, held, call, calls, status, live, listed, followed>>

-----------------------------------------------------------------------------
(* Arithmetic.  ROUNDUP is (nb + sz) & ~(sz - 1): the first multiple of sz *)
(* strictly above nb.                                                      *)

ROUNDUP(nb, sz) == nb + sz - (nb % sz)

BLOCK_DATA(b) == b + HDR
DATA_BLOCK(ptr) == ptr - HDR
CONTAINER_DATA(c) == c + CHDR

\* The byte ranges [lo, hi) and [from, to) have a byte in common.
Overlap(lo, hi, from, to) == lo < to /\ from < hi /\ lo < hi /\ from < to

\* Writing [lo, hi) hits memory of a live allocation: its payload or header.
HitsLive(lo, hi) ==
    \E p \in DOMAIN live : Overlap(lo, hi, DATA_BLOCK(p), p + live[p])

Idle == [op |-> "idle", size |-> 0, cont |-> NULL, blk |-> NULL, fresh |-> FALSE]

\* The cursor of a kmalloc of size bytes that enters container c.
Scan(size, c, fresh) ==
    [op |-> "scan", size |-> size, cont |-> c, fresh |-> fresh,
     blk |-> IF c = NULL THEN NULL ELSE CONTAINER_DATA(c)]

-----------------------------------------------------------------------------
(* create_container and remove_container, over the VMM's contract: fresh   *)
(* pages or NULL, and vmm_free gives back what it is told to.              *)

ContainerPages(size_in_pages) ==
    IF MIN_PAGES > size_in_pages THEN MIN_PAGES ELSE size_in_pages

\* The page ranges vmm_alloc_between may pick: they meet no range given out.
FreshBases(n) ==
    {c \in Bases : \A r \in DOMAIN held : ~Overlap(c, c + n * PAGE, r, held[r])}

NewContainer(n) ==
    [size_in_bytes |-> n * PAGE - CHDR, used_blocks |-> 0,
     prev |-> NULL, next |-> heap]

FirstBlock(c, n) ==
    [size_in_bytes |-> n * PAGE - CHDR - HDR, used |-> FALSE,
     prev |-> NULL, next |-> NULL, container |-> c]

\* The n pages at c become a container with one free block, at the head of
\* the heap list.
create_container(c, n) ==
    /\ held' = [r \in DOMAIN held \cup {c} |-> IF r = c THEN c + n * PAGE ELSE held[r]]
    /\ heap' = c
    /\ containers' = [k \in DOMAIN containers \cup {c} |->
                        IF k = c THEN NewContainer(n)
                        ELSE IF k = heap THEN [containers[k] EXCEPT !.prev = c]
                        ELSE containers[k]]
    /\ mem' = [a \in DOMAIN mem \cup {CONTAINER_DATA(c)} |->
                 IF a = CONTAINER_DATA(c) THEN FirstBlock(c, n) ELSE mem[a]]
    /\ listed' = listed \cup {CONTAINER_DATA(c)}

\* Mutant: the struct container is not counted.
PagesToFree_NoHeader(c) == containers[c].size_in_bytes \div PAGE

\* The number of pages remove_container gives back.
PagesToFree(c) == (containers[c].size_in_bytes + CHDR) \div PAGE

\* vmm_free of n pages at c: what is left of the range stays given out.
VmmFree(c, n) ==
    LET stop == c + n * PAGE
        kept == DOMAIN held \ {c}
    IN held' = IF stop < held[c]
               THEN [r \in kept \cup {stop} |-> IF r = stop THEN held[c] ELSE held[r]]
               ELSE [r \in kept |-> held[r]]

\* Address a is in the pages of container c.
Within(c, a) == c <= a /\ a < c + CHDR + containers[c].size_in_bytes

\* Mutant: the list head is not moved off the container.
NewHead_Kept(c) == heap

\* The head of the heap list once c is unlinked.
NewHead(c) == IF containers[c].prev = NULL THEN containers[c].next ELSE heap

\* Container c leaves the heap list and its pages, with every header in them,
\* go back to the VMM.
remove_container(c) ==
    LET prev == containers[c].prev
        next == containers[c].next
    IN /\ heap' = NewHead(c)
       /\ containers' = [k \in DOMAIN containers \ {c} |->
                           [containers[k] EXCEPT
                              !.next = IF k = prev THEN next ELSE @,
                              !.prev = IF k = next THEN prev ELSE @]]
       /\ mem' = [a \in {h \in DOMAIN mem : ~Within(c, h)} |-> mem[a]]
       /\ listed' = {h \in listed : ~Within(c, h)}
       /\ VmmFree(c, PagesToFree(c))

-----------------------------------------------------------------------------
(* kmalloc.                                                                *)

\* Mutants: one of the two conditions of the search is dropped.
Fits_Used(b, size) == mem[b].size_in_bytes >= size
Fits_Small(b, size) == mem[b].used = FALSE

Fits(b, size) == mem[b].used = FALSE /\ mem[b].size_in_bytes >= size

\* Mutants: the room for the header, or the rounding, is forgotten.
NextBlockStructEnd_NoHeader(b, size) == ROUNDUP(BLOCK_DATA(b) + size, ALIGN)
NextBlockStructEnd_NoRoundup(b, size) == BLOCK_DATA(b) + size + HDR

\* Where the payload of the block cut off behind b would start.
NextBlockStructEnd(b, size) == ROUNDUP(BLOCK_DATA(b) + size + HDR, ALIGN)

\* Mutant: b->next is set to the new block before new_b->next copies it.
SplitOff_LinkedFirst(b, new_b) ==
    [size_in_bytes |-> b + mem[b].size_in_bytes - new_b, used |-> FALSE,
     prev |-> b, next |-> new_b, container |-> mem[b].container]

\* The free block that is cut off behind b, at new_b.
SplitOff(b, new_b) ==
    [size_in_bytes |-> b + mem[b].size_in_bytes - new_b, used |-> FALSE,
     prev |-> b, next |-> mem[b].next, container |-> mem[b].container]

\* try_alloc_block from found_block on: b becomes used and, when there is room
\* behind the payload for a header and at least one byte, b is cut in two.
\* Headers the new header or the caller's payload lie over are lost.
found_block(b, size) ==
    LET h == mem[b]
        block_end == BLOCK_DATA(b) + h.size_in_bytes
        next_block_struct_end == NextBlockStructEnd(b, size)
        new_b == next_block_struct_end - HDR
        split == next_block_struct_end < block_end
        Lost(a) == \/ Overlap(a, a + HDR, BLOCK_DATA(b), BLOCK_DATA(b) + size)
                   \/ split /\ Overlap(a, a + HDR, new_b, new_b + HDR)
        kept == {a \in DOMAIN mem : a = b \/ ~Lost(a)}
        bRec == IF split THEN [h EXCEPT !.used = TRUE, !.next = new_b,
                                        !.size_in_bytes = size]
                         ELSE [h EXCEPT !.used = TRUE]
    IN /\ mem' = [a \in kept \cup (IF split THEN {new_b} ELSE {}) |->
                    IF a = b THEN bRec
                    ELSE IF split /\ a = new_b THEN SplitOff(b, new_b)
                    ELSE IF split /\ a = h.next THEN [mem[a] EXCEPT !.prev = new_b]
                    ELSE mem[a]]
       /\ containers' = [containers EXCEPT ![h.container].used_blocks = @ + 1]
       /\ live' = [p \in DOMAIN live \cup {BLOCK_DATA(b)} |->
                     IF p = BLOCK_DATA(b) THEN size ELSE live[p]]
       /\ listed' = IF split THEN listed \cup {new_b} ELSE listed
       /\ status' = IF \/ HitsLive(b, BLOCK_DATA(b) + size)
                       \/ split /\ HitsLive(new_b, new_b + HDR)
                       \/ split /\ h.next # NULL /\ h.next \notin DOMAIN mem
                    THEN "corrupt" ELSE status

\* A caller asks for size bytes: the search starts at the first container.
kmalloc(size) ==
    /\ status = "run" /\ call = Idle
    /\ calls < MAX_CALLS
    /\ call' = Scan(size, heap, FALSE)
    /\ calls' = calls + 1
    /\ UNCHANGED <<heap, containers, mem, held, status, live, listed, followed>>

\* The loop of try_alloc_block passes over a block that is used or too small.
ScanBlock ==
    /\ status = "run" /\ call.op = "scan" /\ call.blk \in DOMAIN mem
    /\ ~Fits(call.blk, call.size)
    /\ call' = [call EXCEPT !.blk = mem[call.blk].next]
    /\ UNCHANGED <<heap, containers, mem, held, calls, status, live, listed, followed>>

\* try_alloc_block finds its block and kmalloc returns its payload.
ScanFound ==
    /\ status = "run" /\ call.op = "scan" /\ call.blk \in DOMAIN mem
    /\ Fits(call.blk, call.size)
    /\ found_block(call.blk, call.size)
    /\ call' = Idle
    /\ UNCHANGED <<heap, held, calls, followed>>

\* No block of this container fits: kmalloc goes on with the next container.
ScanContainer ==
    /\ status = "run" /\ call.op = "scan" /\ call.blk = NULL
    /\ call.cont # NULL /\ ~call.fresh
    /\ call' = Scan(call.size, containers[call.cont].next, FALSE)
    /\ UNCHANGED <<heap, containers, mem, held, calls, status, live, listed, followed>>

\* Mutant: no overallocation, only the division rounded up.
PagesFor_Exact(size) == (((size + HDR) % U64) \div PAGE) + 1

\* The number of pages kmalloc asks create_container for.
PagesFor(size) == (((size + HDR) % U64) \div PAGE) + 2

\* No container has room: kmalloc makes a new one and searches it, or returns
\* NULL when the VMM has no room for it.
ScanGrow ==
    /\ status = "run" /\ call.op = "scan" /\ call.cont = NULL
    /\ LET n == ContainerPages(PagesFor(call.size)) IN
       \/ \E c \in FreshBases(n) :
            /\ create_container(c, n)
            /\ call' = Scan(call.size, c, TRUE)
       \/ /\ FreshBases(n) = {}
          /\ call' = Idle
          /\ UNCHANGED <<held, heap, containers, mem, listed>>
    /\ UNCHANGED <<calls, status, live, followed>>

\* The new container has no room either: "the impossible is possible".
ScanPanic ==
    /\ status = "run" /\ call.op = "scan" /\ call.blk = NULL /\ call.fresh
    /\ status' = "panic"
    /\ UNCHANGED <<heap, containers, mem, held, call, calls, live, listed, followed>>

-----------------------------------------------------------------------------
(* kfree.                                                                  *)

\* Mutant: the neighbours that are in use are merged.
FreeReads_Inverted(a) ==
    IF a = NULL THEN {FALSE}
    ELSE IF a \in DOMAIN mem THEN {mem[a].used} ELSE BOOLEAN

\* What the test a != NULL && a->used == FALSE may give: any value when the
\* header at a was written over.
FreeReads(a) ==
    IF a = NULL THEN {FALSE}
    ELSE IF a \in DOMAIN mem THEN {~mem[a].used} ELSE BOOLEAN

\* The stores to a->size_in_bytes (word 0) and a->next (word 3) hit memory that
\* is somebody's: a live allocation, or a header the allocator still uses.
Clobbers(a) ==
    /\ a \notin DOMAIN mem
    /\ \E f \in {a, a + 3 * WORD} :
          \/ HitsLive(f, f + WORD)
          \/ \E h \in DOMAIN mem : Overlap(f, f + WORD, h, h + HDR)

\* kfree once the container has other used blocks: b is merged into prev when
\* mp, and the result takes in next when mn.
Coalesce(b, mp, mn) ==
    LET h == mem[b]
        t == IF mp THEN h.prev ELSE b
        n == h.next
        nn == mem[n].next
        known == t \in DOMAIN mem /\ (mn => n \in DOMAIN mem)
        merged == (IF mp THEN mem[t].size_in_bytes + h.size_in_bytes + HDR
                         ELSE h.size_in_bytes)
                  + (IF mn THEN mem[n].size_in_bytes + HDR ELSE 0)
    IN /\ mem' = [a \in DOMAIN mem |->
                    IF a = t /\ known
                    THEN [mem[a] EXCEPT !.used = FALSE, !.size_in_bytes = merged,
                                        !.next = IF mn THEN nn ELSE n]
                    ELSE IF a = b THEN [h EXCEPT !.used = FALSE]
                    ELSE IF mn /\ n \in DOMAIN mem /\ a = nn
                         THEN [mem[a] EXCEPT !.prev = t]
                    ELSE mem[a]]
       /\ listed' = listed \ ((IF mp /\ t \in listed THEN {b} ELSE {})
                              \cup (IF mn /\ t \in listed THEN {n} ELSE {}))
       /\ followed' = (followed \/ (mp /\ t \notin listed))
       /\ status' = IF Clobbers(t) \/ (mn /\ n \notin DOMAIN mem)
                    THEN "corrupt" ELSE status

DecUsed(c) == [containers EXCEPT ![c].used_blocks = @ - 1]

\* A caller frees a pointer kmalloc gave it and that it has not freed since.
kfree(ptr) ==
    LET b == DATA_BLOCK(ptr)
        c == mem[b].container
    IN /\ status = "run" /\ call = Idle
       /\ live' = [p \in DOMAIN live \ {ptr} |-> live[p]]
       /\ \/ /\ containers[c].used_blocks = 1
             /\ remove_container(c)
             /\ UNCHANGED <<status, followed>>
          \/ /\ containers[c].used_blocks # 1
             /\ \E mp \in FreeReads(mem[b].prev), mn \in FreeReads(mem[b].next) :
                   Coalesce(b, mp, mn)
             /\ containers' = DecUsed(c)
             /\ UNCHANGED <<heap, held>>
       /\ UNCHANGED <<call, calls>>

-----------------------------------------------------------------------------

\* The state kheap_init leaves: one container, and nothing handed out.
Init ==
    LET n == ContainerPages(INIT_PAGES) IN
    \E c \in Bases :
        /\ heap = c
        /\ containers = [k \in {c} |-> [size_in_bytes |-> n * PAGE - CHDR,
                           used_blocks |-> 0, prev |-> NULL, next |-> NULL]]
        /\ mem = [a \in {CONTAINER_DATA(c)} |-> FirstBlock(c, n)]
        /\ held = [r \in {c} |-> c + n * PAGE]
        /\ listed = {CONTAINER_DATA(c)}
        /\ live = [p \in {} |-> 0]
        /\ call = Idle /\ calls = 0 /\ status = "run" /\ followed = FALSE

\* The steps of a kmalloc that has been called.
ScanStep ==
    ScanBlock \/ ScanFound \/ ScanContainer \/ ScanGrow \/ ScanPanic

Next ==
    \/ \E size \in Sizes : kmalloc(size)
    \/ ScanStep
    \/ \E ptr \in DOMAIN live : kfree(ptr)

\* The processor keeps executing the call it is in: nothing in the heap waits.
Spec == Init /\ [][Next]_vars /\ WF_vars(ScanStep)
-----------------------------------------------------------------------------
(* Properties.                                                             *)

Header == [size_in_bytes : Nat, used : BOOLEAN, prev : Nat, next : Nat,
           container : Nat]

\* Types: the records of the two kinds of headers, and a cursor that points
\* into them while kmalloc searches.
TypeOK ==
    /\ heap \in DOMAIN containers \cup {NULL}
    /\ \A c \in DOMAIN containers :
          /\ c \in Nat \ {0}
          /\ containers[c] \in [size_in_bytes : Nat, used_blocks : Nat,
                                prev : DOMAIN containers \cup {NULL},
                                next : DOMAIN containers \cup {NULL}]
    /\ \A a \in DOMAIN mem : a \in Nat \ {0} /\ mem[a] \in Header
    /\ \A r \in DOMAIN held : r \in Nat /\ held[r] \in Nat
    /\ \A p \in DOMAIN live : p \in Nat /\ live[p] \in Nat
    /\ call \in [op : {"idle", "scan"}, size : Nat, cont : DOMAIN containers \cup {NULL},
                 blk : Nat, fresh : BOOLEAN]
    /\ calls \in Nat /\ followed \in BOOLEAN
    /\ status \in {"run", "panic", "corrupt"}

\* No two live allocations share a byte, and none lies over the header of
\* another ("try to corrupt"): what kmalloc returns is the caller's alone until kfree.
PayloadsDisjoint ==
    \A p, q \in DOMAIN live :
        p # q => ~Overlap(DATA_BLOCK(p), p + live[p], DATA_BLOCK(q), q + live[q])

\* Every live allocation, with its header, lies inside a container that is
\* still on the heap, behind its struct container and before its last page
\* ends: kfree never gives away pages somebody uses.
PayloadsMapped ==
    \A p \in DOMAIN live :
        \E c \in DOMAIN containers :
            /\ CONTAINER_DATA(c) <= DATA_BLOCK(p)
            /\ p + live[p] <= CONTAINER_DATA(c) + containers[c].size_in_bytes

\* Until a kfree has merged a block into a header that is off the list, live
\* allocations are disjoint and mapped, and the allocator writes to no memory
\* but its own: the un-updated prev pointers of kfree's first merge are the
\* only way in which kmalloc and kfree can break the heap.
SoundUntilFollowed ==
    ~followed => PayloadsDisjoint /\ PayloadsMapped /\ status # "corrupt"

\* Until then, too, next leads from each block of a container to the one with
\* the next higher address, which starts behind its end: the search of
\* try_alloc_block sees every block once, and no block runs into another.
ListInAddressOrder ==
    ~followed =>
        /\ listed \subseteq DOMAIN mem
        /\ \A c \in DOMAIN containers : CONTAINER_DATA(c) \in listed
        /\ \A a \in listed :
              LET above == {x \in listed : x > a /\ mem[x].container = mem[a].container}
              IN IF above = {} THEN mem[a].next = NULL
                 ELSE /\ mem[a].next \in above
                      /\ \A x \in above : mem[a].next <= x
                      /\ BLOCK_DATA(a) + mem[a].size_in_bytes <= mem[a].next

BlockEnd(a) == BLOCK_DATA(a) + mem[a].size_in_bytes
ContainerEnd(c) == CONTAINER_DATA(c) + containers[c].size_in_bytes
LiveIn(c) == {p \in DOMAIN live : mem[DATA_BLOCK(p)].container = c}

ContainersInv ==
    /\ heap # NULL => containers[heap].prev = NULL
    /\ \A c \in DOMAIN containers :
          /\ c \in DOMAIN held /\ held[c] = ContainerEnd(c)
          /\ containers[c].next # NULL => containers[containers[c].next].prev = c
          /\ containers[c].prev # NULL => containers[containers[c].prev].next = c
          /\ CONTAINER_DATA(c) \in listed
          /\ containers[c].used_blocks = Cardinality(LiveIn(c))
    /\ \A c, d \in DOMAIN containers :
          c # d => ContainerEnd(c) <= d \/ ContainerEnd(d) <= c

BlocksInv ==
    /\ listed \subseteq DOMAIN mem
    /\ \A a \in listed :
          /\ mem[a].container \in DOMAIN containers
          /\ CONTAINER_DATA(mem[a].container) <= a
          /\ BlockEnd(a) <= ContainerEnd(mem[a].container)
    /\ \A a, b \in listed : a < b => BlockEnd(a) <= b

LinksInv ==
    /\ \A a \in listed : mem[a].next # NULL =>
          /\ mem[a].next \in listed /\ a < mem[a].next
          /\ mem[mem[a].next].container = mem[a].container
          /\ \A x \in listed : ~(a < x /\ x < mem[a].next)
    /\ \A b \in listed : mem[b].prev # NULL =>
          /\ mem[b].prev < b
          /\ \E a \in listed : mem[a].next = b /\ a <= mem[b].prev

LiveInv ==
    /\ IsFiniteSet(DOMAIN live)
    /\ \A p \in DOMAIN live :
          /\ DATA_BLOCK(p) \in listed
          /\ mem[DATA_BLOCK(p)].used
          /\ live[p] <= mem[DATA_BLOCK(p)].size_in_bytes

HeapOK ==
    /\ TypeOK /\ ContainersInv /\ BlocksInv /\ LinksInv /\ LiveInv
    /\ call.blk \in listed \cup {NULL}
    /\ status # "corrupt"

\* The strengthening of the above that every step keeps while followed is
\* FALSE: the list of containers is linked both ways, containers and listed
\* blocks do not overlap, next skips no listed block, prev points at the
\* previous block or at a merged header inside it, and the live allocations
\* are used blocks that used_blocks counts.
HeapInv == ~followed => HeapOK

\* The heap holds the pages of its containers and no others, and between calls
\* only the container of kheap_init may be without a used block: everything
\* else went back to the VMM with the last kfree.
PagesReturned ==
    /\ held = [c \in DOMAIN containers |-> CONTAINER_DATA(c) + containers[c].size_in_bytes]
    /\ call = Idle =>
         \A c \in DOMAIN containers :
            containers[c].used_blocks = 0 => containers[c].next = NULL

\* Every pointer kmalloc returns is aligned to KHEAP_ALIGN_IN_BYTES.
PointersAligned == \A p \in DOMAIN live : p % ALIGN = 0

\* A container made for a request has room for it: the panic of kmalloc, "the
\* impossible is possible", is reached only when the request is so large that
\* adding the header wraps around.
PanicOnlyOnWrap == status = "panic" => call.size + HDR >= U64

\* A step that does not end an allocation leaves its header alone: the size and
\* the used mark of a live block never change under its owner.
LiveHeadersKept ==
    [][\A p \in DOMAIN live \cap DOMAIN live' :
         ~followed' => /\ DATA_BLOCK(p) \in DOMAIN mem'
                       /\ mem'[DATA_BLOCK(p)].used
                       /\ mem'[DATA_BLOCK(p)].size_in_bytes
                            = mem[DATA_BLOCK(p)].size_in_bytes]_vars

\* Every kmalloc returns, or panics: its two loops come to an end.
KmallocReturns == (call.op = "scan") ~> (call.op = "idle" \/ status = "panic")
=============================================================================

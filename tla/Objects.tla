------------------------------- MODULE Objects -------------------------------
(***************************************************************************)
(* The object allocator of kernel/mm/vmm.c: the struct vmm_region and      *)
(* struct vmm_space of every address space.  A block is one page: a header,*)
(* max_objects objects of one type, and behind them the bitmap that says   *)
(* which of them are free.  The blocks of a type are a doubly linked list  *)
(* from block_heads; pages come from pmm_xalloc as they are, with whatever *)
(* was in them.                                                            *)
(*                                                                         *)
(* An object is the pair of its page and its index.  The last bytes of a   *)
(* page are no object, so the address test of block_free finds the page an *)
(* object is in.                                                           *)
(***************************************************************************)
EXTENDS BitmapOps, Integers, Sequences, FiniteSets, SequencesExt

CONSTANTS
    SIZE,    \* get_struct_size: type -> bytes of an object
    PAGE,    \* PAGE_SIZE_IN_BYTES
    BLOCK,   \* sizeof(struct block)
    U64,     \* number of values of a u64
    Pages,   \* the pages pmm_xalloc has, numbered in address order
    OldWords \* what the word at nb_used of a page may hold before its use

Types == DOMAIN SIZE
NULL == 0

ASSUME ObjectsAssumption ==
    /\ \A t \in Types : SIZE[t] \in Nat \ {0}
    /\ PAGE \in Nat /\ BLOCK \in Nat /\ BLOCK <= PAGE
    /\ U64 \in Nat \ {0} /\ OldWords \subseteq 0 .. U64 - 1
    /\ Pages \subseteq Nat \ {NULL}

VARIABLES
    block_heads, \* type -> the page of its first block, or NULL
    blocks,      \* page -> the struct block there; ones is its bitmap
    free,        \* pages the physical memory manager has
    status,      \* "run", or why the model stops: the kernel does, or memory
                 \* is used that is not what its user takes it for
    held,        \* history: objects handed out and not yet given back
    began,       \* history: page -> nb_used when it became a block
    missed,      \* history: a bitmap_unset changed other bits than its own
    unassigned   \* history: a bitmap with no bit set was searched

objects == <<block_heads, blocks, free, held, began, missed, unassigned>>

ObjectsInit ==
    /\ block_heads = [t \in Types |-> NULL]
    /\ blocks = <<>>
    /\ free = Pages
    /\ status = "run"
    /\ held = {}
    /\ began = [p \in Pages |-> 0]
    /\ missed = FALSE /\ unassigned = FALSE

-----------------------------------------------------------------------------

max_objects(t) == (PAGE - BLOCK) \div (SIZE[t] + 1)

\* The pages of the blocks of type t, in the order of next.
Chain(t) ==
    LET at[n \in 1 .. Cardinality(DOMAIN blocks) + 1] ==
            IF n = 1 THEN block_heads[t]
            ELSE IF at[n - 1] = NULL THEN NULL ELSE blocks[at[n - 1]].next
    IN SelectSeq(at, LAMBDA p : p # NULL)

\* Mutant: the block in front is forgotten.
create_block_NoPrev(t, prev, word) ==
    [type |-> t, nb_used |-> word, ones |-> Indices(max_objects(t)),
     prev |-> NULL, next |-> NULL]

\* The block made in a page whose word at nb_used is word: nb_used is not set.
create_block(t, prev, word) ==
    [type |-> t, nb_used |-> word, ones |-> Indices(max_objects(t)),
     prev |-> prev, next |-> NULL]

\* What bitmap_find_and_set may return for the block in page p.
Search(p) == Found(blocks[p].ones, max_objects(blocks[p].type))

\* Mutant: the bit of the object stays set.
Searched_Kept(p, last) == [blocks[p] EXCEPT !.nb_used = IF last THEN (@ + 1) % U64 ELSE @]

\* Mutant: the count is kept in a type that does not wrap around.
Searched_Wide(p, last) ==
    [blocks[p] EXCEPT !.ones = Taken(@), !.nb_used = IF last THEN @ + 1 ELSE @]

\* The block in page p after the search of an allocation went through it; the
\* search ended there when last.
Searched(p, last) ==
    [blocks[p] EXCEPT !.ones = Taken(@),
                      !.nb_used = IF last THEN (@ + 1) % U64 ELSE @]

\* The allocation ends in the k-th block of the list; the ones before it had
\* no object to give.
FromBlock(t, o) ==
    LET list == Chain(t)
    IN \E k \in 1 .. Len(list) :
        /\ \A m \in 1 .. k - 1 : max_objects(t) \in Search(list[m])
        /\ o[1] = list[k]
        /\ o[2] \in Search(list[k]) \ {max_objects(t)}
        /\ blocks' = [p \in DOMAIN blocks |->
                        IF \E m \in 1 .. k : list[m] = p THEN Searched(p, p = list[k])
                        ELSE blocks[p]]
        /\ unassigned' = (unassigned \/ \E m \in 1 .. k : blocks[list[m]].ones = {})
        /\ status' = IF o \in held THEN "twice" ELSE status
        /\ UNCHANGED <<block_heads, free, began>>

\* Every block is full: a page becomes the next one.  pmm_xalloc panics when it
\* has none.
FromNewBlock(t, o) ==
    LET list == Chain(t)
        page == Least(free)
        last == IF list = <<>> THEN NULL ELSE Last(list)
    IN  /\ \A m \in 1 .. Len(list) : max_objects(t) \in Search(list[m])
        /\ o = IF free = {} THEN <<NULL, 0>> ELSE <<page, 0>>
        /\ unassigned' = (unassigned \/ \E m \in 1 .. Len(list) : blocks[list[m]].ones = {})
        /\ IF free = {}
           THEN status' = "exhausted" /\ UNCHANGED <<block_heads, blocks, free, began>>
           ELSE \E word \in OldWords :
                /\ block_heads' = IF last = NULL THEN [block_heads EXCEPT ![t] = page]
                                  ELSE block_heads
                /\ blocks' = [p \in DOMAIN blocks \cup {page} |->
                                IF p = page
                                THEN [create_block(t, last, word) EXCEPT
                                        !.ones = Taken(@), !.nb_used = (@ + 1) % U64]
                                ELSE IF p = last THEN [Searched(p, FALSE) EXCEPT !.next = page]
                                ELSE IF \E m \in 1 .. Len(list) : list[m] = p
                                THEN Searched(p, FALSE) ELSE blocks[p]]
                /\ free' = free \ {page}
                /\ began' = [began EXCEPT ![page] = word]
                /\ UNCHANGED status

\* The objects it may come to: the search results in the blocks of the list, the
\* first one of a new block, and the mark of a panic.
Slots(t) ==
    {<<NULL, 0>>} \cup (IF free = {} THEN {} ELSE {<<Least(free), 0>>})
    \cup UNION {{p} \X Search(p) : p \in ToSet(Chain(t))}

\* block_alloc returns the object o; when it has to panic, o names no page.
block_alloc(t, o) ==
    /\ FromBlock(t, o) \/ FromNewBlock(t, o)
    /\ held' = IF o[1] = NULL THEN held ELSE held \cup {o}
    /\ UNCHANGED missed

\* The other blocks once the one in page p has left its list.
Unlinked(p) ==
    [q \in DOMAIN blocks \ {p} |->
        [blocks[q] EXCEPT
            !.next = IF q = blocks[p].prev THEN blocks[p].next ELSE @,
            !.prev = IF q = blocks[p].next THEN blocks[p].prev ELSE @]]

\* block_free: the bit is set, and a block whose count reaches zero goes back to
\* the physical memory manager.  block_heads is not looked at: when it was the
\* first block, the head is left pointing at a page of somebody else.
block_free(t, o) ==
    LET p == o[1]
        bits == UnsetIndices(max_objects(t), o[2])
        used == (blocks[p].nb_used - 1) % U64
    IN  /\ held' = held \ {o}
        /\ UNCHANGED <<block_heads, began, unassigned>>
        /\ IF p \in ToSet(Chain(t))
           THEN /\ missed' = (missed \/ bits # {o[2]})
                /\ IF used = 0
                   THEN /\ blocks' = Unlinked(p)
                        /\ free' = free \cup {p}
                        /\ status' = IF \E i \in 0 .. max_objects(t) : <<p, i>> \in held'
                                     THEN "in use" ELSE status
                   ELSE /\ blocks' = [blocks EXCEPT ![p].nb_used = used, ![p].ones = @ \cup bits]
                        /\ UNCHANGED <<free, status>>
           ELSE status' = "unknown pointer" /\ UNCHANGED <<blocks, free, missed>>

-----------------------------------------------------------------------------
(* Correctness of the object allocator.                                    *)

Objects == UNION {{<<p, i>> : i \in 0 .. max_objects(blocks[p].type) - 1} : p \in DOMAIN blocks}

ObjectsTypeOK ==
    /\ block_heads \in [Types -> Pages \cup {NULL}]
    /\ DOMAIN blocks \subseteq Pages /\ free \subseteq Pages
    /\ \A p \in DOMAIN blocks :
        /\ blocks[p].type \in Types
        /\ blocks[p].nb_used \in 0 .. U64 - 1
        /\ blocks[p].ones \subseteq Indices(max_objects(blocks[p].type))
        /\ {blocks[p].prev, blocks[p].next} \subseteq Pages \cup {NULL}
    /\ began \in [Pages -> OldWords \cup {0}]
    /\ held \subseteq Pages \X Nat

\* As long as no free hit another bit than its own and no bitmap without a free
\* bit was searched, block_alloc and block_free keep the books: nothing is
\* handed out twice, and every object of a block is either held or free.
ObjectsExact ==
    ~missed /\ ~unassigned =>
        /\ status # "twice"
        /\ \A o \in Objects : (o \in held) # (o[2] \in blocks[o[1]].ones)

\* The lists of block_alloc and block_free hold every block of their type once,
\* with prev the reverse of next, and no block's page is free.  Of the pages that
\* happened to hold a zero where their count is, none is given back while an
\* object in it is held, and none while block_heads points at it: the objects of
\* kspace stay in the first blocks.  None of this depends on the bits: it holds
\* after they went wrong as well.
BlocksKept ==
    /\ status = "run" =>
        \A t \in Types :
            LET list == Chain(t)
            IN  /\ ToSet(list) = {p \in DOMAIN blocks : blocks[p].type = t}
                /\ IsInjective(list)
                /\ \A k \in 1 .. Len(list) :
                    blocks[list[k]].prev = IF k = 1 THEN NULL ELSE list[k - 1]
    /\ DOMAIN blocks \cap free = {}
    /\ \A o \in held : began[o[1]] = 0 => o[1] \in DOMAIN blocks
    /\ \A t \in Types : LET p == block_heads[t]
                       IN p # NULL /\ began[p] = 0 => p \in DOMAIN blocks
=============================================================================

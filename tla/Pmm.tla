--------------------------------- MODULE Pmm ---------------------------------
(***************************************************************************)
(* The physical memory manager, kernel/mm/pmm.c: the regions of the boot   *)
(* loader's memory map, a bitmap of free pages for each available one, and *)
(* pmm_xalloc and pmm_free on them.  Addresses are bytes of physical       *)
(* memory.  The bitmaps lie in memory too, from the end of the kernel on,  *)
(* so ones is a set of bit addresses: bitmaps that overlap share bits.     *)
(***************************************************************************)
EXTENDS BitmapOps, Integers, Sequences, FiniteSets

CONSTANTS
    BYTE,       \* bits of a byte; a u64 has W / BYTE of them
    PAGE,       \* PAGE_SIZE_IN_BYTES
    BIOS_END,
    PMAP_SIZE,
    KERNEL,     \* V2P(kernel_vma_stop), page aligned by the linker script
    U64,        \* number of values of a u64: differences wrap around at it
    Mmaps,      \* the memory maps the boot loader may pass
    MAX_FREES   \* bound: how many times pmm_free is called

ASSUME PmmAssumption ==
    /\ BYTE \in Nat \ {0} /\ W % BYTE = 0 /\ PAGE \in Nat \ {0} /\ U64 \in Nat \ {0}
    /\ KERNEL \in Nat /\ KERNEL % PAGE = 0 /\ PMAP_SIZE \in Nat /\ MAX_FREES \in Nat

VARIABLES
    mmap,      \* the entries pmap_init has not seen yet: [addr, len, type]
    pmap,      \* the regions, a sequence of [addr, size_in_pages, type, bitmap]
    phase,     \* "insert", "reserve", "run" or "panic"
    stop,      \* bitmap_alloc, then V2P(pmm_vma_stop)
    pa,        \* the loop variable of pmm_init
    available, \* available_pages
    ones,      \* the bits of the bitmaps that are 1: free
    owned,     \* pages callers hold
    frees,     \* bound: pmm_free calls made so far
    missed,    \* history: a bitmap_unset did not free exactly its page
    twice      \* history: a page was handed out while somebody held it

vars == <<mmap, pmap, phase, stop, pa, available, ones, owned, frees, missed, twice>>

ROUNDUP(nb, sz) == nb + sz - (nb % sz)
PAGE_ADDR(a) == a - (a % PAGE)
MAX(a, b) == IF a > b THEN a ELSE b

Stop(r) == r.addr + r.size_in_pages * PAGE
Available == {k \in 1 .. Len(pmap) : pmap[k].type = "available"}

-----------------------------------------------------------------------------
(* pmap_init: the regions, sorted by address.                              *)

\* Mutant: the pages of the kernel are not cut off.
RegionStart_NoMax(e) == PAGE_ADDR(e.addr)

\* The first page of an entry: available memory starts behind the kernel.
RegionStart(e) ==
    PAGE_ADDR(IF e.type = "available" THEN MAX(KERNEL, e.addr) ELSE e.addr)

\* The region pmap_insert makes of an entry: whole pages, the last one counted
\* even when only its first bytes are the entry's.
Region(e) ==
    LET addr == RegionStart(e)
        len == (e.len - (addr - e.addr)) % U64
        addr_stop == ROUNDUP((addr + len - 1) % U64, PAGE)
    IN [addr |-> addr, type |-> e.type, bitmap |-> 0,
        size_in_pages |-> ((addr_stop - addr) % U64) \div PAGE]

\* The entries pmap_init keeps.
Kept(e) == (e.type = "available" /\ e.addr >= BIOS_END) \/ e.type = "reserved"

\* The test of pmap_insert for an overlap with an earlier region.
Clash(r, s) == ~(r.addr >= Stop(s) \/ Stop(r) <= s.addr)

\* The least of s[k], s[k + 1], ..., the first of them when addresses are equal.
SelectMin(s, k) ==
    CHOOSE j \in k .. Len(s) :
        \A m \in k .. Len(s) : s[j].addr < s[m].addr \/ (s[j].addr = s[m].addr /\ j <= m)

\* pmap_sort, a selection sort: after pass k the first k regions are in place.
pmap_sort(s) ==
    LET pass[k \in 0 .. Len(s)] ==
            IF k = 0 THEN s
            ELSE LET t == pass[k - 1]
                     min == SelectMin(t, k)
                 IN [t EXCEPT ![k] = t[min], ![min] = t[k]]
    IN pass[Len(s)]

\* One entry of the loop of pmap_init.
pmap_insert ==
    /\ phase = "insert" /\ mmap # <<>>
    /\ LET e == Head(mmap)
           r == Region(e)
           Fits == Len(pmap) < PMAP_SIZE /\ \A k \in 1 .. Len(pmap) : ~Clash(r, pmap[k])
       IN \/ ~Kept(e) /\ UNCHANGED <<pmap, phase>>
          \/ Kept(e) /\ Fits /\ pmap' = Append(pmap, r) /\ UNCHANGED phase
          \/ Kept(e) /\ ~Fits /\ phase' = "panic" /\ UNCHANGED pmap
    /\ mmap' = Tail(mmap)
    /\ UNCHANGED <<stop, pa, available, ones, owned, frees, missed, twice>>

-----------------------------------------------------------------------------
(* The bitmaps.                                                            *)

\* The address, in bits, of index i of the bitmap at byte base: a u64 is stored
\* with its low byte first.
BitAddr(base, i) ==
    LET bit == W - 1 - (i % W) IN base * BYTE + W * (i \div W) + bit

\* What bitmap_init returns as the first address behind a bitmap.
BitmapNext(base, len) == base + BITMAP_SIZE_IN_BLOCK(len)

BitmapEnd(r) == r.bitmap + BITMAP_SIZE_IN_BLOCK(r.size_in_pages) * (W \div BYTE)

\* pmap_init's last step and pmm_init's loop over the regions: bitmap after
\* bitmap is filled with 1s, and the end rounded up to a page.
pmm_bitmaps ==
    /\ phase = "insert" /\ mmap = <<>>
    /\ LET sorted == pmap_sort(pmap)
           next[k \in 0 .. Len(pmap)] ==
               IF k = 0 THEN KERNEL
               ELSE IF sorted[k].type # "available" THEN next[k - 1]
               ELSE BitmapNext(next[k - 1], sorted[k].size_in_pages)
           pages[k \in 0 .. Len(pmap)] ==
               IF k = 0 THEN 0
               ELSE pages[k - 1] + IF sorted[k].type # "available" THEN 0
                                   ELSE sorted[k].size_in_pages
       IN /\ pmap' = [k \in 1 .. Len(pmap) |-> [sorted[k] EXCEPT !.bitmap = next[k - 1]]]
          /\ ones' = UNION {{BitAddr(next[k - 1], i) : i \in Indices(sorted[k].size_in_pages)} :
                              k \in {m \in 1 .. Len(pmap) : sorted[m].type = "available"}}
          /\ available' = pages[Len(pmap)]
          /\ stop' = ROUNDUP(next[Len(pmap)] - 1, PAGE)
    /\ phase' = "reserve"
    /\ UNCHANGED <<mmap, pa, owned, frees, missed, twice>>

-----------------------------------------------------------------------------
(* pmm_alloc and pmm_free.                                                 *)

\* The free indices of region k when the bits in o are 1.
FreeIndices(k, o) ==
    {i \in Indices(pmap[k].size_in_pages) : BitAddr(pmap[k].bitmap, i) \in o}

\* The bits after bitmap_find_and_set on each of the first k regions.
After ==
    LET after[k \in 0 .. Len(pmap)] ==
            IF k = 0 THEN ones
            ELSE IF k \notin Available THEN after[k - 1]
            ELSE LET free == FreeIndices(k, after[k - 1])
                 IN after[k - 1] \ {BitAddr(pmap[k].bitmap, i) : i \in free \ Taken(free)}
    IN after

\* What bitmap_find_and_set of region k may return when the earlier regions had
\* nothing.
FoundIn(k) == Found(FreeIndices(k, After[k - 1]), pmap[k].size_in_pages)

Fails(k) == pmap[k].size_in_pages \in FoundIn(k)

\* Mutant: len, which stands for no page, is taken for an index.
Returns_Len(k, j) ==
    k \in Available /\ (\A n \in Available : n < k => Fails(n)) /\ j \in FoundIn(k)

\* pmm_alloc may return page j of region k: the earlier regions have none.
Returns(k, j) ==
    /\ k \in Available /\ \A n \in Available : n < k => Fails(n)
    /\ j \in FoundIn(k) \ {pmap[k].size_in_pages}

\* pmm_alloc may return NULL.
ReturnsNull == \A k \in Available : Fails(k)

Page(k, j) == pmap[k].addr + j * PAGE

\* The loop of pmm_init that takes the pages of the bitmaps, in the belief that
\* pmm_alloc returns the first free page.
pmm_reserve ==
    /\ phase = "reserve"
    /\ IF pa < stop
       THEN /\ \/ ReturnsNull /\ ones' = After[Len(pmap)]
               \/ \E k \in Available : \E j \in FoundIn(k) : Returns(k, j) /\ ones' = After[k]
            /\ pa' = pa + PAGE /\ available' = available - 1
            /\ UNCHANGED phase
       ELSE phase' = "run" /\ UNCHANGED <<pa, available, ones>>
    /\ UNCHANGED <<mmap, pmap, stop, owned, frees, missed, twice>>

\* A caller gets a page, or the kernel panics because there is none.  Bound: what
\* happens after a page was handed out twice is left out.
pmm_xalloc ==
    /\ phase = "run" /\ ~twice
    /\ \/ \E k \in Available : \E j \in FoundIn(k) :
            /\ Returns(k, j)
            /\ ones' = After[k]
            /\ owned' = owned \cup {Page(k, j)}
            /\ twice' = (Page(k, j) \in owned)
            /\ UNCHANGED phase
       \/ /\ ReturnsNull
          /\ ones' = After[Len(pmap)] /\ phase' = "panic"
          /\ UNCHANGED <<owned, twice>>
    /\ UNCHANGED <<mmap, pmap, stop, pa, available, frees, missed>>

\* Mutant: another page is lost.
Freeable_Far(ptr) == ptr > stop + PAGE

\* The first test of pmm_free.
Freeable(ptr) == ptr > stop

\* The region of a page, as pmm_free looks for it.
RegionsOf(ptr) == {k \in Available : pmap[k].addr <= ptr /\ ptr < Stop(pmap[k])}

pmm_free(ptr) ==
    /\ phase = "run" /\ ~twice /\ frees < MAX_FREES /\ frees' = frees + 1
    /\ IF Freeable(ptr) /\ RegionsOf(ptr) # {}
       THEN LET k == Least(RegionsOf(ptr))
                j == (ptr - pmap[k].addr) \div PAGE
                set == UnsetIndices(pmap[k].size_in_pages, j)
            IN /\ ones' = ones \cup {BitAddr(pmap[k].bitmap, i) : i \in set}
               /\ missed' = (missed \/ set # {j})
               /\ owned' = owned \ {ptr}
               /\ UNCHANGED phase
       ELSE phase' = "panic" /\ UNCHANGED <<ones, missed, owned>>
    /\ UNCHANGED <<mmap, pmap, stop, pa, available, twice>>

-----------------------------------------------------------------------------

Init ==
    /\ mmap \in Mmaps
    /\ pmap = <<>> /\ phase = "insert"
    /\ stop = 0 /\ pa = KERNEL /\ available = 0 /\ ones = {}
    /\ owned = {} /\ frees = 0 /\ missed = FALSE /\ twice = FALSE

Next ==
    \/ pmap_insert \/ pmm_bitmaps \/ pmm_reserve \/ pmm_xalloc
    \/ \E ptr \in owned : pmm_free(ptr)

Spec == Init /\ [][Next]_vars
-----------------------------------------------------------------------------
(* pmm_next_phys_page, which vmm_init_direct_mapping walks the map with.   *)

NO_PAGE == 1 \* as 1 can't be addr of a page

\* Mutant: a region that ends at the next page is not skipped.
NextPhysPage_Touch(addr) ==
    LET next == addr + PAGE
        later == {k \in 1 .. Len(pmap) : next <= Stop(pmap[k])}
    IN IF later = {} THEN NO_PAGE ELSE MAX(next, pmap[Least(later)].addr)

\* The first page behind addr that some region has.
NextPhysPage(addr) ==
    LET next == addr + PAGE
        later == {k \in 1 .. Len(pmap) : next < Stop(pmap[k])}
    IN IF later = {} THEN NO_PAGE ELSE MAX(next, pmap[Least(later)].addr)

-----------------------------------------------------------------------------
(* Properties.                                                             *)

Booted == phase \in {"reserve", "run"}
RegionPages(k) == {Page(k, j) : j \in 0 .. pmap[k].size_in_pages - 1}
AllPages == UNION {RegionPages(k) : k \in 1 .. Len(pmap)}

\* The pages a call of pmm_alloc could still reach.
FreePages ==
    UNION {{Page(k, j) : j \in FreeIndices(k, ones) \cap (0 .. pmap[k].size_in_pages - 1)} :
             k \in Available}

\* Types: regions of whole pages, and pages of available regions in the hands of
\* the callers.
TypeOK ==
    /\ phase \in {"insert", "reserve", "run", "panic"}
    /\ \A k \in 1 .. Len(pmap) :
          /\ pmap[k].addr % PAGE = 0 /\ pmap[k].size_in_pages \in Nat
          /\ pmap[k].type \in {"available", "reserved"}
    /\ stop \in Nat /\ pa \in Nat /\ available \in Nat /\ frees \in 0 .. MAX_FREES
    /\ owned \subseteq UNION {RegionPages(k) : k \in Available}
    /\ missed \in BOOLEAN /\ twice \in BOOLEAN

\* Until a bitmap_unset frees something else, a page in the hands of a caller is
\* neither the kernel's, nor of a reserved region, nor one below pmm_vma_stop:
\* the pages pmm_init took by as many calls of pmm_alloc are the ones it meant.
PagesSafe ==
    ~missed => \A p \in owned :
        /\ p >= stop /\ stop > KERNEL
        /\ \A k \in 1 .. Len(pmap) \ Available : p \notin RegionPages(k)

\* The number pmm_init returns is right: until a bitmap_unset frees something
\* else, that many pages are free or held, and none is both.
PagesAccounted ==
    phase = "run" /\ ~missed =>
        /\ ~twice
        /\ owned \cap FreePages = {}
        /\ Cardinality(owned) + Cardinality(FreePages) = available

\* Until then, too, a holder can give back any page but one: pmm_free takes the
\* page at pmm_vma_stop, the first that is handed out, for one of the bitmaps'.
HeldPagesFreeable ==
    ~missed => \A p \in owned : p = stop \/ (Freeable(p) /\ RegionsOf(p) # {})

\* The map is what pmap_init asserts and pmap_insert panics over, whatever order
\* the boot loader lists the ranges in: the regions are in the order of their
\* addresses and no two share a page.  The walk of vmm_init_direct_mapping from
\* page 0 skips no page of it and meets none twice: every step goes to the least
\* page that is left.
WalkMeetsAllPages ==
    Booted =>
        /\ \A i, k \in 1 .. Len(pmap) : i < k => Stop(pmap[i]) <= pmap[k].addr
        /\ \A p \in AllPages \cup {0} :
              LET left == {q \in AllPages : q > p}
              IN NextPhysPage(p) = IF left = {} THEN NO_PAGE ELSE Least(left)

\* pmm_xalloc and pmm_free are the pool of FramePool until a bitmap_unset frees
\* something else: each step hands out the first free page, takes one back, or
\* changes nothing, and pmm_init leaves the pool filled.
Pool == INSTANCE FramePool WITH
    free <- IF phase \in {"run", "panic"} THEN FreePages ELSE {},
    held <- owned,
    lost <- missed
PoolRefinement == Pool!Spec

\* "returns first unused address": no bitmap starts before the one in front of it
\* ends.
BitmapsApart ==
    Booted => \A i, k \in Available : i < k => BitmapEnd(pmap[i]) <= pmap[k].bitmap
=============================================================================

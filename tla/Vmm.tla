--------------------------------- MODULE Vmm ---------------------------------
(***************************************************************************)
(* The virtual memory manager, kernel/mm/vmm.c, with the page tables of    *)
(* kernel/arch/x86_64/mm/mmu.c under it: the list of regions of every      *)
(* space, the tables that map its pages, and the frames both are made of.  *)
(* Addresses are page numbers, virtual and physical; va 0 is NULL.         *)
(*                                                                         *)
(* A call changes the list of regions at once and leaves the pages it has  *)
(* to map or unmap in work, one step for each.  Below are the contracts of *)
(* pmm_xalloc and pmm_free (FramePool: the first free frame is handed out) *)
(* and of block_alloc (a fresh structure).                                 *)
(***************************************************************************)
EXTENDS Integers, Sequences, FiniteSets, FiniteSetsExt

CONSTANTS
    KSPACE,     \* kspace
    Procs,      \* the spaces process_create may make
    PHYS,       \* physical page -> "available" or "reserved", what pmm_next_phys_page walks
    STOP,       \* V2P(pmm_vma_stop): the frames from here on are the pool's
    RO_START,   \* V2P of kernel_vma_ro_start
    RO_STOP,    \* V2P of kernel_vma_ro_stop
    DM_BASE,    \* HIGHER_HALF_START, where the direct mapping begins
    KERNEL_VMA,
    HEAP_START, \* KERNEL_HEAP_START
    HEAP_STOP,  \* KERNEL_HEAP_STOP
    FAN,        \* entries of a page table
    PAGES,      \* number of page numbers: differences wrap around at it
    Sizes,      \* sizes in pages kheap asks for
    UserRanges, \* what processes get with vmm_alloc_at: [va, size, flags]
    Devices,    \* physical pages that drivers map
    MAX_CALLS   \* bound: how many calls are made after boot

ASSUME VmmAssumption ==
    /\ STOP \in Nat /\ RO_START \in 1 .. RO_STOP - 1 /\ RO_STOP \in 1 .. STOP - 1
    /\ FAN \in Nat \ {0, 1} /\ PAGES \in Nat /\ MAX_CALLS \in Nat
    /\ Sizes \subseteq Nat \ {0} /\ KSPACE \notin Procs
    /\ HEAP_START \in Nat /\ HEAP_STOP \in Nat /\ KERNEL_VMA \in Nat /\ DM_BASE \in Nat
    /\ HEAP_START < HEAP_STOP /\ HEAP_STOP <= KERNEL_VMA
    /\ DOMAIN PHYS \subseteq Nat /\ Devices \subseteq Nat
    /\ \A u \in UserRanges : u.va \in Nat /\ u.size \in Nat \ {0}

VARIABLES
    regions, \* space -> its list of regions, [start, stop, flags]
    pages,   \* space -> (va -> [pa, flags]), the entries of its tables that are not 0
    tables,  \* space -> (<<level, index>> -> frame), its tables; level 4 is page_directory
    free,    \* frames pmm_xalloc can hand out
    work,    \* what the call in progress still has to do
    status,  \* "run", or the panic that ended it
    calls,   \* bound: calls made so far
    asked,   \* history: the <<space, va>> the last call was told to use
    given,   \* history: <<space, va>> of the pages callers hold
    leaked,  \* history: frames vmm_delete_space left behind
    stale    \* history: <<space, va>> of copies of kspace pages unmapped since

vars == <<regions, pages, tables, free, work, status, calls, asked, given, leaked, stale>>

Spaces == DOMAIN regions
FRESH == -1      \* in a job: the page gets a frame from pmm_xalloc
ABSENT == -2     \* ~0, what mmu_translate_4k returns when a table is missing
KRW == "kernel rw"
KRO == "kernel ro"

\* f with x |-> y.
With(f, x, y) == [k \in DOMAIN f \cup {x} |-> IF k = x THEN y ELSE f[k]]
Without(f, X) == [k \in DOMAIN f \ X |-> f[k]]
MAX(a, b) == IF a > b THEN a ELSE b

-----------------------------------------------------------------------------
(* The list of regions.                                                    *)

Reg(start, stop, flags) == [start |-> start, stop |-> stop, flags |-> flags]

\* vmm_add_range: how many regions stay in front of start .. stop.
Slot(rs, start, stop) ==
    LET slots == {i \in 0 .. Len(rs) - 1 : /\ i = 0 \/ start > rs[i].start
                                           /\ stop < rs[i + 1].stop}
    IN IF slots = {} THEN Len(rs) ELSE Min(slots)

\* Mutant: two ranges that touch are taken for ranges that overlap.
Overlaps_Touch(rs, i, start, stop) ==
    \/ i < Len(rs) /\ stop >= rs[i + 1].start
    \/ i > 0 /\ start <= rs[i].stop

\* The two panics of vmm_insert_range behind region i.
Overlaps(rs, i, start, stop) ==
    \/ i < Len(rs) /\ stop > rs[i + 1].start
    \/ i > 0 /\ start < rs[i].stop

\* Mutant: the new range is joined with what is behind it only.
JoinsPrev_Never(rs, i, r) == FALSE

JoinsPrev(rs, i, r) == i > 0 /\ r.start = rs[i].stop /\ r.flags = rs[i].flags

JoinsNext(rs, i, r) == i < Len(rs) /\ r.stop = rs[i + 1].start /\ rs[i + 1].flags = r.flags

\* The region vmm_insert_range returns.
Joined(rs, i, r) ==
    Reg(IF JoinsPrev(rs, i, r) THEN rs[i].start ELSE r.start,
        IF JoinsNext(rs, i, r) THEN rs[i + 1].stop ELSE r.stop, r.flags)

vmm_insert_range(rs, i, r) ==
    SubSeq(rs, 1, IF JoinsPrev(rs, i, r) THEN i - 1 ELSE i)
    \o <<Joined(rs, i, r)>>
    \o SubSeq(rs, IF JoinsNext(rs, i, r) THEN i + 2 ELSE i + 1, Len(rs))

vmm_add_range(rs, r) == vmm_insert_range(rs, Slot(rs, r.start, r.stop), r)

\* The region vmm_remove_range finds for start, 0 when there is none.
RegionOf(rs, start) ==
    LET hits == {k \in 1 .. Len(rs) : rs[k].start <= start /\ start < rs[k].stop}
    IN IF hits = {} THEN 0 ELSE Min(hits)

\* Mutant: the part behind what is removed is forgotten.
vmm_remove_range_Front(rs, k, start, stop) ==
    IF rs[k].start = start THEN SubSeq(rs, 1, k - 1) \o SubSeq(rs, k + 1, Len(rs))
    ELSE [rs EXCEPT ![k].stop = start]

\* Removing start .. stop from region k removes, shrinks or splits it.
vmm_remove_range(rs, k, start, stop) ==
    LET others == SubSeq(rs, 1, k - 1) \o SubSeq(rs, k + 1, Len(rs))
        r == rs[k]
    IN IF r.start = start /\ r.stop = stop THEN others
       ELSE IF r.start = start THEN [rs EXCEPT ![k].start = stop]
       ELSE IF r.stop = stop THEN [rs EXCEPT ![k].stop = start]
       ELSE vmm_add_range(vmm_add_range(others, Reg(r.start, start, r.flags)),
                          Reg(stop, r.stop, r.flags))

-----------------------------------------------------------------------------
(* The search of vmm_alloc_between for n pages and one more on both sides. *)

\* va when the loop is at region k of the list.
VaAt(rs, k) == MAX(IF k = 1 THEN HEAP_START ELSE rs[k - 1].stop, HEAP_START)

\* The loop ends in front of region k.
GapAt(rs, k, n) ==
    rs[k].stop >= HEAP_START /\ (rs[k].start - VaAt(rs, k)) % PAGES >= n + 2

\* How many regions the loop leaves in front of the range.
GapSlot(rs, n) ==
    LET gaps == {k \in 1 .. Len(rs) : GapAt(rs, k, n)}
    IN IF gaps = {} THEN Len(rs) ELSE Min(gaps) - 1

\* va when the loop is left: before the first region and behind the last one it
\* is not raised to lower_va.
GapVa(rs, n) ==
    LET i == GapSlot(rs, n)
    IN IF rs = <<>> THEN HEAP_START
       ELSE IF i = Len(rs) THEN rs[i].stop
       ELSE VaAt(rs, i + 1)

\* Mutant: no page of padding in front of the range.
FirstPage_NoPad(rs, n) == GapVa(rs, n)

\* The range starts one page behind va: padding.
FirstPage(rs, n) == GapVa(rs, n) + 1

\* Mutant: the first page of padding is counted twice.
ReturnsNull_Padded(rs, n) == GapVa(rs, n) + n + 3 >= HEAP_STOP

ReturnsNull(rs, n) == GapVa(rs, n) + n + 2 >= HEAP_STOP

-----------------------------------------------------------------------------
(* The page tables: one job of the call in progress.                       *)

\* What to do with the pages va .. stop - 1 of a space; next is where the loop
\* of vmm_copy_regions or vmm_init_direct_mapping goes on.
Job(do, s, r, pa, next) ==
    [do |-> do, space |-> s, va |-> r.start, stop |-> r.stop, flags |-> r.flags,
     pa |-> pa, next |-> next]
RangeJob(s, r) == Job("range", s, r, FRESH, 0)
MapJob(s, va, pa, flags) == Job("map", s, Reg(va, va + 1, flags), pa, 0)
UnmapJob(s, va) == Job("unmap", s, Reg(va, va + 1, KRW), FRESH, 0)
TestJob(s) == Job("test", s, Reg(0, 1, KRW), FRESH, 0)

\* Mutant: every level is shifted by one too few.
Table_Shifted(l, va) == <<l - 1, va \div (FAN ^ (l - 1))>>

\* The table of level l that translates va.
Table(l, va) == <<l, va \div (FAN ^ l)>>

\* Levels at which mmu_map_page has to make a table for va.
Missing(s, va) == {l \in 1 .. 3 : Table(l, va) \notin DOMAIN tables[s]}

\* The frame va leads to; an entry that is 0 leads to page 0.
mmu_translate_4k(s, va) ==
    IF Missing(s, va) # {} THEN ABSENT
    ELSE IF va \in DOMAIN pages[s] THEN pages[s][va].pa ELSE 0

\* The same in the tables of boot.asm, which map the kernel with two large pages.
mmu_translate_1gb(va) == va - KERNEL_VMA

\* The frame the k-th of several calls of pmm_xalloc returns.
Frame(k) == CHOOSE f \in free : Cardinality({g \in free : g <= f}) = k

\* Mutant: the tables that are made are not entered.
NewTables_Lost(s, va, used) == tables[s]

\* The tables of s once mmu_map_page has made the missing ones, from the top
\* down, after used other frames were taken.
NewTables(s, va, used) ==
    LET new == Missing(s, va)
    IN [t \in DOMAIN tables[s] \cup {Table(l, va) : l \in new} |->
          IF t \in DOMAIN tables[s] THEN tables[s][t]
          ELSE Frame(used + Cardinality({l \in new : l >= t[1]}))]

\* A page of the loop of vmm_alloc_between, vmm_alloc_at, vmm_map,
\* mmu_copy_pages, vmm_init_direct_mapping or vmm_init_phys_contiguous_region:
\* pmm_xalloc where the page is new, then mmu_map_page, which must find no entry.
mmu_map_page(j) ==
    LET s == j.space
        used == IF j.pa = FRESH THEN 1 ELSE 0
        need == used + Cardinality(Missing(s, j.va))
        taken == {Frame(k) : k \in 1 .. need}
        pa == IF j.pa = FRESH THEN Frame(1) ELSE j.pa
    IN /\ j.do = "map"
       /\ \/ /\ Cardinality(free) < need /\ status' = "no more memory"
             /\ UNCHANGED <<pages, tables, free, given>>
          \/ /\ Cardinality(free) >= need
             /\ status' = IF j.va \in DOMAIN pages[s] THEN "overwrite" ELSE status
             /\ pages' = [pages EXCEPT ![s] = With(@, j.va, [pa |-> pa, flags |-> j.flags])]
             /\ tables' = [tables EXCEPT ![s] = NewTables(s, j.va, used)]
             /\ free' = free \ taken
             /\ given' = IF j.pa = FRESH THEN given \cup {<<s, j.va>>} ELSE given
       /\ UNCHANGED <<regions, leaked, stale>>

\* A page of the loop of vmm_free: the entry becomes 0 and its frame goes back.
\* With no entry pmm_free panics over page 0.
mmu_unmap_page(j) ==
    LET s == j.space
        mapped == j.va \in DOMAIN pages[s]
        copies == {p \in Spaces \ {s} : s = KSPACE /\ j.va \in DOMAIN pages[p]}
    IN /\ j.do = "unmap"
       /\ status' = IF mapped THEN status ELSE "unmap"
       /\ free' = IF mapped THEN free \cup {pages[s][j.va].pa} ELSE free
       /\ pages' = [pages EXCEPT ![s] = Without(@, {j.va})]
       /\ given' = given \ {<<s, j.va>>}
       /\ stale' = stale \cup {<<p, j.va>> : p \in copies}
       /\ UNCHANGED <<regions, tables, leaked>>

\* Mutant: the copies can be written to.
mmu_copy_pages_Writable(p, r) ==
    [i \in 1 .. r.stop - r.start |->
       MapJob(p, r.start + i - 1, mmu_translate_4k(KSPACE, r.start + i - 1), KRW)]

\* The pages of a region of kspace in the space p.
mmu_copy_pages(p, r) ==
    [i \in 1 .. r.stop - r.start |->
       MapJob(p, r.start + i - 1, mmu_translate_4k(KSPACE, r.start + i - 1), r.flags)]

\* vmm_copy_regions from region k of kspace on; it ends with the test of a debug
\* build.
vmm_copy_regions(p, k) ==
    IF k > Len(regions[KSPACE]) THEN <<TestJob(p)>>
    ELSE <<Job("copy", p, regions[KSPACE][k], FRESH, k + 1)>>

DirectFlags(pa) == IF PHYS[pa] = "available" THEN KRW ELSE KRO

\* vmm_init_direct_mapping from the page behind pa on, as pmm_next_phys_page
\* finds it; vmm_init ends with the tests of a debug build.
vmm_init_direct_mapping(pa) ==
    LET later == {q \in DOMAIN PHYS : q > pa}
        q == Min(later)
    IN IF later = {} THEN <<TestJob(KSPACE)>>
       ELSE <<Job("direct", KSPACE, Reg(DM_BASE + q, DM_BASE + q + 1, DirectFlags(q)), FRESH, q)>>

\* What follows the vmm_add_range of a job: nothing, as its pages are jobs that
\* wait already, or the pages of the range and then the next turn of the loop.
Follow(j) ==
    IF j.do = "copy"
    THEN mmu_copy_pages(j.space, Reg(j.va, j.stop, j.flags)) \o vmm_copy_regions(j.space, j.next)
    ELSE IF j.do = "direct"
    THEN <<MapJob(KSPACE, j.va, j.next, j.flags)>> \o vmm_init_direct_mapping(j.next)
    ELSE <<>>

\* A vmm_add_range of vmm_init, vmm_init_direct_mapping, vmm_map or
\* vmm_copy_regions.
AddRange(j) ==
    LET rs == regions[j.space]
    IN /\ j.do \in {"range", "copy", "direct"}
       /\ \/ /\ Overlaps(rs, Slot(rs, j.va, j.stop), j.va, j.stop)
             /\ status' = "overlap" /\ UNCHANGED regions
          \/ /\ ~Overlaps(rs, Slot(rs, j.va, j.stop), j.va, j.stop)
             /\ regions' = [regions EXCEPT ![j.space] =
                              vmm_add_range(rs, Reg(j.va, j.stop, j.flags))]
             /\ UNCHANGED status
       /\ UNCHANGED <<pages, tables, free, given, leaked, stale>>

\* The pages in the regions of s.
Covered(s) == UNION {regions[s][k].start .. regions[s][k].stop - 1 : k \in 1 .. Len(regions[s])}

\* What a debug build tests: at the end of vmm_init, that the new tables map the
\* kernel as the old ones do and that what can be written to can be read, and in
\* process_create, that the new space has the regions and the pages of kspace.
mmu_test_kernel_mapping ==
    \A va \in KERNEL_VMA .. KERNEL_VMA + STOP - 1 :
        mmu_translate_1gb(va) = mmu_translate_4k(KSPACE, va)

vmm_probe_space ==
    \A k \in 1 .. Len(regions[KSPACE]) :
        regions[KSPACE][k].flags # KRO =>
            regions[KSPACE][k].start .. regions[KSPACE][k].stop - 1 \subseteq DOMAIN pages[KSPACE]

mmu_test_compare_mapping(p) ==
    /\ regions[KSPACE] = regions[p]
    /\ \A va \in Covered(KSPACE) : mmu_translate_4k(KSPACE, va) = mmu_translate_4k(p, va)

DebugTest(j) ==
    LET passed == IF j.space = KSPACE THEN mmu_test_kernel_mapping /\ vmm_probe_space
                  ELSE mmu_test_compare_mapping(j.space)
    IN /\ j.do = "test"
       /\ status' = IF passed THEN status ELSE "mismatch"
       /\ UNCHANGED <<regions, pages, tables, free, given, leaked, stale>>

\* The call in progress does its next job.
Work ==
    /\ status = "run" /\ work # <<>>
    /\ work' = Follow(Head(work)) \o Tail(work)
    /\ \/ mmu_map_page(Head(work))
       \/ mmu_unmap_page(Head(work))
       \/ AddRange(Head(work))
       \/ DebugTest(Head(work))
    /\ UNCHANGED <<calls, asked>>

-----------------------------------------------------------------------------
(* The calls.                                                              *)

\* The jobs of mapping or unmapping the pages start .. stop - 1.
MapNew(s, start, stop, flags) ==
    [i \in 1 .. MAX(stop - start, 0) |-> MapJob(s, start + i - 1, FRESH, flags)]

\* A call that was told to use the n pages at va of s.
Called(s, va, n) ==
    /\ status = "run" /\ work = <<>>
    /\ calls < MAX_CALLS /\ calls' = calls + 1
    /\ asked' = {<<s, va + i>> : i \in 0 .. n - 1}

\* Gives n pages at start the region behind region i and starts to map them: up
\* to the end of the region, which is not start + n when the next one was joined.
Allocate(s, i, start, n, flags) ==
    LET r == Reg(start, start + n, flags)
        rs == regions[s]
    IN \/ /\ Overlaps(rs, i, start, start + n)
          /\ status' = "overlap" /\ UNCHANGED <<regions, work>>
       \/ /\ ~Overlaps(rs, i, start, start + n)
          /\ regions' = [regions EXCEPT ![s] = vmm_insert_range(rs, i, r)]
          /\ work' = MapNew(s, start, Joined(rs, i, r).stop, flags)
          /\ UNCHANGED status

\* kheap asks for n pages of the heap window of kspace.
vmm_alloc_between(n) ==
    LET rs == regions[KSPACE]
    IN /\ Called(KSPACE, HEAP_START, 0)
       /\ \/ ReturnsNull(rs, n) /\ UNCHANGED <<regions, work, status>>
          \/ /\ ~ReturnsNull(rs, n)
             /\ Allocate(KSPACE, GapSlot(rs, n), FirstPage(rs, n), n, KRW)
       /\ UNCHANGED <<pages, tables, free, given, leaked, stale>>

\* A process gets pages at a place of its own choice; for va NULL it gets none.
vmm_alloc_at(s, u) ==
    /\ Called(s, u.va, u.size) /\ s # KSPACE
    /\ \/ u.va = 0 /\ UNCHANGED <<regions, work, status>>
       \/ /\ u.va # 0
          /\ Allocate(s, Slot(regions[s], u.va, u.va + u.size), u.va, u.size, u.flags)
    /\ UNCHANGED <<pages, tables, free, given, leaked, stale>>

\* A driver maps the registers of its device at their place in the direct mapping.
vmm_map(pa) ==
    /\ Called(KSPACE, DM_BASE + pa, 1)
    /\ work' = <<RangeJob(KSPACE, Reg(DM_BASE + pa, DM_BASE + pa + 1, KRW)),
                 MapJob(KSPACE, DM_BASE + pa, pa, KRW)>>
    /\ UNCHANGED <<regions, pages, tables, free, status, given, leaked, stale>>

\* The holder of the n pages at va gives them back.
vmm_free(s, va, n) ==
    LET rs == regions[s]
        k == RegionOf(rs, va)
    IN /\ Called(s, va, n)
       /\ \/ /\ k = 0 \/ va + n > rs[k].stop
             /\ status' = "range" /\ UNCHANGED <<regions, work>>
          \/ /\ k # 0 /\ va + n <= rs[k].stop
             /\ regions' = [regions EXCEPT ![s] = vmm_remove_range(rs, k, va, va + n)]
             /\ work' = [i \in 1 .. n |-> UnmapJob(s, va + i - 1)]
             /\ UNCHANGED status
       /\ UNCHANGED <<pages, tables, free, given, leaked, stale>>

\* process_create makes a space, with a page directory, and copies kspace into it.
vmm_create_space(p) ==
    /\ Called(p, 0, 0) /\ p \notin Spaces
    /\ \/ /\ free = {} /\ status' = "no more memory"
          /\ UNCHANGED <<regions, pages, tables, free, work>>
       \/ /\ free # {} /\ UNCHANGED status
          /\ regions' = With(regions, p, <<>>)
          /\ pages' = With(pages, p, <<>>)
          /\ tables' = With(tables, p, With(<<>>, Table(4, 0), Frame(1)))
          /\ free' = free \ {Frame(1)}
          /\ work' = vmm_copy_regions(p, 1)
    /\ UNCHANGED <<given, leaked, stale>>

\* The regions and the space are freed; the tables and the pages are not.
vmm_delete_space(p) ==
    LET own == {va \in DOMAIN pages[p] : <<p, va>> \in given}
    IN /\ Called(p, 0, 0) /\ p # KSPACE
       /\ regions' = Without(regions, {p})
       /\ pages' = Without(pages, {p})
       /\ tables' = Without(tables, {p})
       /\ leaked' = leaked \cup {tables[p][t] : t \in DOMAIN tables[p]}
                           \cup {pages[p][va].pa : va \in own}
       /\ given' = {g \in given : g[1] # p}
       /\ stale' = {g \in stale : g[1] # p}
       /\ UNCHANGED <<free, work, status>>

-----------------------------------------------------------------------------

\* vmm_init: kspace with a page directory, then the data, the code and the bitmaps
\* of the kernel, then page after page of the direct mapping.
KernelPart(start, stop, flags) == Reg(KERNEL_VMA + start, KERNEL_VMA + stop, flags)
kuefi == KernelPart(0, RO_START, KRW)
kcode == KernelPart(RO_START, RO_STOP, KRO)
kdata == KernelPart(RO_STOP, STOP, KRW)

vmm_init_phys_contiguous_region(r) ==
    [i \in 1 .. r.stop - r.start |->
       MapJob(KSPACE, r.start + i - 1, r.start + i - 1 - KERNEL_VMA, r.flags)]

vmm_init ==
    <<RangeJob(KSPACE, kuefi), RangeJob(KSPACE, kcode), RangeJob(KSPACE, kdata)>>
    \o vmm_init_phys_contiguous_region(kuefi)
    \o vmm_init_phys_contiguous_region(kcode)
    \o vmm_init_phys_contiguous_region(kdata)
    \o vmm_init_direct_mapping(0)

Pool == {p \in DOMAIN PHYS : PHYS[p] = "available" /\ p >= STOP}

Init ==
    /\ regions = With(<<>>, KSPACE, <<>>)
    /\ pages = With(<<>>, KSPACE, <<>>)
    /\ tables = With(<<>>, KSPACE, With(<<>>, Table(4, 0), Min(Pool)))
    /\ free = Pool \ {Min(Pool)}
    /\ work = vmm_init
    /\ status = "run" /\ calls = 0 /\ asked = {} /\ given = {} /\ leaked = {} /\ stale = {}

Next ==
    \/ Work
    \/ \E n \in Sizes : vmm_alloc_between(n)
    \/ \E s \in Spaces, u \in UserRanges : vmm_alloc_at(s, u)
    \/ \E pa \in Devices : vmm_map(pa)
    \/ \E g \in given, n \in Sizes :
         (\A i \in 0 .. n - 1 : <<g[1], g[2] + i>> \in given) /\ vmm_free(g[1], g[2], n)
    \/ \E p \in Procs : vmm_create_space(p)
    \/ \E p \in Spaces : vmm_delete_space(p)

Spec == Init /\ [][Next]_vars
-----------------------------------------------------------------------------
(* Properties.                                                             *)

Idle == status = "run" /\ work = <<>>

\* Types: every space has a list, entries and tables, and the jobs of a call are
\* for a space that exists.
TypeOK ==
    /\ KSPACE \in Spaces /\ Spaces \subseteq Procs \cup {KSPACE}
    /\ DOMAIN pages = Spaces /\ DOMAIN tables = Spaces
    /\ \A s \in Spaces :
          /\ \A k \in 1 .. Len(regions[s]) : regions[s][k].start \in Nat /\ regions[s][k].stop \in Nat
          /\ \A va \in DOMAIN pages[s] : va \in Nat /\ pages[s][va].pa \in Nat
          /\ \A t \in DOMAIN tables[s] : t[1] \in 1 .. 4 /\ tables[s][t] \in Pool
    /\ \A k \in 1 .. Len(work) : work[k].space \in Spaces
    /\ free \subseteq Pool /\ leaked \subseteq Pool /\ calls \in 0 .. MAX_CALLS
    /\ \A g \in given \cup stale : g[1] \in Spaces /\ g[2] \in DOMAIN pages[g[1]]
    /\ status \in {"run", "no more memory", "overlap", "overwrite", "range", "unmap", "mismatch"}

\* A list of regions in order and apart, in which regions that touch have
\* different flags.
ListSound(rs) ==
    /\ \A k \in 1 .. Len(rs) : rs[k].start < rs[k].stop
    /\ \A k \in 1 .. Len(rs), m \in 1 .. Len(rs) : k < m => rs[k].stop <= rs[m].start
    /\ \A k \in 1 .. Len(rs) - 1 :
          rs[k].stop = rs[k + 1].start => rs[k].flags # rs[k + 1].flags

\* vmm_insert_range and vmm_remove_range keep the regions of every space in order
\* and apart, and merge what can be merged.
RegionsSound == \A s \in Spaces : ListSound(regions[s])

\* Between calls the tables say what the regions say: a page has an entry if and
\* only if some region has it, with the flags of that region.
TablesMatchRegions ==
    Idle => \A s \in Spaces :
               /\ DOMAIN pages[s] = Covered(s)
               /\ \A k \in 1 .. Len(regions[s]) :
                     \A va \in regions[s][k].start .. regions[s][k].stop - 1 :
                        pages[s][va].flags = regions[s][k].flags

\* Every frame of the pool has one use: free, a table of one space, the page of
\* one holder, or left behind by vmm_delete_space.
FramesOneUse ==
    status # "no more memory" =>
    LET tabs == UNION {{<<s, t>> : t \in DOMAIN tables[s]} : s \in Spaces}
        tableFrames == {tables[x[1]][x[2]] : x \in tabs}
        dataFrames == {pages[x[1]][x[2]].pa : x \in given}
        uses == <<free, tableFrames, dataFrames, leaked>>
    IN /\ Cardinality(tableFrames) = Cardinality(tabs)
       /\ Cardinality(dataFrames) = Cardinality(given)
       /\ \A i, k \in 1 .. 4 : i # k => uses[i] \cap uses[k] = {}
       /\ UNION {uses[i] : i \in 1 .. 4} = Pool

\* A page that vmm_alloc_between gave to the heap has an unused page, or another
\* page of the same range, on both sides, and lies inside the window: a store
\* that runs off the end of a container faults.
GuardPages ==
    LET heap == {k \in 1 .. Len(regions[KSPACE]) :
                   <<KSPACE, regions[KSPACE][k].start>> \in given}
    IN \A k \in heap :
          /\ HEAP_START < regions[KSPACE][k].start /\ regions[KSPACE][k].stop < HEAP_STOP
          /\ {regions[KSPACE][k].start - 1, regions[KSPACE][k].stop} \cap Covered(KSPACE) = {}

\* vmm_alloc_between returns NULL only when no place of the window has room for
\* the range and a page on both sides, the very end of the window excepted.
NullMeansNoGap ==
    Idle => \A n \in Sizes :
               ReturnsNull(regions[KSPACE], n) =>
                  \A va \in HEAP_START .. HEAP_STOP - n - 3 :
                     (va .. va + n + 1) \cap Covered(KSPACE) # {}

\* The kernel part of a process' space is what kspace was when it was made: it
\* differs from kspace only at pages that kspace unmapped since, and only there
\* does an entry outside the direct mapping lead to a frame that is free.
CopiesFollowKspace ==
    \A p \in Spaces \ {KSPACE} : \A va \in DOMAIN pages[p] :
        <<p, va>> \in given \cup stale
        \/ (va \in DOMAIN pages[KSPACE] /\ pages[p][va] = pages[KSPACE][va])

\* Apart from a lack of memory a call panics only when its caller asked for
\* something in use or for several regions at once: never while the heap grows, a
\* space is copied or the kernel is mapped, and never with "overwrite of an already
\* used virtual address", over a page that is not mapped, or because a test of
\* the debug build found the tables different from what they were made from.
PanicsJustified ==
    /\ status = "overlap" => \E x \in asked : x[2] \in Covered(x[1])
    /\ status = "range" =>
          \A s \in Spaces : \A k \in 1 .. Len(regions[s]) :
             \E x \in asked : x[1] # s \/ x[2] \notin regions[s][k].start .. regions[s][k].stop - 1
    /\ status \notin {"overwrite", "unmap", "mismatch"}
=============================================================================

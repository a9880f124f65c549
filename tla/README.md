# b0s: TLA+ specifications, model checking and proofs

b0s is a small x86_64 kernel in C. This directory holds a TLA+ model of its
memory management, its scheduler, its processes and its boot sequence, the TLC
configurations that check the model on small instances, and TLAPS proofs about
the kernel heap, the bitmaps and the lists of regions.
`PROJECT.json` maps each definition to the source lines it translates.

Contents: [the system](#the-system), [modules](#modules-and-code),
[runs](#what-the-runs-check), [proofs](#what-is-proved),
[disagreements](#where-code-and-comments-disagree),
[left out](#what-is-not-modelled).

## The system

The kernel boots on one processor, builds its memory managers from the bottom
up, arms the timer of the local APIC and goes into an idle loop.

| part | code | state | operations |
|---|---|---|---|
| bitmaps | `lib/bitmap` | words of 64 bits, 1 = free | find_and_set, unset, three inits |
| physical memory | `mm/pmm.c` | the sorted memory map, one bitmap per available region | init, alloc, xalloc, free, next_phys_page |
| page tables | `arch/x86_64/mm/mmu.c` | four levels of tables per space | map, unmap, copy, switch |
| virtual memory | `mm/vmm.c` | a sorted list of regions per space | alloc_between, alloc_at, map, free, create, copy, delete |
| object allocator | `mm/vmm.c` 16-117 | pages cut into objects, a bitmap each | block_alloc, block_free |
| kernel heap | `mm/kheap.c` | containers of blocks with headers in memory | kmalloc, kfree |
| scheduler | `multitasking/sched.c` | a ring of processes, `running` | add, rmv, switch |
| signals | `multitasking/signal.c` | pending and masked bits | send, deliver |
| interrupts | `arch/x86_64/interrupts` | interrupt flag, in-service bit | handler, EOI |
| processes | `multitasking/process.c` | pids, family links, stacks, contexts | init, create, switch, first run |
| boot | `kmain.c`, `drivers/acpi`, `timers/hpet.c` | boot tags, firmware tables | read_tags, the init calls in their order |

The heap takes pages from the virtual memory manager; that one takes frames
from the physical one and its structures from the object allocator; both
allocators of small things, and the pids, sit on bitmaps. The scheduler is
called by the idle loop with interrupts on and by the timer handler with
interrupts off. Processes share the kernel half of the address space by a copy
that is made when the process is created.

What is hard here, and where the tests of the repository do not go:

- orders of `kmalloc` and `kfree` in which blocks merge with a neighbour that
  has merged before;
- integer edges: `1 << n` is an `int`, sizes wrap, `ROUNDUP` is strictly
  above, unsigned differences go below zero, bitmaps have bits behind their
  length;
- values nobody assigned: the index of a full bitmap, the signal words of a
  new process, the word in front of the list head;
- a timer interrupt inside the walk of a list, and a handler that never comes
  back to its last line;
- a copy of the kernel's mappings that ages;
- frames on a kernel stack that C code writes by the names of a structure and
  assembly reads by the order of its pops;
- firmware tables and boot tags in any order, missing, or wrong.

`PROJECT.json` lists them as hazards, each at its line, with the properties
that would catch it or the reason why none can.

## Modules and code

**Kheap** is `kheap.c` with its byte addresses. `mem` maps the address of a
header to the `struct block` there, `containers` does the same for
`struct container`, `heap` is the variable of that name, and `held` is what the
virtual memory manager has given out. A header that a merge took off the list
stays in `mem` until something is written over it, because `kfree` may still
read it through an old `prev` pointer; reading one that has been overwritten
may give anything. `kmalloc` starts a search whose cursor is `call`, and
`ScanBlock`, `ScanContainer`, `ScanFound`, `ScanGrow` and `ScanPanic` are its
steps; `kfree` is one action, since it has no loop. `vmm_alloc_between` is
its contract here: some unused base address of `Bases`. Three history variables
serve the properties: `live` (what callers hold), `listed` (headers on the next
chains) and `followed`.

`followed` becomes TRUE when a `kfree` merges into a header that is off the
list, which the code does (see below). What is claimed of the heap is claimed
up to that step. The proofs show that it is the only step that can break it.

**BitmapOps** has the bitmap as a set of bits that are 1, with the padding
behind `len` and the `int` shift of `bitmap_unset`; **Bitmap** is one bitmap
with callers that take and give back indices. `missed` is set by a
`bitmap_unset` that does not hit its own index.

**FramePool** is what a physical page allocator promises: a call of Alloc
returns the least free frame, nobody holds a frame twice, Free returns it. Once
the promise is lost it says no more. **Pmm** is `pmm.c`: `pmap_insert` takes the
entries of the memory map one by one with the overlap check, `pmm_bitmaps` sorts the map and
places the bitmaps at their byte addresses, `pmm_reserve` takes the pages the
bitmaps lie in by allocating them, and `pmm_xalloc` and `pmm_free` follow. Bits
have addresses, so two bitmaps that overlap in memory share bits. **MCPmm**
has the memory maps.

**Vmm** is `vmm.c` on `mmu.c`: the list of regions of each space, the entries
of its tables, the frames of the tables, the free frames. The functions of the
code change the list at once and then loop over pages; in the model the loop
is the queue `work`, one page a step, so running out of frames in the middle
is a state like any other. Frames come from the contract FramePool states.
The loops over regions (`vmm_copy_regions`) and over physical pages
(`vmm_init_direct_mapping`) are jobs of that queue too: `Follow` is what one
turn leaves to do. The tests of a debug build (`mmu_test_kernel_mapping`,
`vmm_probe_space`, `mmu_test_compare_mapping`) are jobs at the end of `vmm_init`
and of the copy of a space, and panic where the code does. **MCVmm** has a
machine of 24 frames.

**Objects** is the object allocator of `vmm.c`: blocks of one page with a
bitmap of BitmapOps, in a list per type. A page becomes a block with whatever
word it held at `nb_used`, so that word is a choice over `OldWords`; `began`
remembers it. The words of the run are 0, and two a few below 2^64 (here 2^6),
from which the count comes round to 0 while objects are held. `missed` and `unassigned` are set when a `bitmap_unset` hits
another bit than its own and when a bitmap without a 1 is searched, whose index
nobody assigned.

**TrapFrames** has the stack of a process as an array of words: the two frames
`process_arch_init` writes, the pushes and pops of `switch.asm` and `idt.asm`,
and the layouts of `cpu.h` as two sequences of member names. **Process**
composes it with Objects: `process_create` one step per thing it takes, its
error path, the pid bitmap, the family links, the switches to processes, by the
idle loop or by a tick in user code, and the other interrupts that meet user
code. A switch always loads the context `process_arch_init` built, so `again`
is set by the second switch to a process: the frames of its interrupts have
been pushed over that context. Of the error path only `fail_kstack` is an action:
`vmm_create_space` and `vmm_alloc_at` panic before they could return NULL.
`bitmap_init_static` on a pointer nobody assigned has three outcomes. `kmalloc` and `kfree` are the contract Kheap
shows; a call may add a container to the heap or give one back, which takes or
returns a region object. **Acpi** has `checksum` and the search for a table as
operators. **Kmain** composes Process and Acpi with `read_tags` and the init
calls of `kmain`, which run before the first process; each check that ends in a
panic, a fault or an endless loop is a status. `read_tags` has the bound of its
loop, which lies 8 times as far away as the end of the tags, and a bitmap in
which types count modulo 32. What `pmm_init` and `vmm_init` do
to memory is in Pmm and Vmm; Kmain has the objects they take. **MCKmain** has
the boot loaders and the firmware.

**Sched** is `sched.c` on `list.h`, with the timer case of
`interrupt_handler`, `schleeeeep`, `process_switch` and `signal.c`. `calls`
holds the activations of `sched_switch` on the current stack, so the walk of
the idle loop can be interrupted by another walk. An activation has its two
cursors, the links `list_del` has read, and the place it is at; each read and
each of the four writes of `list_del` is a step of its own, and a tick may come
before any of them. The compiler may read the two links in either order.
`torn` is set when a handler deletes a neighbour whose address an interrupted
`list_del` holds, or switches away for good from one that has made its first
write. `idle` tells the walk of the idle loop from its `hlt`; `inService` is the
bit of the local APIC that `local_apic_eoi` clears. `running` stays the boot process
because no line assigns it after `sched_init`. `fresh` is the set of processes
whose context is still the one `process_arch_init` built: it can be loaded
once, afterwards the stack it lies on has been reused and loading it again
goes anywhere (status "wild"). The list head is met by the walk and read as a
process; `headState` is what happens to lie in front of it, any of the four
states. Nothing in the repository calls `sched_rmv` or `signal_send` yet; the
model lets the boot process call them before its idle loop, and kernel code
on behalf of a process after that. **MCSched** has the values of signal words.

A panic, a page fault or a jump to nowhere is a status that no action leaves.
The runs turn the deadlock check off for that reason, and because the bounds
on calls end every behaviour of the models.

## What the runs check

Safety invariants unless marked: (A) action property, (L) liveness, (R)
refinement. Each module also has one type invariant.

| run | instance | what holds |
|---|---|---|
| `kheap` | real header, page and alignment sizes, two containers, six `kmalloc` of four sizes and any `kfree` | `SoundUntilFollowed`, `HeapInv`, `ListInAddressOrder`, `PagesReturned`, `PointersAligned`, `PanicOnlyOnWrap`, `LiveHeadersKept` (A), `KmallocReturns` (L) |
| `bitmap` | two words of 6 bits, a 3-bit int, 7 indices, 7 frees | `ExactUntilMissed`, `AllReusable`, `GrowingOrder` (A) |
| `pmm` | real word and page sizes, five memory maps, about 40 pages, two frees | `PagesSafe`, `PagesAccounted`, `HeldPagesFreeable`, `WalkMeetsAllPages`, `PoolRefinement` (R) |
| `vmm` | 24 frames, tables of 16 entries, a heap window of 10 pages, one process, six calls after boot | `RegionsSound`, `TablesMatchRegions`, `FramesOneUse`, `GuardPages`, `NullMeansNoGap`, `CopiesFollowKspace`, `PanicsJustified` |
| `sched` | two processes, a signal of two numbers, ticks at every step | `RingSound`, `BootStaysPreemptible`, `NoReadyMissed` (A), `HandlersDoNotFault` (A), `WalksEnd` (L) |
| `kmain` | every order of up to three boot tags, types that are equal modulo 32, lists without an end, about 400 firmwares, four processes, three pages of 12 regions or 6 spaces, six changes of the heap | `ObjectsExact`, `BlocksKept`, `NothingLeaks`, `FamilySound`, `FramesFaithful`, `BootSound` |

In words:

- heap: until a stale `prev` is followed, live allocations are disjoint and
  mapped, `next` visits each block of a container once in address order,
  `used_blocks` counts exactly the live allocations, pages go back with the
  last `kfree`, a live header does not change under its owner, and every
  `kmalloc` comes back or panics; it panics only when adding the header to the
  request wraps.
- bitmaps: until `bitmap_unset` misses its index, the bits are exactly the
  complement of what is held, indices come out in growing order, and all are
  free again when all were given back.
- physical memory: until a free goes wrong, only pages from `pmm_vma_stop` on
  that lie in no reserved range are handed out, so none of the kernel; every
  page is free or held; every held page but the one at `pmm_vma_stop` can be
  given back; the walk of `pmm_next_phys_page` meets all pages in order; and with
  one available region the manager implements FramePool.
- virtual memory: regions are ordered, apart and merged; between calls the
  tables say what the regions say; each frame has one use; heap ranges keep a
  guard page on both sides; NULL means there was no room; the copies of the
  kernel half differ only where the kernel has unmapped something since; and a
  panic other than for lack of memory has a caller that asked for what was in
  use.
- scheduler: between two deletes the list is one ring in both directions, with
  every process that was added and not removed, also where a handler deletes
  entries under the cursors of the idle loop; a `sched_switch` that comes back
  left no READY process behind; a page fault by a second `list_del` happens in
  the interrupted walk only; a handler that comes back has sent its EOI; every
  walk ends, in a switch, a return or a fault. The ring and the handlers are
  claimed up to a `list_del` that is torn (see below).
- objects: until a bit goes wrong, every region and space object is held or
  free and never both; the lists of blocks are right even afterwards; no page
  that became a block with a count of zero is given back while an object in it
  is held, and `block_heads` does not point at such a page after it was given
  back, because kspace stays in the first block.
- processes: a `process_create` that fails has given back all it took; the
  children of a process form one ring; no two created processes have the same
  pid, and the pids end with a panic and not before all are used; the frames on
  a kernel stack fit the code that reads them, for vectors with and without an
  error code and for processes a tick switches to, up to the first switch to a
  process that has run before.
- boot: when the tags have an end, `kmain` gets past `read_tags` and the first
  use of what it found exactly when both tags are there, and past the search for
  devices exactly when the firmware has them, with the first table of each kind
  and the first I/O APIC.

Bounds. The heap needs three neighbours in one container and a second
container that comes and goes for its cases: six allocations of 3001 bytes fill
one container of the least size, two of 7000 do, 24500 needs a larger one, and
2^30 - 24 wraps with `U64` = 2^30. Bitmaps keep the ratio of word and int, so
that each of the two halves of a word is reached. The physical memory manager
needs more pages than an int has bits. The virtual one needs the heap window
to fill up and fragment, and memory to run out during a loop. The scheduler
needs two processes for a switch between them and a zombie in front of
another; two nested walks are all there can be, since handlers run with
interrupts off. Of the signals, 34 is SIGSTOP modulo 32 and 63 sets 33 bits. The object allocator needs a second block of regions and words
in which an int covers only half, as with 64 and 32 bits. Three constraints
keep `kmain` small: `OneBoot` goes on to processes on one machine only, since
nothing later reads the tables; `PlainHeap` follows the processor only where
the heap did not change, since stacks do not depend on it; `Small` trades
changes of the heap against processes and stops behind the first unassigned
index.

Fairness. In Kheap, the steps of a `kmalloc` in progress are weakly fair: it is
straight code and loops. In Sched, weak fairness for the code that runs and for
the timer, which is periodic, and strong fairness for interrupted code: a
handler takes less than the ten milliseconds to the next tick. The way from the
walk to the `hlt` and from a tick out of it is part of the code that runs. The other
modules state no fairness.

## What is proved

| module | theorem | statement |
|---|---|---|
| `KheapProofs` | `HeapInvariant` | `Spec => []HeapInv` |
| | `Soundness` | `Spec => []SoundUntilFollowed` |
| | `TypeCorrect` | the type invariant, until a stale prev is followed |
| `BitmapProofs` | `BitmapTypes` | `Spec => []TypeOK` |
| | `BitmapExact` | `Spec => []ExactUntilMissed` |
| | `BitmapGrows` | `Spec => GrowingOrder` |
| `VmmProofs` | `VmmListsSound` | `Spec => []RegionsSound` |

Each holds for all values of the constants that satisfy the assumption of its
module; TLC evaluates the assumptions in every run.

### The heap

`KheapAllocProofs` has the initial state and every step of a `kmalloc`,
`KheapFreeProofs` has `kfree`, and `KheapProofs` the theorems. `KheapAssumption`
asks for positive sizes, a container of the least size with room for its two
headers, requests and bases that are naturals, and no base 0.

`SoundUntilFollowed` is not inductive: that two payloads are disjoint after a
split depends on where the blocks of the list end, that a merge stays inside
the container depends on `next`, and that pages in use are not given back
depends on `used_blocks`. `HeapInv` adds what is needed. `ContainersInv`: the
list of containers is linked both ways, containers do not overlap, and
`used_blocks` is the number of live allocations. `BlocksInv`: listed blocks lie
in their containers and do not overlap. `LinksInv`: `next` goes to the next
listed block, and `prev` points at the previous block or, after a merge, at a
header inside it; this weak form of `prev` is what the code really keeps.
`LiveInv`: a live pointer belongs to a listed, used block that is large enough.

The argument has one lemma per action. `FoundBlockStep` (take a block, with or
without a split), `CreateStep` and `RemoveStep` (containers), and
`CoalesceStep` (the two merges) carry the weight; `CursorStep` serves all
steps that only move the cursor of `kmalloc`. `NextHeapInv` collects them, and
the theorems follow with `InitHeapInv` and `HeapInvSound`.

### Bitmaps

`BitmapInv` is `TypeOK`, `ExactUntilMissed` and `BelowLastTaken`: between two
calls of `bitmap_unset` no free index is at or below the one that was returned
last. `ExactUntilMissed` alone does not imply `GrowingOrder`, because after an
earlier `bitmap_unset` any bit may be 1; what makes the order grow is that
`bitmap_find_and_set` takes the least bit. The length is any number, and the
widths of a word and of an int are positive, the int no wider than the word.

### Lists of regions

`VmmListProofs` is about lists of any length: `InsertSound` (inserting a range
that overlaps neither neighbour keeps the list in order, apart and merged,
whichever of the two joins happen), `SlotApart` (the place `vmm_add_range` finds
for a range that meets no region causes no panic), `DropSound` and
`ShrinkSound`. `VmmProofs` adds `SplitSound` and `RemoveSound` for
`vmm_remove_range`, whose split adds two ranges to a list that lacks the region,
and lifts them to the specification. `RegionsSound` is not inductive by itself:
`VmmInv` adds that kspace exists, that the ranges waiting in `work` have a page
(an empty range would make an empty region), and that callers hold pages with
an address. The argument does not depend on the tables or on the frames, so it
also covers calls that stop in the middle. `VmmAssumption` places the kernel in
order, the heap window below it, and asks for ranges that are not empty.

### Only model-checked

Everything else. Liveness is outside what the prover can do, and so is what a
fold or a recursive function computes for inputs of any length, which is what
the refinement of FramePool, the walk of Pmm, the rings of Sched and Process and
the chains of Objects are about.

## Where code and comments disagree

Each of these is a run that TLC is expected to refute, with a finding in
`PROJECT.json`:

- `kheap_overlap`: `kfree` merges a block into its predecessor and leaves the
  `prev` of the block behind it at the merged header. Freed later, that block
  is merged into the stale header, and `kmalloc` hands out memory in use.
- `bitmap_twice`: `bitmap_unset` shifts an `int`, so an index of the upper half
  of a word sets other bits than its own, and an index in use is handed out
  again.
- `pmm_overlap`: `bitmap_init` returns an address that is too low (words are
  counted as bytes), so the bitmaps of two regions share bits.
- `vmm_grow`: `vmm_alloc_at` right below a region with the same flags panics
  with an overwrite, because its loop runs to the end of the joined region.
- `sched_idle`: with nothing ready, the interrupted process goes on and the
  schleeper does not run.
- `sched_preempt`: a process whose first run is started by the timer handler is
  never preempted again, since nobody sends the EOI.

Also seen while modelling, without a run: a second switch to the same process
loads a used-up context (status "wild" of Sched, `again` of Process); the idle
loop calls `sched_switch` with interrupts on, so a tick may come inside
`list_del`: when the handler deletes the neighbour, the outer writes put the
deleted entry back into the ring, and when it switches away after the first
write, the two directions of the ring stay different (`torn` of Sched: without
it `RingSound` and `HandlersDoNotFault` are refuted); with two regions
`pmm_alloc` may return an unassigned index once the padding of the first is
used up, and may report "no more memory" with pages left; the bitmaps of more
than 128 MiB run past `pmm_vma_stop`; the page at `pmm_vma_stop` cannot be
freed; a merge of blocks loses the bytes skipped for alignment; a signal sent
to a STOPPED process is never delivered, SIGCONT included, because delivery
happens only to a process that is READY.

With the real sizes (98 regions in a block and 30 bits of padding, words of 64
bits, ints of 32) each `block_free` of index 1 to 31 loses the object, and once
index 32 has been handed out and given back, bits 0 to 32 are 1 and the first
region of kspace can be handed out again. The first pid handed out is 0, which
the boot process has too, while `signal.c:38` expects "init process (pid 1)".
When `nb_used` of a block began at a word just below 2^64, `block_free` gives
its page back while objects in it are held, and `block_heads` keeps pointing at
it if it was the first. `process.c:50` takes the first word of
`fdbitmap` for the pointer of a `struct bitmap` and writes through it.
`process_create` with a NULL parent, as in `create_init_process`, writes through
NULL; `process_init` does not set the child of the boot process. In a debug build the two
assertions of `process_init` read through a NULL process. Nothing gives back a pid or a process.
`acpi_madt_find` reads the table before it asserts that there is one, and an
entry of length 0 is read for ever; the sum of the HPET table is not checked.
Without an end tag the loop of `read_tags` goes on behind the tags, and a tag of
type 38 or 46 satisfies its check for a tag that is missing. The first trap frame of a process begins 16 bytes above where
later ones do, as `rsp0` is one below the top and the processor aligns it down.
All gates have privilege level 0, so user code cannot raise the vector of
system calls.

## What is not modelled

- The rights in table entries above the last level, and the TLB.
- The branch of `signal_deliver` that calls a handler: no code installs one.
- `hpet_sleep` and the calibration of the timer: they depend on what devices
  report and on no state of the kernel.
- The console: nothing in the kernel reads what it writes.
- Filling the IDT and the descriptor tables, masking the PIC, `boot.asm`:
  constants written in a fixed order, with no state to relate.
- The string functions: loops over bytes without state.
- `syscall` (empty), `vfs.c` (does not compile, not in the Makefile), the AHCI
  and PCI files (empty).
- `create_init_process`: `kmain` does not call it; the calls it would make are
  in Process and Vmm.

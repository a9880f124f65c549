-------------------------------- MODULE Kmain --------------------------------
(***************************************************************************)
(* The boot sequence, kernel/kmain.c, from the tags of the boot loader to  *)
(* the processes: read_tags, the objects vmm_init and kheap_init take,     *)
(* acpi_init, the devices interrupts_init looks for, process_init, and     *)
(* then process_create and the processor of Process.  Physical memory, the *)
(* page tables and the scheduler are modules of their own.                 *)
(***************************************************************************)
EXTENDS Process, Acpi

CONSTANTS
    Machines,  \* what is there at boot: info, the magic number, alignment and
               \* tags the boot loader hands over, and fw, the firmware's tables
               \* and the features the processor has
    Mapped,    \* pages of physical memory that are in the direct mapping; a device
               \* lies beside one mapped page at most
    KERNEL_REGIONS \* regions vmm_init leaves in kspace

ASSUME KmainAssumption == KERNEL_REGIONS \in Nat \ {0}

ACPI_OLD == 14
MMAP == 6
END == 0

VARIABLES
    info,        \* the boot loader's information
    tag, bitmap, \* read_tags: the tag it is at, the types it has met
    rsdp, mmap,  \* the tags kmain keeps, 0 for NULL
    fw, entry,   \* the firmware, and the MADT entry acpi_madt_find is at
    base, io_apic_base \* the pages of the devices, 0 for NULL

loader == <<info, tag, bitmap, rsdp, mmap>>
devices == <<fw, entry, base, io_apic_base>>
rest == <<call, heap, containers, kregions, process, machine, uses>>
vars == <<pc, status, objects, rest, loader, devices>>

Init ==
    /\ ProcessInit
    /\ At("kmain")
    /\ \E m \in Machines : info = m.info /\ fw = m.fw
    /\ tag = 1 /\ bitmap = {} /\ rsdp = 0 /\ mmap = 0
    /\ entry = 1 /\ base = 0 /\ io_apic_base = 0

Stop(how) == status' = how /\ UNCHANGED pc
GoTo(where) == pc' = where /\ UNCHANGED status

-----------------------------------------------------------------------------

kmain ==
    /\ At("kmain")
    /\ IF info.magic /\ info.aligned THEN GoTo("read_tags") ELSE Stop("panic")
    /\ UNCHANGED <<objects, rest, loader, devices>>

\* read_tags goes on behind a tag of this type.
ReadOn(type) == type # END

\* The word of the i-th tag, or of what lies behind the tags.
TypeAt(i) == IF i \in DOMAIN info.tags THEN info.tags[i] ELSE info.behind

\* tag < mb_infos + size.  A tag here is 8 bytes, as the head of the information
\* is; size is in bytes and counts in steps of sizeof(struct multiboot_tag).
SIZEOF_TAG == 8
InBound(i) == 8 * i < SIZEOF_TAG * (8 * (Len(info.tags) + 1))

\* One turn of the loop of read_tags.  1 << type is a shift of an int, and the
\* processor takes its count modulo 32.
read_tags ==
    LET type == TypeAt(tag)
    IN  /\ At("read_tags") /\ InBound(tag)
        /\ bitmap' = bitmap \cup {type % 32}
        /\ rsdp' = IF type = ACPI_OLD THEN tag ELSE rsdp
        /\ mmap' = IF type = MMAP THEN tag ELSE mmap
        /\ IF ReadOn(type) THEN tag' = tag + 1 /\ UNCHANGED <<pc, status>>
           ELSE UNCHANGED tag /\ GoTo("tags_read")
        /\ UNCHANGED <<info, objects, rest, devices>>

\* The loop is left, by the end tag or by its bound.
TagsAreRead ==
    /\ At("tags_read") \/ (At("read_tags") /\ ~InBound(tag))
    /\ IF {ACPI_OLD, MMAP} \subseteq bitmap THEN GoTo("local_apic_init") ELSE Stop("panic")
    /\ UNCHANGED <<objects, rest, loader, devices>>

\* Of interrupts_entry_init only this can fail.
local_apic_init ==
    /\ At("local_apic_init")
    /\ IF {"APIC", "x2APIC"} \subseteq fw.cpuid THEN GoTo("pmm_init") ELSE Stop("panic")
    /\ UNCHANGED <<objects, rest, loader, devices>>

\* What it reads without a memory map is what lies at address 0.
pmm_init ==
    /\ At("pmm_init")
    /\ IF mmap = 0 THEN Stop("null map") ELSE GoTo("vmm_init")
    /\ UNCHANGED <<objects, rest, loader, devices>>

\* A region or the space of kspace.
TakeForKspace(t) ==
    \E o \in Slots(t) : block_alloc(t, o) /\ kregions' = kregions \cup {o}

Kept == <<call, heap, containers, process, machine, uses, loader, devices>>

\* vmm_init: the space and its regions.
vmm_init ==
    /\ At("vmm_init")
    /\ TakeForKspace(IF kregions = {} THEN "space" ELSE "region")
    /\ pc' = IF Cardinality(kregions) = KERNEL_REGIONS THEN "kheap_init" ELSE pc
    /\ UNCHANGED Kept

\* kheap_init: the first container.
kheap_init ==
    /\ At("kheap_init")
    /\ Grow
    /\ pc' = "acpi_init"
    /\ UNCHANGED <<call, heap, kregions, process, machine, loader, devices>>

acpi_init ==
    /\ At("acpi_init")
    /\ IF rsdp = 0 THEN Stop("page fault")
       ELSE IF acpi_init_fails(fw.rsdp, fw.rsdt) THEN Stop("panic") ELSE GoTo("hpet_init")
    /\ UNCHANGED <<objects, rest, loader, devices>>

\* vmm_map of a device page into kspace: a panic when the page is mapped.  Beside
\* a mapped page it joins the region of that page, whose flags are the same.
vmm_map(page, then) ==
    LET mapped == Mapped \cup {base}
    IN IF page \in mapped THEN Stop("panic") /\ UNCHANGED <<objects, kregions>>
       ELSE IF {page - 1, page + 1} \cap mapped # {}
       THEN GoTo(then) /\ UNCHANGED <<objects, kregions>>
       ELSE TakeForKspace("region") /\ pc' = then

\* hpet_init: the table need not have a valid sum.
hpet_init ==
    LET i == acpi_find_table(fw.tables, "HPET")
    IN  /\ At("hpet_init")
        /\ IF i = 0 \/ (i # 0 /\ ~fw.tables[i].aligned)
           THEN Stop("panic") /\ UNCHANGED <<objects, kregions, base>>
           ELSE /\ vmm_map(fw.tables[i].address, "io_apic_init")
                /\ base' = fw.tables[i].address
        /\ UNCHANGED <<call, heap, containers, process, machine, uses, loader, fw, entry, io_apic_base>>

Madt == acpi_find_table(fw.tables, "APIC")

\* The head of acpi_madt_find reads the table before it knows there is one.
FindMadt ==
    /\ At("io_apic_init")
    /\ IF Madt = 0 THEN Stop("page fault")
       ELSE IF checksum(fw.tables[Madt].bytes) # 0 THEN Stop("panic") ELSE GoTo("acpi_madt_find")
    /\ UNCHANGED <<objects, rest, loader, devices>>

IsIoApic(e) == e.type = ACPI_MADT_IO_APIC

\* What io_apic_init does with the entry it gets.
io_apic_init(e) ==
    vmm_map(e.address, "process_init") /\ io_apic_base' = e.address

\* One turn of the loop; io_apic_init panics over a NULL.  An entry of length 0
\* is read for ever.
acpi_madt_find ==
    LET entries == fw.tables[Madt].entries
        frame == <<call, heap, containers, process, machine, uses, loader, fw, base>>
    IN  /\ At("acpi_madt_find")
        /\ IF entry > Len(entries)
           THEN Stop("panic") /\ UNCHANGED <<objects, kregions, entry, io_apic_base>>
           ELSE IF IsIoApic(entries[entry])
           THEN io_apic_init(entries[entry]) /\ UNCHANGED entry
           ELSE /\ IF entries[entry].length = 0 THEN Stop("hang") ELSE UNCHANGED <<pc, status>>
                /\ entry' = IF entries[entry].length = 0 THEN entry ELSE entry + 1
                /\ UNCHANGED <<objects, kregions, io_apic_base>>
        /\ UNCHANGED frame

\* process_init; the process is the boot process, and a heap that has nothing
\* for it is a panic.  The child of the process is what the memory held.
process_init ==
    /\ At("process_init")
    /\ \/ /\ kmalloc(<<boot, "process">>)
          /\ \E garbage \in {null, wild} : child' = [child EXCEPT ![boot] = garbage]
          /\ pc' = "pids"
       \/ Stop("panic") /\ UNCHANGED <<objects, heap, containers, child, uses>>
    /\ UNCHANGED <<call, kregions, spaces, created, pids, pid, parent, next, prev, machine, loader, devices>>

\* What bitmap_init_kheap returns is not looked at.
bitmap_init_kheap ==
    /\ At("pids")
    /\ pc' = "idle"
    /\ \/ kmalloc(<<boot, "pids">>) /\ pids' = Indices(U16_MAX)
       \/ UNCHANGED <<objects, status, heap, containers, uses, pids>>
    /\ UNCHANGED <<call, kregions, spaces, created, pid, family, machine, loader, devices>>

Next ==
    \/ kmain
    \/ read_tags
    \/ TagsAreRead
    \/ local_apic_init
    \/ pmm_init
    \/ vmm_init
    \/ kheap_init
    \/ acpi_init
    \/ hpet_init
    \/ FindMadt
    \/ acpi_madt_find
    \/ process_init
    \/ bitmap_init_kheap
    \/ ProcessNext /\ UNCHANGED <<loader, devices>>

Spec == Init /\ [][Next]_vars

-----------------------------------------------------------------------------
(* Correctness.                                                            *)
TypeOK ==
    /\ ProcessTypeOK
    /\ LET tags == SIZEOF_TAG * (Len(info.tags) + 1)
       IN tag \in 1 .. tags /\ rsdp \in 0 .. tags /\ mmap \in 0 .. tags
    /\ bitmap \subseteq 0 .. 31

\* The tags up to the end tag, or all of them.
Ends == {i \in DOMAIN info.tags : info.tags[i] = END}
Given == {i \in DOMAIN info.tags : \A e \in Ends : i <= e}
LastTag(type) ==
    LET found == {i \in Given : info.tags[i] = type}
    IN IF found = {} THEN 0 ELSE CHOOSE i \in found : \A k \in found : k <= i

\* read_tags ends well exactly when both tags are there; a type of 32 or more
\* passes for another one in the bitmap only, and kmain ends at the NULL.
TagsRead ==
    Ends # {} =>
        /\ pc \notin {"kmain", "read_tags"} => rsdp = LastTag(ACPI_OLD) /\ mmap = LastTag(MMAP)
        /\ pc \notin {"kmain", "read_tags", "tags_read", "local_apic_init", "pmm_init"} => mmap # 0
        /\ base # 0 => rsdp # 0
        /\ pc = "tags_read" /\ status # "run" => 0 \in {LastTag(ACPI_OLD), LastTag(MMAP)}
        /\ status \in {"null map", "page fault"} /\ 0 \in {rsdp, mmap} =>
              \E i \in Given : info.tags[i] >= 32

Valid(bytes) == FoldLeft(LAMBDA a, b : a + b, 0, bytes) % 256 = 0
IsFirst(seq, i, Test(_)) == Test(seq[i]) /\ \A k \in 1 .. i - 1 : ~Test(seq[k])

\* The firmware offers the kernel an HPET in page h and an I/O APIC in page a.
Offers(h, a) ==
    /\ fw.rsdp.signature = "RSD PTR " /\ Valid(fw.rsdp.bytes) /\ Valid(fw.rsdt)
    /\ {"APIC", "x2APIC"} \subseteq fw.cpuid
    /\ h \notin Mapped /\ a \notin Mapped /\ a # h
    /\ \E i, m \in DOMAIN fw.tables :
        /\ IsFirst(fw.tables, i, LAMBDA t : t.signature = "HPET")
        /\ fw.tables[i].aligned /\ fw.tables[i].address = h
        /\ IsFirst(fw.tables, m, LAMBDA t : t.signature = "APIC")
        /\ Valid(fw.tables[m].bytes)
        /\ \E e \in DOMAIN fw.tables[m].entries :
            /\ IsFirst(fw.tables[m].entries, e, LAMBDA t : t.type = 1)
            /\ fw.tables[m].entries[e].address = a
            /\ \A k \in 1 .. e - 1 : fw.tables[m].entries[k].length # 0

\* interrupts_init ends well exactly when the devices are there.
DevicesFound ==
    /\ pc \in {"process_init", "pids", "idle"} => Offers(base, io_apic_base)
    /\ pc \in {"local_apic_init", "acpi_init", "hpet_init", "io_apic_init", "acpi_madt_find"}
        /\ status \notin {"run", "exhausted"} /\ rsdp # 0 => ~\E h, a \in 1 .. 9 : Offers(h, a)

\* kmain goes on from read_tags exactly when the boot loader gave both tags it
\* needs, in whatever order and number, and with the last of each; what lies
\* behind the end tag is never taken for a tag, and a type that only looks like one
\* of the two in the bitmap gets it no further than the first use of the NULL.  It
\* gets past interrupts_init exactly on machines that have the APICs and the tables
\* it needs, with the devices that the first table of each kind and the first I/O
\* APIC entry name; on any other it stops, by a panic, by the read through NULL of
\* acpi_madt_find, or in its loop.
BootSound == TagsRead /\ DevicesFound
=============================================================================

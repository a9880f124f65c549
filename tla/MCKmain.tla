------------------------------ MODULE MCKmain ------------------------------
(* Values for the constants of the boot sequence and the processes. *)
EXTENDS Kmain

\* Twelve regions in a page and six spaces: two words of bits and one, with
\* four bits of padding each.
ObjectSizes == [region |-> 3, space |-> 7]

\* Every order of up to three tags and an end tag, with words behind it that look
\* like a tag; types that are 6 and 14 modulo 32; and tags without an end.
GoodTags == <<MMAP, ACPI_OLD, END>>
TagLists == {s \o <<END>> : s \in SeqOf({MMAP, ACPI_OLD, 8}, 3) \cup SeqOf({MMAP, ACPI_OLD, 38, 46}, 2)}
OpenLists == {<<MMAP, ACPI_OLD>>, <<MMAP>>, <<ACPI_OLD>>}
Loader(magic, aligned, tags, behind) ==
    [magic |-> magic, aligned |-> aligned, tags |-> tags, behind |-> behind]
Loaders == {Loader(TRUE, TRUE, tags, w) : tags \in TagLists, w \in {MMAP, ACPI_OLD}}
           \cup {Loader(TRUE, TRUE, tags, w) : tags \in OpenLists, w \in {END, 8, ACPI_OLD}}
           \cup {Loader(FALSE, TRUE, GoodTags, END), Loader(TRUE, FALSE, GoodTags, END)}

\* Tables: bytes whose sum is a multiple of 256 only as a u8, and a sum that is
\* wrong; an HPET that is not aligned or lies in memory; MADT entries of a local
\* APIC, of the I/O APIC, and of length 0.
Good == <<200, 56>>
Bad == <<200, 57>>
Hpet(address, aligned) ==
    [signature |-> "HPET", bytes |-> Bad, address |-> address, aligned |-> aligned, entries |-> <<>>]
MadtOf(bytes, entries) ==
    [signature |-> "APIC", bytes |-> bytes, address |-> 0, aligned |-> TRUE, entries |-> entries]
Lapic == [type |-> 0, length |-> 8, address |-> 0]
IoApic(page) == [type |-> 1, length |-> 12, address |-> page]
NoLength == [type |-> 4, length |-> 0, address |-> 0]
Facp == [signature |-> "FACP", bytes |-> Good, address |-> 0, aligned |-> TRUE, entries |-> <<>>]
Madts == {MadtOf(b, e) : b \in {Good, Bad},
            e \in {<<>>, <<Lapic>>, <<IoApic(5)>>, <<Lapic, IoApic(5), IoApic(6)>>,
                   <<NoLength, IoApic(5)>>, <<IoApic(3)>>, <<IoApic(7)>>}}
Tables == {Hpet(7, TRUE), Hpet(8, TRUE), Hpet(7, FALSE), Hpet(3, TRUE), Facp} \cup Madts
Firmware(signature, bytes, rsdt, tables) ==
    [rsdp |-> [signature |-> signature, bytes |-> bytes], rsdt |-> rsdt, tables |-> tables,
     cpuid |-> {"APIC", "x2APIC"}]
GoodFirmware == Firmware("RSD PTR ", Good, Good, <<Hpet(7, TRUE), MadtOf(Good, <<IoApic(5)>>)>>)
FirmwareSet ==
    {Firmware("RSD PTR ", Good, Good, t) : t \in SeqOf(Tables, 2) \cup {<<Facp>> \o GoodFirmware.tables}}
    \cup {Firmware("RSD PTR ", Good, Good, <<Hpet(7, TRUE), Hpet(8, TRUE)>> \o <<m>>) : m \in Madts}
    \cup {Firmware(sig, b, r, GoodFirmware.tables) :
            sig \in {"RSD PTR ", "RSD PTR?"}, b \in {Good, Bad}, r \in {Good, Bad}}
    \cup {[GoodFirmware EXCEPT !.cpuid = c] : c \in {{"APIC"}, {"x2APIC"}}}

\* Every boot loader with one firmware, and every firmware with one boot loader.
GoodLoader == Loader(TRUE, TRUE, GoodTags, END)
Boots == {[info |-> l, fw |-> GoodFirmware] : l \in Loaders}
         \cup {[info |-> GoodLoader, fw |-> f] : f \in FirmwareSet}

\* Processes are created on one of them.
OneBoot == pc \in {"pids", "idle", "kstack", "space", "copy", "ustack", "fill"} =>
              info = GoodLoader /\ fw = GoodFirmware

\* The processor is followed where the heap did not grow: the stacks do not
\* depend on it.
PlainHeap == cpu.on # boot => uses = 1 /\ \A p \in Pages : began[p] = 0

\* The heap changes less often where more processes are created, families take
\* every shape where it does not, and nothing is followed beyond the first index
\* that was never assigned.
Small ==
    /\ uses + Cardinality(created) <= 6
    /\ uses > 1 => \A p \in created : parent[p] = boot
    /\ ~unassigned
=============================================================================

-------------------------------- MODULE Acpi --------------------------------
(***************************************************************************)
(* The reading of firmware tables, kernel/drivers/acpi/acpi.c.  A table is *)
(* a record of its signature, its bytes as far as the sum is concerned,    *)
(* the address an HPET table names and the entries of a MADT; a MADT entry *)
(* is a record of its type, its length and the address it names.  0 is the *)
(* NULL of acpi_find_table.                                                *)
(***************************************************************************)
EXTENDS Naturals, Sequences, SequencesExt

ACPI_MADT_IO_APIC == 1

\* Mutant: the sum is kept in a type that does not wrap around.
checksum_Wide(bytes) == FoldLeft(LAMBDA sum, b : sum + b, 0, bytes)

\* The u8 sum of the bytes.
checksum(bytes) == FoldLeft(LAMBDA sum, b : (sum + b) % 256, 0, bytes)

\* The first table of the rsdt with the signature, or 0.
acpi_find_table(tables, signature) ==
    LET found == {i \in DOMAIN tables : tables[i].signature = signature}
    IN IF found = {} THEN 0 ELSE CHOOSE i \in found : \A k \in found : i <= k

\* acpi_init panics.
acpi_init_fails(rsdp, rsdt) ==
    rsdp.signature # "RSD PTR " \/ checksum(rsdp.bytes) # 0 \/ checksum(rsdt) # 0
=============================================================================

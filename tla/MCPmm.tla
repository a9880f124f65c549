-------------------------------- MODULE MCPmm --------------------------------
(* Memory maps for Pmm.  KERNEL is 0x210000.                               *)
EXTENDS Pmm

Entry(a, l, t) == [addr |-> a, len |-> l, type |-> t]

\* What firmware reports for a small machine: low memory and the BIOS, one range
\* the kernel was loaded into that is not a whole number of pages long, and a
\* reserved range behind it; in two orders, with an entry of another type.
OneRegion ==
    {<<Entry(0, 654336, "available"), Entry(654336, 1024, "reserved"),
       Entry(1048576, 1280 * 1000, "available"), Entry(2453504, 8192, "reserved")>>,
     <<Entry(2453504, 5000, "reserved"), Entry(2400000, 10, "acpi"),
       Entry(1048576, 1261568, "available"), Entry(983040, 65536, "reserved")>>}

\* Ranges that overlap, and more ranges than pmap has room for.
BadMaps ==
    {<<Entry(1048576, 1261568, "available"), Entry(2305000, 4096, "reserved")>>,
     <<Entry(2305000, 4096, "reserved"), Entry(1048576, 1261568, "available")>>,
     <<Entry(0, 4096, "reserved"), Entry(8192, 4096, "reserved"),
       Entry(16384, 4096, "reserved"), Entry(24576, 4096, "reserved"),
       Entry(32768, 4096, "reserved")>>}

GoodAndBadMaps == OneRegion \cup BadMaps

\* A hole splits the memory behind the kernel in two: 60 pages and 8, which leaves
\* the bitmap of the first 4 bits that stand for no page.
TwoRegions ==
    {<<Entry(1048576, 1359872, "available"), Entry(2408448, 4096, "reserved"),
       Entry(2412544, 32768, "available")>>}
=============================================================================

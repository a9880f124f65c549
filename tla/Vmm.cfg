\* Tables of 16 entries.  The direct mapping is at pages 16 .. 41, the heap window
\* has 8 pages and the kernel is right behind it.
CONSTANTS
    KSPACE = kspace
    Procs = {p1}
    PHYS <- Machine
    STOP = 3
    RO_START = 1
    RO_STOP = 2
    DM_BASE = 16
    KERNEL_VMA = 62
    HEAP_START = 52
    HEAP_STOP = 62
    FAN = 16
    PAGES = 1024
    Sizes = {1, 2, 3}
    UserRanges <- InitProcess
    Devices = {1, 25}
    MAX_CALLS = 6
SPECIFICATION Spec
CHECK_DEADLOCK FALSE
INVARIANTS
    TypeOK
    RegionsSound
    TablesMatchRegions
    FramesOneUse
    GuardPages
    NullMeansNoGap
    CopiesFollowKspace
    PanicsJustified

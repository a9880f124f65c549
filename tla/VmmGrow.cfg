\* A process whose stack grows down by a page.
CONSTANTS
    KSPACE = kspace
    Procs = {p1}
    PHYS <- Machine
    STOP = 3
    RO_START = 1
    RO_STOP = 2
    DM_BASE = 16
    KERNEL_VMA = 62
    HEAP_START = 52
    HEAP_STOP = 62
    FAN = 16
    PAGES = 1024
    Sizes = {1, 2, 3}
    UserRanges <- GrownStack
    Devices = {1, 25}
    MAX_CALLS = 3
SPECIFICATION Spec
CHECK_DEADLOCK FALSE
INVARIANT
    PanicsJustified

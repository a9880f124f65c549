\* Two available ranges: two bitmaps, one behind the other.
CONSTANTS
    W = 64
    INT = 32
    BYTE = 8
    PAGE = 4096
    BIOS_END = 1048576
    PMAP_SIZE = 4
    KERNEL = 2162688
    U64 = 1073741824
    Mmaps <- TwoRegions
    MAX_FREES = 0
SPECIFICATION Spec
CHECK_DEADLOCK FALSE
INVARIANT
    BitmapsApart

\* The real sizes of words and pages; one available range of about 40 pages.
CONSTANTS
    W = 64
    INT = 32
    BYTE = 8
    PAGE = 4096
    BIOS_END = 1048576
    PMAP_SIZE = 4
    KERNEL = 2162688
    U64 = 1073741824
    Mmaps <- GoodAndBadMaps
    MAX_FREES = 2
SPECIFICATION Spec
CHECK_DEADLOCK FALSE
INVARIANTS
    TypeOK
    PagesSafe
    PagesAccounted
    HeldPagesFreeable
    WalkMeetsAllPages
PROPERTY
    PoolRefinement

CONSTANTS
    W = 12
    INT = 6
    SIZE <- ObjectSizes
    PAGE = 60
    BLOCK = 12
    U64 = 64
    Pages = {1, 2, 3}
    OldWords = {0, 61, 63}
    STACK = 32
    Procs = {1, 2, 3, 4}
    boot = boot
    null = null
    wild = wild
    U16_MAX = 3
    Vectors = {0, 13, 14, 60, 255}
    MAX_USES = 6
    Machines <- Boots
    Mapped = {1, 2, 3}
    KERNEL_REGIONS = 1
SPECIFICATION Spec
CHECK_DEADLOCK FALSE
CONSTRAINTS OneBoot PlainHeap Small
INVARIANTS
    TypeOK
    ObjectsExact
    BlocksKept
    NothingLeaks
    FamilySound
    FramesFaithful
    BootSound

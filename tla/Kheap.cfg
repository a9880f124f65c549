\* The real sizes of the headers, of a page and of the alignment; room for two
\* containers; requests of which six, two and none fit into a container of the
\* least size, and one whose sum with the header wraps around.
CONSTANTS
    WORD = 8
    HDR = 40
    CHDR = 40
    ALIGN = 16
    PAGE = 4096
    MIN_PAGES = 5
    INIT_PAGES = 1
    U64 = 1073741824
    Sizes = {3001, 7000, 24500, 1073741800}
    Bases = {40960, 81920}
    MAX_CALLS = 6
SPECIFICATION Spec
CHECK_DEADLOCK FALSE
INVARIANTS
    TypeOK
    SoundUntilFollowed
    HeapInv
    ListInAddressOrder
    PagesReturned
    PointersAligned
    PanicOnlyOnWrap
PROPERTIES
    LiveHeadersKept
    KmallocReturns

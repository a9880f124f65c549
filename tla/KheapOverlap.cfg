CONSTANTS
    WORD = 8
    HDR = 40
    CHDR = 40
    ALIGN = 16
    PAGE = 4096
    MIN_PAGES = 5
    INIT_PAGES = 1
    U64 = 1073741824
    Sizes = {3000, 4000}
    Bases = {40960}
    MAX_CALLS = 9
SPECIFICATION Spec
CHECK_DEADLOCK FALSE
INVARIANTS
    PayloadsDisjoint

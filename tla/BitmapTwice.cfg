\* The real widths, and a bitmap that ends in its first word.
CONSTANTS
    W = 64
    INT = 32
    LEN = 40
    MAX_FREES = 1
SPECIFICATION Spec
CHECK_DEADLOCK FALSE
INVARIANT
    NeverTwice

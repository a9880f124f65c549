\* Words of 6 bits and ints of 3 keep the ratio of the real 64 and 32; 7
\* indices fill one word and begin the second, and all can be given back.
CONSTANTS
    W = 6
    INT = 3
    LEN = 7
    MAX_FREES = 7
SPECIFICATION Spec
CHECK_DEADLOCK FALSE
INVARIANTS
    TypeOK
    ExactUntilMissed
    AllReusable
PROPERTY
    GrowingOrder

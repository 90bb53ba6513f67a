\* One frame below the heap, a heap of five pages of which four are mapped.
CONSTANTS
    WORD = 64
    PAGE = 6
    HDR = 2
    PTR = 1
    TOTAL = 8
    RESERVED = 1
    TABLES = 1
    HEAP_START = 18
    HEAP_MAX = 48
    MAPPED = 7
    Sizes = {0, 1, 9}
    Aligns = {2}
    MaxOwned = 2
    MaxLive = 4
SPECIFICATION Spec
INVARIANTS  FramesAccounted
CHECK_DEADLOCK FALSE

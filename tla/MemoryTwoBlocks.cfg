\* Callers hold at most two small blocks at a time; the heap has room for four.
CONSTANTS
    WORD = 64
    PAGE = 6
    HDR = 2
    PTR = 1
    TOTAL = 8
    RESERVED = 1
    TABLES = 1
    HEAP_START = 18
    HEAP_MAX = 48
    MAPPED = 7
    Sizes = {1}
    Aligns = {}
    MaxOwned = 0
    MaxLive = 2
SPECIFICATION Spec
INVARIANT MallocReturns
CHECK_DEADLOCK FALSE

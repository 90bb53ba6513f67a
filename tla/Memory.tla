------------------------------- MODULE Memory -------------------------------
(***************************************************************************)
(* Kernel memory: the frame bitmap (mm/pmm.c), the heap (mm/heap.c) and    *)
(* the frames that address spaces take (mm/paging.c).  They share physical *)
(* memory: kmain passes the heap no page directory, so the heap grows over *)
(* the identity-mapped frames from HEAP_START on and marks them reserved   *)
(* only as it reaches them.                                                *)
(*                                                                         *)
(* Addresses are numbers and frame f covers f*PAGE .. (f+1)*PAGE - 1.  The *)
(* model starts after heap_init; boot goes on with the heap alone, until   *)
(* paging_init.                                                            *)
(***************************************************************************)
EXTENDS Naturals, Sequences, FiniteSets

CONSTANTS
    WORD,           \* 2^32, the range of a usize
    PAGE,           \* PAGE_SIZE and PMM_FRAME_SIZE
    HDR,            \* sizeof(heap_chunk_t)
    PTR,            \* sizeof(void *)
    TOTAL,          \* total_frames_count
    RESERVED,       \* frames pmm_init takes: kernel and bitmap
    TABLES,         \* frames paging_init takes for the kernel's tables
    HEAP_START, HEAP_MAX,
    MAPPED,         \* frames paging_init maps, 16 MiB of them
    Sizes,          \* sizes asked for
    Aligns,         \* alignments asked for
    MaxOwned,       \* bound: frames that address spaces hold at a time
    MaxLive         \* bound: heap blocks held at a time

ASSUME MemoryAssumption ==
    /\ {WORD, PAGE, HDR, PTR, TOTAL, RESERVED} \subseteq Nat \ {0}
    /\ {TABLES, HEAP_START, HEAP_MAX, MAPPED, MaxOwned, MaxLive} \subseteq Nat
    /\ HEAP_START % PAGE = 0 /\ HEAP_MAX % PAGE = 0
    /\ (RESERVED + TABLES) * PAGE <= HEAP_START /\ HEAP_START <= MAPPED * PAGE
    /\ HEAP_START <= HEAP_MAX /\ HEAP_MAX <= TOTAL * PAGE
    /\ Sizes \subseteq Nat /\ Aligns \subseteq Nat \ {0}
    \* No caller asks for almost the whole address space.
    /\ \A n \in Sizes, a \in Aligns \cup {1} : n + a + PTR + HDR + PAGE < WORD

VARIABLES
    used,           \* frame_bitmap: the frames whose bit is set
    frames_used,
    chunks,         \* the list from heap_base on
    heap_end_addr,
    paging,         \* paging_init has run
    kernel_tables,  \* the frames it took
    owned,          \* frames handed to address spaces and not freed
    live,           \* blocks handed to callers and not freed
    peak,           \* history: most frames owned at a time
    stuck           \* the CPU repeats a page fault, which has no handler

frames == <<used, frames_used>>
heap == <<chunks, heap_end_addr>>
boot == <<paging, kernel_tables>>
clients == <<owned, peak>>
vars == <<frames, heap, boot, clients, live, stuck>>

Frames == 0..TOTAL-1
Chunk == [addr : Nat, size : Nat, free : BOOLEAN]
\* size is the size asked for, raw what free gets back.
Block == [ptr : Nat, raw : Nat, size : Nat]

TypeOK ==
    /\ used \subseteq Frames /\ frames_used \in 0..TOTAL
    /\ chunks \in Seq(Chunk)
    /\ heap_end_addr \in HEAP_START..HEAP_MAX
    /\ paging \in BOOLEAN /\ kernel_tables \subseteq Frames
    /\ owned \subseteq Frames
    /\ live \subseteq Block
    /\ peak \in 0..MaxOwned /\ stuck \in BOOLEAN

\* pmm_init, then heap_init.
Init ==
    /\ used = 0..RESERVED-1 /\ frames_used = RESERVED
    /\ chunks = << >> /\ heap_end_addr = HEAP_START
    /\ paging = FALSE /\ kernel_tables = {}
    /\ owned = {} /\ live = {}
    /\ peak = 0 /\ stuck = FALSE

Least(S) == CHOOSE x \in S : \A y \in S : x <= y

-----------------------------------------------------------------------------
(* Frames.                                                                 *)

\* The lowest clear bit.
FirstFreeFrame == Least(Frames \ used)

\* pmm_alloc_frame; without a clear bit it returns 0 and nothing changes.
AllocFrame ==
    /\ paging /\ used # Frames /\ Cardinality(owned) < MaxOwned
    /\ used' = used \cup {FirstFreeFrame}
    /\ frames_used' = frames_used + 1
    /\ owned' = owned \cup {FirstFreeFrame}
    /\ peak' = IF Cardinality(owned') > peak THEN Cardinality(owned') ELSE peak
    /\ UNCHANGED <<heap, boot, live>>

\* A user page is filled through a temporary mapping, wherever its frame is.
UserPage == AllocFrame /\ stuck' = stuck

\* A page directory or page table is cleared through the identity mapping.
PageTable == AllocFrame /\ stuck' = (FirstFreeFrame >= MAPPED)

\* paging_init: the kernel's page directory and its tables, lowest frames first.
\* What boot has allocated before it is mapped.
PagingInit ==
    /\ ~paging /\ heap_end_addr <= MAPPED * PAGE
    /\ paging' = TRUE
    /\ \E T \in SUBSET (Frames \ used) :
        /\ Cardinality(T) = TABLES
        /\ \A f \in T, g \in Frames \ (used \cup T) : f < g
        /\ used' = used \cup T
        /\ frames_used' = frames_used + TABLES
        /\ kernel_tables' = T
    /\ UNCHANGED <<heap, clients, live, stuck>>

\* Mutant of FreeFrame: the bit stays set.
FreeFrameKept(f) ==
    /\ frames_used' = IF f \in used THEN frames_used - 1 ELSE frames_used
    /\ owned' = owned \ {f}
    /\ UNCHANGED <<used, heap, boot, live, peak, stuck>>

\* pmm_free_frame, from paging_destroy_address_space and the error paths of exec.
FreeFrame(f) ==
    /\ used' = used \ {f}
    /\ frames_used' = IF f \in used THEN frames_used - 1 ELSE frames_used
    /\ owned' = owned \ {f}
    /\ UNCHANGED <<heap, boot, live, peak, stuck>>

\* pmm_reserve_region: frames already in use are accepted silently.
Reserve(F) ==
    /\ used' = used \cup F
    /\ frames_used' = frames_used + Cardinality(F \ used)

-----------------------------------------------------------------------------
(* The heap.  Every operation runs to its end, in a system call or at boot. *)

\* Mutant of PagesFor: room for the payload only.
PagesForPayload(size) == (size + PAGE - 1) \div PAGE

\* Pages request_space asks for.
PagesFor(size) ==
    LET total == (size + HDR) % WORD IN ((total + PAGE - 1) % WORD) \div PAGE

\* Pages left in the heap's range, and pages of it that can be cleared.
Room == (HEAP_MAX - heap_end_addr) \div PAGE
Mapped == IF ~paging THEN Room
          ELSE IF heap_end_addr < MAPPED * PAGE
          THEN (MAPPED * PAGE - heap_end_addr) \div PAGE ELSE 0

\* Pages expand_heap_by_pages really adds of n: up to the end of the heap or to
\* the first page it cannot clear.  What it has added before it fails stays.
Added(n) == Least({n, Room, Mapped})

\* The loop reaches a page that is in the heap's range and not mapped.
Faults(n) == Mapped < n /\ Mapped < Room

\* find_free_chunk: the first free chunk that is large enough.
Fits(size) == {i \in DOMAIN chunks : chunks[i].free /\ chunks[i].size >= size}

\* What malloc does for size > 0: the list and the end of the heap afterwards,
\* and the pointer, 0 for NULL.
Malloc(size) ==
    LET n == PagesFor(size)
        fit == Least(Fits(size))
    IN  CASE Fits(size) # {} ->
               [chunks |-> [chunks EXCEPT ![fit].free = FALSE],
                added |-> 0, ptr |-> chunks[fit].addr + HDR, stuck |-> FALSE]
          [] Fits(size) = {} /\ Added(n) = n ->
               [chunks |-> Append(chunks, [addr |-> heap_end_addr, size |-> size,
                                           free |-> FALSE]),
                added |-> n, ptr |-> heap_end_addr + HDR, stuck |-> FALSE]
          [] OTHER ->
               [chunks |-> chunks, added |-> Added(n), ptr |-> 0,
                stuck |-> Faults(n)]

\* The frames m reserved; the one at which it got stuck among them.
Grow(m) ==
    LET first == heap_end_addr \div PAGE
        last == first + m.added IN
    /\ Reserve(first .. IF m.stuck THEN last ELSE last - 1)
    /\ heap_end_addr' = heap_end_addr + m.added * PAGE
    /\ stuck' = m.stuck

\* Merges chunk i+1 into chunk i when both are free.
Absorb(cs, i) ==
    IF i \in 1..Len(cs)-1 /\ cs[i].free /\ cs[i+1].free
    THEN SubSeq(cs, 1, i - 1)
         \o <<[cs[i] EXCEPT !.size = @ + HDR + cs[i+1].size]>>
         \o SubSeq(cs, i + 2, Len(cs))
    ELSE cs

\* The list after free(raw): the next chunk is merged first, then the previous.
Free(cs, raw) ==
    LET i == CHOOSE j \in DOMAIN cs : cs[j].addr + HDR = raw
    IN  Absorb(Absorb([cs EXCEPT ![i].free = TRUE], i), i - 1)

\* malloc(size), and calloc(n, m) with n * m = size.
Allocate(size) ==
    LET m == Malloc(size) IN
    /\ size > 0 /\ Cardinality(live) < MaxLive
    /\ Grow(m)
    /\ chunks' = m.chunks
    /\ live' = IF m.ptr = 0 THEN live
               ELSE live \cup {[ptr |-> m.ptr, raw |-> m.ptr, size |-> size]}
    /\ UNCHANGED <<boot, clients>>

AlignUp(a, align) == ((a + align - 1) \div align) * align

\* malloc_align: the pointer that free_align needs is stored below the block.
AllocateAligned(size, align) ==
    LET m == Malloc((size + align - 1 + PTR) % WORD) IN
    /\ Cardinality(live) < MaxLive
    /\ Grow(m)
    /\ chunks' = m.chunks
    /\ live' = IF m.ptr = 0 THEN live
               ELSE live \cup {[ptr |-> AlignUp(m.ptr + PTR, align),
                                raw |-> m.ptr, size |-> size]}
    /\ UNCHANGED <<boot, clients>>

\* free of a plain block, free_align of an aligned one.
Release(b) ==
    /\ chunks' = Free(chunks, b.raw)
    /\ live' = live \ {b}
    /\ UNCHANGED <<frames, heap_end_addr, boot, clients, stuck>>

\* realloc within the chunk returns the same pointer.
ReallocInPlace(b, size) ==
    /\ \E i \in DOMAIN chunks : chunks[i].addr + HDR = b.raw /\ size <= chunks[i].size
    /\ live' = (live \ {b}) \cup {[b EXCEPT !.size = size]}
    /\ UNCHANGED <<frames, heap, boot, clients, stuck>>

\* realloc beyond the chunk: malloc, copy, free; a failed malloc keeps the block.
ReallocMove(b, size) ==
    LET m == Malloc(size) IN
    /\ \E i \in DOMAIN chunks : chunks[i].addr + HDR = b.raw /\ size > chunks[i].size
    /\ Grow(m)
    /\ IF m.ptr = 0
       THEN UNCHANGED <<chunks, live>>
       ELSE /\ chunks' = Free(m.chunks, b.raw)
            /\ live' = (live \ {b}) \cup
                          {[ptr |-> m.ptr, raw |-> m.ptr, size |-> size]}
    /\ UNCHANGED <<boot, clients>>

HeapFrames == HEAP_START \div PAGE .. (heap_end_addr \div PAGE) - 1

\* Once a frame is both a heap page and part of an address space, each overwrites
\* the other and nothing is known of what follows: the model ends there.
Shared == (owned \cup kernel_tables) \cap HeapFrames # {}

Plain == {b \in live : b.ptr = b.raw}

Next ==
    /\ ~stuck /\ ~Shared
    /\ \/ PagingInit \/ UserPage \/ PageTable
       \/ \E f \in owned : FreeFrame(f)
       \/ \E size \in Sizes : Allocate(size)
       \/ \E size \in Sizes, align \in Aligns : AllocateAligned(size, align)
       \/ \E b \in live : Release(b)
       \/ \E b \in Plain, size \in Sizes \ {0} :
              ReallocInPlace(b, size) \/ ReallocMove(b, size)

Spec == Init /\ [][Next]_vars

-----------------------------------------------------------------------------
(* Properties.                                                             *)

Bytes(b) == b.ptr .. b.ptr + b.size - 1
Headers == UNION {chunks[i].addr .. chunks[i].addr + HDR - 1 : i \in DOMAIN chunks}

\* The bytes a caller was given belong to it alone until it frees them: no other
\* block and no chunk header lies in them, whatever was merged and reused before
\* (malloc, realloc, malloc_align, free).
BlocksDisjoint ==
    /\ \A b, c \in live : b # c => Bytes(b) \cap Bytes(c) = {}
    /\ \A b \in live : /\ Bytes(b) \cap Headers = {}
                       /\ Bytes(b) \subseteq HEAP_START .. heap_end_addr - 1

\* free merges "adjacent free blocks" (heap.h): the list never holds two in a row.
Merged(cs) == \A i \in 1..Len(cs)-1 : ~(cs[i].free /\ cs[i+1].free)
NoFreeNeighbours == Merged(chunks)

\* A chunk is in use exactly as long as some caller holds its block: nothing is
\* lost by realloc, free_align or a failed allocation.
ChunksAccounted ==
    {chunks[i].addr + HDR : i \in {j \in DOMAIN chunks : ~chunks[j].free}}
        = {b.raw : b \in live}

\* frames_used is the number of set bits, through allocation, freeing and the
\* heap's reservations of frames that may already be in use.
FramesCounted == frames_used = Cardinality(used)

\* The heap and the address spaces use the same frame only if address spaces once
\* held more frames than there are below the heap: pmm_alloc_frame takes the lowest
\* frame, and that alone keeps the two apart.
SharedOnlyUnderPressure ==
    Shared => peak > HEAP_START \div PAGE - RESERVED - TABLES

\* The heap as its callers see it (malloc, free, realloc, malloc_align): blocks
\* of their own, none lost, free neighbours merged, through any mix of calls.
HeapSound == TypeOK /\ BlocksDisjoint /\ ChunksAccounted /\ NoFreeNeighbours

\* The frame bitmap (pmm.c): what is counted is what is set, and the heap meets an
\* address space only under pressure.
FramesAccounted == FramesCounted /\ SharedOnlyUnderPressure

-----------------------------------------------------------------------------
(* Why they hold.                                                          *)

\* Chunks lie in the heap in the order of the list, none reaching into the next.
End(c) == c.addr + HDR + c.size
Laid(cs, end) ==
    \A i \in 1..Len(cs) :
        /\ HEAP_START <= cs[i].addr /\ End(cs[i]) <= end
        /\ \A j \in 1..Len(cs) : i < j => End(cs[i]) <= cs[j].addr

InUse(cs) == {c \in {cs[i] : i \in 1..Len(cs)} : ~c.free}

\* Block b lies in chunk c.
Inside(b, c) ==
    c.addr + HDR = b.raw /\ b.raw <= b.ptr /\ b.ptr + b.size <= b.raw + c.size

\* Every chunk in use holds one block, and every block has its chunk.
Housed(cs, blocks) ==
    /\ \A b \in blocks : \E c \in InUse(cs) : Inside(b, c)
    /\ \A c \in InUse(cs) : \E b \in blocks : b.raw = c.addr + HDR
    /\ \A b, c \in blocks : b.raw = c.raw => b = c

\* The list of chunks and the blocks of the callers (heap.c), after every call.
HeapInv == Laid(chunks, heap_end_addr) /\ Merged(chunks) /\ Housed(chunks, live)

Below == 0 .. HEAP_START \div PAGE - 1

\* The bits set below the heap belong to the kernel, its tables or an address
\* space, so that a frame beyond them is taken only when they are all held (pmm.c).
FramesInv ==
    /\ FramesCounted
    /\ heap_end_addr % PAGE = 0
    /\ used \cap Below \subseteq 0..RESERVED-1 \cup kernel_tables \cup owned
    /\ kernel_tables \subseteq Below /\ Cardinality(kernel_tables) <= TABLES
    /\ ~paging => kernel_tables = {} /\ owned = {}
    /\ owned \ Below # {} => peak > HEAP_START \div PAGE - RESERVED - TABLES
=============================================================================

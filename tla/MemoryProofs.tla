---------------------------- MODULE MemoryProofs ----------------------------
(***************************************************************************)
(* The heap and the frame bitmap keep their promises for every size of     *)
(* page, header, heap and memory: HeapSound and FramesAccounted hold.      *)
(***************************************************************************)
EXTENDS HeapLemmas

-----------------------------------------------------------------------------
(* Frames.                                                                 *)

\* Memory is finite.
LEMMA FiniteFrames ==
    ASSUME NEW S, S \subseteq Frames
    PROVE  IsFiniteSet(S) /\ Cardinality(S) \in 0..TOTAL
<1>1. TOTAL \in Nat /\ TOTAL - 1 \in Int
  BY Bounds
<1>2. IsFiniteSet(Frames) /\ Cardinality(Frames) = TOTAL
  <2>1. IsFiniteSet(0..TOTAL-1) /\ Cardinality(0..TOTAL-1) = IF 0 > TOTAL-1 THEN 0 ELSE (TOTAL-1)-0+1
    BY <1>1, FS_Interval
  <2> QED
    BY <1>1, <2>1 DEF Frames
<1>3. IsFiniteSet(S) /\ Cardinality(S) <= TOTAL
  BY <1>2, FS_Subset
<1>4. Cardinality(S) \in Nat
  BY <1>3, FS_CardinalityType
<1> QED
  BY <1>1, <1>3, <1>4

\* Reserving frames counts those that were not in use.
LEMMA ReserveFacts ==
    ASSUME NEW U, U \subseteq Frames, NEW F, F \subseteq Frames
    PROVE  Cardinality(U \cup F) = Cardinality(U) + Cardinality(F \ U)
<1>1. IsFiniteSet(U) /\ IsFiniteSet(F \ U) /\ Cardinality(U) \in Nat /\ Cardinality(F \ U) \in Nat
  <2>1. F \ U \subseteq Frames
    OBVIOUS
  <2> QED
    BY <2>1, FiniteFrames
<1>2. Cardinality(U \cup (F \ U)) = Cardinality(U) + Cardinality(F \ U) - Cardinality(U \cap (F \ U))
  BY <1>1, FS_Union
<1>3. U \cup (F \ U) = U \cup F /\ U \cap (F \ U) = {}
  OBVIOUS
<1>4. Cardinality({}) = 0
  BY FS_EmptySet
<1>5. Cardinality(U \cup F) = Cardinality(U) + Cardinality(F \ U) - 0
  BY <1>2, <1>3, <1>4, Zenon
<1> DEFINE a == Cardinality(U)
           b == Cardinality(F \ U)
<1>6. a \in Nat /\ b \in Nat
  BY <1>1
<1> HIDE DEF a, b
<1>7. a + b - 0 = a + b
  BY <1>6
<1> QED
  BY <1>5, <1>7, Zenon DEF a, b

\* The types, those of the frames apart from those of the heap's list.
FrameTypes ==
    /\ used \subseteq Frames /\ frames_used \in 0..TOTAL
    /\ heap_end_addr \in HEAP_START..HEAP_MAX
    /\ paging \in BOOLEAN /\ kernel_tables \subseteq Frames
    /\ owned \subseteq Frames
    /\ peak \in 0..MaxOwned /\ stuck \in BOOLEAN

HeapTypes == IsList(chunks) /\ live \subseteq Block

LEMMA Types ==
    /\ TypeOK <=> FrameTypes /\ HeapTypes
    /\ TypeOK' <=> FrameTypes' /\ HeapTypes'
  BY Zenon DEF TypeOK, FrameTypes, HeapTypes, IsList

\* An upper bound on a union.
LEMMA UnionBound ==
    ASSUME NEW A, A \subseteq Frames, NEW B, B \subseteq Frames
    PROVE  Cardinality(A \cup B) <= Cardinality(A) + Cardinality(B)
<1>1. /\ IsFiniteSet(A) /\ IsFiniteSet(B) /\ Cardinality(A) \in Nat /\ Cardinality(B) \in Nat
      /\ Cardinality(A \cap B) \in Nat
  <2>1. A \cap B \subseteq Frames
    OBVIOUS
  <2> QED
    BY <2>1, FiniteFrames
<1>2. Cardinality(A \cup B) = Cardinality(A) + Cardinality(B) - Cardinality(A \cap B)
  BY <1>1, FS_Union
<1> DEFINE a == Cardinality(A)
           b == Cardinality(B)
           c == Cardinality(A \cap B)
           u == Cardinality(A \cup B)
<1>3. a \in Nat /\ b \in Nat /\ c \in Nat /\ u = a + b - c
  BY <1>1, <1>2
<1> HIDE DEF a, b, c, u
<1>4. u <= a + b
  BY <1>3
<1> QED
  BY <1>4 DEF a, b, u

\* The frames below the heap, and those of the kernel among them.
LEMMA BelowFacts ==
    /\ Below \subseteq Frames /\ Cardinality(Below) = HEAP_START \div PAGE
    /\ 0..RESERVED-1 \subseteq Below /\ Cardinality(0..RESERVED-1) = RESERVED
    /\ \A f \in Frames : f \notin Below <=> HEAP_START \div PAGE <= f
<1> DEFINE h == HEAP_START \div PAGE
           m == HEAP_MAX \div PAGE
<1>1. h \in Nat /\ m \in Nat /\ m <= TOTAL /\ TOTAL \in Nat /\ RESERVED \in Nat /\ RESERVED <= h
  BY Bounds
<1>2. h <= m
  <2>1. PAGE * h <= HEAP_START /\ HEAP_MAX = PAGE * m /\ HEAP_START <= HEAP_MAX
        /\ PAGE \in Nat \ {0} /\ HEAP_START \in Nat
    BY Bounds, DivFacts
  <2> HIDE DEF h, m
  <2>2. PAGE * h \in Nat /\ PAGE * m \in Nat
    BY <1>1, <2>1
  <2>3. PAGE * h <= PAGE * m
    BY <2>1, <2>2
  <2> QED
    BY <1>1, <2>1, <2>3, Cancel
<1>3. Below = 0..h-1
  BY DEF Below
<1> HIDE DEF h, m
<1>4. Below \subseteq Frames /\ 0..RESERVED-1 \subseteq Below
  BY <1>1, <1>2, <1>3 DEF Frames
<1>5. \A n \in Nat : Cardinality(0..n-1) = n
  <2> TAKE n \in Nat
  <2>1. Cardinality(0..n-1) = IF 0 > n-1 THEN 0 ELSE (n-1)-0+1
    BY FS_Interval
  <2> QED
    BY <2>1
<1>6. Cardinality(Below) = h /\ Cardinality(0..RESERVED-1) = RESERVED
  BY <1>1, <1>3, <1>5
<1>7. \A f \in Frames : f \notin Below <=> h <= f
  BY <1>1, <1>3 DEF Frames
<1> QED
  BY <1>4, <1>6, <1>7 DEF h

\* A frame is handed out above the heap's start only when the frames below it are
\* all held.
LEMMA BelowHeld ==
    ASSUME FrameTypes, FramesInv, Below \subseteq used
    PROVE  Cardinality(owned) >= HEAP_START \div PAGE - RESERVED - TABLES
<1> DEFINE R == 0..RESERVED-1
           h == HEAP_START \div PAGE
<1>1. /\ Below \subseteq (R \cup kernel_tables) \cup owned
      /\ owned \subseteq Frames /\ kernel_tables \subseteq Frames /\ R \subseteq Frames
      /\ Cardinality(kernel_tables) <= TABLES
  BY BelowFacts DEF FramesInv, FrameTypes
<1>2. Cardinality(Below) = h /\ Cardinality(R) = RESERVED
  BY BelowFacts
<1>3. R \cup kernel_tables \subseteq Frames /\ (R \cup kernel_tables) \cup owned \subseteq Frames
  BY <1>1
<1>4. Cardinality(Below) <= Cardinality((R \cup kernel_tables) \cup owned)
  BY <1>1, <1>3, FiniteFrames, FS_Subset, Zenon
<1>5. Cardinality((R \cup kernel_tables) \cup owned) <= Cardinality(R \cup kernel_tables) + Cardinality(owned)
  BY <1>1, <1>3, UnionBound, Zenon
<1>6. Cardinality(R \cup kernel_tables) <= Cardinality(R) + Cardinality(kernel_tables)
  BY <1>1, UnionBound, Zenon
<1>7. /\ Cardinality((R \cup kernel_tables) \cup owned) \in 0..TOTAL
      /\ Cardinality(R \cup kernel_tables) \in 0..TOTAL
      /\ Cardinality(kernel_tables) \in 0..TOTAL /\ Cardinality(owned) \in 0..TOTAL
  BY <1>1, <1>3, FiniteFrames
<1> DEFINE a == Cardinality((R \cup kernel_tables) \cup owned)
           b == Cardinality(R \cup kernel_tables)
           c == Cardinality(kernel_tables)
           d == Cardinality(owned)
<1>8. /\ a \in Nat /\ b \in Nat /\ c \in Nat /\ d \in Nat /\ h \in Nat
      /\ RESERVED \in Nat /\ TABLES \in Nat
      /\ h <= a /\ a <= b + d /\ b <= RESERVED + c /\ c <= TABLES
  BY <1>1, <1>2, <1>4, <1>5, <1>6, <1>7, Bounds
<1> HIDE DEF a, b, c, d, h
<1>9. d >= h - RESERVED - TABLES
  BY <1>8
<1> QED
  BY <1>9 DEF d, h

Pressure == HEAP_START \div PAGE - RESERVED - TABLES

\* pmm_alloc_frame.
LEMMA AllocInv ==
    ASSUME FrameTypes, FramesInv, AllocFrame, stuck' \in BOOLEAN
    PROVE  FrameTypes' /\ FramesInv'
<1> DEFINE x == FirstFreeFrame
           n == Cardinality(owned)
           n2 == Cardinality(owned')
<1>1. /\ used # Frames /\ n < MaxOwned /\ paging
      /\ used' = used \cup {x} /\ frames_used' = frames_used + 1 /\ owned' = owned \cup {x}
      /\ peak' = IF n2 > peak THEN n2 ELSE peak
      /\ UNCHANGED <<heap_end_addr, paging, kernel_tables>>
  BY DEF AllocFrame, heap, boot
<1>2. x \in Frames \ used /\ \A y \in Frames \ used : x <= y
  <2>1. Frames \subseteq Nat
    BY Bounds DEF Frames
  <2>2. Frames \ used \subseteq Nat /\ Frames \ used # {}
    BY <1>1, <2>1, Zenon DEF FrameTypes
  <2> QED
    BY <2>2, LeastFacts DEF FirstFreeFrame
<1> HIDE DEF x
<1>3. /\ IsFiniteSet(used) /\ IsFiniteSet(owned) /\ Cardinality(used) \in Nat
      /\ n \in Nat /\ n2 \in Nat
      /\ used' \subseteq Frames /\ owned' \subseteq Frames
  <2>1. used \subseteq Frames /\ owned \subseteq Frames
    BY DEF FrameTypes
  <2>2. used' \subseteq Frames /\ owned' \subseteq Frames
    BY <1>1, <1>2, <2>1
  <2>3. Cardinality(used) \in 0..TOTAL /\ n \in 0..TOTAL /\ n2 \in 0..TOTAL
    BY <2>1, <2>2, FiniteFrames
  <2> QED
    BY <2>1, <2>2, <2>3, FiniteFrames
<1>4. Cardinality(used') = Cardinality(used) + 1
  BY <1>1, <1>2, <1>3, FS_AddElement, Zenon
<1>5. n2 = IF x \in owned THEN n ELSE n + 1
  BY <1>1, <1>3, FS_AddElement, Zenon
<1>6. FramesCounted' /\ frames_used' \in 0..TOTAL
  <2>1. Cardinality(used') \in 0..TOTAL
    BY <1>3, FiniteFrames
  <2>2. frames_used' = Cardinality(used')
    BY <1>1, <1>4 DEF FramesInv, FramesCounted
  <2> QED
    BY <2>1, <2>2 DEF FramesCounted
<1> HIDE DEF n, n2
<1>7. peak \in 0..MaxOwned /\ MaxOwned \in Nat
  BY MemoryAssumption DEF FrameTypes
<1>8. peak' \in 0..MaxOwned /\ peak' >= peak /\ peak' >= n2
  BY <1>1, <1>3, <1>5, <1>7
<1>9. FrameTypes'
  BY <1>1, <1>3, <1>6, <1>8, Zenon DEF FrameTypes
<1>10. owned' \ Below # {} => peak' > Pressure
  <2>1. Pressure \in Int
    BY Bounds DEF Pressure
  <2>2. CASE owned \ Below # {}
    <3>1. peak > Pressure
      BY <2>2 DEF FramesInv, Pressure
    <3> QED
      BY <1>7, <1>8, <2>1, <3>1
  <2>3. CASE owned \ Below = {} /\ x \notin Below
    <3>1. Below \subseteq used
      <4> SUFFICES ASSUME NEW y \in Below, y \notin used PROVE FALSE
        OBVIOUS
      <4>1. y \in Frames /\ x <= y
        BY <1>2, BelowFacts
      <4>2. HEAP_START \div PAGE <= x /\ ~(HEAP_START \div PAGE <= y) /\ HEAP_START \div PAGE \in Nat
        BY <1>2, <2>3, <4>1, BelowFacts, Bounds
      <4>3. x \in Nat /\ y \in Nat
        BY <1>2, <4>1 DEF Frames
      <4> QED
        BY <4>1, <4>2, <4>3
    <3>2. n >= Pressure
      BY <3>1, BelowHeld DEF Pressure, n
    <3>3. n2 = n + 1
      BY <1>5, <2>3
    <3>4. n2 > Pressure /\ peak' >= n2 /\ peak' \in Nat
      BY <1>3, <1>7, <1>8, <2>1, <3>2, <3>3 DEF n, n2
    <3> QED
      BY <1>3, <2>1, <3>4 DEF n2
  <2> QED
    BY <1>1, <2>2, <2>3
<1>11. used' \cap Below \subseteq 0..RESERVED-1 \cup kernel_tables' \cup owned'
  BY <1>1, Zenon DEF FramesInv
<1>12. /\ (heap_end_addr % PAGE = 0)' /\ (~paging => kernel_tables = {} /\ owned = {})'
       /\ (kernel_tables \subseteq Below /\ Cardinality(kernel_tables) <= TABLES)'
  BY <1>1 DEF FramesInv, Below
<1> QED
  BY <1>6, <1>9, <1>10, <1>11, <1>12, Zenon DEF FramesInv, Pressure, Below

\* pmm_free_frame.
LEMMA FreeInv ==
    ASSUME FrameTypes, FramesInv, NEW f \in owned, FreeFrame(f)
    PROVE  FrameTypes' /\ FramesInv'
<1>1. /\ used' = used \ {f} /\ owned' = owned \ {f}
      /\ frames_used' = IF f \in used THEN frames_used - 1 ELSE frames_used
      /\ UNCHANGED <<heap_end_addr, paging, kernel_tables, peak, stuck>>
  BY DEF FreeFrame, heap, boot
<1>2. IsFiniteSet(used) /\ used' \subseteq Frames
  BY <1>1, FiniteFrames DEF FrameTypes
<1>3. Cardinality(used') = IF f \in used THEN Cardinality(used) - 1 ELSE Cardinality(used)
  BY <1>1, <1>2, FS_RemoveElement
<1>4. FramesCounted' /\ frames_used' \in 0..TOTAL
  <2>1. frames_used' = Cardinality(used')
    BY <1>1, <1>3 DEF FramesInv, FramesCounted
  <2> QED
    BY <1>2, <2>1, FiniteFrames DEF FramesCounted
<1>5. FrameTypes'
  BY <1>1, <1>2, <1>4, Zenon DEF FrameTypes
<1>6. used' \cap Below \subseteq 0..RESERVED-1 \cup kernel_tables' \cup owned'
  BY <1>1, Zenon DEF FramesInv
<1>7. /\ (heap_end_addr % PAGE = 0)' /\ (~paging => kernel_tables = {} /\ owned = {})'
      /\ (kernel_tables \subseteq Below /\ Cardinality(kernel_tables) <= TABLES)'
  BY <1>1, Zenon DEF FramesInv, Below
<1>8. owned' \ Below # {} => peak' > Pressure
  BY <1>1, Zenon DEF FramesInv, Pressure
<1> QED
  BY <1>4, <1>5, <1>6, <1>7, <1>8, Zenon DEF FramesInv, Pressure, Below

\* paging_init takes the lowest free frames, which all lie below the heap.
LEMMA PagingInv ==
    ASSUME FrameTypes, FramesInv, PagingInit
    PROVE  FrameTypes' /\ FramesInv'
<1>1. PICK T \in SUBSET (Frames \ used) :
        /\ Cardinality(T) = TABLES
        /\ \A f \in T, g \in Frames \ (used \cup T) : f < g
        /\ used' = used \cup T
        /\ frames_used' = frames_used + TABLES
        /\ kernel_tables' = T
  BY DEF PagingInit
<1>2. ~paging /\ paging' = TRUE /\ UNCHANGED <<heap_end_addr, owned, peak, stuck>>
  BY DEF PagingInit, heap, clients
<1>3. kernel_tables = {} /\ owned = {} /\ owned' = {}
  BY <1>2 DEF FramesInv
<1>4. used \cap Below \subseteq 0..RESERVED-1
  BY <1>3 DEF FramesInv
<1>5. used \subseteq Frames /\ T \subseteq Frames /\ used' \subseteq Frames
  BY <1>1 DEF FrameTypes
<1>6. FramesCounted' /\ frames_used' \in 0..TOTAL
  <2>1. T \ used = T
    BY <1>1
  <2>2. Cardinality(used') = Cardinality(used) + TABLES
    BY <1>1, <1>5, <2>1, ReserveFacts
  <2>3. frames_used' = Cardinality(used')
    BY <1>1, <2>2 DEF FramesInv, FramesCounted
  <2> QED
    BY <1>5, <2>3, FiniteFrames DEF FramesCounted
<1>7. T \subseteq Below
  <2> SUFFICES ASSUME NEW f \in T, f \notin Below PROVE FALSE
    OBVIOUS
  <2> DEFINE S == Below \ 0..RESERVED-1
             h == HEAP_START \div PAGE
  <2>1. h <= f /\ f \in Nat /\ h \in Nat
    BY <1>5, BelowFacts, Bounds DEF Frames
  <2>2. S \subseteq T
    <3> SUFFICES ASSUME NEW g \in S, g \notin T PROVE FALSE
      OBVIOUS
    <3>1. g \in Frames /\ g \notin used
      BY <1>4, BelowFacts
    <3>2. f < g
      BY <1>1, <3>1
    <3>3. ~(h <= g) /\ g \in Nat
      BY <3>1, BelowFacts DEF Frames
    <3> QED
      BY <2>1, <3>2, <3>3
  <2>3. S \cup {f} \subseteq T /\ S \subseteq Frames /\ f \notin S
    BY <2>2, BelowFacts
  <2>4. IsFiniteSet(S) /\ IsFiniteSet(T) /\ Cardinality(S) \in Nat
    <3>1. Cardinality(S) \in 0..TOTAL
      BY <2>3, FiniteFrames
    <3> QED
      BY <1>5, <2>3, <3>1, FiniteFrames
  <2>5. Cardinality(S \cup {f}) = Cardinality(S) + 1
    BY <2>3, <2>4, FS_AddElement, Zenon
  <2>6. Cardinality(S \cup {f}) <= TABLES
    BY <1>1, <2>3, <2>4, FS_Subset
  <2>7. Cardinality(Below) = RESERVED + Cardinality(S)
    <3>1. Cardinality(0..RESERVED-1 \cup Below) = Cardinality(0..RESERVED-1) + Cardinality(S)
      BY BelowFacts, ReserveFacts, Zenon
    <3>2. 0..RESERVED-1 \cup Below = Below
      BY BelowFacts
    <3> QED
      BY <3>1, <3>2, BelowFacts, Zenon
  <2>8. RESERVED + TABLES <= h /\ h = Cardinality(Below) /\ RESERVED \in Nat /\ TABLES \in Nat
    BY Bounds, BelowFacts
  <2> HIDE DEF S, h
  <2> QED
    BY <2>4, <2>5, <2>6, <2>7, <2>8
<1>8. FrameTypes'
  BY <1>1, <1>2, <1>5, <1>6, Zenon DEF FrameTypes
<1>9. used' \cap Below \subseteq 0..RESERVED-1 \cup kernel_tables' \cup owned'
  BY <1>1, <1>4, Zenon
<1>10. kernel_tables' \subseteq Below /\ Cardinality(kernel_tables') <= TABLES
  BY <1>1, <1>7, Bounds
<1>11. (heap_end_addr % PAGE = 0)' /\ paging' /\ owned' \ Below = {}
  BY <1>2, <1>3 DEF FramesInv
<1> QED
  BY <1>6, <1>8, <1>9, <1>10, <1>11, Zenon DEF FramesInv, Below

\* expand_heap_by_pages reserves the frames it reaches, none of them below the heap.
LEMMA GrowInv ==
    ASSUME FrameTypes, FramesInv, NEW m, NEW size, MallocPost(m, size), Grow(m),
           UNCHANGED <<paging, kernel_tables, owned, peak>>
    PROVE  FrameTypes' /\ FramesInv' /\ heap_end_addr' = heap_end_addr + m.added * PAGE
<1> DEFINE q == heap_end_addr \div PAGE
           a == m.added
           F == q .. IF m.stuck THEN q + a ELSE (q + a) - 1
<1>1. /\ used' = used \cup F /\ frames_used' = frames_used + Cardinality(F \ used)
      /\ heap_end_addr' = heap_end_addr + a * PAGE /\ stuck' = m.stuck
  BY DEF Grow, Reserve
<1>2. /\ a \in Nat /\ m.stuck \in BOOLEAN /\ q \in Nat /\ HEAP_START \div PAGE <= q
      /\ q + a <= TOTAL /\ (m.stuck => q + a < TOTAL)
      /\ heap_end_addr + a * PAGE \in heap_end_addr..HEAP_MAX
      /\ (heap_end_addr + a * PAGE) % PAGE = 0
  BY Zenon DEF MallocPost
<1> HIDE DEF q, a
<1>3. F \subseteq Frames /\ \A f \in F : q <= f
  BY <1>2, Bounds DEF Frames
<1>4. F \cap Below = {}
  <2> SUFFICES ASSUME NEW f \in F, f \in Below PROVE FALSE
    OBVIOUS
  <2>1. q <= f /\ f \in Frames /\ f \in Nat
    BY <1>3 DEF Frames
  <2>2. ~(HEAP_START \div PAGE <= f) /\ HEAP_START \div PAGE \in Nat
    BY <2>1, BelowFacts, Bounds
  <2> QED
    BY <1>2, <2>1, <2>2
<1> HIDE DEF F
<1>5. used \subseteq Frames /\ used' \subseteq Frames
  BY <1>1, <1>3 DEF FrameTypes
<1>6. FramesCounted' /\ frames_used' \in 0..TOTAL
  <2>1. Cardinality(used') = Cardinality(used) + Cardinality(F \ used)
    BY <1>1, <1>3, <1>5, ReserveFacts, Zenon
  <2>2. frames_used' = Cardinality(used')
    BY <1>1, <2>1 DEF FramesInv, FramesCounted
  <2> QED
    BY <1>5, <2>2, FiniteFrames DEF FramesCounted
<1>7. heap_end_addr' \in HEAP_START..HEAP_MAX
  <2>1. heap_end_addr \in HEAP_START..HEAP_MAX
    BY DEF FrameTypes
  <2> DEFINE e == heap_end_addr + a * PAGE
  <2>2. e \in heap_end_addr..HEAP_MAX /\ heap_end_addr' = e
    BY <1>1, <1>2
  <2> HIDE DEF e
  <2> QED
    BY <2>1, <2>2, Bounds
<1>8. FrameTypes'
  BY <1>1, <1>2, <1>5, <1>6, <1>7, Zenon DEF FrameTypes
<1>9. used' \cap Below \subseteq 0..RESERVED-1 \cup kernel_tables' \cup owned'
  BY <1>1, <1>4, Zenon DEF FramesInv
<1>10. (heap_end_addr % PAGE = 0)'
  BY <1>1, <1>2, Zenon
<1>11. /\ (~paging => kernel_tables = {} /\ owned = {})'
       /\ (kernel_tables \subseteq Below /\ Cardinality(kernel_tables) <= TABLES)'
       /\ owned' \ Below # {} => peak' > Pressure
  BY Zenon DEF FramesInv, Below, Pressure
<1>12. FramesInv'
  BY <1>6, <1>9, <1>10, <1>11, Zenon DEF FramesInv, Below, Pressure
<1> QED
  BY <1>1, <1>8, <1>12 DEF a

-----------------------------------------------------------------------------
(* The operations of the heap.                                             *)

\* The sizes asked for stay clear of the end of the address space.
LEMMA SizeFacts ==
    /\ \A size \in Sizes : size \in Nat /\ size + HDR + PAGE < WORD
    /\ \A size \in Sizes, align \in Aligns :
          LET n == size + align - 1 + PTR
          IN  n \in Nat /\ n % WORD = n /\ n + HDR + PAGE < WORD
<1>1. /\ Sizes \subseteq Nat /\ Aligns \subseteq Nat \ {0}
      /\ \A n \in Sizes, a \in Aligns \cup {1} : n + a + PTR + HDR + PAGE < WORD
  BY MemoryAssumption
<1>2. ASSUME NEW size \in Sizes PROVE size \in Nat /\ size + HDR + PAGE < WORD
  <2>1. size + 1 + PTR + HDR + PAGE < WORD /\ size \in Nat
    BY <1>1
  <2> QED
    BY <2>1, Bounds
<1>3. ASSUME NEW size \in Sizes, NEW align \in Aligns
      PROVE  LET n == size + align - 1 + PTR
             IN  n \in Nat /\ n % WORD = n /\ n + HDR + PAGE < WORD
  <2> DEFINE n == size + align - 1 + PTR
  <2>1. size + align + PTR + HDR + PAGE < WORD /\ size \in Nat /\ align \in Nat \ {0}
    BY <1>1
  <2>2. n \in Nat /\ n + HDR + PAGE < WORD /\ n < WORD
    BY <2>1, Bounds
  <2> HIDE DEF n
  <2>3. n % WORD = n
    BY <2>2, Bounds
  <2> QED
    BY <2>2, <2>3 DEF n
<1> QED
  BY <1>2, <1>3

\* What an allocation of a block does, whatever the alignment: the block b lies in
\* the chunk that malloc returned.
LEMMA PlaceInv ==
    ASSUME HeapTypes, HeapInv, NEW m, NEW size, MallocPost(m, size),
           heap_end_addr' = heap_end_addr + m.added * PAGE, chunks' = m.chunks,
           NEW b, m.ptr # 0 => b \in Block,
           \A c : m.ptr # 0 /\ c \in Chunk /\ c.addr + HDR = m.ptr /\ size <= c.size
                   => Inside(b, c),
           live' = IF m.ptr = 0 THEN live ELSE live \cup {b}
    PROVE  HeapTypes' /\ HeapInv'
<1>1. /\ IsList(chunks) /\ Laid(chunks, heap_end_addr) /\ Housed(chunks, live)
      /\ live \subseteq Block
  BY DEF HeapTypes, HeapInv
<1>2. IsList(chunks') /\ Laid(chunks', heap_end_addr') /\ Merged(chunks')
  BY DEF MallocPost
<1>3. CASE m.ptr = 0
  <2>1. live' = live /\ chunks' = chunks
    BY <1>3 DEF MallocPost
  <2> QED
    BY <1>1, <1>2, <2>1 DEF HeapTypes, HeapInv
<1>4. CASE m.ptr # 0
  <2>1. PICK c : Gains(chunks', chunks, c) /\ c.addr + HDR = m.ptr /\ size <= c.size
    BY <1>4 DEF MallocPost
  <2>2. Inside(b, c)
    BY <1>4, <2>1 DEF Gains
  <2>3. Housed(chunks', live \cup {b})
    BY <1>1, <2>1, <2>2, HouseGain
  <2> QED
    BY <1>1, <1>2, <1>4, <2>3, Zenon DEF HeapTypes, HeapInv
<1> QED
  BY <1>3, <1>4

LEMMA AllocateInv ==
    ASSUME TypeOK, HeapInv, FramesInv, NEW size \in Sizes, Allocate(size)
    PROVE  TypeOK' /\ HeapInv' /\ FramesInv'
<1> DEFINE m == Malloc(size)
           b == [ptr |-> m.ptr, raw |-> m.ptr, size |-> size]
<1>1. /\ Grow(m) /\ chunks' = m.chunks
      /\ live' = IF m.ptr = 0 THEN live ELSE live \cup {b}
      /\ UNCHANGED <<paging, kernel_tables, owned, peak>>
  BY DEF Allocate, boot, clients
<1>2. size \in Nat /\ size + HDR + PAGE < WORD /\ heap_end_addr % PAGE = 0
  BY SizeFacts DEF FramesInv
<1>3. MallocPost(m, size)
  BY <1>2, MallocFacts
<1> HIDE DEF m
<1>4. m.ptr \in Nat
  BY <1>3 DEF MallocPost
<1>5. b \in Block /\ b.ptr = m.ptr /\ b.raw = m.ptr /\ b.size = size
  BY <1>2, <1>4 DEF Block
<1> HIDE DEF b
<1>6. FrameTypes' /\ FramesInv' /\ heap_end_addr' = heap_end_addr + m.added * PAGE
  BY <1>1, <1>3, Types, GrowInv
<1>7. ASSUME NEW c \in Chunk, c.addr + HDR = m.ptr, size <= c.size PROVE Inside(b, c)
  <2>1. c.size \in Nat
    BY ChunkFields
  <2> QED
    BY <1>2, <1>4, <1>5, <1>7, <2>1 DEF Inside
<1>8. HeapTypes' /\ HeapInv'
  BY <1>1, <1>3, <1>5, <1>6, <1>7, Types, PlaceInv, Zenon
<1> QED
  BY <1>6, <1>8, Types

LEMMA AlignedInv ==
    ASSUME TypeOK, HeapInv, FramesInv, NEW size \in Sizes, NEW align \in Aligns,
           AllocateAligned(size, align)
    PROVE  TypeOK' /\ HeapInv' /\ FramesInv'
<1> DEFINE n == size + align - 1 + PTR
           m == Malloc(n)
           p == AlignUp(m.ptr + PTR, align)
           b == [ptr |-> p, raw |-> m.ptr, size |-> size]
<1>1. n \in Nat /\ n + HDR + PAGE < WORD /\ n % WORD = n /\ heap_end_addr % PAGE = 0
  BY SizeFacts DEF FramesInv
<1>2. /\ Grow(m) /\ chunks' = m.chunks
      /\ live' = IF m.ptr = 0 THEN live ELSE live \cup {b}
      /\ UNCHANGED <<paging, kernel_tables, owned, peak>>
  BY <1>1, Zenon DEF AllocateAligned, boot, clients
<1>3. MallocPost(m, n)
  BY <1>1, MallocFacts
<1>a. size \in Nat /\ align \in Nat \ {0} /\ PTR \in Nat
  BY SizeFacts, Bounds, MemoryAssumption
<1>n. n = size + align - 1 + PTR
  OBVIOUS
<1> HIDE DEF m, n
<1>4. m.ptr \in Nat
  BY <1>3 DEF MallocPost
<1>5. p \in Nat /\ m.ptr + PTR <= p /\ p <= m.ptr + PTR + align - 1
  <2>1. m.ptr + PTR \in Nat
    BY <1>4, <1>a
  <2> DEFINE u == m.ptr + PTR
  <2>2. /\ (u + align - 1) \div align \in Nat
        /\ u <= ((u + align - 1) \div align) * align
        /\ ((u + align - 1) \div align) * align <= u + align - 1
    BY <1>a, <2>1, RoundUp, Zenon
  <2>3. p = ((u + align - 1) \div align) * align
    BY DEF AlignUp
  <2>4. ((u + align - 1) \div align) * align \in Nat
    BY <1>a, <2>2
  <2> QED
    BY <2>2, <2>3, <2>4
<1> HIDE DEF p
<1>6. b \in Block /\ b.ptr = p /\ b.raw = m.ptr /\ b.size = size
  BY <1>a, <1>4, <1>5 DEF Block
<1> HIDE DEF b
<1>7. FrameTypes' /\ FramesInv' /\ heap_end_addr' = heap_end_addr + m.added * PAGE
  BY <1>2, <1>3, Types, GrowInv
<1>8. ASSUME NEW c \in Chunk, c.addr + HDR = m.ptr, n <= c.size PROVE Inside(b, c)
  <2>1. c.size \in Nat
    BY ChunkFields
  <2>2. m.ptr <= p /\ p + size <= m.ptr + c.size
    BY <1>a, <1>n, <1>4, <1>5, <1>8, <2>1
  <2> QED
    BY <1>6, <1>8, <2>2 DEF Inside
<1>9. HeapTypes' /\ HeapInv'
  BY <1>2, <1>3, <1>6, <1>7, <1>8, Types, PlaceInv, Zenon
<1> QED
  BY <1>7, <1>9, Types

\* A free of block b in list cs, with the blocks L held: what malloc's half of a
\* realloc left behind, or the heap as it is.
LEMMA GiveBack ==
    ASSUME NEW cs, IsList(cs), NEW end \in Nat, Laid(cs, end), Merged(cs),
           NEW L, Housed(cs, L), NEW b \in L
    PROVE  LET r == Free(cs, b.raw)
           IN  IsList(r) /\ Laid(r, end) /\ Merged(r) /\ Housed(r, L \ {b})
<1>1. PICK c \in InUse(cs) : c.addr + HDR = b.raw
  BY HomeOf
<1>2. LET r == Free(cs, b.raw)
      IN  IsList(r) /\ Laid(r, end) /\ Merged(r) /\ InUse(r) = InUse(cs) \ {c}
  BY <1>1, FreeFacts
<1>3. Housed(Free(cs, b.raw), L \ {b})
  BY <1>1, <1>2, HouseLoss
<1> QED
  BY <1>2, <1>3

LEMMA ReleaseInv ==
    ASSUME TypeOK, HeapInv, FramesInv, NEW b \in live, Release(b)
    PROVE  TypeOK' /\ HeapInv' /\ FramesInv'
<1>1. /\ chunks' = Free(chunks, b.raw) /\ live' = live \ {b}
      /\ UNCHANGED <<used, frames_used, heap_end_addr, paging, kernel_tables, owned, peak, stuck>>
  BY DEF Release, frames, boot, clients
<1>2. /\ IsList(chunks) /\ Laid(chunks, heap_end_addr) /\ Merged(chunks)
      /\ Housed(chunks, live) /\ live \subseteq Block /\ FrameTypes
  BY Types DEF HeapTypes, HeapInv
<1>3. heap_end_addr \in Nat
  BY <1>2, Bounds DEF FrameTypes
<1>4. IsList(chunks') /\ Laid(chunks', heap_end_addr) /\ Merged(chunks') /\ Housed(chunks', live')
  BY <1>1, <1>2, <1>3, GiveBack
<1>5. HeapTypes' /\ HeapInv'
  BY <1>1, <1>2, <1>4, Zenon DEF HeapTypes, HeapInv
<1>6. FrameTypes' /\ FramesInv'
  BY <1>1, <1>2, Zenon DEF FrameTypes, FramesInv, FramesCounted, Below
<1> QED
  BY <1>5, <1>6, Types

\* realloc: the block grows or shrinks in its chunk.
LEMMA InPlaceInv ==
    ASSUME TypeOK, HeapInv, FramesInv, NEW b \in Plain, NEW size \in Sizes,
           ReallocInPlace(b, size)
    PROVE  TypeOK' /\ HeapInv' /\ FramesInv'
<1> DEFINE d == [b EXCEPT !.size = size]
<1>1. /\ live' = (live \ {b}) \cup {d} /\ b \in live /\ b.ptr = b.raw
      /\ UNCHANGED <<used, frames_used, chunks, heap_end_addr, paging, kernel_tables,
                     owned, peak, stuck>>
  BY DEF ReallocInPlace, Plain, frames, heap, boot, clients
<1>2. PICK i \in DOMAIN chunks : chunks[i].addr + HDR = b.raw /\ size <= chunks[i].size
  BY DEF ReallocInPlace
<1>3. /\ IsList(chunks) /\ Laid(chunks, heap_end_addr) /\ Merged(chunks)
      /\ Housed(chunks, live) /\ live \subseteq Block /\ FrameTypes
  BY Types DEF HeapTypes, HeapInv
<1>4. size \in Nat /\ b \in Block
  BY <1>1, <1>3, SizeFacts
<1>5. d \in Block /\ d.ptr = b.ptr /\ d.raw = b.raw /\ d.size = size
  BY <1>4 DEF Block
<1> HIDE DEF d
<1>6. PICK c \in InUse(chunks) : Inside(b, c) /\ c.addr + HDR = b.raw
  BY <1>1, <1>3, HomeOf
<1>7. size <= c.size
  <2>1. PICK k \in 1..Len(chunks) : c = chunks[k]
    BY DEF InUse
  <2>2. i \in 1..Len(chunks) /\ chunks[i].addr \in Nat /\ chunks[k].addr \in Nat /\ HDR \in Nat
    BY <1>2, <1>3, ListFacts, Bounds
  <2>3. chunks[i].addr = chunks[k].addr
    BY <1>2, <1>6, <2>1, <2>2
  <2>4. i = k
    BY <1>3, <2>2, <2>3, DistinctAddresses
  <2> QED
    BY <1>2, <2>1, <2>4
<1>8. Inside(d, c)
  <2>1. b.raw \in Nat /\ c.size \in Nat
    BY <1>3, <1>4, InUseFacts, ChunkFields DEF Block
  <2>2. b.raw <= b.raw /\ b.raw + size <= b.raw + c.size
    BY <1>4, <1>7, <2>1
  <2> QED
    BY <1>1, <1>5, <1>6, <2>2, Zenon DEF Inside
<1>9. Housed(chunks, live')
  <2>1. \A x \in live' : \E y \in InUse(chunks) : Inside(x, y)
    BY <1>1, <1>3, <1>8, Zenon DEF Housed
  <2>2. \A y \in InUse(chunks) : \E x \in live' : x.raw = y.addr + HDR
    BY <1>1, <1>3, <1>5, Zenon DEF Housed
  <2>3. \A x, y \in live' : x.raw = y.raw => x = y
    BY <1>1, <1>3, <1>5, ZenonT(30) DEF Housed
  <2> QED
    BY <2>1, <2>2, <2>3, Zenon DEF Housed
<1>10. HeapTypes' /\ HeapInv'
  BY <1>1, <1>3, <1>5, <1>9, Zenon DEF HeapTypes, HeapInv
<1>11. FrameTypes' /\ FramesInv'
  BY <1>1, <1>3, Zenon DEF FrameTypes, FramesInv, FramesCounted, Below
<1> QED
  BY <1>10, <1>11, Types

\* realloc: a new block, and the old one given back.
LEMMA MoveInv ==
    ASSUME TypeOK, HeapInv, FramesInv, NEW b \in Plain, NEW size \in Sizes,
           ReallocMove(b, size)
    PROVE  TypeOK' /\ HeapInv' /\ FramesInv'
<1> DEFINE m == Malloc(size)
           d == [ptr |-> m.ptr, raw |-> m.ptr, size |-> size]
<1>1. /\ Grow(m) /\ UNCHANGED <<paging, kernel_tables, owned, peak>> /\ b \in live
      /\ m.ptr = 0 => UNCHANGED <<chunks, live>>
      /\ m.ptr # 0 => chunks' = Free(m.chunks, b.raw) /\ live' = (live \ {b}) \cup {d}
  BY DEF ReallocMove, Plain, boot, clients
<1>2. size \in Nat /\ size + HDR + PAGE < WORD /\ heap_end_addr % PAGE = 0
  BY SizeFacts DEF FramesInv
<1>3. MallocPost(m, size)
  BY <1>2, MallocFacts
<1> HIDE DEF m
<1>4. /\ IsList(chunks) /\ Laid(chunks, heap_end_addr) /\ Merged(chunks)
      /\ Housed(chunks, live) /\ live \subseteq Block
  BY Types DEF HeapTypes, HeapInv
<1>5. FrameTypes' /\ FramesInv' /\ heap_end_addr' = heap_end_addr + m.added * PAGE
  BY <1>1, <1>3, Types, GrowInv
<1>6. /\ IsList(m.chunks) /\ Laid(m.chunks, heap_end_addr') /\ Merged(m.chunks) /\ m.ptr \in Nat
  BY <1>3, <1>5, Zenon DEF MallocPost
<1>7. CASE m.ptr = 0
  <2>1. m.chunks = chunks /\ chunks' = chunks /\ live' = live
    BY <1>1, <1>3, <1>7, Zenon DEF MallocPost
  <2>2. HeapTypes' /\ HeapInv'
    BY <1>4, <1>6, <2>1, Zenon DEF HeapTypes, HeapInv
  <2> QED
    BY <1>5, <2>2, Types
<1>8. CASE m.ptr # 0
  <2>1. d \in Block /\ d.ptr = m.ptr /\ d.raw = m.ptr /\ d.size = size
    BY <1>2, <1>6 DEF Block
  <2> HIDE DEF d
  <2>2. PICK c : Gains(m.chunks, chunks, c) /\ c.addr + HDR = m.ptr /\ size <= c.size
    BY <1>3, <1>8, Zenon DEF MallocPost
  <2>3. c \in Chunk /\ c.size \in Nat
    BY <2>2, ChunkFields DEF Gains
  <2>4. Inside(d, c)
    BY <1>2, <1>6, <2>1, <2>2, <2>3 DEF Inside
  <2>5. Housed(m.chunks, live \cup {d})
    BY <1>4, <2>2, <2>4, HouseGain
  <2>6. b # d
    <3>1. PICK x \in InUse(chunks) : x.addr + HDR = b.raw
      BY <1>1, <1>4, HomeOf
    <3>2. x.addr # c.addr /\ x.addr \in Nat /\ c.addr \in Nat /\ HDR \in Nat
      BY <1>4, <2>2, <2>3, <3>1, InUseFacts, ChunkFields, Bounds DEF Gains
    <3> QED
      BY <2>1, <2>2, <3>1, <3>2
  <2>7. heap_end_addr' \in Nat
    BY <1>5, Bounds DEF FrameTypes
  <2>8. /\ IsList(chunks') /\ Laid(chunks', heap_end_addr') /\ Merged(chunks')
        /\ Housed(chunks', (live \cup {d}) \ {b})
    BY <1>1, <1>6, <1>8, <2>5, <2>7, GiveBack
  <2>9. (live \cup {d}) \ {b} = live' /\ live' \subseteq Block
    BY <1>1, <1>4, <1>8, <2>1, <2>6
  <2>10. HeapTypes' /\ HeapInv'
    BY <2>8, <2>9, Zenon DEF HeapTypes, HeapInv
  <2> QED
    BY <1>5, <2>10, Types
<1> QED
  BY <1>7, <1>8

-----------------------------------------------------------------------------
(* The invariant and what follows from it.                                 *)

LEMMA MemoryInit == Init => TypeOK /\ HeapInv /\ FramesInv
<1> SUFFICES ASSUME Init PROVE TypeOK /\ HeapInv /\ FramesInv
  OBVIOUS
<1>1. /\ used = 0..RESERVED-1 /\ frames_used = RESERVED
      /\ chunks = << >> /\ heap_end_addr = HEAP_START
      /\ paging = FALSE /\ kernel_tables = {} /\ owned = {} /\ live = {}
      /\ peak = 0 /\ stuck = FALSE
  BY DEF Init
<1>2. IsList(chunks) /\ Len(chunks) = 0
  BY <1>1 DEF IsList
<1>3. 1..Len(chunks) = {} /\ 1..Len(chunks)-1 = {}
  BY <1>2
<1>4. InUse(chunks) = {}
  BY <1>3 DEF InUse
<1>5. HeapInv
  BY <1>1, <1>3, <1>4, Zenon DEF HeapInv, Laid, Merged, Housed
<1>6. /\ used \subseteq Frames /\ used \subseteq Below /\ frames_used = Cardinality(used)
  BY <1>1, BelowFacts
<1>7. frames_used \in 0..TOTAL
  BY <1>6, FiniteFrames
<1>8. heap_end_addr \in HEAP_START..HEAP_MAX /\ peak \in 0..MaxOwned
  BY <1>1, Bounds, MemoryAssumption
<1>9. FrameTypes
  BY <1>1, <1>6, <1>7, <1>8, Zenon DEF FrameTypes
<1>10. Cardinality(kernel_tables) <= TABLES
  BY <1>1, FS_EmptySet, Bounds
<1>11. heap_end_addr % PAGE = 0
  BY <1>1, MemoryAssumption
<1>12. FramesInv
  BY <1>1, <1>6, <1>10, <1>11, Zenon DEF FramesInv, FramesCounted
<1> QED
  BY <1>1, <1>2, <1>5, <1>9, <1>12, Types DEF HeapTypes

\* A step on frames leaves the heap's list and blocks as they are.
LEMMA HeapKept ==
    ASSUME HeapTypes, HeapInv, UNCHANGED <<chunks, heap_end_addr, live>>
    PROVE  HeapTypes' /\ HeapInv'
  BY Zenon DEF HeapTypes, HeapInv

LEMMA MemoryStep ==
    ASSUME TypeOK, HeapInv, FramesInv, [Next]_vars
    PROVE  TypeOK' /\ HeapInv' /\ FramesInv'
<1>1. FrameTypes /\ HeapTypes
  BY Types
<1>2. CASE PagingInit
  <2>1. UNCHANGED <<chunks, heap_end_addr, live>>
    BY <1>2 DEF PagingInit, heap
  <2> QED
    BY <1>1, <1>2, <2>1, HeapKept, PagingInv, Types
<1>3. CASE UserPage \/ PageTable
  <2>1. AllocFrame /\ UNCHANGED <<chunks, heap_end_addr, live>>
    BY <1>3 DEF UserPage, PageTable, AllocFrame, heap
  <2>2. stuck' \in BOOLEAN
    <3>1. CASE UserPage
      BY <1>1, <3>1, Zenon DEF UserPage, FrameTypes
    <3>2. CASE PageTable
      BY <3>2 DEF PageTable
    <3> QED
      BY <1>3, <3>1, <3>2
  <2> QED
    BY <1>1, <2>1, <2>2, HeapKept, AllocInv, Types
<1>4. ASSUME NEW f \in owned, FreeFrame(f) PROVE TypeOK' /\ HeapInv' /\ FramesInv'
  <2>1. UNCHANGED <<chunks, heap_end_addr, live>>
    BY <1>4 DEF FreeFrame, heap
  <2> QED
    BY <1>1, <1>4, <2>1, HeapKept, FreeInv, Types
<1>5. CASE UNCHANGED vars
  <2>1. UNCHANGED <<used, frames_used, chunks, heap_end_addr, paging, kernel_tables, owned,
                    peak, live, stuck>>
    BY <1>5 DEF vars, frames, heap, boot, clients
  <2>2. FrameTypes' /\ FramesInv'
    BY <1>1, <2>1, Zenon DEF FrameTypes, FramesInv, FramesCounted, Below
  <2> QED
    BY <1>1, <2>1, <2>2, HeapKept, Types
<1>6. CASE Next
  <2>1. CASE \E size \in Sizes : Allocate(size)
    BY <2>1, AllocateInv
  <2>2. CASE \E size \in Sizes, align \in Aligns : AllocateAligned(size, align)
    BY <2>2, AlignedInv
  <2>3. CASE \E b \in live : Release(b)
    BY <2>3, ReleaseInv
  <2>4. CASE \E b \in Plain, size \in Sizes \ {0} : ReallocInPlace(b, size) \/ ReallocMove(b, size)
    BY <2>4, InPlaceInv, MoveInv
  <2>5. CASE \E f \in owned : FreeFrame(f)
    BY <1>4, <2>5
  <2> QED
    BY <1>2, <1>3, <1>6, <2>1, <2>2, <2>3, <2>4, <2>5, Zenon DEF Next
<1> QED
  BY <1>5, <1>6

\* The list of chunks stays laid out in the heap, merged and in step with the
\* blocks that callers hold, and the bits below the heap stay accounted for.
THEOREM MemoryInvariant == Spec => [](TypeOK /\ HeapInv /\ FramesInv)
<1>1. Init => TypeOK /\ HeapInv /\ FramesInv
  BY MemoryInit
<1>2. (TypeOK /\ HeapInv /\ FramesInv) /\ [Next]_vars => (TypeOK /\ HeapInv /\ FramesInv)'
  BY MemoryStep
<1> QED
  BY <1>1, <1>2, PTL DEF Spec

\* The bytes of a block lie behind the header of its chunk and before the next.
LEMMA BlockSpan ==
    ASSUME TypeOK, HeapInv, NEW b \in live
    PROVE  \E i \in 1..Len(chunks) :
              /\ chunks[i].addr + HDR = b.raw /\ ~chunks[i].free
              /\ \A x \in Bytes(b) : x \in Nat /\ chunks[i].addr + HDR <= x /\ x < End(chunks[i])
<1>1. IsList(chunks) /\ Housed(chunks, live) /\ live \subseteq Block
  BY Types DEF HeapTypes, HeapInv
<1>2. PICK c \in InUse(chunks) : Inside(b, c) /\ c.addr + HDR = b.raw
  BY <1>1, HomeOf
<1>3. PICK i \in 1..Len(chunks) : c = chunks[i] /\ ~c.free
  BY DEF InUse
<1>4. c.addr \in Nat /\ c.size \in Nat /\ HDR \in Nat /\ End(c) = c.addr + HDR + c.size
  BY <1>1, <1>3, ListFacts, Bounds DEF End
<1>5. b.ptr \in Nat /\ b.raw \in Nat /\ b.size \in Nat
  BY <1>1 DEF Block
<1>6. b.raw <= b.ptr /\ b.ptr + b.size <= b.raw + c.size
  BY <1>2 DEF Inside
<1>7. \A x \in Bytes(b) : x \in Nat /\ c.addr + HDR <= x /\ x < End(c)
  <2> DEFINE p == b.ptr  r == b.raw  n == b.size  a == c.addr  m == c.size
  <2>1. p \in Nat /\ r \in Nat /\ n \in Nat /\ a \in Nat /\ m \in Nat /\ HDR \in Nat
    BY <1>4, <1>5
  <2>2. a + HDR = r /\ r <= p /\ p + n <= r + m /\ End(c) = a + HDR + m
    BY <1>2, <1>4, <1>6
  <2>3. Bytes(b) = p .. p + n - 1
    BY DEF Bytes
  <2> HIDE DEF p, r, n, a, m
  <2>4. \A x \in p .. p + n - 1 : x \in Nat /\ a + HDR <= x /\ x < a + HDR + m
    BY <2>1, <2>2
  <2> QED
    BY <2>2, <2>3, <2>4 DEF a
<1> QED
  BY <1>2, <1>3, <1>7

\* A chunk ends before any later one of the list begins.
LEMMA Order ==
    ASSUME NEW cs, IsList(cs), NEW end \in Nat, Laid(cs, end),
           NEW i \in 1..Len(cs), NEW j \in 1..Len(cs), i < j
    PROVE  End(cs[i]) <= cs[j].addr
  BY DEF Laid

\* HeapInv gives the callers what heap.h promises them.
LEMMA HeapInvSound == ASSUME TypeOK, HeapInv PROVE HeapSound
<1>1. /\ IsList(chunks) /\ Housed(chunks, live) /\ live \subseteq Block
      /\ Laid(chunks, heap_end_addr) /\ Merged(chunks)
  BY Types DEF HeapTypes, HeapInv
<1>2. heap_end_addr \in Nat /\ HEAP_START \in Nat /\ HDR \in Nat
  BY Bounds DEF TypeOK
<1>3. \A i \in 1..Len(chunks) : chunks[i].addr \in Nat /\ chunks[i].size \in Nat
  BY <1>1, ListFacts
<1>4. \A i \in 1..Len(chunks) : End(chunks[i]) \in Nat /\ chunks[i].addr + HDR <= End(chunks[i])
  BY <1>2, <1>3 DEF End
<1>5. \A i, j \in 1..Len(chunks) : i < j => End(chunks[i]) <= chunks[j].addr
  BY <1>1, <1>2, Order
<1>6. Len(chunks) \in Nat /\ DOMAIN chunks = 1..Len(chunks)
  BY <1>1, ListFacts
<1>7. ASSUME NEW b \in live, NEW c \in live, b # c PROVE Bytes(b) \cap Bytes(c) = {}
  <2>1. PICK i \in 1..Len(chunks) :
              /\ chunks[i].addr + HDR = b.raw /\ ~chunks[i].free
              /\ \A x \in Bytes(b) : x \in Nat /\ chunks[i].addr + HDR <= x /\ x < End(chunks[i])
    BY BlockSpan
  <2>2. PICK j \in 1..Len(chunks) :
              /\ chunks[j].addr + HDR = c.raw /\ ~chunks[j].free
              /\ \A x \in Bytes(c) : x \in Nat /\ chunks[j].addr + HDR <= x /\ x < End(chunks[j])
    BY BlockSpan
  <2>3. i # j
    BY <1>1, <1>7, <2>1, <2>2, Zenon DEF Housed
  <2>4. End(chunks[i]) <= chunks[j].addr \/ End(chunks[j]) <= chunks[i].addr
    BY <1>5, <1>6, <2>3
  <2>5. ASSUME NEW x \in Bytes(b), x \in Bytes(c) PROVE FALSE
    <3>1. x \in Nat /\ chunks[i].addr + HDR <= x /\ x < End(chunks[i])
          /\ chunks[j].addr + HDR <= x /\ x < End(chunks[j])
      BY <2>1, <2>2, <2>5
    <3>2. /\ chunks[i].addr \in Nat /\ chunks[j].addr \in Nat
          /\ End(chunks[i]) \in Nat /\ End(chunks[j]) \in Nat
      BY <1>3, <1>4
    <3>3. CASE End(chunks[i]) <= chunks[j].addr
      BY <1>2, <3>1, <3>2, <3>3
    <3>4. CASE End(chunks[j]) <= chunks[i].addr
      BY <1>2, <3>1, <3>2, <3>4
    <3> QED
      BY <2>4, <3>3, <3>4
  <2> QED
    BY <2>5, Zenon
<1>8. ASSUME NEW b \in live
      PROVE  Bytes(b) \cap Headers = {} /\ Bytes(b) \subseteq HEAP_START .. heap_end_addr - 1
  <2>1. PICK i \in 1..Len(chunks) :
              /\ chunks[i].addr + HDR = b.raw /\ ~chunks[i].free
              /\ \A x \in Bytes(b) : x \in Nat /\ chunks[i].addr + HDR <= x /\ x < End(chunks[i])
    BY BlockSpan
  <2>2. HEAP_START <= chunks[i].addr /\ End(chunks[i]) <= heap_end_addr
    BY <1>1 DEF Laid
  <2>3. chunks[i].addr \in Nat /\ End(chunks[i]) \in Nat
    BY <1>3, <1>4
  <2>4. Bytes(b) \subseteq HEAP_START .. heap_end_addr - 1
    <3> SUFFICES ASSUME NEW x \in Bytes(b) PROVE x \in HEAP_START .. heap_end_addr - 1
      BY Zenon
    <3>1. x \in Nat /\ chunks[i].addr + HDR <= x /\ x < End(chunks[i])
      BY <2>1
    <3>2. HEAP_START <= x /\ x < heap_end_addr
      BY <1>2, <2>2, <2>3, <3>1
    <3> QED
      BY <1>2, <3>1, <3>2
  <2>5. ASSUME NEW x \in Bytes(b), NEW j \in 1..Len(chunks),
               x \in chunks[j].addr .. chunks[j].addr + HDR - 1
        PROVE  FALSE
    <3>1. x \in Nat /\ chunks[i].addr + HDR <= x /\ x < End(chunks[i])
      BY <2>1
    <3>2. chunks[j].addr \in Nat /\ chunks[j].addr + HDR <= End(chunks[j]) /\ End(chunks[j]) \in Nat
      BY <1>3, <1>4
    <3>3. chunks[j].addr <= x /\ x < chunks[j].addr + HDR
      BY <1>2, <2>5, <3>1, <3>2
    <3>4. CASE i = j
      BY <1>2, <3>1, <3>2, <3>3, <3>4
    <3>5. CASE i < j
      BY <1>5, <2>3, <3>1, <3>2, <3>3, <3>5
    <3>6. CASE j < i
      <4>1. End(chunks[j]) <= chunks[i].addr
        BY <1>5, <3>6
      <4> QED
        BY <1>2, <2>3, <3>1, <3>2, <3>3, <4>1
    <3> QED
      BY <1>6, <3>4, <3>5, <3>6
  <2>6. \A h \in Headers : \E j \in 1..Len(chunks) : h \in chunks[j].addr .. chunks[j].addr + HDR - 1
    BY <1>6, Zenon DEF Headers
  <2> QED
    BY <2>4, <2>5, <2>6, Zenon
<1>9. BlocksDisjoint
  BY <1>7, <1>8, Zenon DEF BlocksDisjoint
<1>10. ChunksAccounted
  <2>1. ASSUME NEW i \in DOMAIN chunks, ~chunks[i].free
        PROVE  \E b \in live : b.raw = chunks[i].addr + HDR
    BY <1>1, <1>6, <2>1, Zenon DEF Housed, InUse
  <2>2. ASSUME NEW b \in live
        PROVE  \E i \in DOMAIN chunks : ~chunks[i].free /\ chunks[i].addr + HDR = b.raw
    BY <1>6, BlockSpan, Zenon
  <2> QED
    BY <2>1, <2>2 DEF ChunksAccounted
<1> QED
  BY <1>1, <1>9, <1>10, Zenon DEF HeapSound, NoFreeNeighbours

\* FramesInv gives the count and the pressure.
LEMMA FramesInvSound == ASSUME TypeOK, FramesInv PROVE FramesAccounted
<1>1. FramesCounted
  BY DEF FramesInv
<1>2. ASSUME Shared PROVE peak > HEAP_START \div PAGE - RESERVED - TABLES
  <2>1. PICK f \in owned \cup kernel_tables : f \in HeapFrames
    BY <1>2 DEF Shared
  <2>2. ~(f \in Below)
    BY <2>1, Bounds DEF HeapFrames, Below
  <2>3. f \in owned
    BY <2>1, <2>2 DEF FramesInv
  <2> QED
    BY <2>2, <2>3, Zenon DEF FramesInv
<1> QED
  BY <1>1, <1>2 DEF FramesAccounted, SharedOnlyUnderPressure

\* Through any mix of malloc, malloc_align, realloc and free, and whatever frames
\* come and go meanwhile: the bytes a caller holds belong to it alone, clear of
\* every other block and chunk header and inside the heap; a chunk is in use
\* exactly while a caller holds it; and no two neighbours are both free (heap.c).
THEOREM HeapIsSound == Spec => []HeapSound
<1>1. TypeOK /\ HeapInv /\ FramesInv => HeapSound
  BY HeapInvSound
<1> QED
  BY <1>1, MemoryInvariant, PTL

\* frames_used always counts the set bits of the bitmap, and a frame serves both
\* the heap and an address space only after address spaces held more frames at
\* once than lie below the heap (pmm.c, paging.c, heap.c).
THEOREM FramesAreAccounted == Spec => []FramesAccounted
<1>1. TypeOK /\ HeapInv /\ FramesInv => FramesAccounted
  BY FramesInvSound
<1> QED
  BY <1>1, MemoryInvariant, PTL

=============================================================================

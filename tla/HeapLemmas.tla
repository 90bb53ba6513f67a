----------------------------- MODULE HeapLemmas -----------------------------
(***************************************************************************)
(* What the operators of the heap's model do to a list of chunks: merging, *)
(* freeing, taking a chunk, growing, malloc (heap.c), for lists of any     *)
(* length.                                                                 *)
(***************************************************************************)
EXTENDS Memory, TLAPS, FiniteSetTheorems, WellFoundedInduction

-----------------------------------------------------------------------------
(* Numbers.                                                                *)

\* A nonempty set of numbers has a least element, which Least chooses.
LEMMA LeastFacts ==
    ASSUME NEW S, S \subseteq Nat, S # {}
    PROVE  Least(S) \in S /\ \A y \in S : Least(S) <= y
<1> DEFINE R == {ss \in Nat \X Nat : ss[1] < ss[2]}
<1>1. IsWellFoundedOn(R, Nat)
  BY NatLessThanWellFounded, Zenon DEF OpToRel
<1>2. \A x, y \in Nat : x < y => <<x, y>> \in R
  OBVIOUS
<1> HIDE DEF R
<1>3. PICK x \in S : \A y \in S : ~(<<y, x>> \in R)
  BY <1>1, WFMin, Zenon
<1>4. ASSUME NEW y \in S, ~(x <= y) PROVE FALSE
  <2>1. x \in Nat /\ y \in Nat /\ y < x
    BY <1>4
  <2> QED
    BY <1>2, <1>3, <2>1, Zenon
<1> QED
  BY <1>4, Zenon DEF Least

\* Division by a page rounds down.
LEMMA DivFacts ==
    ASSUME NEW a \in Nat, NEW b \in Nat \ {0}
    PROVE  /\ a \div b \in Nat
           /\ b * (a \div b) <= a /\ a < b * (a \div b) + b
           /\ a % b = a - b * (a \div b)
  OBVIOUS

\* A multiple of a page is that many pages.
LEMMA DivExact ==
    ASSUME NEW k \in Nat, NEW b \in Nat \ {0}
    PROVE  (b * k) \div b = k /\ (b * k) % b = 0
  OBVIOUS

\* Fewer bytes are fewer pages.
LEMMA Cancel ==
    ASSUME NEW p \in Nat \ {0}, NEW a \in Nat, NEW b \in Nat, p * a <= p * b
    PROVE  a <= b
<1> SUFFICES ASSUME a > b PROVE FALSE
  OBVIOUS
<1>1. a = b + (a - b) /\ a - b \in Nat /\ a - b >= 1
  OBVIOUS
<1>2. p * a = p * b + p * (a - b)
  BY <1>1
<1>3. p * (a - b) >= p
  BY <1>1
<1> QED
  BY <1>2, <1>3

\* The smallest of three.
LEMMA LeastOfThree ==
    ASSUME NEW a \in Nat, NEW b \in Nat, NEW c \in Nat
    PROVE  /\ Least({a, b, c}) \in Nat
           /\ Least({a, b, c}) <= a /\ Least({a, b, c}) <= b /\ Least({a, b, c}) <= c
           /\ Least({a, b, c}) \in {a, b, c}
<1>1. {a, b, c} \subseteq Nat /\ {a, b, c} # {}
  OBVIOUS
<1> QED
  BY <1>1, LeastFacts

\* Pages cover what is asked for.
LEMMA RoundUp ==
    ASSUME NEW a \in Nat, NEW b \in Nat \ {0}
    PROVE  /\ (a + b - 1) \div b \in Nat
           /\ a <= ((a + b - 1) \div b) * b
           /\ ((a + b - 1) \div b) * b <= a + b - 1
<1> DEFINE q == (a + b - 1) \div b
<1>1. a + b - 1 \in Nat
  OBVIOUS
<1>2. q \in Nat /\ b * q <= a + b - 1 /\ a + b - 1 < b * q + b
  BY <1>1, DivFacts, Zenon
<1> HIDE DEF q
<1>3. q * b = b * q /\ b * q \in Nat
  BY <1>2
<1>4. a <= q * b /\ q * b <= a + b - 1
  BY <1>2, <1>3
<1> QED
  BY <1>2, <1>4 DEF q

-----------------------------------------------------------------------------
(* The list of chunks.                                                     *)

\* Two lists in a row.
LEMMA Concat ==
    ASSUME NEW T, NEW p \in Seq(T), NEW q \in Seq(T)
    PROVE  p \o q \in Seq(T) /\ Len(p \o q) = Len(p) + Len(q)
  OBVIOUS

\* The fields of a chunk, and of one with another size or flag.
LEMMA ChunkFields ==
    ASSUME NEW c \in Chunk
    PROVE  /\ c.addr \in Nat /\ c.size \in Nat /\ c.free \in BOOLEAN
           /\ \A n \in Nat : /\ [c EXCEPT !.size = n] \in Chunk
                             /\ [c EXCEPT !.size = n].addr = c.addr
                             /\ [c EXCEPT !.size = n].size = n
                             /\ [c EXCEPT !.size = n].free <=> c.free
           /\ \A f \in BOOLEAN : /\ [c EXCEPT !.free = f] \in Chunk
                                 /\ [c EXCEPT !.free = f].addr = c.addr
                                 /\ [c EXCEPT !.free = f].size = c.size
                                 /\ [c EXCEPT !.free = f].free <=> f
  BY DEF Chunk

\* A list of chunks; a definition of its own, to be expanded where it is needed.
IsList(cs) == cs \in Seq(Chunk)

\* What the list is after two free neighbours were merged.
LEMMA AbsorbFacts ==
    ASSUME NEW cs, IsList(cs), NEW i \in 1..Len(cs)-1, cs[i].free, cs[i+1].free
    PROVE  \E r :
              /\ IsList(r) /\ r = Absorb(cs, i)
              /\ Len(r) = Len(cs) - 1
              /\ \A k \in 1..i-1 : r[k] = cs[k]
              /\ r[i].addr = cs[i].addr /\ r[i].size = cs[i].size + HDR + cs[i+1].size
              /\ r[i].free
              /\ \A k \in i+1..Len(cs)-1 : r[k] = cs[k+1]
<1> DEFINE c == cs[i]
           d == cs[i+1]
           n == c.size + HDR + d.size
           m == [c EXCEPT !.size = n]
           A == SubSeq(cs, 1, i - 1)
           B == SubSeq(cs, i + 2, Len(cs))
           C == Append(A, m)
<1>0. HDR \in Nat /\ i \in Nat /\ cs \in Seq(Chunk) /\ Len(cs) \in Nat
  BY MemoryAssumption DEF IsList
<1>1. c \in Chunk /\ d \in Chunk
  BY <1>0
<1>3. /\ A \in Seq(Chunk) /\ Len(A) = i - 1
      /\ \A k \in 1..i-1 : A[k] = cs[k]
  BY <1>0
<1>4. /\ B \in Seq(Chunk) /\ Len(B) = Len(cs) - i - 1
      /\ \A k \in 1..Len(cs)-i-1 : B[k] = cs[k + i + 1]
  BY <1>0
<1>5. Absorb(cs, i) = (A \o <<m>>) \o B /\ c.free /\ c = cs[i] /\ d = cs[i+1]
  BY Zenon DEF Absorb
<1> HIDE DEF c, d, A, B
<1>2. n \in Nat
  BY <1>0, <1>1, ChunkFields
<1>a. m \in Chunk /\ m.addr = c.addr /\ m.size = n /\ m.free
  BY <1>1, <1>2, <1>5, ChunkFields
<1> HIDE DEF m
<1>6. A \o <<m>> = C
  BY <1>a, <1>3
<1>7. C \in Seq(Chunk) /\ Len(C) = i /\ C[i] = m /\ \A k \in 1..i-1 : C[k] = A[k]
  BY <1>0, <1>a, <1>3
<1> HIDE DEF C
<1>8. C \o B \in Seq(Chunk) /\ Len(C \o B) = Len(cs) - 1
  <2>1. C \o B \in Seq(Chunk) /\ Len(C \o B) = Len(C) + Len(B)
    BY <1>4, <1>7, Concat, Zenon
  <2> QED
    BY <1>0, <1>4, <1>7, <2>1
<1>9. \A k \in 1..i : (C \o B)[k] = C[k]
  BY <1>0, <1>4, <1>7
<1>10. \A k \in i+1..Len(cs)-1 : (C \o B)[k] = cs[k + 1]
  <2> TAKE k \in i+1..Len(cs)-1
  <2>1. k - i \in 1..Len(cs)-i-1 /\ (k - i) + i + 1 = k + 1
    BY <1>0
  <2>2. (C \o B)[k] = B[k - i]
    BY <1>0, <1>4, <1>7
  <2> QED
    BY <1>4, <2>1, <2>2
<1>11. \A k \in 1..i-1 : (C \o B)[k] = cs[k]
  BY <1>0, <1>3, <1>7, <1>9
<1>12. (C \o B)[i] = m
  BY <1>0, <1>7, <1>9
<1>13. Absorb(cs, i) = C \o B
  BY <1>5, <1>6, Zenon
<1> DEFINE r == C \o B
<1> HIDE DEF r
<1>14. r[i].addr = cs[i].addr /\ r[i].size = cs[i].size + HDR + cs[i+1].size /\ r[i].free
  BY <1>a, <1>5, <1>12, Zenon DEF r
<1> QED
  BY <1>8, <1>10, <1>11, <1>13, <1>14, Zenon DEF r, IsList

\* The pairs of neighbours that are both free.
Gaps(cs) == {k \in 1..Len(cs)-1 : cs[k].free /\ cs[k+1].free}

LEMMA MergedGaps == \A cs : Merged(cs) <=> Gaps(cs) = {}
  BY Zenon DEF Merged, Gaps

LEMMA ListFacts ==
    ASSUME NEW cs, IsList(cs)
    PROVE  /\ Len(cs) \in Nat /\ DOMAIN cs = 1..Len(cs)
           /\ \A k \in 1..Len(cs) : /\ cs[k] \in Chunk
                                    /\ cs[k].addr \in Nat /\ cs[k].size \in Nat
                                    /\ End(cs[k]) \in Nat /\ cs[k].addr < End(cs[k])
<1>1. Len(cs) \in Nat /\ DOMAIN cs = 1..Len(cs) /\ \A k \in 1..Len(cs) : cs[k] \in Chunk
  BY DEF IsList
<1>2. HDR \in Nat \ {0}
  BY MemoryAssumption
<1>3. ASSUME NEW c \in Chunk
      PROVE  c.addr \in Nat /\ c.size \in Nat /\ End(c) \in Nat /\ c.addr < End(c)
  BY <1>2, ChunkFields DEF End
<1> QED
  BY <1>1, <1>3, Zenon

\* Merging leaves the list laid out in its range, and the chunks in use alone.
LEMMA AbsorbKeeps ==
    ASSUME NEW cs, IsList(cs), NEW i \in Int, NEW end \in Nat, Laid(cs, end)
    PROVE  /\ IsList(Absorb(cs, i)) /\ Laid(Absorb(cs, i), end)
           /\ InUse(Absorb(cs, i)) = InUse(cs)
<1>1. CASE ~(i \in 1..Len(cs)-1 /\ cs[i].free /\ cs[i+1].free)
  BY <1>1 DEF Absorb
<1>2. CASE i \in 1..Len(cs)-1 /\ cs[i].free /\ cs[i+1].free
  <2>1. PICK r : /\ IsList(r) /\ r = Absorb(cs, i)
                 /\ Len(r) = Len(cs) - 1
                 /\ \A k \in 1..i-1 : r[k] = cs[k]
                 /\ r[i].addr = cs[i].addr /\ r[i].size = cs[i].size + HDR + cs[i+1].size
                 /\ r[i].free
                 /\ \A k \in i+1..Len(cs)-1 : r[k] = cs[k+1]
    BY <1>2, AbsorbFacts, Zenon
  <2> DEFINE n == Len(cs)
  <2>c. HDR \in Nat /\ HEAP_START \in Nat
    BY MemoryAssumption
  <2>n. n \in Nat
    BY ListFacts
  <2>2. HDR \in Nat /\ HEAP_START \in Nat /\ n \in Nat /\ i \in 1..n-1 /\ i + 1 \in 1..n
    BY <1>2, <2>c, <2>n
  <2>3. \A k \in 1..n : cs[k].addr \in Nat /\ cs[k].size \in Nat /\ End(cs[k]) \in Nat
    BY ListFacts, Zenon
  <2>4. \A k \in 1..n-1 : r[k].addr \in Nat /\ End(r[k]) \in Nat
    BY <2>1, ListFacts, Zenon
  <2>5. /\ \A k \in 1..n : HEAP_START <= cs[k].addr /\ End(cs[k]) <= end
        /\ \A j, k \in 1..n : j < k => End(cs[j]) <= cs[k].addr
    BY DEF Laid
  <2>6. End(cs[i]) <= cs[i+1].addr
    BY <2>2, <2>5
  <2>7. End(r[i]) <= End(cs[i+1])
    <3> DEFINE a == cs[i].addr
               s == cs[i].size
               b == cs[i+1].addr
               t == cs[i+1].size
    <3>1. a \in Nat /\ s \in Nat /\ b \in Nat /\ t \in Nat
      BY <2>2, <2>3
    <3>a. a + HDR + s <= b
      BY <2>6, Zenon DEF End
    <3>2. End(r[i]) = a + HDR + (s + HDR + t) /\ End(cs[i+1]) = b + HDR + t
      BY <2>1, Zenon DEF End
    <3> HIDE DEF a, s, b, t
    <3> QED
      BY <2>2, <3>1, <3>a, <3>2
  <2>f. /\ Len(r) = n - 1 /\ r[i].addr = cs[i].addr /\ r[i].free
        /\ \A k \in 1..i-1 : r[k] = cs[k]
        /\ \A k \in i+1..n-1 : r[k] = cs[k+1]
    BY <2>1
  <2> HIDE DEF n
  <2>8. ASSUME NEW j \in 1..n-1
        PROVE  \E a, b \in 1..n :
                   /\ r[j].addr = cs[a].addr /\ End(r[j]) <= End(cs[b])
                   /\ j < i => a = j /\ b = j
                   /\ j = i => a = j /\ b = j + 1
                   /\ j > i => a = j + 1 /\ b = j + 1
    <3>0. j \in 1..n /\ j + 1 \in 1..n /\ j \in Nat
      BY <2>2
    <3>1. CASE j < i
      <4>1. r[j] = cs[j] /\ ~(j = i) /\ ~(j > i)
        BY <2>f, <2>2, <3>0, <3>1
      <4>2. End(r[j]) <= End(cs[j])
        BY <2>3, <3>0, <4>1
      <4> QED
        BY <3>0, <4>1, <4>2, Zenon
    <3>2. CASE j > i
      <4>1. r[j] = cs[j+1] /\ ~(j = i) /\ ~(j < i)
        BY <2>f, <2>2, <3>0, <3>2
      <4>2. End(r[j]) <= End(cs[j+1])
        BY <2>3, <3>0, <4>1
      <4> QED
        BY <3>0, <4>1, <4>2, Zenon
    <3>3. CASE j = i
      <4>1. ~(j < i) /\ ~(j > i)
        BY <2>2, <3>3
      <4> QED
        BY <2>f, <2>7, <3>0, <3>3, <4>1, Zenon
    <3> QED
      BY <2>2, <3>0, <3>1, <3>2, <3>3
  <2>9. Laid(r, end)
    <3>1. ASSUME NEW j \in 1..n-1
          PROVE  HEAP_START <= r[j].addr /\ End(r[j]) <= end
      <4>1. PICK a \in 1..n, b \in 1..n : r[j].addr = cs[a].addr /\ End(r[j]) <= End(cs[b])
        BY <2>8, Zenon
      <4>2. End(cs[b]) <= end /\ End(cs[b]) \in Nat
        BY <2>3, <2>5
      <4> QED
        BY <2>4, <2>5, <4>1, <4>2
    <3>2. ASSUME NEW j \in 1..n-1, NEW k \in 1..n-1, j < k
          PROVE  End(r[j]) <= r[k].addr
      <4>1. PICK b \in 1..n : /\ End(r[j]) <= End(cs[b])
                              /\ j < i => b = j
                              /\ j = i => b = j + 1
                              /\ j > i => b = j + 1
        BY <2>8, Zenon
      <4>2. PICK a \in 1..n : /\ r[k].addr = cs[a].addr
                              /\ k < i => a = k
                              /\ k = i => a = k
                              /\ k > i => a = k + 1
        BY <2>8, Zenon
      <4>3. b < a
        BY <2>2, <3>2, <4>1, <4>2
      <4>4. End(cs[b]) <= cs[a].addr /\ End(cs[b]) \in Nat /\ cs[a].addr \in Nat
        BY <2>3, <2>5, <4>3
      <4> QED
        BY <2>4, <4>1, <4>2, <4>4
    <3> QED
      BY <2>f, <3>1, <3>2, Zenon DEF Laid
  <2>10. InUse(r) = InUse(cs)
    <3>1. ASSUME NEW x \in InUse(r) PROVE x \in InUse(cs)
      <4>1. PICK k \in 1..n-1 : x = r[k] /\ ~x.free
        BY <2>f DEF InUse
      <4>2. k < i \/ k > i
        BY <2>f, <2>2, <4>1
      <4>3. \E l \in 1..n : x = cs[l]
        BY <2>f, <2>2, <4>1, <4>2
      <4> QED
        BY <4>1, <4>3 DEF InUse, n
    <3>2. ASSUME NEW x \in InUse(cs) PROVE x \in InUse(r)
      <4>1. PICK k \in 1..n : x = cs[k] /\ ~x.free
        BY DEF InUse, n
      <4>2. k # i /\ k # i + 1
        BY <1>2, <4>1
      <4>3. CASE k < i
        <5>1. k \in 1..n-1 /\ x = r[k]
          BY <2>f, <2>2, <4>1, <4>3
        <5> QED
          BY <2>f, <4>1, <5>1 DEF InUse
      <4>4. CASE k > i + 1
        <5>1. k - 1 \in i+1..n-1 /\ (k - 1) + 1 = k /\ k - 1 \in 1..n-1
          BY <2>2, <4>4
        <5>2. x = r[k - 1]
          BY <2>f, <4>1, <5>1
        <5> QED
          BY <2>f, <4>1, <5>1, <5>2 DEF InUse
      <4> QED
        BY <2>2, <4>2, <4>3, <4>4
    <3> QED
      BY <3>1, <3>2
  <2> QED
    BY <2>1, <2>9, <2>10
<1> QED
  BY <1>1, <1>2

\* Merging a pair removes that gap and opens none.
LEMMA AbsorbGaps ==
    ASSUME NEW cs, IsList(cs), NEW i \in Int, Gaps(cs) \subseteq {i - 1, i}
    PROVE  Gaps(Absorb(cs, i)) \subseteq Gaps(cs) \ {i}
<1> DEFINE n == Len(cs)
<1>n. n \in Nat
  BY ListFacts
<1>1. CASE ~(i \in 1..Len(cs)-1 /\ cs[i].free /\ cs[i+1].free)
  <2>1. Absorb(cs, i) = cs
    BY <1>1, Zenon DEF Absorb
  <2>2. i \notin Gaps(cs)
    BY <1>1 DEF Gaps
  <2> QED
    BY <2>1, <2>2
<1>2. CASE i \in 1..Len(cs)-1 /\ cs[i].free /\ cs[i+1].free
  <2>1. PICK r : /\ IsList(r) /\ r = Absorb(cs, i)
                 /\ Len(r) = Len(cs) - 1
                 /\ \A k \in 1..i-1 : r[k] = cs[k]
                 /\ r[i].addr = cs[i].addr /\ r[i].size = cs[i].size + HDR + cs[i+1].size
                 /\ r[i].free
                 /\ \A k \in i+1..Len(cs)-1 : r[k] = cs[k+1]
    BY <1>2, AbsorbFacts, Zenon
  <2>2. \A k \in 1..n-1 : k # i /\ k # i - 1 => ~(cs[k].free /\ cs[k+1].free)
    BY DEF Gaps
  <2>3. /\ Len(r) = n - 1 /\ r[i].free /\ i \in 1..n-1 /\ cs[i].free /\ cs[i+1].free
        /\ \A k \in 1..i-1 : r[k] = cs[k]
        /\ \A k \in i+1..n-1 : r[k] = cs[k+1]
    BY <1>2, <2>1
  <2> HIDE DEF n
  <2>4. ASSUME NEW k \in 1..n-2, r[k].free, r[k+1].free
        PROVE  k = i - 1 /\ cs[i-1].free
    <3>1. CASE k < i - 1
      <4>1. r[k] = cs[k] /\ r[k+1] = cs[k+1] /\ k \in 1..n-1 /\ k # i /\ k # i - 1
        BY <1>n, <2>3, <3>1
      <4> QED
        BY <2>2, <2>4, <4>1
    <3>2. CASE k = i - 1
      <4>1. k \in 1..i-1
        BY <1>n, <2>3, <3>2
      <4> QED
        BY <2>3, <2>4, <3>2, <4>1
    <3>3. CASE k = i
      <4>1. /\ i + 1 \in i+1..n-1 /\ i + 1 \in 1..n-1 /\ i + 1 # i /\ i + 1 # i - 1
            /\ (i + 1) + 1 \in 1..n
        BY <1>n, <2>3, <3>3
      <4>2. r[i+1] = cs[(i+1)+1] /\ ~(cs[i+1].free /\ cs[(i+1)+1].free)
        BY <2>2, <2>3, <4>1
      <4> QED
        BY <2>3, <2>4, <3>3, <4>2
    <3>4. CASE k > i
      <4>1. /\ k \in i+1..n-1 /\ k + 1 \in i+1..n-1
            /\ k + 1 \in 1..n-1 /\ k + 1 # i /\ k + 1 # i - 1
        BY <1>n, <2>3, <3>4
      <4>2. r[k] = cs[k+1] /\ r[k+1] = cs[(k+1)+1] /\ ~(cs[k+1].free /\ cs[(k+1)+1].free)
        BY <2>2, <2>3, <4>1
      <4> QED
        BY <2>4, <4>2
    <3> QED
      BY <1>n, <2>3, <3>1, <3>2, <3>3, <3>4
  <2>5. (n - 1) - 1 = n - 2
    BY <1>n
  <2>6. ASSUME NEW k \in Gaps(r) PROVE k \in Gaps(cs) \ {i}
    <3>1. k \in 1..n-2 /\ r[k].free /\ r[k+1].free
      BY <2>3, <2>5, Zenon DEF Gaps
    <3>2. k = i - 1 /\ cs[i-1].free
      BY <2>4, <3>1
    <3>3. k \in 1..n-1 /\ k + 1 = i /\ k # i
      BY <1>n, <2>3, <3>1, <3>2
    <3> QED
      BY <2>3, <3>2, <3>3 DEF Gaps, n
  <2> QED
    BY <2>1, <2>6
<1> QED
  BY <1>1, <1>2

\* Setting the flag of a chunk changes nothing else of the list.
Flagged(cs, j, f, r) ==
    /\ IsList(r) /\ r = [cs EXCEPT ![j].free = f] /\ Len(r) = Len(cs)
    /\ \A k \in 1..Len(cs) : k # j => r[k] = cs[k]
    /\ r[j].addr = cs[j].addr /\ r[j].size = cs[j].size
    /\ r[j].free <=> f

LEMMA FlagFacts ==
    ASSUME NEW cs, IsList(cs), NEW j \in 1..Len(cs), NEW f \in BOOLEAN
    PROVE  \E r : Flagged(cs, j, f, r)
<1> DEFINE c == cs[j]
           m == [c EXCEPT !.free = f]
           r == [cs EXCEPT ![j] = m]
<1>1. c \in Chunk /\ cs \in Seq(Chunk)
  BY DEF IsList
<1>2. r = [cs EXCEPT ![j].free = f]
  OBVIOUS
<1> HIDE DEF c
<1>3. m \in Chunk /\ m.addr = c.addr /\ m.size = c.size /\ (m.free <=> f)
  BY <1>1, ChunkFields, ZenonT(30)
<1> HIDE DEF m
<1>4. /\ IsList(r) /\ Len(r) = Len(cs) /\ r[j] = m
      /\ \A k \in 1..Len(cs) : k # j => r[k] = cs[k]
  BY <1>1, <1>3 DEF IsList
<1> HIDE DEF r
<1> QED
  BY <1>2, <1>3, <1>4, Zenon DEF c, Flagged

\* No two chunks have the same address.
LEMMA DistinctAddresses ==
    ASSUME NEW cs, IsList(cs), NEW end, Laid(cs, end),
           NEW j \in 1..Len(cs), NEW k \in 1..Len(cs), cs[j].addr = cs[k].addr
    PROVE  j = k
<1>1. /\ cs[j].addr \in Nat /\ cs[j].addr < End(cs[j]) /\ End(cs[j]) \in Nat
      /\ cs[k].addr \in Nat /\ cs[k].addr < End(cs[k]) /\ End(cs[k]) \in Nat
  BY ListFacts, Zenon
<1>2. /\ j < k => End(cs[j]) <= cs[k].addr
      /\ k < j => End(cs[k]) <= cs[j].addr
  BY Zenon DEF Laid
<1>3. j \in Int /\ k \in Int
  OBVIOUS
<1> QED
  BY <1>1, <1>2, <1>3

\* A flag does not move a chunk.
LEMMA FlagLaid ==
    ASSUME NEW cs, NEW r, NEW j \in 1..Len(cs), NEW end, Laid(cs, end),
           NEW f, Flagged(cs, j, f, r)
    PROVE  Laid(r, end)
<1>1. \A k \in 1..Len(cs) : r[k].addr = cs[k].addr /\ End(r[k]) = End(cs[k])
  BY Zenon DEF End, Flagged
<1>2. Len(r) = Len(cs)
  BY Zenon DEF Flagged
<1> QED
  BY <1>1, <1>2, Zenon DEF Laid

\* free gives back the one chunk it is called for, and leaves no free neighbours.
LEMMA FreeFacts ==
    ASSUME NEW cs, IsList(cs), NEW end \in Nat, Laid(cs, end), Merged(cs),
           NEW c \in InUse(cs)
    PROVE  LET r == Free(cs, c.addr + HDR)
           IN  IsList(r) /\ Laid(r, end) /\ Merged(r) /\ InUse(r) = InUse(cs) \ {c}
<1>1. PICK i \in 1..Len(cs) : c = cs[i] /\ ~cs[i].free
  BY DEF InUse
<1>2. HDR \in Nat /\ Len(cs) \in Nat /\ DOMAIN cs = 1..Len(cs)
  BY MemoryAssumption, ListFacts
<1>3. \A j \in 1..Len(cs) : cs[j].addr \in Nat
  BY ListFacts
<1>4. ASSUME NEW j \in 1..Len(cs), cs[j].addr + HDR = c.addr + HDR PROVE j = i
  <2>1. cs[j].addr = cs[i].addr
    BY <1>1, <1>2, <1>3, <1>4
  <2> QED
    BY <2>1, DistinctAddresses
<1>5. (CHOOSE j \in DOMAIN cs : cs[j].addr + HDR = c.addr + HDR) = i
  BY <1>1, <1>2, <1>4
<1>a. PICK f : Flagged(cs, i, TRUE, f)
  BY FlagFacts, Zenon
<1>6. /\ IsList(f) /\ f = [cs EXCEPT ![i].free = TRUE] /\ Len(f) = Len(cs)
      /\ \A k \in 1..Len(cs) : k # i => f[k] = cs[k]
      /\ f[i].addr = cs[i].addr /\ f[i].size = cs[i].size
      /\ f[i].free <=> TRUE
  BY <1>a, Zenon DEF Flagged
<1>7. Free(cs, c.addr + HDR) = Absorb(Absorb(f, i), i - 1)
  BY <1>5, <1>6, Zenon DEF Free
<1>8. Laid(f, end)
  BY <1>a, FlagLaid, Zenon
<1>9. InUse(f) = InUse(cs) \ {c}
  <2>1. ASSUME NEW x \in InUse(f) PROVE x \in InUse(cs) \ {c}
    <3>1. PICK k \in 1..Len(cs) : x = f[k] /\ ~x.free
      BY <1>6 DEF InUse
    <3>2. k # i /\ x = cs[k]
      BY <1>6, <3>1
    <3>3. x # c
      BY <1>1, <3>2, DistinctAddresses
    <3> QED
      BY <3>1, <3>2, <3>3 DEF InUse
  <2>2. ASSUME NEW x \in InUse(cs), x # c PROVE x \in InUse(f)
    BY <1>1, <1>6, <2>2 DEF InUse
  <2> QED
    BY <2>1, <2>2
<1>10. Gaps(f) \subseteq {i - 1, i}
  <2>1. \A k \in 1..Len(cs)-1 : ~(cs[k].free /\ cs[k+1].free)
    BY DEF Merged
  <2>2. ASSUME NEW k \in 1..Len(cs)-1, k # i, k # i - 1, f[k].free, f[k+1].free PROVE FALSE
    <3>1. k \in 1..Len(cs) /\ k + 1 \in 1..Len(cs) /\ k + 1 # i
      BY <1>2, <2>2
    <3> QED
      BY <1>6, <2>1, <2>2, <3>1
  <2> QED
    BY <1>6, <2>2 DEF Gaps
<1> DEFINE g == Absorb(f, i)
           h == Absorb(g, i - 1)
<1>11. i \in Int /\ i - 1 \in Int
  OBVIOUS
<1>12. IsList(g) /\ Laid(g, end) /\ InUse(g) = InUse(f)
  BY <1>6, <1>8, <1>11, AbsorbKeeps
<1>13. Gaps(g) \subseteq {i - 1}
  <2>1. Gaps(g) \subseteq Gaps(f) \ {i}
    BY <1>6, <1>10, <1>11, AbsorbGaps, Zenon
  <2> QED
    BY <1>10, <2>1
<1> HIDE DEF g
<1>14. IsList(h) /\ Laid(h, end) /\ InUse(h) = InUse(g)
  BY <1>11, <1>12, AbsorbKeeps
<1>15. Gaps(h) = {}
  <2>1. Gaps(g) \subseteq {(i - 1) - 1, i - 1}
    BY <1>13
  <2>2. Gaps(h) \subseteq Gaps(g) \ {i - 1}
    BY <1>11, <1>12, <2>1, AbsorbGaps, Zenon
  <2> QED
    BY <1>13, <2>2
<1>16. Merged(h)
  BY <1>15, MergedGaps
<1> HIDE DEF h
<1>17. Free(cs, c.addr + HDR) = h
  BY <1>7 DEF g, h
<1> QED
  BY <1>9, <1>12, <1>14, <1>16, <1>17

\* A longer heap holds the same chunks.
LEMMA LaidGrows ==
    ASSUME NEW cs, IsList(cs), NEW end \in Nat, NEW end2 \in Nat, Laid(cs, end), end <= end2
    PROVE  Laid(cs, end2)
<1>1. ASSUME NEW i \in 1..Len(cs) PROVE End(cs[i]) <= end2
  <2>1. End(cs[i]) \in Nat /\ End(cs[i]) <= end
    BY ListFacts, Zenon DEF Laid
  <2> QED
    BY <2>1
<1> QED
  BY <1>1, Zenon DEF Laid

\* What is added to a list by an allocation: a chunk in use at an address that no
\* chunk in use has.
Gains(r, cs, c) ==
    /\ c \in Chunk /\ ~c.free /\ InUse(r) = InUse(cs) \cup {c}
    /\ \A x \in InUse(cs) : x.addr # c.addr

\* A free chunk is handed out again.
LEMMA TakeFacts ==
    ASSUME NEW cs, IsList(cs), NEW end \in Nat, Laid(cs, end), Merged(cs),
           NEW j \in 1..Len(cs), cs[j].free
    PROVE  LET r == [cs EXCEPT ![j].free = FALSE]
           IN  /\ IsList(r) /\ Laid(r, end) /\ Merged(r)
               /\ \E c : /\ Gains(r, cs, c)
                         /\ c.addr = cs[j].addr /\ c.size = cs[j].size
<1>a. PICK r : Flagged(cs, j, FALSE, r)
  BY FlagFacts, Zenon
<1>1. /\ IsList(r) /\ r = [cs EXCEPT ![j].free = FALSE] /\ Len(r) = Len(cs)
      /\ \A k \in 1..Len(cs) : k # j => r[k] = cs[k]
      /\ r[j].addr = cs[j].addr /\ r[j].size = cs[j].size
      /\ r[j].free <=> FALSE
  BY <1>a, Zenon DEF Flagged
<1>2. Laid(r, end)
  BY <1>a, FlagLaid, Zenon
<1>3. Merged(r)
  <2>1. Len(cs) \in Nat
    BY ListFacts
  <2>2. \A k \in 1..Len(cs)-1 : ~(cs[k].free /\ cs[k+1].free)
    BY DEF Merged
  <2>3. ASSUME NEW k \in 1..Len(cs)-1, r[k].free, r[k+1].free PROVE FALSE
    <3>1. k \in 1..Len(cs) /\ k + 1 \in 1..Len(cs) /\ k # j /\ k + 1 # j
      BY <1>1, <2>1, <2>3
    <3> QED
      BY <1>1, <2>2, <2>3, <3>1
  <2> QED
    BY <1>1, <2>3 DEF Merged
<1>4. Gains(r, cs, r[j])
  <2>1. r[j] \in Chunk
    BY <1>1, ListFacts, Zenon
  <2>2. ASSUME NEW x \in InUse(r) PROVE x \in InUse(cs) \cup {r[j]}
    <3>1. PICK k \in 1..Len(cs) : x = r[k] /\ ~x.free
      BY <1>1 DEF InUse
    <3> QED
      BY <1>1, <3>1 DEF InUse
  <2>3. ASSUME NEW x \in InUse(cs) PROVE x \in InUse(r) /\ x.addr # r[j].addr
    <3>1. PICK k \in 1..Len(cs) : x = cs[k] /\ ~x.free
      BY DEF InUse
    <3>2. k # j
      BY <3>1
    <3>3. x.addr # r[j].addr
      BY <1>1, <3>1, <3>2, DistinctAddresses
    <3>4. x = r[k]
      BY <1>1, <3>1, <3>2
    <3> QED
      BY <1>1, <3>1, <3>3, <3>4 DEF InUse
  <2>4. r[j] \in InUse(r)
    BY <1>1, Zenon DEF InUse
  <2> QED
    BY <1>1, <2>1, <2>2, <2>3, <2>4, Zenon DEF Gains
<1> QED
  BY <1>1, <1>2, <1>3, <1>4, Zenon

\* request_space links a new chunk at the old end of the heap.
LEMMA LinkFacts ==
    ASSUME NEW cs, IsList(cs), NEW end \in Nat, NEW end2 \in Nat, Laid(cs, end), Merged(cs),
           NEW c \in Chunk, ~c.free, c.addr = end, HEAP_START <= end, End(c) <= end2
    PROVE  /\ IsList(Append(cs, c)) /\ Laid(Append(cs, c), end2)
           /\ Merged(Append(cs, c)) /\ Gains(Append(cs, c), cs, c)
<1> DEFINE r == Append(cs, c)
           n == Len(cs)
<1>0. n \in Nat /\ HEAP_START \in Nat /\ HDR \in Nat
  <2>1. n \in Nat
    BY ListFacts
  <2> QED
    BY <2>1, MemoryAssumption
<1>1. /\ IsList(r) /\ Len(r) = n + 1 /\ r[n + 1] = c
      /\ \A k \in 1..n : r[k] = cs[k]
  BY DEF IsList
<1>2. /\ \A k \in 1..n : /\ HEAP_START <= cs[k].addr /\ End(cs[k]) <= end
                          /\ End(cs[k]) \in Nat /\ cs[k].addr \in Nat /\ cs[k].addr < End(cs[k])
      /\ \A j, k \in 1..n : j < k => End(cs[j]) <= cs[k].addr
      /\ \A k \in 1..n-1 : ~(cs[k].free /\ cs[k+1].free)
  BY ListFacts, Zenon DEF Laid, Merged
<1>3. InUse(cs) = {x \in {cs[i] : i \in 1..n} : ~x.free}
  BY DEF InUse
<1>4. End(c) \in Nat /\ c.addr < End(c) /\ c.addr <= end2
  <2>1. c.addr \in Nat /\ c.size \in Nat /\ HDR \in Nat \ {0}
    BY ChunkFields, MemoryAssumption
  <2> QED
    BY <2>1 DEF End
<1> HIDE DEF r, n
<1>5. Laid(r, end2)
  <2>1. ASSUME NEW k \in 1..n+1 PROVE HEAP_START <= r[k].addr /\ End(r[k]) <= end2
    <3>1. CASE k = n + 1
      BY <1>0, <1>1, <3>1
    <3>2. CASE k \in 1..n
      <4>1. r[k] = cs[k]
        BY <1>1, <3>2
      <4> QED
        BY <1>0, <1>2, <1>4, <3>2, <4>1
    <3> QED
      BY <1>0, <3>1, <3>2
  <2>2. ASSUME NEW j \in 1..n+1, NEW k \in 1..n+1, j < k PROVE End(r[j]) <= r[k].addr
    <3>1. j \in 1..n /\ r[j] = cs[j]
      BY <1>0, <1>1, <2>2
    <3>2. CASE k = n + 1
      BY <1>1, <1>2, <3>1, <3>2
    <3>3. CASE k \in 1..n
      BY <1>1, <1>2, <2>2, <3>1, <3>3
    <3> QED
      BY <1>0, <3>2, <3>3
  <2> QED
    BY <1>1, <2>1, <2>2, Zenon DEF Laid
<1>6. Merged(r)
  <2>1. ASSUME NEW k \in 1..n, r[k].free, r[k+1].free PROVE FALSE
    <3>1. CASE k = n
      BY <1>1, <2>1, <3>1
    <3>2. CASE k \in 1..n-1
      <4>1. k + 1 \in 1..n
        BY <1>0, <3>2
      <4> QED
        BY <1>1, <1>2, <2>1, <3>2, <4>1
    <3> QED
      BY <1>0, <3>1, <3>2
  <2>2. (n + 1) - 1 = n
    BY <1>0
  <2> QED
    BY <1>1, <2>1, <2>2, Zenon DEF Merged
<1>7. Gains(r, cs, c)
  <2>1. ASSUME NEW x PROVE x \in InUse(r) <=> x \in InUse(cs) \cup {c}
    <3>1. x \in InUse(r) <=> (\E k \in 1..n+1 : x = r[k]) /\ ~x.free
      BY <1>1 DEF InUse
    <3>2. (\E k \in 1..n+1 : x = r[k]) <=> (\E k \in 1..n : x = r[k]) \/ x = r[n+1]
      BY <1>0
    <3>3. x \in InUse(cs) <=> (\E k \in 1..n : x = cs[k]) /\ ~x.free
      BY <1>3
    <3> QED
      BY <1>1, <3>1, <3>2, <3>3, Zenon
  <2>2. ASSUME NEW x \in InUse(cs) PROVE x.addr # c.addr
    <3>1. PICK k \in 1..n : x = cs[k]
      BY <1>3
    <3> QED
      BY <1>2, <3>1
  <2> QED
    BY <2>1, <2>2 DEF Gains
<1> QED
  BY <1>1, <1>5, <1>6, <1>7 DEF r

-----------------------------------------------------------------------------
(* Growing the heap.                                                       *)

\* The heap's bounds in pages.
LEMMA Bounds ==
    /\ PAGE \in Nat \ {0} /\ HDR \in Nat \ {0} /\ PTR \in Nat \ {0} /\ WORD \in Nat \ {0}
    /\ HEAP_START \in Nat /\ HEAP_MAX \in Nat /\ HEAP_START <= HEAP_MAX
    /\ TOTAL \in Nat /\ RESERVED \in Nat /\ TABLES \in Nat /\ MAPPED \in Nat
    /\ HEAP_START \div PAGE \in Nat /\ HEAP_MAX \div PAGE \in Nat
    /\ HEAP_MAX = PAGE * (HEAP_MAX \div PAGE)
    /\ HEAP_MAX \div PAGE <= TOTAL
    /\ RESERVED + TABLES <= HEAP_START \div PAGE
<1>1. /\ PAGE \in Nat \ {0} /\ HDR \in Nat \ {0} /\ PTR \in Nat \ {0} /\ WORD \in Nat \ {0}
      /\ HEAP_START \in Nat /\ HEAP_MAX \in Nat /\ HEAP_START <= HEAP_MAX
      /\ TOTAL \in Nat /\ RESERVED \in Nat /\ TABLES \in Nat /\ MAPPED \in Nat
      /\ HEAP_START % PAGE = 0 /\ HEAP_MAX % PAGE = 0
      /\ (RESERVED + TABLES) * PAGE <= HEAP_START /\ HEAP_MAX <= TOTAL * PAGE
  BY MemoryAssumption
<1> DEFINE h == HEAP_START \div PAGE
           m == HEAP_MAX \div PAGE
<1>2. h \in Nat /\ m \in Nat /\ HEAP_START = PAGE * h /\ HEAP_MAX = PAGE * m
  BY <1>1, DivFacts
<1> HIDE DEF h, m
<1>3. m <= TOTAL
  BY <1>1, <1>2
<1>4. RESERVED + TABLES <= h
  BY <1>1, <1>2
<1> QED
  BY <1>1, <1>2, <1>3, <1>4 DEF h, m

\* The heap grows by whole pages and within its range.
LEMMA GrowFacts ==
    ASSUME heap_end_addr \in HEAP_START..HEAP_MAX, heap_end_addr % PAGE = 0, NEW n \in Nat
    PROVE  LET q == heap_end_addr \div PAGE
               e == heap_end_addr + Added(n) * PAGE
           IN  /\ Added(n) \in Nat /\ Added(n) <= n
               /\ e \in heap_end_addr..HEAP_MAX /\ e % PAGE = 0 /\ e \div PAGE = q + Added(n)
               /\ q \in Nat /\ HEAP_START \div PAGE <= q /\ q + Added(n) <= TOTAL
               /\ Faults(n) => q + Added(n) < TOTAL
<1> DEFINE q == heap_end_addr \div PAGE
           m == HEAP_MAX \div PAGE
           h == HEAP_START \div PAGE
           a == Added(n)
<1>1. heap_end_addr \in Nat /\ HEAP_START <= heap_end_addr /\ heap_end_addr <= HEAP_MAX
  BY Bounds
<1>2. q \in Nat /\ heap_end_addr = PAGE * q
  <2>1. q \in Nat /\ heap_end_addr % PAGE = heap_end_addr - PAGE * q /\ PAGE \in Nat
    BY <1>1, DivFacts, Bounds, Zenon
  <2> HIDE DEF q
  <2>2. PAGE * q \in Nat
    BY <2>1
  <2> QED
    BY <1>1, <2>1, <2>2
<1>3. m \in Nat /\ HEAP_MAX = PAGE * m /\ m <= TOTAL /\ PAGE \in Nat \ {0}
  BY Bounds
<1>4. h \in Nat /\ PAGE * h <= HEAP_START
  BY Bounds, DivFacts
<1>5. Room \in Nat /\ Room = m - q
  <2> HIDE DEF q, m
  <2>1. q <= m
    BY <1>1, <1>2, <1>3
  <2>2. HEAP_MAX - heap_end_addr = PAGE * (m - q) /\ m - q \in Nat
    BY <1>2, <1>3, <2>1
  <2>3. (PAGE * (m - q)) \div PAGE = m - q
    BY <1>3, <2>2, DivExact
  <2> QED
    BY <2>2, <2>3 DEF Room
<1>6. Mapped \in Nat
  <2>1. CASE paging /\ heap_end_addr < MAPPED * PAGE
    <3>1. MAPPED * PAGE - heap_end_addr \in Nat
      BY <1>1, <2>1, Bounds
    <3>2. (MAPPED * PAGE - heap_end_addr) \div PAGE \in Nat
      BY <1>3, <3>1, DivFacts, Zenon
    <3> QED
      BY <2>1, <3>2 DEF Mapped
  <2>2. CASE ~(paging /\ heap_end_addr < MAPPED * PAGE)
    BY <1>5, <2>2 DEF Mapped
  <2> QED
    BY <2>1, <2>2
<1>7. a \in Nat /\ a <= n /\ a <= Room /\ a <= Mapped
  BY <1>5, <1>6, LeastOfThree DEF Added
<1>8. Faults(n) => a < Room
  BY <1>5, <1>6, <1>7 DEF Faults
<1> HIDE DEF q, m, h, a
<1>9. h <= q
  <2>1. PAGE * h \in Nat /\ PAGE * q \in Nat /\ HEAP_START \in Nat
    BY <1>2, <1>3, <1>4, Bounds
  <2>2. PAGE * h <= PAGE * q
    BY <1>1, <1>2, <1>4, <2>1
  <2> QED
    BY <1>2, <1>3, <1>4, <2>2, Cancel
<1>10. heap_end_addr + a * PAGE = PAGE * (q + a) /\ q + a \in Nat /\ q + a <= m
  BY <1>2, <1>3, <1>5, <1>7
<1>11. PAGE * (q + a) \in Nat /\ PAGE * (q + a) <= PAGE * m /\ PAGE * q <= PAGE * (q + a)
  BY <1>2, <1>3, <1>7, <1>10
<1>12. (PAGE * (q + a)) \div PAGE = q + a /\ (PAGE * (q + a)) % PAGE = 0
  BY <1>3, <1>10, DivExact, Zenon
<1>13. /\ heap_end_addr + a * PAGE \in heap_end_addr..HEAP_MAX
       /\ (heap_end_addr + a * PAGE) % PAGE = 0
       /\ (heap_end_addr + a * PAGE) \div PAGE = q + a
  BY <1>1, <1>2, <1>3, <1>10, <1>11, <1>12
<1>14. q + a <= TOTAL /\ (a < Room => q + a < TOTAL)
  <2>1. q \in Nat /\ m \in Nat /\ a \in Nat /\ TOTAL \in Nat /\ m <= TOTAL /\ a <= Room
    BY <1>2, <1>3, <1>7, Bounds
  <2> QED
    BY <1>5, <2>1
<1> QED
  BY <1>2, <1>7, <1>9, <1>8, <1>13, <1>14, Zenon DEF q, h, a

\* The pages request_space asks for hold the chunk.
LEMMA PagesFacts ==
    ASSUME NEW size \in Nat, size + HDR + PAGE < WORD
    PROVE  PagesFor(size) \in Nat /\ size + HDR <= PagesFor(size) * PAGE
<1> DEFINE total == size + HDR
<1>1. total \in Nat /\ total + PAGE - 1 \in Nat /\ total < WORD /\ total + PAGE - 1 < WORD
  BY Bounds
<1>2. total % WORD = total /\ (total + PAGE - 1) % WORD = total + PAGE - 1
  <2>1. \A x \in Nat : x < WORD => x % WORD = x
    BY Bounds
  <2> QED
    BY <1>1, <2>1
<1>3. PagesFor(size) = (total + PAGE - 1) \div PAGE
  BY <1>2 DEF PagesFor
<1> QED
  BY <1>1, <1>3, Bounds, RoundUp, Zenon

\* What malloc answers: the heap grown within its range, the list in order, and
\* either NULL and the list as it was, or a chunk that nobody else holds.
MallocPost(m, size) ==
    LET q == heap_end_addr \div PAGE
        e == heap_end_addr + m.added * PAGE
    IN  /\ m.added \in Nat /\ m.stuck \in BOOLEAN /\ m.ptr \in Nat
        /\ e \in heap_end_addr..HEAP_MAX /\ e % PAGE = 0
        /\ q \in Nat /\ HEAP_START \div PAGE <= q /\ q + m.added <= TOTAL
        /\ m.stuck => q + m.added < TOTAL
        /\ IsList(m.chunks) /\ Laid(m.chunks, e) /\ Merged(m.chunks)
        /\ m.ptr = 0 => m.chunks = chunks
        /\ m.ptr # 0 => \E c : /\ Gains(m.chunks, chunks, c)
                               /\ c.addr + HDR = m.ptr /\ size <= c.size

LEMMA MallocFacts ==
    ASSUME TypeOK, HeapInv, heap_end_addr % PAGE = 0,
           NEW size \in Nat, size + HDR + PAGE < WORD
    PROVE  MallocPost(Malloc(size), size)
<1> DEFINE n == PagesFor(size)
           q == heap_end_addr \div PAGE
<1>1. /\ IsList(chunks) /\ Laid(chunks, heap_end_addr) /\ Merged(chunks)
      /\ heap_end_addr \in HEAP_START..HEAP_MAX
  BY DEF TypeOK, HeapInv, IsList
<1>2. heap_end_addr \in Nat /\ HEAP_START <= heap_end_addr /\ heap_end_addr <= HEAP_MAX
  BY <1>1, Bounds
<1>3. n \in Nat /\ size + HDR <= n * PAGE
  BY PagesFacts
<1>4. /\ Added(n) \in Nat /\ Added(n) <= n
      /\ heap_end_addr + Added(n) * PAGE \in heap_end_addr..HEAP_MAX
      /\ (heap_end_addr + Added(n) * PAGE) % PAGE = 0
      /\ q \in Nat /\ HEAP_START \div PAGE <= q /\ q + Added(n) <= TOTAL
      /\ Faults(n) => q + Added(n) < TOTAL
  BY <1>1, <1>3, GrowFacts, Zenon
<1>5. CASE Fits(size) # {}
  <2> DEFINE f == Least(Fits(size))
             m == [chunks |-> [chunks EXCEPT ![f].free = FALSE], added |-> 0,
                   ptr |-> chunks[f].addr + HDR, stuck |-> FALSE]
  <2>1. Malloc(size) = m
    BY <1>5 DEF Malloc
  <2>2. Fits(size) \subseteq 1..Len(chunks)
    BY <1>1, ListFacts DEF Fits
  <2>3. f \in Fits(size)
    BY <1>5, <2>2, LeastFacts
  <2>4. f \in 1..Len(chunks) /\ chunks[f].free /\ chunks[f].size >= size
    BY <2>2, <2>3 DEF Fits
  <2>5. chunks[f].addr \in Nat
    BY <1>1, <2>4, ListFacts
  <2> HIDE DEF f
  <2>6. /\ IsList(m.chunks) /\ Laid(m.chunks, heap_end_addr) /\ Merged(m.chunks)
        /\ \E c : /\ Gains(m.chunks, chunks, c)
                  /\ c.addr = chunks[f].addr /\ c.size = chunks[f].size
    BY <1>1, <1>2, <2>4, TakeFacts, Zenon
  <2>7. m.added = 0 /\ m.stuck = FALSE /\ m.ptr = chunks[f].addr + HDR
    OBVIOUS
  <2> HIDE DEF m
  <2>8. m.ptr \in Nat /\ m.ptr # 0
    BY <2>5, <2>7, Bounds
  <2>9. heap_end_addr + m.added * PAGE = heap_end_addr /\ q + m.added <= TOTAL
    BY <1>2, <1>4, <2>7, Bounds
  <2>10. \E c : Gains(m.chunks, chunks, c) /\ c.addr + HDR = m.ptr /\ size <= c.size
    <3>1. PICK c : /\ Gains(m.chunks, chunks, c)
                   /\ c.addr = chunks[f].addr /\ c.size = chunks[f].size
      BY <2>6
    <3>2. size <= c.size
      BY <2>4, <3>1
    <3> QED
      BY <2>7, <3>1, <3>2
  <2>a. m.added \in Nat /\ m.stuck \in BOOLEAN /\ ~m.stuck
    <3>1. m.added \in Nat
      BY <2>7
    <3>2. m.stuck \in BOOLEAN /\ ~m.stuck
      BY <2>7, Zenon
    <3> QED
      BY <3>1, <3>2
  <2>b. /\ heap_end_addr + m.added * PAGE \in heap_end_addr..HEAP_MAX
        /\ (heap_end_addr + m.added * PAGE) % PAGE = 0
    <3>1. heap_end_addr \in heap_end_addr..HEAP_MAX
      BY <1>2, Bounds
    <3> QED
      BY <2>9, <3>1, Zenon
  <2>11. MallocPost(m, size)
    BY <1>4, <2>6, <2>8, <2>9, <2>10, <2>a, <2>b, Zenon DEF MallocPost
  <2> QED
    BY <2>1, <2>11
<1>6. CASE Fits(size) = {} /\ Added(n) = n
  <2> DEFINE c == [addr |-> heap_end_addr, size |-> size, free |-> FALSE]
             m == [chunks |-> Append(chunks, c), added |-> n,
                   ptr |-> heap_end_addr + HDR, stuck |-> FALSE]
             e == heap_end_addr + n * PAGE
  <2>1. Malloc(size) = m
    BY <1>6 DEF Malloc
  <2>2. c \in Chunk /\ ~c.free /\ c.addr = heap_end_addr /\ c.size = size
    BY <1>2 DEF Chunk
  <2>3. e \in Nat /\ e \in heap_end_addr..HEAP_MAX /\ e % PAGE = 0
    BY <1>2, <1>4, <1>6
  <2>4. m.added = n /\ m.stuck = FALSE /\ m.ptr = heap_end_addr + HDR /\ m.chunks = Append(chunks, c)
    OBVIOUS
  <2> HIDE DEF m, c, n
  <2>5. End(c) <= e
    <3>1. n * PAGE \in Nat
      BY <1>3, Bounds
    <3> QED
      BY <1>2, <1>3, <2>2, <3>1, Bounds DEF End
  <2>6. /\ IsList(Append(chunks, c)) /\ Laid(Append(chunks, c), e)
        /\ Merged(Append(chunks, c)) /\ Gains(Append(chunks, c), chunks, c)
    BY <1>1, <1>2, <2>2, <2>3, <2>5, LinkFacts
  <2>7. m.ptr \in Nat /\ m.ptr # 0
    BY <1>2, <2>4, Bounds
  <2>8. \E d : Gains(m.chunks, chunks, d) /\ d.addr + HDR = m.ptr /\ size <= d.size
    BY <2>2, <2>4, <2>6
  <2>9. MallocPost(m, size)
    BY <1>3, <1>4, <1>6, <2>3, <2>4, <2>6, <2>7, <2>8, Zenon DEF MallocPost
  <2> QED
    BY <2>1, <2>9
<1>7. CASE Fits(size) = {} /\ Added(n) # n
  <2> DEFINE m == [chunks |-> chunks, added |-> Added(n), ptr |-> 0, stuck |-> Faults(n)]
             e == heap_end_addr + Added(n) * PAGE
  <2>1. Malloc(size) = m
    BY <1>7 DEF Malloc
  <2>2. e \in Nat /\ heap_end_addr <= e
    BY <1>2, <1>4
  <2>3. Laid(chunks, e)
    BY <1>1, <1>2, <2>2, LaidGrows
  <2>4. m.added = Added(n) /\ (m.stuck <=> Faults(n)) /\ m.ptr = 0 /\ m.chunks = chunks
    OBVIOUS
  <2>5. m.stuck \in BOOLEAN /\ m.ptr \in Nat
    BY DEF Faults
  <2> HIDE DEF m, n
  <2>6. MallocPost(m, size)
    BY <1>1, <1>4, <2>3, <2>4, <2>5, Zenon DEF MallocPost
  <2> QED
    BY <2>1, <2>6
<1> QED
  BY <1>5, <1>6, <1>7

-----------------------------------------------------------------------------
(* The blocks of the callers.                                              *)

\* Chunks in use are told apart by their addresses.
LEMMA InUseFacts ==
    ASSUME NEW cs, IsList(cs), NEW end, Laid(cs, end)
    PROVE  /\ InUse(cs) \subseteq Chunk
           /\ \A x, y \in InUse(cs) : x.addr = y.addr => x = y
<1>1. \A x \in InUse(cs) : \E k \in 1..Len(cs) : x = cs[k]
  BY DEF InUse
<1>2. InUse(cs) \subseteq Chunk
  BY <1>1, ListFacts
<1>3. ASSUME NEW x \in InUse(cs), NEW y \in InUse(cs), x.addr = y.addr PROVE x = y
  <2>1. PICK j \in 1..Len(cs) : x = cs[j]
    BY <1>1
  <2>2. PICK k \in 1..Len(cs) : y = cs[k]
    BY <1>1
  <2> QED
    BY <1>3, <2>1, <2>2, DistinctAddresses
<1> QED
  BY <1>2, <1>3

\* The caller of malloc is the only one in its chunk.
LEMMA HouseGain ==
    ASSUME NEW cs, IsList(cs), NEW end, Laid(cs, end), NEW r, NEW c, Gains(r, cs, c),
           NEW L, Housed(cs, L), NEW b, Inside(b, c)
    PROVE  Housed(r, L \cup {b})
<1>1. /\ InUse(r) = InUse(cs) \cup {c} /\ c \in Chunk /\ InUse(cs) \subseteq Chunk
      /\ \A x \in InUse(cs) : x.addr # c.addr
  BY InUseFacts DEF Gains
<1>2. c.addr + HDR = b.raw
  BY DEF Inside
<1>3. ASSUME NEW d \in L PROVE d.raw # b.raw
  <2>1. PICK x \in InUse(cs) : x.addr + HDR = d.raw
    BY DEF Housed, Inside
  <2>2. x.addr # c.addr /\ x.addr \in Nat /\ c.addr \in Nat /\ HDR \in Nat
    BY <1>1, <2>1, ChunkFields, Bounds
  <2> QED
    BY <1>2, <2>1, <2>2
<1>4. \A d \in L \cup {b} : \E x \in InUse(r) : Inside(d, x)
  BY <1>1, Zenon DEF Housed
<1>5. \A x \in InUse(r) : \E d \in L \cup {b} : d.raw = x.addr + HDR
  BY <1>1, <1>2, Zenon DEF Housed
<1>6. \A d, e \in L \cup {b} : d.raw = e.raw => d = e
  BY <1>3, Zenon DEF Housed
<1> QED
  BY <1>4, <1>5, <1>6, Zenon DEF Housed

\* Freeing a block leaves every other block its chunk.
LEMMA HouseLoss ==
    ASSUME NEW cs, IsList(cs), NEW end, Laid(cs, end), NEW L, Housed(cs, L),
           NEW c \in InUse(cs), NEW b \in L, c.addr + HDR = b.raw,
           NEW r, InUse(r) = InUse(cs) \ {c}
    PROVE  Housed(r, L \ {b})
<1>1. /\ InUse(cs) \subseteq Chunk
      /\ \A x, y \in InUse(cs) : x.addr = y.addr => x = y
  BY InUseFacts
<1>2. ASSUME NEW d \in L \ {b} PROVE \E x \in InUse(r) : Inside(d, x)
  <2>1. PICK x \in InUse(cs) : Inside(d, x)
    BY DEF Housed
  <2>2. d.raw # b.raw
    BY DEF Housed
  <2>3. x # c
    BY <2>1, <2>2 DEF Inside
  <2> QED
    BY <2>1, <2>3
<1>3. ASSUME NEW x \in InUse(r) PROVE \E d \in L \ {b} : d.raw = x.addr + HDR
  <2>1. PICK d \in L : d.raw = x.addr + HDR
    BY DEF Housed
  <2>2. x.addr # c.addr /\ x.addr \in Nat /\ c.addr \in Nat /\ HDR \in Nat
    BY <1>1, ChunkFields, Bounds
  <2>3. d.raw # b.raw
    BY <2>1, <2>2
  <2> QED
    BY <2>1, <2>3
<1>4. \A d, e \in L \ {b} : d.raw = e.raw => d = e
  BY Zenon DEF Housed
<1> QED
  BY <1>2, <1>3, <1>4, Zenon DEF Housed

\* A block and its chunk.
LEMMA HomeOf ==
    ASSUME NEW cs, NEW L, Housed(cs, L), NEW b \in L
    PROVE  \E c \in InUse(cs) : Inside(b, c) /\ c.addr + HDR = b.raw
  BY DEF Housed, Inside

=============================================================================

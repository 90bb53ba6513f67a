-------------------------------- MODULE CStrings -------------------------------
(***************************************************************************)
(* libc/asm/string.asm and mem.asm on a memory of Size bytes. A byte is 0, *)
(* the terminator, or a small number; LowerOf folds the upper-case ones.   *)
(* Arguments are the ones string.h allows: strings that end inside the     *)
(* memory, destinations that fit, and no overlap but for memmove.          *)
(***************************************************************************)
EXTENDS Integers, Sequences, SequencesExt, FiniteSets

CONSTANTS Size, ByteValues, LowerOf

VARIABLES
  bytes,        \* the memory
  strtok_state, \* where the next strtok(NULL) goes on, or NoPtr
  text, delim,  \* the string being split and its delimiters
  tokens,       \* the tokens returned since, as they read on return
  call          \* the arguments <<d, s, n>> of the calls looked at, or <<>>

strVars == <<bytes, strtok_state, text, delim, tokens, call>>

NoPtr == -1
Addr == 0 .. Size - 1
Lower(c) == IF c \in DOMAIN LowerOf THEN LowerOf[c] ELSE c

--------------------------------------------------------------------------------
(* Scans *)

Terminator(m, s) ==
  LET end[p \in Addr] == IF m[p] = 0 THEN p ELSE end[p + 1] IN end[s]
strlen(m, s) == Terminator(m, s) - s

strchr(m, s, c) ==
  LET at[p \in Addr] == IF m[p] = c THEN p ELSE IF m[p] = 0 THEN NoPtr ELSE at[p + 1]
  IN at[s]

(* The last match so far is kept until the terminator. *)
strrchr(m, s, c) ==
  LET scan[p \in Addr, last \in Addr \cup {NoPtr}] ==
        LET match == IF m[p] = c THEN p ELSE last
        IN IF m[p] = 0 THEN match ELSE scan[p + 1, match]
  IN scan[s, NoPtr]

memchr(m, s, c, n) ==
  LET at[i \in 0 .. n] == IF i = n THEN NoPtr ELSE IF m[s + i] = c THEN s + i ELSE at[i + 1]
  IN at[0]

(* The inner loop stops only at the end of the haystack. *)
strstr(m, h, needle) ==
  LET inner[p \in Addr, q \in Addr] ==
        IF m[p] = 0 THEN m[q] = 0 ELSE m[p] = m[q] /\ inner[p + 1, q + 1]
      outer[p \in Addr] ==
        IF m[p] = 0 THEN NoPtr ELSE IF inner[p, needle] THEN p ELSE outer[p + 1]
  IN IF m[needle] = 0 THEN h ELSE outer[h]

--------------------------------------------------------------------------------
(* Comparisons *)

strcmp(m, a, b) ==
  LET from[i \in Addr] == IF m[a + i] # m[b + i] THEN m[a + i] - m[b + i]
                          ELSE IF m[a + i] = 0 THEN 0 ELSE from[i + 1]
  IN from[0]

strncmp(m, a, b, n) ==
  LET from[i \in 0 .. n] == IF i = n THEN 0
                            ELSE IF m[a + i] # m[b + i] THEN m[a + i] - m[b + i]
                            ELSE IF m[a + i] = 0 THEN 0 ELSE from[i + 1]
  IN from[0]

strcasecmp(m, a, b) ==
  LET from[i \in Addr] ==
        LET x == Lower(m[a + i])
            y == Lower(m[b + i])
        IN IF m[a + i] = 0 \/ m[b + i] = 0 \/ x # y THEN x - y ELSE from[i + 1]
  IN from[0]

memcmp(m, a, b, n) ==
  LET from[i \in 0 .. n] == IF i = n THEN 0
                            ELSE IF m[a + i] # m[b + i] THEN m[a + i] - m[b + i]
                            ELSE from[i + 1]
  IN from[0]

--------------------------------------------------------------------------------
(* Copies, byte by byte in the order of the loop *)

Upward(m, d, s, n) ==
  LET c[i \in 0 .. n] ==
        IF i = 0 THEN m ELSE LET p == c[i - 1] IN [p EXCEPT ![d + i - 1] = p[s + i - 1]]
  IN c[n]
Downward(m, d, s, n) ==
  LET c[i \in 0 .. n] ==
        IF i = 0 THEN m ELSE LET p == c[i - 1] IN [p EXCEPT ![d + n - i] = p[s + n - i]]
  IN c[n]

memset(m, d, c, n) == [x \in Addr |-> IF x \in d .. d + n - 1 THEN c ELSE m[x]]
memcpy(m, d, s, n) == Upward(m, d, s, n)
memmove(m, d, s, n) == IF d = s THEN m
                       ELSE IF d < s THEN Upward(m, d, s, n) ELSE Downward(m, d, s, n)
strcpy(m, d, s) == Upward(m, d, s, strlen(m, s) + 1)
strcat(m, d, s) == Upward(m, Terminator(m, d), s, strlen(m, s) + 1)

(* The bytes strncpy and strncat take: up to n of them, before the terminator. *)
Taken(m, s, n) == IF memchr(m, s, 0, n) = NoPtr THEN n ELSE memchr(m, s, 0, n) - s
strncpy(m, d, s, n) ==
  LET k == Taken(m, s, n) IN memset(Upward(m, d, s, k), d + k, 0, n - k)
strncat(m, d, s, n) ==
  LET k == Taken(m, s, n)
      end == Terminator(m, d)
  IN [Upward(m, end, s, k) EXCEPT ![end + k] = 0]

--------------------------------------------------------------------------------
(* strtok: skip delimiters, scan the token, cut it off. *)

Scan(m, p, stops) ==
  LET at[q \in Addr] == IF m[q] \in {0} \cup stops THEN q ELSE at[q + 1] IN at[p]

StrOf(m, s) == [i \in 1 .. strlen(m, s) |-> m[s + i - 1]]

\* Mutant of strtok: the next call starts at the terminator it wrote.
strtokStays(s, d) ==
  LET from == IF s # NoPtr THEN s ELSE strtok_state
      start == Scan(bytes, from, ByteValues \ d)
      end == Scan(bytes, start, d)
      before == IF s # NoPtr THEN <<>> ELSE tokens
  IN IF from = NoPtr \/ bytes[start] = 0
     THEN strtok_state' = NoPtr /\ UNCHANGED bytes /\ tokens' = before
     ELSE /\ bytes' = [bytes EXCEPT ![end] = 0]
          /\ strtok_state' = IF bytes[end] = 0 THEN NoPtr ELSE end
          /\ tokens' = Append(before, StrOf(bytes', start))

strtok(s, d) ==
  LET from == IF s # NoPtr THEN s ELSE strtok_state
      start == Scan(bytes, from, ByteValues \ d)
      end == Scan(bytes, start, d)
      before == IF s # NoPtr THEN <<>> ELSE tokens
  IN IF from = NoPtr \/ bytes[start] = 0
     THEN strtok_state' = NoPtr /\ UNCHANGED bytes /\ tokens' = before
     ELSE /\ bytes' = IF bytes[end] = 0 THEN bytes ELSE [bytes EXCEPT ![end] = 0]
          /\ strtok_state' = IF bytes[end] = 0 THEN NoPtr ELSE end + 1
          /\ tokens' = Append(before, StrOf(bytes', start))

--------------------------------------------------------------------------------
IsString(m, s) == \E p \in s .. Size - 1 : m[p] = 0
Holds(d, n) == d + n <= Size
Apart(a, b, n) == a + n <= b \/ b + n <= a

StrInit ==
  /\ bytes = [x \in Addr |-> 0]
  /\ strtok_state = NoPtr /\ text = <<>> /\ delim = {} /\ tokens = <<>> /\ call = <<>>

(* The program writes to a string it is splitting only through strtok. *)
Store(m) == /\ strtok_state = NoPtr /\ bytes' = m /\ UNCHANGED strtok_state
            /\ text' = <<>> /\ delim' = {} /\ tokens' = <<>>

StrNext ==
  \/ call = <<>> /\ UNCHANGED call /\
     \/ \E d \in Addr, c \in ByteValues : Store(memset(bytes, d, c, 1))
     \/ \E s \in Addr, d \in SUBSET (ByteValues \ {0}) :
          /\ IsString(bytes, s)
          /\ text' = StrOf(bytes, s) /\ delim' = d
          /\ strtok(s, d)
     \/ strtok(NoPtr, delim) /\ UNCHANGED <<text, delim>>
  \/ /\ call = <<>> /\ text = <<>> /\ delim = {}
     /\ call' \in Addr \X Addr \X (0 .. Size)
     /\ UNCHANGED <<bytes, strtok_state, text, delim, tokens>>
  \/ call # <<>> /\ call' = <<>> /\ UNCHANGED <<bytes, strtok_state, text, delim, tokens>>

StrSpec == StrInit /\ [][StrNext]_strVars

--------------------------------------------------------------------------------
(* strlen, strchr, strrchr and memchr return the first or the last place of *)
(* the byte among those of the string, the terminator included, and none    *)
(* outside it; what strstr reports is an occurrence, and it reports one     *)
(* whenever the haystack ends with the needle.                              *)
ScansExact ==
  (call # <<>> /\ IsString(bytes, call[1])) =>
    LET s == call[1]
        w == call[2]
        n == IF call[3] < Size - s THEN call[3] ELSE Size - s
        region == {p \in s .. Size - 1 : \A q \in s .. p - 1 : bytes[q] # 0}
        Of(c) == {p \in region : bytes[p] = c}
        EndsWith(p, x) == p + Len(x) \in region /\ bytes[p + Len(x)] = 0
                          /\ \A i \in DOMAIN x : bytes[p + i - 1] = x[i]
        FirstOf(hits) == IF hits = {} THEN NoPtr ELSE Min(hits)
    IN /\ Of(0) = {s + strlen(bytes, s)}
       /\ \A c \in ByteValues :
            /\ strchr(bytes, s, c) = FirstOf(Of(c))
            /\ strrchr(bytes, s, c) = IF Of(c) = {} THEN NoPtr ELSE Max(Of(c))
            /\ memchr(bytes, s, c, n) = FirstOf({p \in s .. s + n - 1 : bytes[p] = c})
       /\ (IsString(bytes, w) /\ bytes[w] # 0) =>
            strstr(bytes, s, w) = FirstOf({p \in region : EndsWith(p, StrOf(bytes, w))})

Sign(x) == IF x > 0 THEN 1 ELSE IF x < 0 THEN -1 ELSE 0
Less(x, y) ==
  \E i \in 1 .. Len(y) : /\ \A j \in 1 .. i - 1 : j <= Len(x) /\ x[j] = y[j]
                         /\ i = Len(x) + 1 \/ (i <= Len(x) /\ x[i] < y[i])
Order(x, y) == IF x = y THEN 0 ELSE IF Less(x, y) THEN -1 ELSE 1
Folded(x) == [i \in DOMAIN x |-> Lower(x[i])]
Begin(x, n) == SubSeq(x, 1, IF n < Len(x) THEN n ELSE Len(x))

(* The comparisons order strings byte by byte as unsigned numbers, a string *)
(* before its extensions; strncmp and memcmp look at n bytes only and       *)
(* strcasecmp at the lower-case forms.                                      *)
ComparisonsExact ==
  call # <<>> =>
    LET a == call[1]
        b == call[2]
        n == call[3]
    IN
    /\ (IsString(bytes, a) /\ IsString(bytes, b)) =>
         LET x == StrOf(bytes, a)
             y == StrOf(bytes, b)
         IN /\ Sign(strcmp(bytes, a, b)) = Order(x, y)
            /\ Sign(strcasecmp(bytes, a, b)) = Order(Folded(x), Folded(y))
            /\ Sign(strncmp(bytes, a, b, n)) = Order(Begin(x, n), Begin(y, n))
    /\ (Holds(a, n) /\ Holds(b, n)) =>
         (memcmp(bytes, a, b, n) = 0 <=> \A i \in 0 .. n - 1 : bytes[a + i] = bytes[b + i])

Placed(m, d, x) == [p \in Addr |-> IF p \in d .. d + Len(x) - 1 THEN x[p - d + 1] ELSE m[p]]
Read(m, s, n) == [i \in 1 .. n |-> m[s + i - 1]]

(* A copy puts the source, as it was before the call, at the destination    *)
(* and changes no other byte: memmove for every overlap, the others for     *)
(* buffers apart; strncpy pads to n bytes, strncat terminates.              *)
CopiesExact ==
  call # <<>> =>
    LET d == call[1]
        s == call[2]
        n == call[3]
    IN
    /\ (Holds(d, n) /\ Holds(s, n)) =>
         /\ memmove(bytes, d, s, n) = Placed(bytes, d, Read(bytes, s, n))
         /\ Apart(d, s, n) => memcpy(bytes, d, s, n) = memmove(bytes, d, s, n)
         /\ Apart(d, s, n) =>
              strncpy(bytes, d, s, n) =
                Placed(bytes, d, [i \in 1 .. n |-> IF 0 \in {bytes[s + j - 1] : j \in 1 .. i}
                                                  THEN 0 ELSE bytes[s + i - 1]])
    /\ (IsString(bytes, s) /\ IsString(bytes, d)) =>
         LET x == StrOf(bytes, s)
             y == StrOf(bytes, d)
             both == y \o Begin(x, n)
         IN /\ (Holds(d, Len(x) + 1) /\ Apart(d, s, Len(x) + 1)) =>
                 strcpy(bytes, d, s) = Placed(bytes, d, Append(x, 0))
            /\ (Holds(d, Len(both) + 1) /\ (s > d + Len(both) \/ d > s + Len(x))) =>
                 /\ strncat(bytes, d, s, n) = Placed(bytes, d, Append(both, 0))
                 /\ n >= Len(x) => strcat(bytes, d, s) = strncat(bytes, d, s, n)

Starts == {i \in DOMAIN text : text[i] \notin delim /\ (i = 1 \/ text[i - 1] \in delim)}
PieceAt(i) == SubSeq(text, i, Max({j \in i .. Len(text) : \A k \in i .. j : text[k] \notin delim}))
Pieces == [n \in 1 .. Cardinality(Starts) |-> PieceAt(SetToSortSeq(Starts, <)[n])]

(* The tokens strtok has returned are the first pieces of the string handed *)
(* to it, in order and none empty, and all of them once it has returned     *)
(* NULL, though each call cuts the string and remembers only one pointer.   *)
TokensInOrder ==
  /\ IsPrefix(tokens, Pieces)
  /\ strtok_state = NoPtr => tokens = Pieces

(* The routines of string.asm and mem.asm, each against its definition.     *)
StringsExact == ScansExact /\ ComparisonsExact /\ CopiesExact /\ TokensInOrder
================================================================================

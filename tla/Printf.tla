-------------------------------- MODULE Printf --------------------------------
(***************************************************************************)
(* vsnprintf and the output helpers under it: a format is expanded into a  *)
(* buffer of a given size.  A format is a sequence of directives with      *)
(* their arguments.                                                        *)
(***************************************************************************)
EXTENDS Integers, Sequences

CONSTANTS Word,        \* values of a machine word (2^32)
          TmpBytes,    \* bytes of out_uint's array
          Formats,     \* the formats used
          BufferSizes, MemoryBytes \* sizes passed; bytes of memory after buf

VARIABLES memory,  \* offset from buf -> character
          call     \* the call made: its format, size and result

printfVars == <<memory, call>>

Nul == "nul"
Untouched == "untouched"
DigitChars == <<"0", "1", "2", "3", "4", "5", "6", "7", "8", "9", "a", "b", "c", "d", "e", "f">>
NoCall == [fmt |-> <<>>, size |-> 0, result |-> 0]

(* The output so far: where the next character goes, and what remains. *)
\* Mutant of out_char: the last byte is not kept for the terminator.
OutCharFills(o, c) ==
  IF o.remaining > 0
  THEN [mem |-> [o.mem EXCEPT ![o.out] = c], out |-> o.out + 1, remaining |-> o.remaining - 1]
  ELSE o

out_char(o, c) ==
  IF o.remaining > 1
  THEN [mem |-> [o.mem EXCEPT ![o.out] = c], out |-> o.out + 1, remaining |-> o.remaining - 1]
  ELSE o

out_str(o, s) ==
  LET after[k \in 0 .. Len(s)] == IF k = 0 THEN o ELSE out_char(after[k - 1], s[k])
  IN after[Len(s)]

(* The digits are collected from the right in an array of TmpBytes. *)
out_uint(o, v, base) ==
  LET tmp[k \in 0 .. TmpBytes] ==
        IF k = 0 THEN [v |-> v, digits |-> <<>>]
        ELSE LET t == tmp[k - 1] IN
             IF t.v = 0 THEN t
             ELSE [v |-> t.v \div base, digits |-> <<DigitChars[(t.v % base) + 1]>> \o t.digits]
  IN IF v = 0 THEN out_char(o, "0") ELSE out_str(o, tmp[TmpBytes].digits)

out_int(o, v) ==
  IF v < 0 THEN out_uint(out_char(o, "-"), (-v) % Word, 10) ELSE out_uint(o, v, 10)

Directive(o, d) ==
  CASE d.conv = "text" -> out_char(o, d.arg)
    [] d.conv = "s" -> out_str(o, d.arg)
    [] d.conv = "c" -> out_char(o, d.arg)
    [] d.conv = "d" -> out_int(o, d.arg)
    [] d.conv = "u" -> out_uint(o, d.arg, 10)
    [] d.conv = "x" -> out_uint(o, d.arg, 16)
    [] d.conv = "p" -> out_uint(out_str(o, <<"0", "x">>), d.arg, 16)
    [] d.conv = "%" -> out_char(o, "%")
    [] OTHER -> out_char(o, "?")

vsnprintf(size, fmt) ==
  LET done[k \in 0 .. Len(fmt)] ==
        IF k = 0 THEN [mem |-> memory, out |-> 0, remaining |-> size]
        ELSE Directive(done[k - 1], fmt[k])
      o == done[Len(fmt)]
  IN [mem |-> IF size > 0 THEN [o.mem EXCEPT ![o.out] = Nul] ELSE o.mem, result |-> o.out]

PrintfInit == memory = [i \in 0 .. MemoryBytes - 1 |-> Untouched] /\ call = NoCall

Format(size, fmt) ==
  \E r \in {vsnprintf(size, fmt)} :
    /\ memory' = r.mem
    /\ call' = [fmt |-> fmt, size |-> size, result |-> r.result]

PrintfNext == call = NoCall /\ \E size \in BufferSizes, fmt \in Formats : Format(size, fmt)

PrintfSpec == PrintfInit /\ [][PrintfNext]_printfVars

--------------------------------------------------------------------------------
(* The reference: a numeral by its positions, and the expansion of a format. *)
Digit(v, base, k) == (v \div base^k) % base
Numeral(v, base) ==
  LET n == CHOOSE k \in 1 .. TmpBytes : v < base^k /\ (k = 1 \/ v >= base^(k - 1))
  IN [k \in 1 .. n |-> DigitChars[Digit(v, base, n - k) + 1]]
Spelled(d) ==
  CASE d.conv = "text" \/ d.conv = "c" -> <<d.arg>>
    [] d.conv = "s" -> d.arg
    [] d.conv = "d" /\ d.arg < 0 -> <<"-">> \o Numeral(0 - d.arg, 10)
    [] d.conv \in {"d", "u"} /\ d.arg >= 0 -> Numeral(d.arg, 10)
    [] d.conv = "x" -> Numeral(d.arg, 16)
    [] d.conv = "p" -> <<"0", "x">> \o Numeral(d.arg, 16)
    [] d.conv = "%" -> <<"%">>
    [] OTHER -> <<"?">>
Expansion(fmt) ==
  LET upto[k \in 0 .. Len(fmt)] == IF k = 0 THEN <<>> ELSE upto[k - 1] \o Spelled(fmt[k])
  IN upto[Len(fmt)]

(* The buffer holds as much of the expansion as fits before a terminator,   *)
(* the result counts it, and nothing outside the size given is touched,     *)
(* down to a size of 1 or 0 and up to the least and the greatest number.    *)
ExpansionFits ==
  LET text == Expansion(call.fmt)
      n == call.result
  IN /\ n = IF call.size = 0 THEN 0 ELSE IF Len(text) < call.size THEN Len(text) ELSE call.size - 1
     /\ \A i \in 0 .. n - 1 : memory[i] = text[i + 1]
     /\ call.size > 0 => memory[n] = Nul
     /\ \A i \in DOMAIN memory : i > n \/ call.size = 0 => memory[i] = Untouched
================================================================================

--------------------------------- MODULE Tools ---------------------------------
(***************************************************************************)
(* Three programs that show a file: type copies it to the terminal, more   *)
(* shows it a page at a time, hexdump prints its bytes in rows and a star  *)
(* for rows that repeat.  read may return less than was asked for, or an   *)
(* error; so may write, for type.                                          *)
(***************************************************************************)
EXTENDS Naturals, Sequences, FiniteSets

CONSTANTS Shown,            \* the files
          Newline,          \* the byte that ends a line
          BufferBytes, RowBytes, MORE_PAGE_LINES

VARIABLES tool, content, pos, \* the program; the file and the position in it
          buffer,  \* what was read and is not yet printed
          out,     \* bytes printed (type and more), or rows and stars (hexdump)
          lines,   \* more: lines since the last answer
          previous, repeated, offset, \* hexdump
          phase,   \* "reading", "prompt" or "done"
          outcome  \* "ok", "quit" or "error"

toolVars == <<tool, content, pos, buffer, out, lines, previous, repeated, offset, phase, outcome>>

(* What a read of at most n bytes can return, the end of the file being 0. *)
Amounts(n) ==
  LET left == IF Len(content) - pos < n THEN Len(content) - pos ELSE n
  IN IF left = 0 THEN {0} ELSE 1 .. left
Piece(n) == SubSeq(content, pos + 1, pos + n)
Stop(how) == phase' = "done" /\ outcome' = how

ToolsInit ==
  /\ tool \in {"type", "more", "hexdump"} /\ content \in Shown /\ pos = 0
  /\ buffer = <<>> /\ out = <<>> /\ lines = 0
  /\ previous = <<>> /\ repeated = FALSE /\ offset = 0
  /\ phase = "reading" /\ outcome = "ok"

--------------------------------------------------------------------------------
(* type and more read when everything is printed. *)
ReadBuffer ==
  /\ tool \in {"type", "more"} /\ phase = "reading" /\ buffer = <<>>
  /\ \E n \in Amounts(BufferBytes) :
       /\ buffer' = Piece(n) /\ pos' = pos + n
       /\ IF n = 0 THEN Stop("ok") ELSE UNCHANGED <<phase, outcome>>
  /\ UNCHANGED <<tool, content, out, lines, previous, repeated, offset>>

TypeWrites ==
  /\ tool = "type" /\ phase = "reading" /\ buffer # <<>>
  /\ \E n \in 1 .. Len(buffer) :
       out' = out \o SubSeq(buffer, 1, n) /\ buffer' = SubSeq(buffer, n + 1, Len(buffer))
  /\ UNCHANGED <<tool, content, pos, lines, previous, repeated, offset, phase, outcome>>

(* Any other result of read, or of type's write, ends the program; hexdump  *)
(* still prints a star it owes, and the offset.                             *)
Fails ==
  /\ phase = "reading" /\ (tool # "type" => tool = "hexdump" \/ buffer = <<>>)
  /\ out' = IF tool = "hexdump" /\ repeated THEN Append(out, [star |-> TRUE]) ELSE out
  /\ Stop("error")
  /\ UNCHANGED <<tool, content, pos, buffer, lines, previous, repeated, offset>>

MoreShows ==
  /\ tool = "more" /\ phase = "reading" /\ buffer # <<>>
  /\ out' = Append(out, Head(buffer)) /\ buffer' = Tail(buffer)
  /\ lines' = IF Head(buffer) = Newline THEN lines + 1 ELSE lines
  /\ phase' = IF lines' = MORE_PAGE_LINES /\ Head(buffer) = Newline THEN "prompt" ELSE phase
  /\ UNCHANGED <<tool, content, pos, previous, repeated, offset, outcome>>

(* An empty answer goes on, "quit" ends; an answer too long for the buffer  *)
(* is the error -1.                                                         *)
MoreAnswered(answer) ==
  /\ tool = "more" /\ phase = "prompt"
  /\ IF answer = "enter" THEN phase' = "reading" /\ lines' = 0 /\ UNCHANGED outcome
     ELSE Stop(answer) /\ UNCHANGED lines
  /\ UNCHANGED <<tool, content, pos, buffer, out, previous, repeated, offset>>

--------------------------------------------------------------------------------
(* A row of hexdump: read until it is full or the file ends. *)
\* Mutant of Printed: the star before a row that differs is left out.
PrintedPlain(row) ==
  IF Len(row) = RowBytes /\ previous = row
  THEN repeated' = TRUE /\ UNCHANGED <<out, previous>>
  ELSE /\ out' = Append(out, [star |-> FALSE, at |-> offset, bytes |-> row])
       /\ repeated' = FALSE /\ previous' = row

(* `previous' shorter than a row stands for previous_full_row = 0. *)
Printed(row) ==
  IF Len(row) = RowBytes /\ previous = row
  THEN repeated' = TRUE /\ UNCHANGED <<out, previous>>
  ELSE /\ out' = (IF repeated THEN Append(out, [star |-> TRUE]) ELSE out)
                 \o <<[star |-> FALSE, at |-> offset, bytes |-> row]>>
       /\ repeated' = FALSE /\ previous' = row

HexReads ==
  /\ tool = "hexdump" /\ phase = "reading"
  /\ \E n \in Amounts(RowBytes - Len(buffer)) :
       LET row == buffer \o Piece(n) IN
       /\ pos' = pos + n
       /\ CASE n > 0 /\ Len(row) < RowBytes ->
                 buffer' = row /\ UNCHANGED <<out, previous, repeated, offset, phase, outcome>>
            [] row # <<>> /\ (n = 0 \/ Len(row) = RowBytes) ->
                 /\ Printed(row) /\ buffer' = <<>> /\ offset' = offset + Len(row)
                 /\ UNCHANGED <<phase, outcome>>
            [] OTHER ->
                 /\ out' = IF repeated THEN Append(out, [star |-> TRUE]) ELSE out
                 /\ Stop("ok") /\ UNCHANGED <<buffer, previous, repeated, offset>>
  /\ UNCHANGED <<tool, content, lines>>

ToolsNext ==
  \/ ReadBuffer \/ TypeWrites \/ Fails \/ MoreShows \/ HexReads
  \/ \E answer \in {"enter", "quit", "error"} : MoreAnswered(answer)

ToolsSpec == ToolsInit /\ [][ToolsNext]_toolVars

--------------------------------------------------------------------------------
Newlines(s) == Cardinality({i \in 1 .. Len(s) : s[i] = Newline})

(* type and more print the bytes of the file in their order, each once and, *)
(* unless they fail or are left, all of them; between two answers more      *)
(* prints at most a page, and it asks exactly when the page is full.        *)
FileShown ==
  tool \in {"type", "more"} =>
    /\ out \o buffer = SubSeq(content, 1, pos)
    /\ phase = "done" /\ outcome = "ok" => out = content
    /\ tool = "more" => /\ lines <= MORE_PAGE_LINES
                        /\ Newlines(out) % MORE_PAGE_LINES = lines % MORE_PAGE_LINES
                        /\ phase = "prompt" <=> (lines = MORE_PAGE_LINES /\ phase # "done")

(* The rows that a dump stands for: a star stands for the row before it, as *)
(* often as the next offset says.                                           *)
DumpOf(rows, end) ==
  LET At(k) == IF k > Len(rows) THEN end ELSE IF rows[k].star THEN 0 ELSE rows[k].at
      upto[k \in 0 .. Len(rows)] ==
        IF k = 0 THEN <<>>
        ELSE IF ~rows[k].star THEN upto[k - 1] \o rows[k].bytes
        ELSE upto[k - 1] \o [i \in 1 .. At(k + 1) - Len(upto[k - 1]) |->
                               rows[k - 1].bytes[((i - 1) % RowBytes) + 1]]
  IN upto[Len(rows)]

(* Once it has ended a dump can be read back: its rows and stars give the   *)
(* bytes up to the offset printed last, all of them unless a read failed.   *)
DumpReadsBack ==
  tool = "hexdump" /\ phase = "done" =>
    /\ DumpOf(out, offset) = SubSeq(content, 1, offset)
    /\ outcome = "ok" => offset = Len(content)

================================================================================

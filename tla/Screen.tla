-------------------------------- MODULE Screen --------------------------------
(***************************************************************************)
(* The text screen: tty.c on VGA text memory, with its scrollback, and on  *)
(* the framebuffer console, and console.c itself.  Beside the screen the   *)
(* model keeps the paper a teletype would have printed: every line since   *)
(* the last clear.                                                         *)
(***************************************************************************)
EXTENDS Naturals, Sequences

CONSTANTS ROWS, COLS, LINES, \* the screen, and the lines of the scrollback
          TabStop, Glyphs,
          MaxChars           \* bound on the characters printed

VARIABLES backend, \* "vga", "framebuffer" or "console"
          cells,   \* row -> column -> character
          row, col,
          scrollback, scrollback_total, scrollback_offset,
          paper, sheet, \* the printed lines, and the one the teletype is at
          paged,       \* the screen was overwritten by a page of the scrollback
          polluted,    \* such a screen was scrolled into the scrollback
          printed

screenVars == <<backend, cells, row, col, scrollback, scrollback_total, scrollback_offset,
                paper, sheet, paged, polluted, printed>>

BlankRow == [c \in 0 .. COLS - 1 |-> " "]
BlankScreen == [r \in 0 .. ROWS - 1 |-> BlankRow]
Lesser(a, b) == IF a < b THEN a ELSE b

(* The state of the screen as a record, for the steps of one character. *)
Now == [cells |-> cells, row |-> row, col |-> col, ring |-> scrollback, total |-> scrollback_total,
        paper |-> paper, line |-> sheet, polluted |-> polluted]

vga_text_scroll(screen) ==
  [r \in 0 .. ROWS - 1 |-> IF r < ROWS - 1 THEN screen[r + 1] ELSE BlankRow]

\* Mutant of TTY_scroll: the last row is not cleared.
ScrollKeepsLast(s) ==
  [s EXCEPT !.cells = [r \in 0 .. ROWS - 1 |-> s.cells[IF r < ROWS - 1 THEN r + 1 ELSE r]],
            !.ring = IF backend = "vga" THEN [@ EXCEPT ![s.total % LINES] = s.cells[0]] ELSE @,
            !.total = IF backend = "vga" THEN @ + 1 ELSE @,
            !.polluted = @ \/ paged,
            !.row = IF @ > 0 THEN @ - 1 ELSE @]

TTY_scroll(s) ==
  [s EXCEPT !.cells = vga_text_scroll(@),
            !.ring = IF backend = "vga" THEN [@ EXCEPT ![s.total % LINES] = s.cells[0]] ELSE @,
            !.total = IF backend = "vga" THEN @ + 1 ELSE @,
            !.polluted = @ \/ paged,
            !.row = IF @ > 0 THEN @ - 1 ELSE @]

console_scroll(s) ==
  [s EXCEPT !.cells = vga_text_scroll(@), !.row = IF @ > 0 THEN @ - 1 ELSE @]

(* console.c sets the row after scrolling, tty.c relies on the decrement. *)
advance_line(s) ==
  LET next == [s EXCEPT !.col = 0, !.row = @ + 1] IN
  IF next.row < ROWS THEN next ELSE [console_scroll(next) EXCEPT !.row = ROWS - 1]

TTY_newline(s) ==
  LET next == [s EXCEPT !.col = 0, !.row = @ + 1] IN
  IF next.row < ROWS THEN next ELSE TTY_scroll(next)

NewLine(s) == IF backend = "console" THEN advance_line(s) ELSE TTY_newline(s)

(* What the teletype does for the same characters. *)
Feed(s) ==
  [s EXCEPT !.line = @ + 1,
            !.paper = IF s.line + 1 > Len(@) THEN Append(@, BlankRow) ELSE @]

PutGlyph(s, c) ==
  LET drawn == [s EXCEPT !.cells[s.row][s.col] = c, !.paper[s.line][s.col] = c] IN
  IF s.col + 1 >= COLS THEN Feed(NewLine(drawn)) ELSE [drawn EXCEPT !.col = @ + 1]

TTY_backspace(s) ==
  IF s.col = 0 /\ s.row = 0 THEN s
  ELSE LET back == IF s.col = 0 THEN [s EXCEPT !.row = @ - 1, !.col = COLS - 1, !.line = @ - 1]
                   ELSE [s EXCEPT !.col = @ - 1]
       IN [back EXCEPT !.cells[back.row][back.col] = " ", !.paper[back.line][back.col] = " "]

console_backspace(s) ==
  CASE s.col > 0 ->
         [s EXCEPT !.col = @ - 1, !.cells[s.row][s.col - 1] = " ", !.paper[s.line][s.col - 1] = " "]
    [] s.col = 0 /\ s.row > 0 ->
         [s EXCEPT !.row = @ - 1, !.col = COLS - 1, !.line = @ - 1,
                   !.cells[s.row - 1][COLS - 1] = " ", !.paper[s.line - 1][COLS - 1] = " "]
    [] OTHER -> s

TTY_tab(s) ==
  LET spaces[n \in 0 .. TabStop] ==
        IF n = 0 THEN s ELSE LET t == spaces[n - 1] IN PutGlyph(t, " ")
  IN spaces[TabStop - (s.col % TabStop)]

--------------------------------------------------------------------------------
(* A page of the scrollback written over the screen, row by row: a row that *)
(* is to show the live screen is read after earlier rows were overwritten.  *)
Oldest == IF scrollback_total > LINES THEN scrollback_total - LINES ELSE 0
Paged(screen, offset) ==
  LET first == scrollback_total - offset
      show[n \in 0 .. ROWS] ==
        IF n = 0 THEN screen
        ELSE LET done == show[n - 1]
                 logical == first + n - 1
             IN [done EXCEPT ![n - 1] =
                   IF logical < scrollback_total
                   THEN IF logical >= Oldest THEN scrollback[logical % LINES] ELSE BlankRow
                   ELSE done[logical - scrollback_total]]
  IN show[ROWS]

CanPage == backend = "vga" /\ scrollback_total > 0
MaxOffset == Lesser(scrollback_total, LINES)
UpBy(n) == IF n > MaxOffset - scrollback_offset THEN MaxOffset ELSE scrollback_offset + n
DownBy(n) == IF n > scrollback_offset THEN 0 ELSE scrollback_offset - n
PageRows == IF ROWS > 1 THEN ROWS - 1 ELSE 1

TTY_scrollback(offset) ==
  /\ CanPage
  /\ scrollback_offset' = offset
  /\ cells' = Paged(cells, offset)
  /\ paged' = (paged \/ Paged(cells, offset) # cells)
  /\ UNCHANGED <<backend, row, col, scrollback, scrollback_total, paper, sheet, polluted, printed>>

PageUp == TTY_scrollback(UpBy(PageRows))
PageDown == TTY_scrollback(DownBy(PageRows))

(* TTY_putc, console_putc: a character first ends the paging. *)
Back(s) ==
  IF scrollback_offset > 0 /\ CanPage THEN [s EXCEPT !.cells = Paged(cells, 0)] ELSE s

console_putc(s, ch) ==
  CASE ch = "newline" -> Feed(advance_line(s))
    [] ch = "return" -> [s EXCEPT !.col = 0]
    [] ch = "backspace" -> console_backspace(s)
    [] ch = "tab" -> TTY_tab(s)
    [] OTHER -> PutGlyph(s, ch)

After(s, ch) ==
  CASE backend = "console" -> console_putc(s, ch)
    [] ch = "newline" -> Feed(TTY_newline(s))
    [] ch = "return" -> [s EXCEPT !.col = 0]
    [] ch = "tab" -> TTY_tab(s)
    [] ch = "backspace" -> TTY_backspace(s)
    [] OTHER -> PutGlyph(s, ch)

TTY_putc(ch) ==
  /\ printed < MaxChars /\ printed' = printed + 1
  /\ \E s \in {After(Back(Now), ch)} :
       /\ cells' = s.cells /\ row' = s.row /\ col' = s.col
       /\ scrollback' = s.ring /\ scrollback_total' = s.total /\ polluted' = s.polluted
       /\ paper' = s.paper /\ sheet' = s.line
  /\ scrollback_offset' = 0
  /\ UNCHANGED <<backend, paged>>

TTY_clear ==
  /\ cells' = BlankScreen /\ row' = 0 /\ col' = 0
  /\ scrollback_total' = 0 /\ scrollback_offset' = 0
  /\ paper' = [r \in 1 .. ROWS |-> BlankRow] /\ sheet' = 1
  /\ paged' = FALSE /\ polluted' = FALSE
  /\ UNCHANGED <<backend, scrollback, printed>>

ScreenInit ==
  /\ backend \in {"vga", "framebuffer", "console"}
  /\ cells = BlankScreen /\ row = 0 /\ col = 0
  /\ scrollback = [i \in 0 .. LINES - 1 |-> BlankRow]
  /\ scrollback_total = 0 /\ scrollback_offset = 0
  /\ paper = [r \in 1 .. ROWS |-> BlankRow] /\ sheet = 1
  /\ paged = FALSE /\ polluted = FALSE /\ printed = 0

ScreenNext ==
  \/ \E ch \in Glyphs \cup {"newline", "return", "tab", "backspace"} : TTY_putc(ch)
  \/ PageUp \/ PageDown \/ TTY_clear

ScreenSpec == ScreenInit /\ [][ScreenNext]_screenVars

--------------------------------------------------------------------------------
Top == Len(paper) - ROWS

(* Until the scrollback was looked at, the screen is the end of the paper   *)
(* with the cursor where the teletype stands, whatever mix of wrapping,     *)
(* tabs, backspaces over line ends and scrolling led there.                 *)
ScreenIsPaper ==
  ~paged => /\ \A r \in 0 .. ROWS - 1 : cells[r] = paper[Top + r + 1]
            /\ Top + row + 1 = sheet

(* The scrollback holds the last lines that left the screen, the offset     *)
(* never leaves it, and a page shows these lines in their order.            *)
HistoryKept ==
  /\ row < ROWS /\ col < COLS /\ scrollback_offset <= MaxOffset
  /\ ~polluted => \A i \in Oldest .. scrollback_total - 1 : scrollback[i % LINES] = paper[i + 1]
  /\ ~polluted => \A r \in 0 .. Lesser(scrollback_offset, ROWS) - 1 :
                    cells[r] = paper[scrollback_total - scrollback_offset + r + 1]

(* The text output of tty.c and console.c: the screen is the end of the     *)
(* paper, and the scrollback what went before it.                           *)
ScreenSound == ScreenIsPaper /\ HistoryKept
================================================================================

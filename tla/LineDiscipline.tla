--------------------------- MODULE LineDiscipline ---------------------------
(***************************************************************************)
(* The line discipline of kernel/drivers/input/line.c: one line buffer     *)
(* that key events edit, a bounded command history with a saved draft, and *)
(* the two flags that hand a finished line to a reader.  Terminal    *)
(* interleaves its handlers.                                               *)
(***************************************************************************)
EXTENDS Integers, Sequences, FiniteSets

CONSTANTS
    Chars,              \* characters that can be typed
    LINE_BUFFER_SIZE,   \* 256 in the code; the buffer keeps a final NUL
    LINE_HISTORY_SIZE   \* 8 in the code

ASSUME LineAssumption ==
    /\ LINE_BUFFER_SIZE \in Nat \ {0}
    /\ LINE_HISTORY_SIZE \in Nat \ {0}

VARIABLES
    line_buffer,        \* the first line_len characters of line_buffer
    line_history,       \* line_history[0 .. line_history_count - 1]
    line_draft,
    line_history_index, \* -1, or an index into the history counted from 0
    g_line_ready,
    g_line_eof,
    edited              \* history variable: the text as the user last edited it

line == <<line_buffer, line_history, line_draft, line_history_index,
          g_line_ready, g_line_eof, edited>>

UpTo(n, S) == UNION {[1..k -> S] : k \in 0..n}
Lines == UpTo(LINE_BUFFER_SIZE - 1, Chars)
Controls == {"up", "down", "page", "ctrlC", "ctrlZ", "ctrlD", "enter", "backspace"}
Keys == Chars \cup Controls

ASSUME KeysAssumption == Chars \cap Controls = {}

LineTypeOK ==
    /\ line_buffer \in Lines
    /\ line_history \in UpTo(LINE_HISTORY_SIZE, Lines)
    /\ line_draft \in Lines
    /\ line_history_index \in -1..(Len(line_history) - 1)
    /\ g_line_ready \in BOOLEAN
    /\ g_line_eof \in BOOLEAN
    /\ edited \in Lines

LineInit ==
    /\ line_buffer = << >> /\ line_history = << >> /\ line_draft = << >>
    /\ line_history_index = -1
    /\ g_line_ready = FALSE /\ g_line_eof = FALSE
    /\ edited = << >>

-----------------------------------------------------------------------------
\* line_store_history: no empty line, no repetition of the newest entry, the
\* oldest entry makes room.
Stored ==
    IF \/ line_buffer = << >>
       \/ line_history # << >> /\ line_history[Len(line_history)] = line_buffer
    THEN line_history
    ELSE Append(IF Len(line_history) = LINE_HISTORY_SIZE
                THEN Tail(line_history) ELSE line_history, line_buffer)

\* line_history_move(-1): the draft is saved when browsing begins.
HistoryUp ==
    /\ IF line_history = << >> \/ line_history_index = 0
       THEN UNCHANGED <<line_buffer, line_draft, line_history_index>>
       ELSE /\ line_history_index' = IF line_history_index < 0
                                     THEN Len(line_history) - 1
                                     ELSE line_history_index - 1
            /\ line_draft' = IF line_history_index < 0 THEN line_buffer
                             ELSE line_draft
            /\ line_buffer' = line_history[line_history_index' + 1]
    /\ UNCHANGED <<line_history, g_line_ready, g_line_eof, edited>>

\* line_history_move(1): past the newest entry the draft comes back.
HistoryDown ==
    /\ IF line_history_index < 0
       THEN UNCHANGED <<line_buffer, line_history_index>>
       ELSE IF line_history_index < Len(line_history) - 1
       THEN /\ line_history_index' = line_history_index + 1
            /\ line_buffer' = line_history[line_history_index' + 1]
       ELSE /\ line_history_index' = -1
            /\ line_buffer' = line_draft
    /\ UNCHANGED <<line_draft, line_history, g_line_ready, g_line_eof, edited>>

\* The user's own text becomes s; browsing ends.
Edit(s) ==
    /\ line_buffer' = s /\ edited' = s
    /\ line_history_index' = -1
    /\ UNCHANGED <<line_draft, line_history, g_line_ready, g_line_eof>>

\* Mutant of Type: an appended character does not end browsing.
TypeKeepsIndex(c) ==
    /\ line_buffer' = IF Len(line_buffer) < LINE_BUFFER_SIZE - 1
                      THEN Append(line_buffer, c) ELSE line_buffer
    /\ edited' = line_buffer'
    /\ UNCHANGED <<line_draft, line_history, line_history_index, g_line_ready,
                   g_line_eof>>

Type(c) ==
    IF Len(line_buffer) < LINE_BUFFER_SIZE - 1
    THEN Edit(Append(line_buffer, c)) ELSE UNCHANGED line

Backspace ==
    IF line_buffer # << >> THEN Edit(SubSeq(line_buffer, 1, Len(line_buffer) - 1)) ELSE UNCHANGED line

\* Enter: the line is stored and submitted.
Enter ==
    /\ line_history' = Stored
    /\ line_history_index' = -1
    /\ g_line_ready' = TRUE
    /\ UNCHANGED <<line_buffer, line_draft, g_line_eof, edited>>

\* Ctrl+D: end of file on an empty line, otherwise the line is submitted.
CtrlD ==
    IF line_buffer = << >>
    THEN /\ g_line_eof' = TRUE
         /\ UNCHANGED <<line_buffer, line_history, line_draft,
                        line_history_index, g_line_ready, edited>>
    ELSE /\ line_history' = Stored
         /\ g_line_ready' = TRUE
         /\ UNCHANGED <<line_buffer, line_draft, line_history_index, g_line_eof,
                        edited>>

\* line_handle_keyevent after its check: what key k does to the line.
Apply(k) ==
    CASE k \in Chars -> Type(k)
      [] k = "up" -> HistoryUp
      [] k = "down" -> HistoryDown
      [] k = "ctrlC" -> Edit(<< >>)
      [] k = "backspace" -> Backspace
      [] k = "enter" -> Enter
      [] k = "ctrlD" -> CtrlD
      [] OTHER -> UNCHANGED line    \* page keys scroll, Ctrl+Z only signals

\* The keys on which the handler calls sched_yield.
Submits(k) == k = "enter" \/ (k = "ctrlD" /\ line_buffer = << >>)

Submitted == g_line_ready \/ g_line_eof

\* line_consume (line_reset).
Consume ==
    /\ line_buffer' = << >> /\ edited' = << >>
    /\ line_history_index' = -1
    /\ g_line_ready' = FALSE /\ g_line_eof' = FALSE
    /\ UNCHANGED <<line_history, line_draft>>

-----------------------------------------------------------------------------
\* "Up/Down command-history navigation with draft restoration": while a line is
\* being edited the buffer shows the user's own text or the history entry that
\* line_history_index names, and in the second case the user's text is safe in
\* line_draft, from where Down restores it.
DraftKept ==
    ~Submitted =>
        IF line_history_index = -1 THEN line_buffer = edited
        ELSE /\ line_buffer = line_history[line_history_index + 1]
             /\ line_draft = edited

\* The history is what was submitted: no empty entry, no entry twice in a row,
\* and a line that waits for its reader is the newest entry.
HistorySound ==
    /\ \A i \in DOMAIN line_history : line_history[i] # << >>
    /\ \A i \in 1..(Len(line_history) - 1) : line_history[i] # line_history[i + 1]
    /\ g_line_ready /\ line_buffer # << >> => line_history[Len(line_history)] = line_buffer
=============================================================================

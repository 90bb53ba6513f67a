--------------------------- MODULE TerminalProofs ---------------------------
(***************************************************************************)
(* The terminal keeps what is typed and hands every line to one reader,    *)
(* for any buffers, histories and readers, where keys come from one source *)
(* (OneSource).                                                            *)
(***************************************************************************)
EXTENDS Terminal, TLAPS, FiniteSetTheorems

-----------------------------------------------------------------------------
(* Lines and histories.                                                    *)

LEMMA LinesFacts ==
    ASSUME NEW s
    PROVE  s \in Lines <=> s \in Seq(Chars) /\ Len(s) <= LINE_BUFFER_SIZE - 1
  BY LineAssumption DEF Lines, UpTo

LEMMA HistoryFacts ==
    ASSUME NEW h
    PROVE  h \in UpTo(LINE_HISTORY_SIZE, Lines)
             <=> h \in Seq(Lines) /\ Len(h) <= LINE_HISTORY_SIZE
  BY LineAssumption DEF UpTo

\* Typing and erasing keep a line within the buffer.
LEMMA EditFacts ==
    ASSUME NEW s \in Lines
    PROVE  /\ << >> \in Lines
           /\ \A c \in Chars : Len(s) < LINE_BUFFER_SIZE - 1 => Append(s, c) \in Lines
           /\ s # << >> => SubSeq(s, 1, Len(s) - 1) \in Lines
<1>1. s \in Seq(Chars) /\ Len(s) \in Nat /\ Len(s) <= LINE_BUFFER_SIZE - 1
  BY LinesFacts
<1>n. LINE_BUFFER_SIZE \in Nat \ {0}
  BY LineAssumption
<1>2. << >> \in Lines
  <2>1. << >> \in Seq(Chars) /\ Len(<< >>) <= LINE_BUFFER_SIZE - 1
    BY <1>n
  <2> QED
    BY <2>1, LinesFacts, Zenon
<1>3. ASSUME NEW c \in Chars, Len(s) < LINE_BUFFER_SIZE - 1 PROVE Append(s, c) \in Lines
  <2>1. Append(s, c) \in Seq(Chars) /\ Len(Append(s, c)) <= LINE_BUFFER_SIZE - 1
    BY <1>1, <1>3, <1>n
  <2> QED
    BY <2>1, LinesFacts, Zenon
<1>4. ASSUME s # << >> PROVE SubSeq(s, 1, Len(s) - 1) \in Lines
  <2>1. SubSeq(s, 1, Len(s) - 1) \in Seq(Chars) /\ Len(SubSeq(s, 1, Len(s) - 1)) <= LINE_BUFFER_SIZE - 1
    BY <1>1, <1>4, <1>n
  <2> QED
    BY <2>1, LinesFacts, Zenon
<1> QED
  BY <1>2, <1>3, <1>4

\* No empty entry, no entry twice in a row.
NoEmpty(h) == \A i \in 1..Len(h) : h[i] # << >>
NoRepeat(h) == \A i \in 1..(Len(h) - 1) : h[i] # h[i + 1]

\* line_store_history on a history h and a line b.
Last(h) == h[Len(h)]
Store(h, b) ==
    IF b = << >> \/ (h # << >> /\ Last(h) = b)
    THEN h ELSE Append(IF Len(h) = LINE_HISTORY_SIZE THEN Tail(h) ELSE h, b)

LEMMA AppendHistory ==
    ASSUME NEW S, NEW h \in Seq(S), NEW b \in S, b # << >>, NoEmpty(h), NoRepeat(h),
           h # << >> => Last(h) # b
    PROVE  /\ Append(h, b) \in Seq(S) /\ Len(Append(h, b)) = Len(h) + 1
           /\ NoEmpty(Append(h, b)) /\ NoRepeat(Append(h, b)) /\ Last(Append(h, b)) = b
<1> DEFINE r == Append(h, b)
<1>1. /\ r \in Seq(S) /\ Len(h) \in Nat /\ Len(r) = Len(h) + 1 /\ r[Len(h) + 1] = b
      /\ \A i \in 1..Len(h) : r[i] = h[i]
  OBVIOUS
<1> HIDE DEF r
<1>2. NoEmpty(r)
  BY <1>1 DEF NoEmpty
<1>3. ASSUME NEW i \in 1..(Len(r) - 1) PROVE r[i] # r[i + 1]
  <2>1. CASE i = Len(h)
    BY <1>1, <2>1 DEF Last
  <2>2. CASE i # Len(h)
    <3>1. i \in 1..(Len(h) - 1) /\ i \in 1..Len(h) /\ i + 1 \in 1..Len(h)
      BY <1>1, <2>2
    <3> QED
      BY <1>1, <3>1 DEF NoRepeat
  <2> QED
    BY <2>1, <2>2
<1> QED
  BY <1>1, <1>2, <1>3 DEF NoRepeat, Last, r

LEMMA StoreFacts ==
    ASSUME NEW S, NEW h \in Seq(S), NEW b \in S, NoEmpty(h), NoRepeat(h),
           Len(h) <= LINE_HISTORY_SIZE
    PROVE  /\ Store(h, b) \in Seq(S) /\ Len(Store(h, b)) <= LINE_HISTORY_SIZE
           /\ Len(h) <= Len(Store(h, b)) /\ NoEmpty(Store(h, b)) /\ NoRepeat(Store(h, b))
           /\ b # << >> => Last(Store(h, b)) = b
<1>0. Len(h) \in Nat /\ LINE_HISTORY_SIZE \in Nat \ {0}
  BY LineAssumption
<1>1. CASE b = << >> \/ (h # << >> /\ Last(h) = b)
  <2>1. Store(h, b) = h
    BY <1>1, Zenon DEF Store
  <2> QED
    BY <1>0, <1>1, <2>1
<1>2. CASE ~(b = << >> \/ (h # << >> /\ Last(h) = b))
  <2>1. CASE Len(h) = LINE_HISTORY_SIZE
    <3> DEFINE t == Tail(h)
    <3>1. Store(h, b) = Append(t, b)
      BY <1>2, <2>1, Zenon DEF Store
    <3>2. /\ t \in Seq(S) /\ Len(t) = Len(h) - 1
          /\ \A i \in 1..Len(t) : t[i] = h[i + 1]
      BY <1>0, <2>1
    <3> HIDE DEF t
    <3>3. NoEmpty(t) /\ NoRepeat(t)
      BY <1>0, <2>1, <3>2 DEF NoEmpty, NoRepeat
    <3>4. t # << >> => Last(t) # b
      <4>1. ASSUME t # << >> PROVE Last(t) = Last(h)
        BY <1>0, <2>1, <3>2, <4>1 DEF Last
      <4> QED
        BY <1>0, <1>2, <2>1, <4>1
    <3>5. /\ Append(t, b) \in Seq(S) /\ Len(Append(t, b)) = Len(t) + 1
          /\ NoEmpty(Append(t, b)) /\ NoRepeat(Append(t, b)) /\ Last(Append(t, b)) = b
      BY <1>2, <3>2, <3>3, <3>4, AppendHistory
    <3> QED
      BY <1>0, <2>1, <3>1, <3>2, <3>5
  <2>2. CASE Len(h) # LINE_HISTORY_SIZE
    <3>1. Store(h, b) = Append(h, b)
      BY <1>2, <2>2, Zenon DEF Store
    <3>2. /\ Append(h, b) \in Seq(S) /\ Len(Append(h, b)) = Len(h) + 1
          /\ NoEmpty(Append(h, b)) /\ NoRepeat(Append(h, b)) /\ Last(Append(h, b)) = b
      BY <1>2, AppendHistory
    <3> QED
      BY <1>0, <2>2, <3>1, <3>2
  <2> QED
    BY <2>1, <2>2
<1> QED
  BY <1>1, <1>2
-----------------------------------------------------------------------------
(* The handlers of line.c.                                                 *)

LineOK == LineTypeOK /\ DraftKept /\ HistorySound /\ ~(g_line_ready /\ g_line_eof)

LEMMA LineTypes ==
    ASSUME LineTypeOK
    PROVE  /\ line_buffer \in Lines /\ line_draft \in Lines /\ edited \in Lines
           /\ line_history \in Seq(Lines) /\ Len(line_history) \in Nat
           /\ Len(line_history) <= LINE_HISTORY_SIZE
           /\ line_history_index \in Int
           /\ -1 <= line_history_index /\ line_history_index <= Len(line_history) - 1
           /\ DOMAIN line_history = 1..Len(line_history)
<1>1. line_history \in Seq(Lines) /\ Len(line_history) <= LINE_HISTORY_SIZE
  BY HistoryFacts DEF LineTypeOK
<1>2. Len(line_history) \in Nat /\ DOMAIN line_history = 1..Len(line_history)
  BY <1>1
<1> QED
  BY <1>1, <1>2 DEF LineTypeOK

\* A step that leaves the line alone.
LEMMA LineKept ==
    ASSUME LineOK, UNCHANGED line
    PROVE  LineOK' /\ UNCHANGED <<Submitted, Boxed>>
<1>1. UNCHANGED <<line_buffer, line_history, line_draft, line_history_index, g_line_ready,
                  g_line_eof, edited>>
  BY DEF line
<1> QED
  BY <1>1 DEF LineOK, LineTypeOK, DraftKept, HistorySound, Submitted, Boxed

\* Typing, erasing and Ctrl+C.
LEMMA EditInv ==
    ASSUME LineOK, ~Submitted, NEW s \in Lines, Edit(s)
    PROVE  LineOK'
<1>1. /\ line_buffer' = s /\ edited' = s /\ line_history_index' = -1
      /\ line_draft' = line_draft /\ line_history' = line_history
      /\ g_line_ready' = g_line_ready /\ g_line_eof' = g_line_eof
  BY DEF Edit
<1>2. LineTypeOK'
  <2>1. -1 \in -1..(Len(line_history) - 1)
    BY LineTypes DEF LineOK
  <2> QED
    BY <1>1, <2>1 DEF LineOK, LineTypeOK
<1>3. DraftKept'
  BY <1>1 DEF DraftKept
<1>4. HistorySound'
  BY <1>1 DEF LineOK, HistorySound, Submitted
<1> QED
  BY <1>1, <1>2, <1>3, <1>4 DEF LineOK

\* Up.
LEMMA UpInv ==
    ASSUME LineOK, ~Submitted, HistoryUp
    PROVE  LineOK'
<1>t. /\ line_buffer \in Lines /\ line_draft \in Lines /\ edited \in Lines
      /\ line_history \in Seq(Lines) /\ Len(line_history) \in Nat
      /\ line_history_index \in Int
      /\ -1 <= line_history_index /\ line_history_index <= Len(line_history) - 1
  BY LineTypes DEF LineOK
<1>1. /\ line_history' = line_history /\ edited' = edited
      /\ g_line_ready' = g_line_ready /\ g_line_eof' = g_line_eof
  BY DEF HistoryUp
<1>2. CASE line_history = << >> \/ line_history_index = 0
  <2>1. UNCHANGED <<line_buffer, line_draft, line_history_index>>
    BY <1>2, Zenon DEF HistoryUp
  <2> QED
    BY <1>1, <2>1, LineKept DEF line
<1>3. CASE ~(line_history = << >> \/ line_history_index = 0)
  <2>1. /\ line_history_index' = IF line_history_index < 0 THEN Len(line_history) - 1
                                 ELSE line_history_index - 1
        /\ line_draft' = IF line_history_index < 0 THEN line_buffer ELSE line_draft
        /\ line_buffer' = line_history[line_history_index' + 1]
    BY <1>3, Zenon DEF HistoryUp
  <2>2. line_history_index' \in 0..(Len(line_history) - 1)
    BY <1>3, <1>t, <2>1
  <2>3. line_history_index' + 1 \in 1..Len(line_history) /\ line_history_index' # -1
        /\ line_history_index' \in -1..(Len(line_history) - 1)
    <3> DEFINE n == Len(line_history)  i == line_history_index'
    <3>1. n \in Nat /\ i \in 0..(n - 1)
      BY <1>t, <2>2
    <3> HIDE DEF n, i
    <3>2. i + 1 \in 1..n /\ i # -1 /\ i \in -1..(n - 1)
      BY <3>1
    <3> QED
      BY <3>2, Zenon DEF n, i
  <2>4. line_buffer' \in Lines
    BY <1>t, <2>1, <2>3
  <2>5. line_draft' = edited
    <3>1. CASE line_history_index = -1
      BY <2>1, <3>1 DEF LineOK, DraftKept
    <3>2. CASE line_history_index # -1
      BY <1>t, <2>1, <3>2 DEF LineOK, DraftKept
    <3> QED
      BY <3>1, <3>2
  <2>6. LineTypeOK'
    BY <1>1, <1>t, <2>3, <2>4, <2>5 DEF LineOK, LineTypeOK
  <2>7. DraftKept'
    BY <1>1, <2>1, <2>3, <2>5, Zenon DEF DraftKept
  <2>8. HistorySound'
    BY <1>1 DEF LineOK, HistorySound, Submitted
  <2> QED
    BY <1>1, <2>6, <2>7, <2>8 DEF LineOK
<1> QED
  BY <1>2, <1>3

\* Down.
LEMMA DownInv ==
    ASSUME LineOK, ~Submitted, HistoryDown
    PROVE  LineOK'
<1>t. /\ line_buffer \in Lines /\ line_draft \in Lines /\ edited \in Lines
      /\ line_history \in Seq(Lines) /\ Len(line_history) \in Nat
      /\ line_history_index \in Int
      /\ -1 <= line_history_index /\ line_history_index <= Len(line_history) - 1
  BY LineTypes DEF LineOK
<1>1. /\ line_history' = line_history /\ edited' = edited /\ line_draft' = line_draft
      /\ g_line_ready' = g_line_ready /\ g_line_eof' = g_line_eof
  BY DEF HistoryDown
<1>2. HistorySound'
  BY <1>1 DEF LineOK, HistorySound, Submitted
<1>3. CASE line_history_index < 0
  BY <1>1, <1>3, LineKept DEF HistoryDown, line
<1>4. CASE ~(line_history_index < 0)
  <2>0. line_draft = edited
    BY <1>4, <1>t DEF LineOK, DraftKept
  <2>1. CASE line_history_index < Len(line_history) - 1
    <3>1. /\ line_history_index' = line_history_index + 1
          /\ line_buffer' = line_history[line_history_index' + 1]
      BY <1>4, <2>1, Zenon DEF HistoryDown
    <3>2. line_history_index' + 1 \in 1..Len(line_history) /\ line_history_index' # -1
          /\ line_history_index' \in -1..(Len(line_history) - 1)
      BY <1>4, <1>t, <2>1, <3>1
    <3>3. line_buffer' \in Lines
      BY <1>t, <3>1, <3>2
    <3>4. LineTypeOK'
      BY <1>1, <1>t, <3>2, <3>3 DEF LineOK, LineTypeOK
    <3>5. DraftKept'
      BY <1>1, <2>0, <3>1, <3>2, Zenon DEF DraftKept
    <3> QED
      BY <1>1, <1>2, <3>4, <3>5 DEF LineOK
  <2>2. CASE ~(line_history_index < Len(line_history) - 1)
    <3>1. line_history_index' = -1 /\ line_buffer' = line_draft
      BY <1>4, <2>2, Zenon DEF HistoryDown
    <3>2. -1 \in -1..(Len(line_history) - 1)
      BY <1>t
    <3>3. LineTypeOK'
      BY <1>1, <1>t, <3>1, <3>2 DEF LineOK, LineTypeOK
    <3>4. DraftKept'
      BY <1>1, <2>0, <3>1 DEF DraftKept
    <3> QED
      BY <1>1, <1>2, <3>3, <3>4 DEF LineOK
  <2> QED
    BY <2>1, <2>2
<1> QED
  BY <1>3, <1>4
\* A line is stored and submitted.
LEMMA SubmitInv ==
    ASSUME LineOK, ~Submitted, line_history' = Stored, g_line_ready' = TRUE,
           line_history_index' = -1 \/ line_history_index' = line_history_index,
           UNCHANGED <<line_buffer, line_draft, g_line_eof, edited>>
    PROVE  LineOK'
<1>t. /\ line_buffer \in Lines /\ line_history \in Seq(Lines) /\ Len(line_history) \in Nat
      /\ Len(line_history) <= LINE_HISTORY_SIZE /\ line_history_index \in Int
      /\ -1 <= line_history_index /\ line_history_index <= Len(line_history) - 1
  BY LineTypes DEF LineOK
<1>1. NoEmpty(line_history) /\ NoRepeat(line_history)
  BY LineTypes DEF LineOK, HistorySound, NoEmpty, NoRepeat
<1>2. Stored = Store(line_history, line_buffer)
  BY DEF Stored, Store, Last
<1>3. /\ line_history' \in Seq(Lines) /\ Len(line_history') <= LINE_HISTORY_SIZE
      /\ Len(line_history) <= Len(line_history') /\ NoEmpty(line_history')
      /\ NoRepeat(line_history')
      /\ line_buffer # << >> => Last(line_history') = line_buffer
  BY <1>t, <1>1, <1>2, StoreFacts
<1>4. line_history' \in UpTo(LINE_HISTORY_SIZE, Lines)
  BY <1>3, HistoryFacts
<1>5. DOMAIN line_history' = 1..Len(line_history') /\ Len(line_history') \in Nat
  BY <1>3
<1>6. line_history_index' \in -1..(Len(line_history') - 1)
  BY <1>t, <1>3, <1>5
<1>7. LineTypeOK'
  BY <1>4, <1>6 DEF LineOK, LineTypeOK
<1>8. DraftKept'
  BY DEF DraftKept, Submitted
<1>9. HistorySound'
  <2>1. /\ \A i \in DOMAIN line_history' : line_history'[i] # << >>
        /\ \A i \in 1..(Len(line_history') - 1) : line_history'[i] # line_history'[i + 1]
    BY <1>3, <1>5, Zenon DEF NoEmpty, NoRepeat
  <2> QED
    BY <1>3, <2>1, Zenon DEF HistorySound, Last
<1>10. ~g_line_eof'
  BY DEF Submitted
<1> QED
  BY <1>7, <1>8, <1>9, <1>10 DEF LineOK

\* Ctrl+D on an empty line.
LEMMA EofInv ==
    ASSUME LineOK, ~Submitted, g_line_eof' = TRUE,
           UNCHANGED <<line_buffer, line_history, line_draft, line_history_index,
                       g_line_ready, edited>>
    PROVE  LineOK'
<1>1. LineTypeOK'
  BY DEF LineOK, LineTypeOK
<1>2. DraftKept'
  BY DEF DraftKept, Submitted
<1>3. HistorySound' /\ ~g_line_ready'
  BY DEF LineOK, HistorySound, Submitted
<1> QED
  BY <1>1, <1>2, <1>3 DEF LineOK

\* line_handle_keyevent after its check.
LEMMA ApplyInv ==
    ASSUME LineOK, ~Submitted, NEW k \in Keys, Apply(k)
    PROVE  LineOK'
<1>0. line_buffer \in Lines
  BY LineTypes DEF LineOK
<1>1. CASE k \in Chars
  <2>1. Type(k)
    BY <1>1, KeysAssumption DEF Apply, Controls
  <2>2. CASE Len(line_buffer) < LINE_BUFFER_SIZE - 1
    BY <1>0, <1>1, <2>1, <2>2, EditFacts, EditInv DEF Type
  <2>3. CASE ~(Len(line_buffer) < LINE_BUFFER_SIZE - 1)
    BY <2>1, <2>3, LineKept DEF Type
  <2> QED
    BY <2>2, <2>3
<1>2. CASE k = "up"
  BY <1>2, KeysAssumption, UpInv DEF Apply, Controls
<1>3. CASE k = "down"
  BY <1>3, KeysAssumption, DownInv DEF Apply, Controls
<1>4. CASE k = "ctrlC"
  <2>1. Edit(<< >>)
    BY <1>4, KeysAssumption DEF Apply, Controls
  <2> QED
    BY <1>0, <2>1, EditFacts, EditInv
<1>5. CASE k = "backspace"
  <2>1. Backspace
    BY <1>5, KeysAssumption DEF Apply, Controls
  <2> QED
    BY <1>0, <2>1, EditFacts, EditInv, LineKept DEF Backspace
<1>6. CASE k = "enter"
  <2>1. Enter
    BY <1>6, KeysAssumption DEF Apply, Controls
  <2> QED
    BY <2>1, SubmitInv DEF Enter
<1>7. CASE k = "ctrlD"
  <2>1. CtrlD
    BY <1>7, KeysAssumption DEF Apply, Controls
  <2>2. CASE line_buffer = << >>
    BY <2>1, <2>2, EofInv DEF CtrlD
  <2>3. CASE line_buffer # << >>
    BY <2>1, <2>3, SubmitInv DEF CtrlD
  <2> QED
    BY <2>2, <2>3
<1>8. CASE k \in {"page", "ctrlZ"}
  <2>1. UNCHANGED line
    BY <1>8, KeysAssumption DEF Apply, Controls
  <2> QED
    BY <2>1, LineKept
<1> QED
  BY <1>1, <1>2, <1>3, <1>4, <1>5, <1>6, <1>7, <1>8 DEF Keys, Controls

\* line_consume.
LEMMA ConsumeInv ==
    ASSUME LineOK, Consume
    PROVE  LineOK' /\ ~Submitted'
<1>1. /\ line_buffer' = << >> /\ edited' = << >> /\ line_history_index' = -1
      /\ g_line_ready' = FALSE /\ g_line_eof' = FALSE
      /\ line_history' = line_history /\ line_draft' = line_draft
  BY DEF Consume
<1>2. LineTypeOK'
  <2>1. << >> \in Lines /\ -1 \in -1..(Len(line_history) - 1)
    BY LineTypes, EditFacts DEF LineOK
  <2> QED
    BY <1>1, <2>1, Zenon DEF LineOK, LineTypeOK
<1>3. DraftKept'
  BY <1>1 DEF DraftKept
<1>4. HistorySound'
  BY <1>1 DEF LineOK, HistorySound
<1> QED
  BY <1>1, <1>2, <1>3, <1>4 DEF LineOK, Submitted
-----------------------------------------------------------------------------
(* Threads.                                                                *)

ThreadTypes ==
    /\ running \in Readers \cup {serial}
    /\ ready \in Seq(Readers \cup {serial}) /\ Len(ready) = Cardinality(Readers)
    /\ pc \in [Readers \cup {serial} -> {"poll", "apply", "yield", "read", "work"}]
    /\ key \in Keys \cup {None}
    /\ irq1 \in Readers \cup {serial, None}
    /\ got \in [Readers -> Lines \cup {EofMark, None}]

ThreadInv == ThreadTypes /\ CheckHolds /\ (irq1 # None => Keyboard)

LEMMA Parts == TerminalInv <=> LineOK /\ ThreadInv
  BY DEF TerminalInv, EditingSound, TypeOK, LineOK, ThreadTypes, ThreadInv

LEMMA PartsNext == LineOK' /\ ThreadInv' => TerminalInv'
  BY DEF TerminalInv, EditingSound, TypeOK, LineOK, ThreadTypes, ThreadInv

LEMMA ReaderCount == Cardinality(Readers) \in Nat \ {0}
<1>1. IsFiniteSet(Readers) /\ Readers # {}
  BY TerminalAssumption
<1> QED
  BY <1>1, FS_CardinalityType, FS_EmptySet

\* ksched_yield.
LEMMA YieldTypes ==
    ASSUME ThreadTypes, Yield
    PROVE  /\ running' \in Readers \cup {serial}
           /\ ready' \in Seq(Readers \cup {serial}) /\ Len(ready') = Cardinality(Readers)
<1> DEFINE T == Readers \cup {serial}
<1>1. running \in T /\ ready \in Seq(T) /\ Len(ready) \in Nat \ {0}
  BY ReaderCount DEF ThreadTypes
<1>2. Len(ready) = Cardinality(Readers) /\ running' = Head(ready) /\ ready' = Append(Tail(ready), running)
  BY DEF ThreadTypes, Yield
<1> HIDE DEF T
<1>3. Head(ready) \in T /\ Tail(ready) \in Seq(T) /\ Len(Tail(ready)) = Len(ready) - 1
  BY <1>1
<1>4. Append(Tail(ready), running) \in Seq(T) /\ Len(Append(Tail(ready), running)) = Len(ready)
  BY <1>1, <1>3
<1> QED
  BY <1>2, <1>3, <1>4 DEF T

\* What a thread does with itself: pc, key, irq1 and got change within their types,
\* it yields or goes on, and the serial thread is not sent to edit the line.
LEMMA ThreadStep ==
    ASSUME ThreadInv, Yield \/ UNCHANGED <<running, ready>>,
           pc' \in [Readers \cup {serial} -> {"poll", "apply", "yield", "read", "work"}],
           key' \in Keys \cup {None}, irq1' \in Readers \cup {serial, None},
           got' \in [Readers -> Lines \cup {EofMark, None}],
           irq1' # None => Keyboard,
           pc'[serial] # "apply"
    PROVE  ThreadInv'
<1>1. /\ running' \in Readers \cup {serial}
      /\ ready' \in Seq(Readers \cup {serial}) /\ Len(ready') = Cardinality(Readers)
  BY YieldTypes DEF ThreadInv, ThreadTypes
<1>2. ThreadTypes'
  BY <1>1 DEF ThreadTypes
<1> QED
  BY <1>2 DEF ThreadInv, CheckHolds

-----------------------------------------------------------------------------
(* The box.                                                                *)

\* Nothing is submitted: the box is empty.
LEMMA BoxFacts ==
    ASSUME LineOK
    PROVE  /\ Boxed \in Lines \cup {EofMark, None}
           /\ Submitted <=> Boxed # None
<1>1. line_buffer \in Lines
  BY LineTypes DEF LineOK
<1>2. None \notin Lines /\ EofMark # None
  BY TerminalAssumption
<1> QED
  BY <1>1, <1>2 DEF Boxed, Submitted

LEMMA BoxFactsNext ==
    ASSUME LineOK'
    PROVE  /\ Boxed' \in Lines \cup {EofMark, None}
           /\ Submitted' <=> Boxed' # None
<1>1. line_buffer' \in Lines
  BY DEF LineOK, LineTypeOK
<1>2. None \notin Lines /\ EofMark # None
  BY TerminalAssumption
<1> QED
  BY <1>1, <1>2 DEF Boxed, Submitted

\* A key changes the line before it is submitted, or submits it.
LEMMA BoxSubmit ==
    ASSUME LineOK, ~Submitted, LineOK', got' = got
    PROVE  [Box!Next]_(Box!vars)
<1>1. Boxed = None /\ Boxed' \in Lines \cup {EofMark, None}
  BY BoxFacts, BoxFactsNext
<1>2. CASE Boxed' = None
  BY <1>1, <1>2 DEF Box!vars
<1>3. CASE Boxed' # None
  BY <1>1, <1>3 DEF Box!Next, Box!Submit
<1> QED
  BY <1>2, <1>3

LEMMA BoxStutter ==
    ASSUME LineOK, UNCHANGED line, got' = got
    PROVE  [Box!Next]_(Box!vars)
  BY LineKept DEF Box!vars

\* A reader takes what is in the box.
LEMMA BoxTake ==
    ASSUME LineOK, LineOK', Submitted, ~Submitted', NEW r \in Readers,
           got' = [got EXCEPT ![r] = IF g_line_eof THEN EofMark ELSE line_buffer]
    PROVE  [Box!Next]_(Box!vars)
<1>1. Boxed # None /\ Boxed' = None
  BY BoxFacts, BoxFactsNext
<1>2. Boxed = IF g_line_eof THEN EofMark ELSE line_buffer
  BY DEF Boxed, Submitted
<1> QED
  BY <1>1, <1>2, Zenon DEF Box!Next, Box!Take
-----------------------------------------------------------------------------
(* Every step keeps the invariant, and is a step of the box or none.       *)

Goal == LineOK' /\ ThreadInv' /\ [Box!Next]_(Box!vars)

LEMMA SerialStep ==
    ASSUME LineOK, ThreadInv, SerialNext
    PROVE  Goal
<1>0. /\ pc \in [Readers \cup {serial} -> {"poll", "apply", "yield", "read", "work"}]
      /\ key \in Keys \cup {None} /\ irq1 \in Readers \cup {serial, None}
      /\ got \in [Readers -> Lines \cup {EofMark, None}] /\ (irq1 # None => Keyboard)
  BY DEF ThreadInv, ThreadTypes
<1>1. CASE SerialIdle
  <2>1. UNCHANGED <<line, pc, key, irq1, got>> /\ Yield /\ pc[serial] = "poll"
    BY <1>1 DEF SerialIdle
  <2>2. ThreadInv'
    BY <1>0, <2>1, ThreadStep
  <2> QED
    BY <2>1, <2>2, LineKept, BoxStutter DEF Goal
<1>2. ASSUME NEW k \in Keys, SerialKey(k) PROVE Goal
  <2>1. /\ UNCHANGED <<line, running, ready, irq1, got>> /\ SerialInput /\ running = serial
        /\ pc' = [pc EXCEPT ![serial] = IF Submitted THEN "yield" ELSE "apply"]
        /\ key' = IF Submitted THEN None ELSE k
    BY <1>2 DEF SerialKey, GoTo, Runs
  <2>2. LineOK' /\ Submitted' = Submitted
    BY <2>1, LineKept
  <2>3. ThreadTypes'
    BY <1>0, <2>1 DEF ThreadInv, ThreadTypes
  <2>4. CheckHolds'
    BY <1>0, <2>1, <2>2 DEF CheckHolds
  <2>5. ThreadInv'
    BY <2>1, <2>3, <2>4 DEF ThreadInv
  <2> QED
    BY <2>1, <2>2, <2>5, BoxStutter DEF Goal
<1>3. CASE SerialApply
  <2>1. /\ pc[serial] = "apply" /\ Apply(key) /\ key' = None
        /\ pc' = [pc EXCEPT ![serial] = "yield"] /\ UNCHANGED <<irq1, got>>
        /\ Yield \/ UNCHANGED <<running, ready>>
    BY <1>3 DEF SerialApply, GoTo
  <2>2. ~Submitted /\ key \in Keys
    BY <2>1 DEF ThreadInv, CheckHolds
  <2>3. LineOK'
    BY <2>1, <2>2, ApplyInv
  <2>4. pc' \in [Readers \cup {serial} -> {"poll", "apply", "yield", "read", "work"}]
        /\ pc'[serial] # "apply"
    BY <1>0, <2>1
  <2>5. ThreadInv'
    BY <1>0, <2>1, <2>4, ThreadStep
  <2> QED
    BY <2>1, <2>2, <2>3, <2>5, BoxSubmit DEF Goal
<1>4. CASE SerialYield
  <2>1. /\ UNCHANGED <<line, key, irq1, got>> /\ Yield
        /\ pc' = [pc EXCEPT ![serial] = "poll"]
    BY <1>4 DEF SerialYield, GoTo
  <2>2. pc' \in [Readers \cup {serial} -> {"poll", "apply", "yield", "read", "work"}]
        /\ pc'[serial] # "apply"
    BY <1>0, <2>1
  <2>3. ThreadInv'
    BY <1>0, <2>1, <2>2, ThreadStep
  <2> QED
    BY <2>1, <2>3, LineKept, BoxStutter DEF Goal
<1> QED
  BY <1>1, <1>2, <1>3, <1>4 DEF SerialNext

LEMMA ReaderStep ==
    ASSUME LineOK, ThreadInv, NEW r \in Readers, ReaderNext(r)
    PROVE  Goal
<1> DEFINE P == [Readers \cup {serial} -> {"poll", "apply", "yield", "read", "work"}]
<1>0. /\ pc \in P /\ key \in Keys \cup {None} /\ irq1 \in Readers \cup {serial, None}
      /\ got \in [Readers -> Lines \cup {EofMark, None}] /\ (irq1 # None => Keyboard)
  BY DEF ThreadInv, ThreadTypes
<1>s. r # serial /\ serial \notin Readers
  BY TerminalAssumption
<1>1. running = r /\ UNCHANGED <<key, irq1>> /\ (Yield \/ UNCHANGED <<running, ready>>)
  BY DEF ReaderNext, ReadCall, WorkYield, ReadWait, ReadDone, ReadTooLong, Runs
<1>2. pc[serial] # "apply"
  BY <1>s, <1>1 DEF ThreadInv, CheckHolds
<1>3. pc' = pc \/ \E p \in {"read", "work"} : pc' = [pc EXCEPT ![r] = p]
  BY DEF ReaderNext, ReadCall, WorkYield, ReadWait, ReadDone, ReadTooLong, GoTo
<1>4. pc' \in P /\ pc'[serial] # "apply"
  BY <1>0, <1>s, <1>2, <1>3
<1>5. CASE ReadDone(r)
  <2>1. /\ Submitted /\ Consume
        /\ got' = [got EXCEPT ![r] = IF g_line_eof THEN EofMark ELSE line_buffer]
    BY <1>5 DEF ReadDone
  <2>2. LineOK' /\ ~Submitted'
    BY <2>1, ConsumeInv
  <2>3. line_buffer \in Lines
    BY LineTypes DEF LineOK
  <2>4. got' \in [Readers -> Lines \cup {EofMark, None}]
    BY <1>0, <2>1, <2>3
  <2>5. ThreadInv'
    BY <1>0, <1>1, <1>4, <2>4, ThreadStep
  <2> QED
    BY <2>1, <2>2, <2>5, BoxTake, Zenon DEF Goal
<1>6. CASE ~ReadDone(r)
  <2>1. UNCHANGED <<line, got>>
    BY <1>6 DEF ReaderNext, ReadCall, WorkYield, ReadWait, ReadTooLong
  <2>2. ThreadInv'
    BY <1>0, <1>1, <1>4, <2>1, ThreadStep
  <2> QED
    BY <2>1, <2>2, LineKept, BoxStutter DEF Goal
<1> QED
  BY <1>5, <1>6

LEMMA KeyboardStep ==
    ASSUME OneSource, LineOK, ThreadInv, (\E k \in KeyboardKeys : KeyIrq(k)) \/ KeyIrqReturn
    PROVE  Goal
<1>0. /\ pc \in [Readers \cup {serial} -> {"poll", "apply", "yield", "read", "work"}]
      /\ running \in Readers \cup {serial}
      /\ key \in Keys \cup {None} /\ irq1 \in Readers \cup {serial, None}
      /\ got \in [Readers -> Lines \cup {EofMark, None}] /\ (irq1 # None => Keyboard)
  BY DEF ThreadInv, ThreadTypes
<1>1. None \notin Readers \cup {serial}
  BY TerminalAssumption
<1>2. ASSUME NEW k \in KeyboardKeys, KeyIrq(k) PROVE Goal
  <2>1. /\ Keyboard /\ ~Submitted /\ Apply(k) /\ UNCHANGED <<pc, key, got>>
        /\ (Yield /\ irq1' = running) \/ UNCHANGED <<running, ready, irq1>>
    BY <1>2 DEF KeyIrq
  <2>2. pc[serial] # "apply"
    BY <2>1 DEF OneSource, ThreadInv, CheckHolds
  <2>3. LineOK'
    BY <2>1, ApplyInv DEF KeyboardKeys
  <2>4. irq1' \in Readers \cup {serial, None} /\ (irq1' # None => Keyboard)
    BY <1>0, <2>1
  <2>5. ThreadInv'
    BY <1>0, <2>1, <2>2, <2>4, ThreadStep
  <2> QED
    BY <2>1, <2>3, <2>5, BoxSubmit DEF Goal
<1>3. CASE KeyIrqReturn
  <2>1. running = irq1 /\ irq1' = None /\ UNCHANGED <<line, running, ready, pc, key, got>>
    BY <1>3 DEF KeyIrqReturn
  <2>2. pc[serial] # "apply"
    BY <1>0, <1>1, <2>1 DEF OneSource, ThreadInv, CheckHolds
  <2>3. ThreadInv'
    BY <1>0, <2>1, <2>2, ThreadStep
  <2> QED
    BY <2>1, <2>3, LineKept, BoxStutter DEF Goal
<1> QED
  BY <1>2, <1>3

LEMMA TerminalStep ==
    ASSUME OneSource, TerminalInv, [Next]_vars
    PROVE  TerminalInv' /\ [Box!Next]_(Box!vars)
<1>1. LineOK /\ ThreadInv
  BY Parts
<1>2. CASE UNCHANGED vars
  <2>1. UNCHANGED line /\ UNCHANGED <<running, ready, pc, key, irq1, got>>
    BY <1>2 DEF vars, threads
  <2>2. LineOK' /\ Submitted' = Submitted
    BY <1>1, <2>1, LineKept
  <2>3. ThreadInv'
    BY <1>1, <2>1, <2>2 DEF ThreadInv, ThreadTypes, CheckHolds
  <2> QED
    BY <1>1, <2>1, <2>2, <2>3, BoxStutter, PartsNext
<1>3. CASE Next
  <2>1. Goal
    BY <1>1, <1>3, SerialStep, ReaderStep, KeyboardStep DEF Next
  <2> QED
    BY <2>1, PartsNext DEF Goal
<1> QED
  BY <1>2, <1>3

LEMMA TerminalInit == Init => TerminalInv /\ Box!Init
<1> SUFFICES ASSUME Init PROVE TerminalInv /\ Box!Init
  OBVIOUS
<1>1. LineOK /\ ~Submitted
  <2>1. /\ line_buffer = << >> /\ line_history = << >> /\ line_draft = << >> /\ edited = << >>
        /\ line_history_index = -1 /\ g_line_ready = FALSE /\ g_line_eof = FALSE
    BY DEF Init, LineInit
  <2>2. << >> \in Lines
    <3>1. << >> \in Seq(Chars) /\ Len(<< >>) <= LINE_BUFFER_SIZE - 1
      BY LineAssumption
    <3> QED
      BY <3>1, LinesFacts, Zenon
  <2>3. << >> \in UpTo(LINE_HISTORY_SIZE, Lines)
    <3>1. << >> \in Seq(Lines) /\ Len(<< >>) <= LINE_HISTORY_SIZE
      BY LineAssumption
    <3> QED
      BY <3>1, HistoryFacts, Zenon
  <2>4. LineTypeOK
    <3>1. line_history_index \in -1..(Len(line_history) - 1)
      BY <2>1
    <3> QED
      BY <2>1, <2>2, <2>3, <3>1, Zenon DEF LineTypeOK
  <2>5. DraftKept /\ HistorySound
    BY <2>1 DEF DraftKept, HistorySound
  <2> QED
    BY <2>1, <2>4, <2>5 DEF LineOK, Submitted
<1>2. /\ pc = [t \in Readers \cup {serial} |-> IF t = serial THEN "poll" ELSE "work"]
      /\ key = None /\ irq1 = None /\ got = [r \in Readers |-> None]
  BY DEF Init
<1>3. PICK q \in Injection(1..Cardinality(Readers), Readers) : running = Head(q) /\ ready = Append(Tail(q), serial)
  BY DEF Init
<1> DEFINE n == Cardinality(Readers)
<1>4. n \in Nat \ {0}
  BY ReaderCount
<1>5. q \in [1..n -> Readers]
  BY DEF Injection, n
<1> HIDE DEF n
<1>6. q \in Seq(Readers) /\ Len(q) = n
  BY <1>4, <1>5
<1>7. /\ Head(q) \in Readers /\ Tail(q) \in Seq(Readers \cup {serial}) /\ Len(Tail(q)) = n - 1
  BY <1>4, <1>6
<1>8. ready \in Seq(Readers \cup {serial}) /\ Len(ready) = n
  BY <1>3, <1>4, <1>7
<1>9. ThreadTypes
  BY <1>2, <1>3, <1>7, <1>8 DEF ThreadTypes, n
<1>10. CheckHolds
  BY <1>2 DEF CheckHolds
<1>11. ThreadInv
  BY <1>2, <1>9, <1>10 DEF ThreadInv
<1>12. Box!Init
  BY <1>1, <1>2, BoxFacts DEF Box!Init
<1> QED
  BY <1>1, <1>11, <1>12, Parts

\* Where keys come from one source, the line, the history and the draft are what
\* line.c promises, and the check before an edit still holds when the line is edited.
THEOREM TerminalInvariant == ASSUME OneSource PROVE Spec => []TerminalInv
<1>1. Init => TerminalInv
  BY TerminalInit
<1>2. TerminalInv /\ [Next]_vars => TerminalInv'
  BY TerminalStep
<1> QED
  BY <1>1, <1>2, PTL DEF Spec

\* Where keys come from one source, editing keeps what the user typed and recalls
\* what was submitted, for any buffer, history and readers (line.c).
THEOREM TerminalEditing == ASSUME OneSource PROVE Spec => []EditingSound
<1>1. TerminalInv => EditingSound
  BY DEF TerminalInv
<1> QED
  BY <1>1, TerminalInvariant, PTL

\* Where keys come from one source, the terminal implements the line box: every
\* submitted line, and every end of file, goes to exactly one reader, unchanged
\* (line_handle_keyevent, line_read, line_consume).
THEOREM TerminalDelivers == ASSUME OneSource PROVE Spec => DeliversLines
<1>1. Init => Box!Init
  BY TerminalInit
<1>2. TerminalInv /\ [Next]_vars => [Box!Next]_(Box!vars)
  BY TerminalStep
<1> QED
  BY <1>1, <1>2, TerminalInvariant, PTL DEF Spec, DeliversLines, Box!Spec

=============================================================================

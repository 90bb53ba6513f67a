------------------------------ MODULE Terminal ------------------------------
(***************************************************************************)
(* The terminal as a whole: the line discipline, its two sources of keys   *)
(* and its readers, on the round-robin scheduler.  The serial input thread *)
(* polls the port and runs line_handle_keyevent with interrupts on; the    *)
(* keyboard interrupt runs it on top of whatever it interrupts, and yields *)
(* when a line is submitted, before the interrupt is acknowledged; readers *)
(* wait in line_read.  The scheduler is taken as RoundRobin describes it.  *)
(***************************************************************************)
EXTENDS LineDiscipline, Functions

CONSTANTS
    Readers,        \* processes that read standard input
    serial,         \* the serial input thread
    capacity,       \* buffer size each reader passes to line_read
    SerialInput,    \* whether the serial port delivers characters
    Keyboard,       \* whether the keyboard does
    EofMark,        \* what a reader gets at the end of the file
    None

ASSUME TerminalAssumption ==
    /\ IsFiniteSet(Readers) /\ Readers # {} /\ capacity \in [Readers -> Nat \ {0}]
    /\ SerialInput \in BOOLEAN /\ Keyboard \in BOOLEAN
    /\ serial \notin Readers /\ None \notin Readers \cup {serial}
    /\ {EofMark, None} \cap (Lines \cup Keys) = {} /\ EofMark # None

VARIABLES
    running,    \* the thread on the CPU
    ready,      \* the threads behind it
    pc,         \* where each thread is
    key,        \* the event the serial thread is handling
    irq1,       \* the thread under a keyboard interrupt that has yielded
    got         \* what each reader's last successful line_read returned

threads == <<running, ready, pc, key, irq1, got>>
vars == <<line, threads>>

TypeOK ==
    /\ LineTypeOK
    /\ running \in Readers \cup {serial}
    /\ ready \in Seq(Readers \cup {serial}) /\ Len(ready) = Cardinality(Readers)
    /\ pc \in [Readers \cup {serial} -> {"poll", "apply", "yield", "read", "work"}]
    /\ key \in Keys \cup {None}
    /\ irq1 \in Readers \cup {serial, None}
    /\ got \in [Readers -> Lines \cup {EofMark, None}]

\* The processes were scheduled first, the serial thread last (kernel_init).
Init ==
    /\ LineInit
    /\ \E q \in Injection(1..Cardinality(Readers), Readers) :
          running = Head(q) /\ ready = Append(Tail(q), serial)
    /\ pc = [t \in Readers \cup {serial} |-> IF t = serial THEN "poll" ELSE "work"]
    /\ key = None
    /\ irq1 = None
    /\ got = [r \in Readers |-> None]

\* ksched_yield.
Yield == running' = Head(ready) /\ ready' = Append(Tail(ready), running)

\* Thread t executes and is not under a suspended keyboard interrupt.
Runs(t) == running = t /\ irq1 # t
GoTo(t, p) == pc' = [pc EXCEPT ![t] = p]

-----------------------------------------------------------------------------
(* serial_input_thread                                                     *)

\* serial_received() is false.
SerialIdle ==
    /\ Runs(serial) /\ pc[serial] = "poll"
    /\ Yield
    /\ UNCHANGED <<line, pc, key, irq1, got>>

\* A key arrives: line_handle_keyevent up to and including its check.
SerialKey(k) ==
    /\ SerialInput
    /\ Runs(serial) /\ pc[serial] = "poll"
    /\ GoTo(serial, IF Submitted THEN "yield" ELSE "apply")
    /\ key' = IF Submitted THEN None ELSE k
    /\ UNCHANGED <<line, running, ready, irq1, got>>

\* The rest of line_handle_keyevent, with its yield when a line is submitted.
SerialApply ==
    /\ Runs(serial) /\ pc[serial] = "apply"
    /\ Apply(key)
    /\ key' = None
    /\ GoTo(serial, "yield")
    /\ IF Submits(key) THEN Yield ELSE UNCHANGED <<running, ready>>
    /\ UNCHANGED <<irq1, got>>

\* The yield at the end of the loop body.
SerialYield ==
    /\ Runs(serial) /\ pc[serial] = "yield"
    /\ GoTo(serial, "poll")
    /\ Yield
    /\ UNCHANGED <<line, key, irq1, got>>

-----------------------------------------------------------------------------
(* Readers: line_read runs in a system call, with interrupts off.          *)

ReadCall(r) ==
    /\ Runs(r) /\ pc[r] = "work"
    /\ GoTo(r, "read")
    /\ UNCHANGED <<line, running, ready, key, irq1, got>>

\* The reader does something else that yields, such as waiting for a child.
WorkYield(r) ==
    /\ Runs(r) /\ pc[r] = "work"
    /\ Yield
    /\ UNCHANGED <<line, pc, key, irq1, got>>

ReadWait(r) ==
    /\ Runs(r) /\ pc[r] = "read" /\ ~Submitted
    /\ Yield
    /\ UNCHANGED <<line, pc, key, irq1, got>>

\* Mutant of ReadDone: the line stays submitted after it was copied out.
ReadDoneKeeps(r) ==
    /\ Runs(r) /\ pc[r] = "read" /\ Submitted
    /\ g_line_eof \/ Len(line_buffer) < capacity[r]
    /\ got' = [got EXCEPT ![r] = IF g_line_eof THEN EofMark ELSE line_buffer]
    /\ GoTo(r, "work")
    /\ UNCHANGED <<line, running, ready, key, irq1>>

ReadDone(r) ==
    /\ Runs(r) /\ pc[r] = "read" /\ Submitted
    /\ g_line_eof \/ Len(line_buffer) < capacity[r]
    /\ got' = [got EXCEPT ![r] = IF g_line_eof THEN EofMark ELSE line_buffer]
    /\ GoTo(r, "work")
    /\ Consume
    /\ UNCHANGED <<running, ready, key, irq1>>

\* The line does not fit: line_read fails and the line stays.
ReadTooLong(r) ==
    /\ Runs(r) /\ pc[r] = "read" /\ g_line_ready /\ ~g_line_eof
    /\ Len(line_buffer) >= capacity[r]
    /\ GoTo(r, "work")
    /\ UNCHANGED <<line, running, ready, key, irq1, got>>

-----------------------------------------------------------------------------
(* The keyboard interrupt, taken in user code and in the serial thread.    *)

\* Scan codes the keyboard driver passes on: it has no control combinations.
KeyboardKeys == Keys \ {"ctrlC", "ctrlZ", "ctrlD"}

\* keyboard_handle_scancode on top of the running thread; a key that submits the line
\* yields, and no further keyboard interrupt comes before it is acknowledged.
KeyIrq(k) ==
    /\ Keyboard /\ irq1 = None
    /\ pc[running] # "read"
    /\ ~Submitted
    /\ Apply(k)
    /\ IF Submits(k) THEN Yield /\ irq1' = running
                     ELSE UNCHANGED <<running, ready, irq1>>
    /\ UNCHANGED <<pc, key, got>>

KeyIrqReturn ==
    /\ running = irq1
    /\ irq1' = None
    /\ UNCHANGED <<line, running, ready, pc, key, got>>

-----------------------------------------------------------------------------
SerialNext == SerialIdle \/ (\E k \in Keys : SerialKey(k)) \/ SerialApply \/ SerialYield

ReaderNext(r) ==
    \/ ReadCall(r) \/ WorkYield(r) \/ ReadWait(r) \/ ReadDone(r) \/ ReadTooLong(r)

Next ==
    \/ SerialNext
    \/ \E r \in Readers : ReaderNext(r)
    \/ (\E k \in KeyboardKeys : KeyIrq(k)) \/ KeyIrqReturn

Spec == Init /\ [][Next]_vars

\* Every thread that runs goes on: the CPU executes it.  A process that does
\* other work comes back to read.
Fairness ==
    /\ WF_vars(SerialNext) /\ WF_vars(KeyIrqReturn)
    /\ \A r \in Readers : WF_vars(ReaderNext(r)) /\ SF_vars(ReadCall(r))

FairSpec == Spec /\ Fairness

-----------------------------------------------------------------------------
\* "Don't modify input after the current line has been submitted." (line.c)
SubmittedLineKept ==
    [][Submitted /\ Submitted' => UNCHANGED <<line_buffer, g_line_ready, g_line_eof>>]_vars

Boxed == IF g_line_eof THEN EofMark ELSE IF g_line_ready THEN line_buffer ELSE None

\* Each submitted line, and each end of file, is handed to exactly one reader,
\* unchanged, whatever the sources of keys and the other readers do meanwhile.
Box == INSTANCE LineBox
           WITH Inputs <- Lines \cup {EofMark}, Empty <- None, got <- got,
                box <- Boxed
DeliversLines == Box!Spec

\* Editing keeps what the user typed and recalls what was submitted, within the
\* limits of the buffers (line.c), whichever source and readers interleave.
EditingSound == TypeOK /\ DraftKept /\ HistorySound

-----------------------------------------------------------------------------
(* Why they hold, where keys come from one source.                         *)

OneSource == ~(SerialInput /\ Keyboard)

\* The serial thread's check still holds when it edits the line: no interrupt
\* changes the line in between, and no other thread runs.
CheckHolds ==
    pc[serial] = "apply" =>
        SerialInput /\ running = serial /\ ~Submitted /\ key \in Keys

\* At most one of the flags is set, and irq1 is only used by the keyboard.
TerminalInv ==
    /\ EditingSound /\ CheckHolds
    /\ ~(g_line_ready /\ g_line_eof)
    /\ irq1 # None => Keyboard
=============================================================================

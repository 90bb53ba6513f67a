--------------------------------- MODULE Shell ---------------------------------
(***************************************************************************)
(* The shell's command line: scan fills a buffer on the stack, run_command *)
(* and run_external cut it into words in place by writing terminators, and *)
(* what runs is given pointers into it.  Behind the terminator of a line   *)
(* the buffer holds whatever was there before.                             *)
(***************************************************************************)
EXTENDS Naturals, Sequences, FiniteSets

CONSTANTS SHELL_LINE_CAPACITY, ArgvSize, \* bytes of the line, pointers of argv
          TypedLines, \* the lines scan returns
          External,   \* names of programs; the other commands are built in
          HexValue    \* hexadecimal digit -> its value

VARIABLES cmdline, \* offset -> character
          given,   \* the line read
          ran      \* what was done with it

shellVars == <<cmdline, given, ran>>

End == "nul"
Blank == {" ", "tab"}
First(m, p, S) ==
  CHOOSE i \in p .. SHELL_LINE_CAPACITY - 1 : m[i] \in S /\ \A j \in p .. i - 1 : m[j] \notin S
TextAt(m, p) ==
  LET end == CHOOSE i \in p .. SHELL_LINE_CAPACITY - 1 :
               m[i] = End /\ \A j \in p .. i - 1 : m[j] # End
  IN [k \in 1 .. end - p |-> m[p + k - 1]]

skip_spaces(m, p) ==
  CHOOSE i \in p .. SHELL_LINE_CAPACITY - 1 : m[i] \notin Blank /\ \A j \in p .. i - 1 : m[j] \in Blank

(* The word at p gets its terminator; at is the start of what follows. *)
\* Mutant of Cut: the word keeps running into the next one.
CutOpen(m, p) ==
  LET end == First(m, p, Blank \cup {End}) IN
  IF m[end] = End THEN [mem |-> m, at |-> end] ELSE [mem |-> m, at |-> skip_spaces(m, end + 1)]

Cut(m, p) ==
  LET end == First(m, p, Blank \cup {End})
      cut == [m EXCEPT ![end] = End]
  IN IF m[end] = End THEN [mem |-> m, at |-> end] ELSE [mem |-> cut, at |-> skip_spaces(cut, end + 1)]

(* The single word of the arguments, for cd. *)
parse_path(m, p) ==
  LET start == skip_spaces(m, p)
      c == Cut(m, start)
  IN IF m[start] = End \/ c.mem[c.at] # End THEN [mem |-> c.mem, does |-> <<"usage">>]
     ELSE [mem |-> c.mem, does |-> <<"chdir", TextAt(c.mem, start)>>]

(* Blanks at the end of the arguments are cut off one by one. *)
command_color(m, p) ==
  LET start == skip_spaces(m, p)
      end == First(m, start, {End})
      kept == {i \in start .. end - 1 : m[i] \notin Blank}
      mem == [i \in DOMAIN m |-> IF i \in start .. end - 1 /\ \A j \in kept : j < i THEN End ELSE m[i]]
      does == IF mem[start] = End THEN <<"reset color">>
              ELSE IF mem[start + 1] = End \/ mem[start + 2] # End THEN <<"usage">>
              ELSE IF {mem[start], mem[start + 1]} \subseteq DOMAIN HexValue
              THEN <<"color", HexValue[mem[start]], HexValue[mem[start + 1]]>> ELSE <<"not a color">>
  IN [mem |-> mem, does |-> does]

run_external(m, command, arguments) ==
  LET argv[n \in 1 .. ArgvSize - 1] ==
        IF n = 1 THEN [mem |-> m, at |-> skip_spaces(m, arguments), ptrs |-> <<command>>]
        ELSE LET last == argv[n - 1]
                 c == Cut(last.mem, last.at)
             IN IF last.mem[last.at] = End THEN last
                ELSE [mem |-> c.mem, at |-> c.at, ptrs |-> Append(last.ptrs, last.at)]
      all == argv[ArgvSize - 1]
  IN [mem |-> all.mem,
      does |-> IF all.mem[all.at] # End THEN <<"too many">>
               ELSE <<"execve", [k \in 1 .. Len(all.ptrs) |-> TextAt(all.mem, all.ptrs[k])]>>]

(* Three built-in commands stand for the others: "cd", "e" for echo and "c" *)
(* for color.                                                               *)
run_command(m) ==
  LET command == skip_spaces(m, 0)
      c == Cut(m, command)
      name == TextAt(c.mem, command)
  IN CASE name = <<>> -> [mem |-> c.mem, does |-> <<"nothing">>]
       [] name = <<"c", "d">> /\ c.mem[c.at] = End -> [mem |-> c.mem, does |-> <<"show cwd">>]
       [] name = <<"c", "d">> /\ c.mem[c.at] # End -> parse_path(c.mem, c.at)
       [] name = <<"e">> -> [mem |-> c.mem, does |-> <<"echo", TextAt(c.mem, c.at)>>]
       [] name = <<"c">> -> command_color(c.mem, c.at)
       [] name \in External -> run_external(c.mem, command, c.at)
       [] OTHER -> [mem |-> c.mem, does |-> <<"unknown", name>>]

--------------------------------------------------------------------------------
Filled(m, text) ==
  [i \in DOMAIN m |-> IF i < Len(text) THEN text[i + 1] ELSE IF i = Len(text) THEN End ELSE m[i]]

ShellInit ==
  /\ \E c \in Blank \cup {End, "d"} : cmdline = [i \in 0 .. SHELL_LINE_CAPACITY - 1 |-> c]
  /\ given = <<>> /\ ran = <<"prompt">>

(* The kernel's line is no longer than the shell's, so scan never fails. *)
ShellScan(text) ==
  /\ ran = <<"prompt">> /\ Len(text) < SHELL_LINE_CAPACITY
  /\ given' = text
  /\ \E r \in {run_command(Filled(cmdline, text))} : cmdline' = r.mem /\ ran' = r.does

ShellNext == \E text \in TypedLines : ShellScan(text)

ShellSpec == ShellInit /\ [][ShellNext]_shellVars

--------------------------------------------------------------------------------
(* The reference: the words of a line by their positions. *)
Starts(t) == {i \in 1 .. Len(t) : t[i] \notin Blank /\ (i = 1 \/ t[i - 1] \in Blank)}
WordFrom(t, i) ==
  LET end == CHOOSE j \in i .. Len(t) :
               (\A k \in i .. j : t[k] \notin Blank) /\ (j = Len(t) \/ t[j + 1] \in Blank)
  IN SubSeq(t, i, end)
Words(t) ==
  [k \in 1 .. Cardinality(Starts(t)) |->
     WordFrom(t, CHOOSE i \in Starts(t) : Cardinality({j \in Starts(t) : j < i}) = k - 1)]
AfterCommand(t) ==
  LET second == {i \in Starts(t) : Cardinality({j \in Starts(t) : j < i}) = 1}
  IN IF second = {} THEN <<>> ELSE SubSeq(t, CHOOSE i \in second : TRUE, Len(t))
Meaning(t) ==
  LET w == Words(t)
      n == Len(w)
  IN CASE n = 0 -> <<"nothing">>
       [] n > 0 /\ w[1] = <<"c", "d">> ->
            IF n = 1 THEN <<"show cwd">> ELSE IF n = 2 THEN <<"chdir", w[2]>> ELSE <<"usage">>
       [] n > 0 /\ w[1] = <<"e">> -> <<"echo", AfterCommand(t)>>
       [] n > 0 /\ w[1] = <<"c">> ->
            IF n = 1 THEN <<"reset color">>
            ELSE IF n > 2 \/ Len(w[2]) # 2 THEN <<"usage">>
            ELSE IF {w[2][1], w[2][2]} \subseteq DOMAIN HexValue
            THEN <<"color", HexValue[w[2][1]], HexValue[w[2][2]]>> ELSE <<"not a color">>
       [] n > 0 /\ w[1] \in External -> IF n < ArgvSize THEN <<"execve", w>> ELSE <<"too many">>
       [] OTHER -> <<"unknown", w[1]>>

(* The shell does what the words of the line say, whatever blanks separate  *)
(* them and whatever the buffer held behind the line: a program gets        *)
(* exactly the words as its arguments, cd takes one, echo takes the rest.   *)
ShellDoesLine == ran # <<"prompt">> => ran = Meaning(given)
================================================================================

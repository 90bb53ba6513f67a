----------------------------- MODULE MCConsole -----------------------------
(* The console in one run: the terminal driven by the serial port, the     *)
(* terminal driven by the keyboard, the screen, the drivers that turn      *)
(* bytes into key events, the expansion of formats, the shell's command    *)
(* line and the programs that show a file or a directory.  They share no   *)
(* state; `unit' says which moves.                                         *)
EXTENDS MCTerminal, Screen, Input, Printf, Shell, Tools, Listing

VARIABLE unit

\* The keyboard machine; one of its readers has a short buffer.
Typed == INSTANCE Terminal
            WITH SerialInput <- FALSE, Keyboard <- TRUE, capacity <- ShortCapacity

\* Every conversion, with the least and the greatest numbers of a byte, and text
\* before and after.
D(c, x) == [conv |-> c, arg |-> x]
SomeFormats ==
    {<<D("text", "t"), D(c, x), D("%", 0)>> :
        c \in {"d"}, x \in {-128, -127, -10, -1, 0, 9, 10, 127}}
    \cup {<<D(c, x), D("text", "t")>> : c \in {"u", "x", "p"}, x \in {0, 9, 10, 16, 100, 159, 255}}
    \cup {<<D("s", <<>>), D("s", <<"u", "v", "w">>), D("c", "z")>>, <<D("q", 0)>>, <<>>}

\* Lines of up to five characters, and longer ones with other blanks, colours and
\* too many words.
SomeLines ==
    UNION {[1 .. k -> {"c", "d", "e", " "}] : k \in 0 .. 5}
    \cup {<<"d", "tab", " ", "e", "tab", "d", " ">>, <<"d", " ", "d", " ", "d", " ", "d">>,
          <<"c", " ", "c", "d", " ", "tab">>, <<"c", " ", "c", "x", " ">>, <<"c", " ", "c", " ", "d">>,
          <<"d", " ", "e", "e", " ", "c", "c">>, <<"tab", "e", " ", "d", " ", "d", " ">>}
Programs == {<<"d">>, <<"d", "e">>}
HexDigits == [c \in {"c", "d", "e"} |-> IF c = "c" THEN 12 ELSE IF c = "d" THEN 13 ELSE 14]

\* Every file of up to seven bytes, of two kinds.
SomeFiles == UNION {[1 .. k -> {"x", "newline"}] : k \in 0 .. 7}

\* Directories of up to four records with different names.
SomeRecords ==
    {[k \in DOMAIN kinds |-> [name |-> k, kind |-> kinds[k]]] :
        kinds \in UNION {[1 .. n -> {"entry", "unused", "label", "end"}] : n \in 0 .. 4}}

all == <<unit, vars, screenVars, inputVars, printfVars, shellVars, toolVars, listVars>>

ConsoleInit ==
    /\ unit \in {"serial", "keyboard", "screen", "input", "printf", "shell", "tools", "listing"}
    /\ Init /\ (unit \notin {"serial", "keyboard"} => running = shell)
    /\ ScreenInit /\ (unit # "screen" => backend = "vga")
    /\ InputInit /\ (unit # "input" => source = "keys")
    /\ PrintfInit
    /\ ShellInit /\ (unit # "shell" => cmdline[0] = End)
    /\ ToolsInit /\ (unit # "tools" => tool = "type" /\ content = <<>>)
    /\ ListInit /\ (unit # "listing" => fs = "ramfs" /\ dir = <<>>)

\* The units other than the terminal stop at the bounds on what they are given.
ConsoleNext ==
    /\ UNCHANGED unit
    /\ \/ /\ unit = "serial" /\ Next
          /\ UNCHANGED <<screenVars, inputVars, printfVars, shellVars, toolVars, listVars>>
       \/ /\ unit = "keyboard" /\ Typed!Next
          /\ UNCHANGED <<screenVars, inputVars, printfVars, shellVars, toolVars, listVars>>
       \/ /\ unit = "screen" /\ ScreenNext
          /\ UNCHANGED <<vars, inputVars, printfVars, shellVars, toolVars, listVars>>
       \/ /\ unit = "input" /\ InputNext
          /\ UNCHANGED <<vars, screenVars, printfVars, shellVars, toolVars, listVars>>
       \/ /\ unit = "printf" /\ PrintfNext
          /\ UNCHANGED <<vars, screenVars, inputVars, shellVars, toolVars, listVars>>
       \/ /\ unit = "shell" /\ ShellNext
          /\ UNCHANGED <<vars, screenVars, inputVars, printfVars, toolVars, listVars>>
       \/ /\ unit = "tools" /\ ToolsNext
          /\ UNCHANGED <<vars, screenVars, inputVars, printfVars, shellVars, listVars>>
       \/ /\ unit = "listing" /\ ListNext
          /\ UNCHANGED <<vars, screenVars, inputVars, printfVars, shellVars, toolVars>>
       \/ unit \notin {"serial", "keyboard"} /\ UNCHANGED all

\* Terminal's Fairness, for the machine driven by the serial port.
ConsoleFairness ==
    /\ WF_vars(unit = "serial" /\ SerialNext)
    /\ \A r \in Readers : /\ WF_vars(unit = "serial" /\ ReaderNext(r))
                          /\ SF_vars(unit = "serial" /\ ReadCall(r))

ConsoleSpec == ConsoleInit /\ [][ConsoleNext]_all /\ ConsoleFairness

\* Driven by the serial port under fair scheduling, a submitted line is read: no
\* reader of line_read misses it, and the yield after Enter does not keep the
\* readers from running.
SerialLineRead == (unit = "serial" /\ Submitted) ~> ~Submitted

\* What type, more and hexdump print is the file, however short the reads are, and
\* what dir prints is the directory.
OutputHonest == FileShown /\ DumpReadsBack /\ ListingHonest
=============================================================================

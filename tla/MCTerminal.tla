----------------------------- MODULE MCTerminal -----------------------------
(* Finite instances of Terminal.                                           *)
EXTENDS Terminal, TLC

CONSTANTS a, shell, prog

\* Readers whose buffer holds every line, and a program with a short buffer.
FullCapacity == [r \in Readers |-> LINE_BUFFER_SIZE]
ShortCapacity == [r \in Readers |-> IF r = prog THEN 2 ELSE LINE_BUFFER_SIZE]
=============================================================================

----------------------------- MODULE RoundRobin -----------------------------
(***************************************************************************)
(* What the scheduler promises to the rest of the kernel: one thread runs, *)
(* the others wait in arrival order, a yield sends the running thread to   *)
(* the end of the line, and a thread that blocks or exits leaves it.       *)
(***************************************************************************)
EXTENDS Naturals, Sequences

CONSTANTS Threads, Idle, FirstRunning, FirstReady

VARIABLES
    running,    \* the thread on the CPU, Idle when there is none
    ready       \* the threads that wait for it, in order

vars == <<running, ready>>

Waiting == {ready[i] : i \in 1..Len(ready)}

Init == running = FirstRunning /\ ready = FirstReady

\* The running thread goes to the end of the line.
Yield ==
    /\ running # Idle
    /\ LET line == Append(ready, running) IN
        running' = Head(line) /\ ready' = Tail(line)

\* The first in line takes over from a thread that blocked, exited or idles.
Dispatch ==
    IF ready = << >> THEN running' = Idle /\ ready' = ready
                     ELSE running' = Head(ready) /\ ready' = Tail(ready)

\* Threads that were neither running nor waiting join the line, each once.
Arrive ==
    LET new == Len(ready) + 1 .. Len(ready') IN
    /\ running' = running
    /\ ready' \in Seq(Threads) /\ Len(ready) < Len(ready')
    /\ \A i \in 1..Len(ready) : ready'[i] = ready[i]
    /\ \A i \in new : ready'[i] \notin Waiting \cup {running}
    /\ \A i, j \in new : ready'[i] = ready'[j] => i = j

Next == Yield \/ Dispatch \/ Arrive

Spec == Init /\ [][Next]_vars
=============================================================================

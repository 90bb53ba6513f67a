------------------------------ MODULE MCSched ------------------------------
(* Finite instances of Sched.                                              *)
EXTENDS Sched, TLC

CONSTANTS shell, prog1, prog2, serial

\* kernel_init schedules the init process, then the serial input thread.
BootShell == <<shell>>
BootShellSerial == <<shell, serial>>

\* Programs that can be started and are interchangeable.
Programs == Permutations({prog1, prog2})

\* kernel_init always starts the serial input thread "so -serial stdio works"
\* (kinit.c): as long as the scheduler's data is intact, that thread, which
\* never exits here, can still be scheduled.
BridgeThreadSchedulable ==
    fault = "none" /\ thread_state[serial] # "zombie" =>
        serial \in Queued \cup InHand \cup {g_current}
=============================================================================

----------------------------- MODULE MCSchedIrq -----------------------------
(* Two machines in one run, which differ in what kernel_init started: the  *)
(* full one, where handlers that work on the run queue interrupt the       *)
(* serial thread's yield, and a quiet one, whose serial thread could not   *)
(* be created (thread_create failed) and which only the keyboard drives.   *)
EXTENDS MCSched

Quiet == INSTANCE Sched WITH BootQueue <- BootShell

\* A kernel thread is started at boot or never.
IsQuiet == thread_state[serial] = "absent"

MachineInit == Init \/ Quiet!Init

\* A damaged machine may stop; the quiet one may not.
MachineNext == Next \/ (~IsQuiet /\ UNCHANGED vars)

MachineSpec == MachineInit /\ [][MachineNext]_vars

\* Driven by the keyboard alone, whose handler yields inside the interrupt
\* (line.c), the queues of sched.c hold each thread once and in its state, no
\* runnable thread is forgotten and every saved context is the right one, through
\* exits, reaps, sleeps and a wrap of the tick counter.
QuietMachineSound ==
    IsQuiet => QueuesSound /\ NoLostThread /\ ContextsSound

\* ... and its steps are those of the round-robin line: ksched_yield serves
\* threads first come, first served.
QuietRoundRobin == IsQuiet => [Quiet!Line!Next]_<<cpu, ReadyLine>>

\* The machine driven by the keyboard (line.c, sched.c) stays right and in order,
\* and both machines stay well typed.
MachineSound == [][TypeOK' /\ QuietMachineSound' /\ QuietRoundRobin]_vars
=============================================================================

\* Serial-driven machine: the serial thread yields with interrupts on, and no
\* interrupt handler yields.
CONSTANTS
    shell = shell
    prog1 = prog1
    prog2 = prog2
    serial = serial
    Idle = Idle
    None = None
    Threads = {shell, prog1, prog2, serial}
    KThreads = {serial}
    Sleepers = {}
    BootQueue <- BootShellSerial
    KeyboardYields = FALSE
    TICK_MOD = 1
    MaxSleep = 2
SPECIFICATION FairSpec
INVARIANTS QueuesSound NoLostThread ContextsSound
PROPERTIES ImplementsRoundRobin EveryReadyThreadRuns

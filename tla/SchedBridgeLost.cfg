\* Serial thread and keyboard together: a yield of the keyboard interrupt can
\* land inside the yield of the serial thread.
CONSTANTS
    shell = shell
    prog1 = prog1
    prog2 = prog2
    serial = serial
    Idle = Idle
    None = None
    Threads = {shell, prog1, prog2, serial}
    KThreads = {serial}
    Sleepers = {}
    BootQueue <- BootShellSerial
    KeyboardYields = TRUE
    TICK_MOD = 1
    MaxSleep = 2
SYMMETRY Programs
SPECIFICATION Spec
INVARIANT BridgeThreadSchedulable
CHECK_DEADLOCK FALSE

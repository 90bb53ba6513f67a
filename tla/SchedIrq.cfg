\* Serial thread (or none), keyboard and sleepers together: a yield can be
\* interrupted by handlers that work on the same data.
CONSTANTS
    shell = shell
    prog1 = prog1
    prog2 = prog2
    serial = serial
    Idle = Idle
    None = None
    Threads = {shell, prog1, prog2, serial}
    KThreads = {serial}
    Sleepers = {shell, prog1, prog2}
    BootQueue <- BootShellSerial
    KeyboardYields = TRUE
    TICK_MOD = 4
    MaxSleep = 2
SYMMETRY Programs
SPECIFICATION MachineSpec
PROPERTIES MachineSound DamageOnlyInsideYield

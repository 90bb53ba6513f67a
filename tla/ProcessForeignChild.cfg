\* Programs start programs too, and pids are reused.
CONSTANTS
    MAX_PROCS = 3
    FD_MAX = 4
    Codes = {0, 1}
    Spawners = {1, 2, 3}
    MaxBorn = 5
SPECIFICATION Spec
INVARIANT WaitsOnlyForChildren
CHECK_DEADLOCK FALSE

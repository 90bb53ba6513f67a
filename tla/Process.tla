------------------------------ MODULE Process ------------------------------
(***************************************************************************)
(* The process table (kernel/sched/proc.c) and the system calls that work  *)
(* on it (core/syscall.c): execve, which starts a child, exit, waitpid and *)
(* the per-process file descriptor tables, which are indexed by pid.       *)
(*                                                                         *)
(* System calls run with interrupts off, so each is one step, except       *)
(* waitpid, which keeps a pointer to the child's slot while it yields.     *)
(* Pids are slot numbers and are reused; the model numbers the processes   *)
(* (born, parent, target) to tell two users of one slot apart.             *)
(***************************************************************************)
EXTENDS Naturals, FiniteSets

CONSTANTS
    MAX_PROCS,      \* 63 in the code
    FD_MAX,         \* size of a descriptor table, 256 in the code
    Codes,          \* exit codes
    Spawners,       \* pids of the processes whose program starts others
    MaxBorn         \* bound: processes started in one behaviour

Pids == 1..MAX_PROCS

ASSUME ProcessAssumption ==
    /\ MAX_PROCS \in Nat \ {0}
    /\ FD_MAX \in Nat
    /\ Spawners \subseteq Pids
    /\ 0 \in Codes
    /\ MaxBorn \in Nat \ {0}

VARIABLES
    g_proc_used,    \* slot is taken
    alive, ppid, exit_code,
    g_fd_tables_used, fds,  \* descriptor table of each pid, its open entries
    waiting,        \* pid the process waits for in waitpid, 0 when it does not
    born,           \* history: number of the process in the slot
    parent,         \* history: number of the process that started it
    target,         \* history: number of the process waitpid looked up
    births          \* processes started so far

table == <<g_proc_used, alive, ppid, exit_code>>
files == <<g_fd_tables_used, fds>>
history == <<born, parent, target, births>>
vars == <<table, files, waiting, history>>

TypeOK ==
    /\ g_proc_used \in [Pids -> BOOLEAN]
    /\ alive \in [Pids -> BOOLEAN]
    /\ ppid \in [Pids -> 0..MAX_PROCS]
    /\ exit_code \in [Pids -> Codes]
    /\ g_fd_tables_used \in [Pids -> BOOLEAN]
    /\ fds \in [Pids -> SUBSET (3..FD_MAX-1)]
    /\ waiting \in [Pids -> 0..MAX_PROCS]
    /\ born \in [Pids -> 0..MaxBorn]
    /\ parent \in [Pids -> 0..MaxBorn]
    /\ target \in [Pids -> 0..MaxBorn]
    /\ births \in 0..MaxBorn

\* The boot process (pid 0, not in the table) has started init.
Init ==
    /\ g_proc_used = [p \in Pids |-> p = 1]
    /\ alive = [p \in Pids |-> p = 1]
    /\ ppid = [p \in Pids |-> 0]
    /\ exit_code = [p \in Pids |-> 0]
    /\ g_fd_tables_used = [p \in Pids |-> FALSE]
    /\ fds = [p \in Pids |-> {}]
    /\ waiting = [p \in Pids |-> 0]
    /\ born = [p \in Pids |-> IF p = 1 THEN 1 ELSE 0]
    /\ parent = [p \in Pids |-> 0]
    /\ target = [p \in Pids |-> 0]
    /\ births = 1

\* A process whose thread is in user mode and can make a system call.
Runs(p) == g_proc_used[p] /\ alive[p] /\ waiting[p] = 0

\* Mutant of FreeSlots: a process that has exited no longer holds its slot.
FreeSlotsDead == {p \in Pids : ~alive[p]}

\* proc_alloc_slot: the first slot that is not taken.
FreeSlots == {p \in Pids : ~g_proc_used[p]}
FirstFree(c) == c \in FreeSlots /\ \A q \in FreeSlots : c <= q

-----------------------------------------------------------------------------
\* SYS_execve: proc_create and proc_attach_thread, the child starts.
Execve(p) ==
    /\ Runs(p) /\ p \in Spawners
    /\ births < MaxBorn
    /\ \E c \in Pids :
        /\ FirstFree(c)
        /\ g_proc_used' = [g_proc_used EXCEPT ![c] = TRUE]
        /\ alive' = [alive EXCEPT ![c] = TRUE]
        /\ ppid' = [ppid EXCEPT ![c] = p]
        /\ exit_code' = [exit_code EXCEPT ![c] = 0]
        /\ born' = [born EXCEPT ![c] = births + 1]
        /\ parent' = [parent EXCEPT ![c] = born[p]]
    /\ births' = births + 1
    /\ UNCHANGED <<files, waiting, target>>

\* SYS_exit: proc_mark_exit; the descriptor table stays until the reap.
Exit(p, code) ==
    /\ Runs(p)
    /\ alive' = [alive EXCEPT ![p] = FALSE]
    /\ exit_code' = [exit_code EXCEPT ![p] = code]
    /\ UNCHANGED <<g_proc_used, ppid, files, waiting, history>>

\* Mutant of IsChild: the parent's pid is not compared.
IsChildAny(p, c) == c \in Pids /\ g_proc_used[c] /\ c # p

\* proc_find_child.
IsChild(p, c) == c \in Pids /\ g_proc_used[c] /\ ppid[c] = p

\* SYS_waitpid: the child is found.  (Without one it fails and nothing changes.)
Waitpid(p, c) ==
    /\ Runs(p) /\ IsChild(p, c)
    /\ waiting' = [waiting EXCEPT ![p] = c]
    /\ target' = [target EXCEPT ![p] = born[c]]
    /\ UNCHANGED <<table, files, born, parent, births>>

\* Mutant of WaitDone: the table is given up with its files still open.
WaitDoneKeepsFiles(p) ==
    LET c == waiting[p] IN
    /\ alive[p] /\ c # 0 /\ ~alive[c]
    /\ g_fd_tables_used' = [g_fd_tables_used EXCEPT ![c] = FALSE]
    /\ g_proc_used' = [g_proc_used EXCEPT ![c] = FALSE]
    /\ ppid' = [ppid EXCEPT ![c] = 0]
    /\ exit_code' = [exit_code EXCEPT ![c] = 0]
    /\ waiting' = [waiting EXCEPT ![p] = 0]
    /\ UNCHANGED <<fds, alive, history>>

\* waitpid sees the child dead: its descriptors are closed and proc_reap frees
\* the slot.
WaitDone(p) ==
    LET c == waiting[p] IN
    /\ alive[p] /\ c # 0 /\ ~alive[c]
    /\ fds' = [fds EXCEPT ![c] = {}]
    /\ g_fd_tables_used' = [g_fd_tables_used EXCEPT ![c] = FALSE]
    /\ g_proc_used' = [g_proc_used EXCEPT ![c] = FALSE]
    /\ ppid' = [ppid EXCEPT ![c] = 0]
    /\ exit_code' = [exit_code EXCEPT ![c] = 0]
    /\ waiting' = [waiting EXCEPT ![p] = 0]
    /\ UNCHANGED <<alive, history>>

\* The status cannot be copied to user memory: waitpid returns before the reap.
WaitCopyFails(p) ==
    LET c == waiting[p] IN
    /\ alive[p] /\ c # 0 /\ ~alive[c]
    /\ waiting' = [waiting EXCEPT ![p] = 0]
    /\ UNCHANGED <<table, files, history>>

\* syscall_get_fd_table: the caller's table, cleared on its first use.
FdTable(p) == IF g_fd_tables_used[p] THEN fds[p] ELSE {}

\* fd_find_free: descriptors 0 to 2 are the standard streams.
FreeFds(p) == (3..FD_MAX-1) \ FdTable(p)

\* SYS_open of a file that exists: the lowest free entry, or no change of the
\* entries when the table is full.
Open(p) ==
    /\ Runs(p)
    /\ fds' = [fds EXCEPT ![p] = FdTable(p) \cup
                  {fd \in FreeFds(p) : \A other \in FreeFds(p) : fd <= other}]
    /\ g_fd_tables_used' = [g_fd_tables_used EXCEPT ![p] = TRUE]
    /\ UNCHANGED <<table, waiting, history>>

\* SYS_close: fd_close, which fails without effect on an entry not in use.
Close(p, fd) ==
    /\ Runs(p)
    /\ fds' = [fds EXCEPT ![p] = FdTable(p) \ {fd}]
    /\ g_fd_tables_used' = [g_fd_tables_used EXCEPT ![p] = TRUE]
    /\ UNCHANGED <<table, waiting, history>>

-----------------------------------------------------------------------------
ProcessStep(p) ==
    \/ Execve(p)
    \/ \E code \in Codes : Exit(p, code)
    \/ \E c \in Pids : Waitpid(p, c)
    \/ WaitDone(p) \/ WaitCopyFails(p)
    \/ Open(p)
    \/ \E fd \in 3..FD_MAX-1 : Close(p, fd)

Next == \E p \in Pids : ProcessStep(p)

Spec == Init /\ [][Next]_vars

\* Every process is scheduled (RoundRobin), so a waitpid that can finish does,
\* and every process that was started, unlike init, finishes some day.
Fairness ==
    \A p \in Pids :
        /\ WF_vars(WaitDone(p) \/ WaitCopyFails(p))
        /\ p # 1 => SF_vars(\E code \in Codes : Exit(p, code))
FairSpec == Spec /\ Fairness

-----------------------------------------------------------------------------
\* The slot a waitpid points to is never reaped or reused under it: it still
\* holds the process that was looked up.
WaitTargetStable ==
    \A p \in Pids : g_proc_used[p] /\ alive[p] /\ waiting[p] # 0 =>
        g_proc_used[waiting[p]] /\ born[waiting[p]] = target[p]

\* waitpid waits for processes the caller started; for others it says "No child
\* process" (errno.h, ERR_NO_CHILD_PROCESS).
WaitsOnlyForChildren ==
    \A p \in Pids : g_proc_used[p] /\ alive[p] /\ waiting[p] # 0 =>
        parent[waiting[p]] = born[p]

\* init, the shell, keeps its slot for ever, so no reuse of pids can hand it
\* another's child: SYS_waitpid of the shell waits for what the shell started,
\* whoever else starts programs.
ShellWaitsOnlyForChildren ==
    \A p \in Pids : g_proc_used[p] /\ alive[p] /\ born[p] = 1 /\ waiting[p] # 0 =>
        parent[waiting[p]] = 1

\* An open file belongs to a process in the table, through a descriptor table
\* in use: the next process with the same pid neither inherits it nor, when
\* fd_table_init clears the table, makes the kernel forget it is open.
NoOrphanDescriptors ==
    \A p \in Pids : fds[p] # {} => g_proc_used[p] /\ g_fd_tables_used[p]

\* The status waitpid will return is the one the process exited with: nothing
\* changes it between the exit and the reap.
ExitCodeKept ==
    [][\A p \in Pids : g_proc_used[p] /\ ~alive[p] /\ g_proc_used'[p] =>
          born'[p] = born[p] /\ exit_code'[p] = exit_code[p]]_vars
=============================================================================

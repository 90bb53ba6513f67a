------------------------------- MODULE Sched -------------------------------
(***************************************************************************)
(* The cooperative scheduler of kernel/sched (sched.c, thread.c), with the *)
(* two interrupts that enter it: the timer (pit_handler -> sched_tick) and *)
(* the keyboard, whose handler yields when a line is submitted (line.c).   *)
(*                                                                         *)
(* User threads run the kernel with interrupts off (the system call gate   *)
(* is an interrupt gate), so a yield of theirs is one step.  A kernel      *)
(* thread is created with EFLAGS.IF set (context_create), so ksched_yield  *)
(* is split for it at every point where an interrupt handler that touches  *)
(* the same data can run.  context_switch saves the stack the CPU is on    *)
(* into the slot of the thread it is told to suspend; the model keeps that *)
(* slot, because a handler may run between the two assignments that make   *)
(* the CPU's stack and g_current agree.                                    *)
(***************************************************************************)
EXTENDS Naturals, Sequences

CONSTANTS
    Threads,        \* Thread structures thread_create can hand out
    KThreads,       \* those of them that are kernel threads (IF = 1 in the kernel)
    Sleepers,       \* user threads that call thread_sleep
    Idle,           \* g_idle_thread
    None,           \* no thread, or a saved context that is no longer valid
    BootQueue,      \* what the boot code passed to sched_add, in order
    KeyboardYields, \* whether line submission from the keyboard interrupt happens
    TICK_MOD,       \* g_pit_ticks counts modulo this (2^32 in the code)
    MaxSleep        \* longest sleep asked for, in ticks

All == Threads \cup {Idle}
UThreads == Threads \ KThreads

\* A list of links: what it holds, and that nothing is linked twice.
Elements(q) == {q[i] : i \in 1..Len(q)}
NoRepeats(q) == \A i, j \in 1..Len(q) : q[i] = q[j] => i = j

ASSUME SchedAssumption ==
    /\ KThreads \subseteq Threads
    /\ Sleepers \subseteq UThreads
    /\ Idle \notin Threads
    /\ None \notin All
    /\ BootQueue \in Seq(Threads)
    /\ BootQueue # << >>
    /\ NoRepeats(BootQueue)
    /\ KeyboardYields \in BOOLEAN
    /\ TICK_MOD \in Nat \ {0}
    /\ MaxSleep \in Nat

VARIABLES
    g_current,      \* thread the scheduler believes is running
    thread_state,   \* Thread.state; "absent" when the structure is not allocated
    run_queue,      \* run_queue, head first
    sleep_queue,    \* sleep_queue, most recent sleeper first
    wakeup_tick,    \* Thread.wakeup_tick
    g_pit_ticks,
    cpu,            \* owner of the kernel stack the CPU executes on
    ctx,            \* Thread.ctx: the stack it points into, None when stale
    pc,             \* where the code on each stack is
    own,            \* local `current' of a kernel thread's ksched_yield
    next,           \* local `next' of a kernel thread's ksched_yield
    irq1,           \* stack holding a keyboard interrupt not yet acknowledged
    fault           \* what the scheduler's data was damaged by

sched == <<g_current, thread_state, run_queue, cpu, ctx, fault>>
timer == <<sleep_queue, wakeup_tick, g_pit_ticks>>
local == <<pc, own, next>>
vars == <<sched, timer, local, irq1>>

ThreadStates == {"absent", "runnable", "running", "sleeping", "zombie"}

\* Steps of ksched_yield a kernel thread can be interrupted at.
YieldPoints == {"link", "pick", "unlink", "gcur", "activate", "switch"}
PCs == {"user", "kern", "dead", "run", "exit", "hlt"} \cup YieldPoints

Queued == Elements(run_queue)

TypeOK ==
    /\ g_current \in All
    /\ thread_state \in [All -> ThreadStates]
    /\ run_queue \in Seq(Threads)
    /\ sleep_queue \in Seq(Threads)
    /\ wakeup_tick \in [All -> Nat]
    /\ g_pit_ticks \in 0..(TICK_MOD - 1)
    /\ cpu \in All
    /\ ctx \in [All -> All \cup {None}]
    /\ pc \in [All -> PCs]
    /\ own \in [KThreads -> All \cup {None}]
    /\ next \in [KThreads -> All \cup {None}]
    /\ irq1 \in All \cup {None}
    /\ fault \in {"none", "queue", "context"}

\* Where a thread starts: kernel threads in kthread_entry, processes on their
\* way to user mode, both with interrupts on.
EntryPC(t) == IF t \in KThreads THEN "run" ELSE "user"

\* sched_init and sched_start: the idle thread exists, the boot threads were
\* added in order and the first of them has been switched to.
Init ==
    /\ g_current = Head(BootQueue)
    /\ run_queue = Tail(BootQueue)
    /\ thread_state = [t \in All |->
            CASE t = Head(BootQueue) -> "running"
              [] t \in Elements(Tail(BootQueue)) -> "runnable"
              [] t = Idle -> "runnable"
              [] OTHER -> "absent"]
    /\ sleep_queue = << >>
    /\ wakeup_tick = [t \in All |-> 0]
    /\ g_pit_ticks = 0
    /\ cpu = Head(BootQueue)
    /\ ctx = [t \in All |->
            IF t # Head(BootQueue) /\ (t = Idle \/ t \in Elements(BootQueue))
            THEN t ELSE None]
    /\ pc = [t \in All |-> IF t = Idle THEN "hlt" ELSE EntryPC(t)]
    /\ own = [k \in KThreads |-> None]
    /\ next = [k \in KThreads |-> None]
    /\ irq1 = None
    /\ fault = "none"

-----------------------------------------------------------------------------
(* The pieces of ksched_yield.                                             *)

\* Mutants of MustAdd: the state is not tested;
\* the wrong state is tested.
MustAddAnyState(st, q, c) == c # Idle /\ c \notin Elements(q)
MustAddRunnable(st, q, c) == c # Idle /\ st[c] = "runnable" /\ c \notin Elements(q)

\* Whether ksched_yield puts c back: its own test and the two early returns of
\* runqueue_add (the idle thread, a thread that is already linked).
MustAdd(st, q, c) ==
    c # Idle /\ st[c] = "running" /\ c \notin Elements(q)

\* runqueue_next: the head of the queue, or the idle thread.
HeadOrIdle(q) == IF q = << >> THEN Idle ELSE Head(q)
RestOf(q) == IF q = << >> THEN q ELSE Tail(q)

\* LinkRemove of u's link.
Unlink(q, u) ==
    IF u \in Elements(q)
    THEN LET i == CHOOSE j \in 1..Len(q) : q[j] = u
         IN  SubSeq(q, 1, i - 1) \o SubSeq(q, i + 1, Len(q))
    ELSE q

\* Mutant of ContextSwitch: the stack is saved in the slot that is resumed.
ContextSwitchSwapped(old, new) ==
    /\ cpu' = IF ctx[new] = None THEN cpu ELSE ctx[new]
    /\ ctx' = [ctx EXCEPT ![new] = cpu]
    /\ fault' = fault

\* context_switch(&old->ctx, &new->ctx).  The stack the CPU leaves is saved in
\* old's slot; the stack new's slot points into is resumed, after which every
\* slot that pointed into it is stale.  Resuming a stale slot is undefined.
ContextSwitch(old, new) ==
    IF ctx[new] = None
    THEN /\ fault' = "context"
         /\ ctx' = [ctx EXCEPT ![old] = cpu]
         /\ cpu' = cpu
    ELSE /\ cpu' = ctx[new]
         /\ ctx' = [t \in All |-> IF t = old THEN cpu
                                  ELSE IF ctx[t] = ctx[new] THEN None
                                  ELSE ctx[t]]
         /\ fault' = fault

\* ksched_yield with interrupts off, from thread states st.
YieldFrom(st) ==
    LET c   == g_current
        add == MustAdd(st, run_queue, c)
        q1  == IF add THEN Append(run_queue, c) ELSE run_queue
        st1 == IF add THEN [st EXCEPT ![c] = "runnable"] ELSE st
        n   == HeadOrIdle(q1)
    IN  /\ run_queue' = RestOf(q1)
        /\ thread_state' = [st1 EXCEPT ![n] = "running"]
        /\ g_current' = n
        /\ IF n = c THEN UNCHANGED <<cpu, ctx, fault>>
                    ELSE ContextSwitch(c, n)

\* The code of stack t executes, outside the keyboard handler.
Runs(t) == fault = "none" /\ cpu = t /\ irq1 # t

-----------------------------------------------------------------------------
(* User threads: system calls run with interrupts off.                     *)

SyscallEnter(t) ==
    /\ Runs(t) /\ pc[t] = "user"
    /\ pc' = [pc EXCEPT ![t] = "kern"]
    /\ UNCHANGED <<sched, timer, own, next, irq1>>

SyscallLeave(t) ==
    /\ Runs(t) /\ pc[t] = "kern"
    /\ pc' = [pc EXCEPT ![t] = "user"]
    /\ UNCHANGED <<sched, timer, own, next, irq1>>

\* ksched_yield called by a system call that waits.
Yield(t) ==
    /\ Runs(t) /\ pc[t] = "kern"
    /\ YieldFrom(thread_state)
    /\ UNCHANGED <<timer, local, irq1>>

\* SYS_exit: proc_mark_exit makes g_current a zombie, then yields.
Exit(t) ==
    /\ Runs(t) /\ pc[t] = "kern"
    /\ pc' = [pc EXCEPT ![t] = "dead"]
    /\ YieldFrom([thread_state EXCEPT ![g_current] = "zombie"])
    /\ UNCHANGED <<timer, own, next, irq1>>

\* exec_elf_context: thread_create, context_create and sched_add of u.
Spawn(t, u) ==
    /\ Runs(t) /\ pc[t] = "kern"
    /\ thread_state[u] = "absent"
    /\ thread_state' = [thread_state EXCEPT ![u] = "runnable"]
    /\ run_queue' = Append(run_queue, u)
    /\ ctx' = [ctx EXCEPT ![u] = u]
    /\ pc' = [pc EXCEPT ![u] = EntryPC(u)]
    /\ UNCHANGED <<g_current, cpu, fault, timer, own, next, irq1>>

\* proc_reap of an exited process: runqueue_remove, then its thread is freed.
Reap(t, u) ==
    /\ Runs(t) /\ pc[t] = "kern"
    /\ u # t /\ thread_state[u] = "zombie"
    /\ run_queue' = Unlink(run_queue, u)
    /\ thread_state' = [thread_state EXCEPT ![u] = "absent"]
    /\ ctx' = [x \in All |-> IF x = u \/ ctx[x] = u THEN None ELSE ctx[x]]
    /\ UNCHANGED <<g_current, cpu, fault, timer, local, irq1>>

\* sched_sleep(n): a sleep of zero ticks becomes one tick.
Sleep(t, n) ==
    /\ Runs(t) /\ pc[t] = "kern"
    /\ wakeup_tick' = [wakeup_tick EXCEPT ![g_current] =
                          g_pit_ticks + (IF n = 0 THEN 1 ELSE n)]
    /\ sleep_queue' = <<g_current>> \o sleep_queue
    /\ YieldFrom([thread_state EXCEPT ![g_current] = "sleeping"])
    /\ UNCHANGED <<g_pit_ticks, local, irq1>>

-----------------------------------------------------------------------------
(* Kernel threads: ksched_yield with interrupts on, one step per point at  *)
(* which a handler can observe or change what it works on.                 *)

KStep(k, from, to) ==
    /\ Runs(k) /\ pc[k] = from
    /\ pc' = [pc EXCEPT ![k] = to]
    /\ UNCHANGED <<timer, irq1>>

\* thread_exit of a thread without a process; it yields next.
KExit(k) ==
    /\ KStep(k, "run", "exit")
    /\ thread_state' = [thread_state EXCEPT ![g_current] = "zombie"]
    /\ UNCHANGED <<g_current, run_queue, cpu, ctx, fault, own, next>>

\* current = g_current, the test, and runqueue_add up to LinkBefore.
KYield(k) ==
    /\ \E from \in {"run", "exit"} :
          KStep(k, from, IF MustAdd(thread_state, run_queue, g_current)
                         THEN "link" ELSE "pick")
    /\ own' = [own EXCEPT ![k] = g_current]
    /\ thread_state' = IF MustAdd(thread_state, run_queue, g_current)
                       THEN [thread_state EXCEPT ![g_current] = "runnable"]
                       ELSE thread_state
    /\ UNCHANGED <<g_current, run_queue, cpu, ctx, fault, next>>

\* Mutant of KLink: the yielding thread is linked at the head (LinkAfter).
KLinkAtHead(k) ==
    /\ KStep(k, "link", "pick")
    /\ run_queue' = <<own[k]>> \o run_queue
    /\ UNCHANGED <<g_current, thread_state, cpu, ctx, fault, own, next>>

\* runqueue_add: LinkBefore(&run_queue, ...) appends.
KLink(k) ==
    /\ KStep(k, "link", "pick")
    /\ run_queue' = Append(run_queue, own[k])
    /\ UNCHANGED <<g_current, thread_state, cpu, ctx, fault, own, next>>

\* The head is read; an empty queue gives the idle thread.
KPick(k) ==
    /\ KStep(k, "pick", IF run_queue = << >> THEN "gcur" ELSE "unlink")
    /\ next' = [next EXCEPT ![k] = HeadOrIdle(run_queue)]
    /\ UNCHANGED <<sched, own>>

\* Mutant of KUnlink: the head is read but stays linked.
KUnlinkNothing(k) ==
    /\ KStep(k, "unlink", "gcur")
    /\ UNCHANGED <<sched, own, next>>

\* LinkRemove of the head that was read.  A link someone else has removed
\* since has null pointers, which LinkRemove dereferences.
KUnlink(k) ==
    /\ KStep(k, "unlink", "gcur")
    /\ run_queue' = Unlink(run_queue, next[k])
    /\ fault' = IF next[k] \in Queued THEN fault ELSE "queue"
    /\ UNCHANGED <<g_current, thread_state, cpu, ctx, own, next>>

\* next == current: keep running.
KStay(k) ==
    /\ next[k] = own[k]
    /\ KStep(k, "gcur", "run")
    /\ thread_state' = [thread_state EXCEPT ![own[k]] = "running"]
    /\ UNCHANGED <<g_current, run_queue, cpu, ctx, fault, own, next>>

\* sched_activate_thread, its first assignment: g_current = next.
KSetCurrent(k) ==
    /\ next[k] # own[k]
    /\ KStep(k, "gcur", "activate")
    /\ g_current' = next[k]
    /\ UNCHANGED <<thread_state, run_queue, cpu, ctx, fault, own, next>>

\* The rest of sched_activate_thread: state, TSS stack and page directory.
KActivate(k) ==
    /\ KStep(k, "activate", "switch")
    /\ thread_state' = [thread_state EXCEPT ![next[k]] = "running"]
    /\ UNCHANGED <<g_current, run_queue, cpu, ctx, fault, own, next>>

\* context_switch; the thread goes on after its yield when it is resumed.
KSwitch(k) ==
    /\ KStep(k, "switch", "run")
    /\ ContextSwitch(own[k], next[k])
    /\ UNCHANGED <<g_current, thread_state, run_queue, own, next>>

-----------------------------------------------------------------------------
(* Interrupts, taken where the CPU runs with IF = 1.                       *)

IrqEnabled == fault = "none" /\ irq1 # cpu /\ pc[cpu] \notin {"kern", "dead"}

\* The interrupted code is inside LinkBefore or LinkRemove on run_queue.
InsideLink == pc[cpu] \in {"link", "unlink"}

\* irq_handler on IRQ 1 with a key that submits a line: the handler yields
\* before the interrupt is acknowledged, so there is no second one until the
\* interrupted stack is resumed.
KeyIrq ==
    /\ KeyboardYields /\ IrqEnabled /\ irq1 = None
    /\ irq1' = cpu
    /\ YieldFrom(thread_state)
    /\ UNCHANGED <<timer, local>>

\* The yield returns, pic_send_eoi, iret.
KeyIrqReturn ==
    /\ fault = "none" /\ irq1 = cpu
    /\ irq1' = None
    /\ UNCHANGED <<sched, timer, local>>

\* The threads of D in the order of the sleep queue.
InSleepOrder(D) ==
    {s \in UNION {[1..n -> D] : n \in 0..Len(sleep_queue)} :
        /\ Elements(s) = D
        /\ \A i, j \in 1..Len(s) : i < j =>
              \E k, l \in 1..Len(sleep_queue) :
                  k < l /\ sleep_queue[k] = s[i] /\ sleep_queue[l] = s[j]}

\* Threads sched_wake_sleepers takes off the sleep queue at tick n.
Due(n) == {t \in Elements(sleep_queue) : wakeup_tick[t] <= n}

\* pit_handler: one tick, then sched_tick wakes the sleepers that are due.
TimerIrq ==
    /\ IrqEnabled
    /\ g_pit_ticks' = (g_pit_ticks + 1) % TICK_MOD
    /\ LET due == Due(g_pit_ticks') IN
        /\ \E s \in InSleepOrder(due) : run_queue' = run_queue \o s
        /\ \E s \in InSleepOrder(Elements(sleep_queue) \ due) : sleep_queue' = s
        /\ thread_state' = [t \in All |-> IF t \in due THEN "runnable"
                                          ELSE thread_state[t]]
        /\ wakeup_tick' = [t \in All |-> IF t \in due THEN 0 ELSE wakeup_tick[t]]
    /\ UNCHANGED <<g_current, cpu, ctx, fault, local, irq1>>

\* A handler that works on run_queue while InsideLink may also leave the list
\* broken: both orders of the stores are possible.
TornQueue ==
    /\ IrqEnabled /\ InsideLink
    /\ \/ KeyboardYields /\ irq1 = None
       \/ Due((g_pit_ticks + 1) % TICK_MOD) # {}
    /\ fault' = "queue"
    /\ UNCHANGED <<g_current, thread_state, run_queue, cpu, ctx, timer, local,
                   irq1>>

-----------------------------------------------------------------------------
UserStep(t) ==
    \/ SyscallEnter(t) \/ SyscallLeave(t) \/ Yield(t) \/ Exit(t)
    \/ \E u \in UThreads : Spawn(t, u) \/ Reap(t, u)
    \/ t \in Sleepers /\ \E n \in 0..MaxSleep : Sleep(t, n)

KernelStep(k) ==
    \/ KExit(k) \/ KYield(k) \/ KLink(k) \/ KPick(k) \/ KUnlink(k)
    \/ KStay(k) \/ KSetCurrent(k) \/ KActivate(k) \/ KSwitch(k)

Irq == KeyIrq \/ KeyIrqReturn \/ TimerIrq \/ TornQueue

Next ==
    \/ \E t \in UThreads : UserStep(t)
    \/ \E k \in KThreads : KernelStep(k)
    \/ Irq

Spec == Init /\ [][Next]_vars

\* The contract of cooperative scheduling: programs make system calls and, again
\* and again, ones that wait; the CPU executes kernel threads.
FairSpec ==
    /\ Spec
    /\ \A t \in UThreads : WF_vars(SyscallEnter(t)) /\ SF_vars(Yield(t))
    /\ \A k \in KThreads : WF_vars(KernelStep(k))

-----------------------------------------------------------------------------
(* Properties.                                                             *)

\* No thread is linked twice, and the run queue and the sleep queue hold
\* exactly threads in the state that belongs there: runqueue_add and
\* runqueue_next never link the running thread, a zombie or a freed thread.
QueuesSound ==
    /\ NoRepeats(run_queue) /\ NoRepeats(sleep_queue)
    /\ \A t \in Queued : thread_state[t] = "runnable"
    /\ \A t \in Threads :
          t \in Elements(sleep_queue) <=> thread_state[t] = "sleeping"

\* The thread a kernel thread has taken off the queue and not yet activated.
InHand == {next[k] : k \in {j \in KThreads : pc[j] = "gcur"}}

\* A thread that can run is never forgotten: it is on the run queue, or it is
\* g_current, or a yield in progress is about to make it g_current.  A thread
\* outside all three can never be scheduled again.
NoLostThread ==
    \A t \in Threads : thread_state[t] \in {"runnable", "running"} =>
                          t \in Queued \cup InHand \cup {g_current}

\* context_switch always resumes the right stack: outside the yield of a
\* kernel thread the CPU is on the stack of g_current, and every other thread
\* that can be resumed has a saved context that points into its own stack.
ContextsSound ==
    /\ fault = "none"
    /\ cpu # g_current => cpu \in KThreads /\ pc[cpu] \in {"activate", "switch"}
    /\ \A t \in Threads \ {cpu} :
          thread_state[t] \in {"runnable", "running", "sleeping"} => ctx[t] = t

\* Without IrqSafe the data can be damaged, but only by or after an interrupt
\* inside the yield of a kernel thread: no other step of a system call, of a
\* thread or of an interrupt taken elsewhere breaks queues, threads or contexts.
Undamaged == QueuesSound /\ NoLostThread /\ ContextsSound
DamageOnlyInsideYield ==
    [][Undamaged /\ pc[cpu] \notin YieldPoints => Undamaged']_vars

\* The configurations in which no handler that works on the scheduler's data can
\* interrupt ksched_yield: there is no kernel thread, or no handler that touches
\* the run queue.
IrqSafe == KThreads = {} \/ (~KeyboardYields /\ Sleepers = {})

\* Where each kind of thread can be, and what its slot can hold.
PlacesOK ==
    /\ \A t \in UThreads : pc[t] \in {"user", "kern", "dead"}
    /\ \A k \in KThreads : pc[k] \in {"run", "exit"} \cup YieldPoints
    /\ \A k \in KThreads \ {cpu} : pc[k] = "run"
    /\ pc[Idle] = "hlt"
    /\ \A t \in All : ctx[t] \in {t, None}

\* The state of the thread the CPU is on, by how far its yield has got.
PutBack(k) ==
    thread_state[k] = "zombie" \/ (thread_state[k] = "runnable" /\ k \in Queued)
PhaseOK ==
    LET k == cpu IN
    /\ (k \notin KThreads \/ pc[k] \notin {"activate", "switch"}) => g_current = k
    /\ k \in UThreads => thread_state[k] = "running"
    /\ k \in KThreads =>
        /\ pc[k] = "run" => thread_state[k] = "running"
        /\ pc[k] = "exit" => thread_state[k] = "zombie"
        /\ pc[k] \in YieldPoints => own[k] = k
        /\ pc[k] = "link" => thread_state[k] = "runnable" /\ k \notin Queued
        /\ pc[k] \in {"pick", "unlink"} => PutBack(k)
        /\ pc[k] = "unlink" => run_queue # << >> /\ next[k] = Head(run_queue)
        /\ pc[k] = "gcur" =>
            /\ next[k] = k \/ PutBack(k)
            /\ next[k] \in All \ Queued
            /\ next[k] = Idle \/ thread_state[next[k]] = "runnable"
        /\ pc[k] \in {"activate", "switch"} =>
            /\ next[k] # k /\ PutBack(k)
            /\ next[k] \in All \ Queued
            /\ g_current = next[k]
            /\ next[k] = Idle \/ thread_state[next[k]] =
                                  IF pc[k] = "switch" THEN "running" ELSE "runnable"

\* Only the current thread is running; the idle thread never blocks.
StatesOK ==
    /\ \A t \in All : thread_state[t] = "sleeping" => t \in Sleepers
    /\ \A t \in Threads : thread_state[t] = "running" => t = g_current
    /\ thread_state[Idle] \in {"runnable", "running"}

\* Every thread that is off the CPU and can come back has its own stack saved.
SavedOK ==
    \A t \in All \ {cpu} :
        thread_state[t] \in {"runnable", "running", "sleeping"} => ctx[t] = t

\* The inductive invariant behind the three safety properties.
SchedInv ==
    /\ fault = "none"
    /\ QueuesSound
    /\ NoLostThread
    /\ PlacesOK
    /\ PhaseOK
    /\ StatesOK
    /\ SavedOK

\* How far a kernel thread's yield has moved the line: it is last in it once it
\* is put back, and it took the idle thread or itself from nothing else.
LineInv ==
    cpu \in KThreads /\ pc[cpu] \in YieldPoints \ {"link"} =>
        /\ cpu \in Queued => run_queue[Len(run_queue)] = cpu
        /\ pc[cpu] \in {"gcur", "activate", "switch"} /\ next[cpu] \in {Idle, cpu} =>
              run_queue = << >>

\* The line as the rest of the kernel sees it: a yield of a kernel thread takes
\* effect at its context switch, so until then the thread it has taken off is
\* still at the head and the thread it has put back is not yet in line.
InYield == cpu \in KThreads /\ pc[cpu] \in YieldPoints \ {"link"}
Taken ==
    IF InYield /\ pc[cpu] \in {"gcur", "activate", "switch"} /\ next[cpu] # Idle
    THEN <<next[cpu]>> \o run_queue ELSE run_queue
ReadyLine ==
    IF InYield /\ own[cpu] \in Elements(Taken)
    THEN SubSeq(Taken, 1, Len(Taken) - 1) ELSE Taken

Line == INSTANCE RoundRobin
            WITH running <- cpu, ready <- ReadyLine,
                 FirstRunning <- Head(BootQueue), FirstReady <- Tail(BootQueue)

\* The scheduler implements the round-robin line: ksched_yield, split or not and
\* called from a system call or an interrupt, serves threads first come, first
\* served, and exit, sleep, wake-up, exec and reap never disturb the order.
ImplementsRoundRobin == Line!Spec

\* Nobody waits for ever: a thread in line runs, whatever yields, exits, starts
\* and is reaped around it.  Every wait loop built on ksched_yield relies on it.
EveryReadyThreadRuns == \A t \in Threads : t \in Line!Waiting ~> cpu = t
=============================================================================

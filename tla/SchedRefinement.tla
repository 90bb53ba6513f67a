-------------------------- MODULE SchedRefinement --------------------------
(***************************************************************************)
(* The scheduler implements the round-robin line, for every set of threads *)
(* and in every configuration in which no interrupt handler can break into *)
(* ksched_yield (IrqSafe).                                                 *)
(***************************************************************************)
EXTENDS SchedProofs

-----------------------------------------------------------------------------
(* Sequences: what the line is while a yield has taken its head or has put *)
(* its own thread at the end.                                              *)

FrontOf(q) == SubSeq(q, 1, Len(q) - 1)

\* Dropping what was appended.
LEMMA FrontAppend ==
    ASSUME NEW T, NEW q \in Seq(T), NEW x \in T
    PROVE  FrontOf(Append(q, x)) = q
  BY DEF FrontOf

\* Putting the head back.
LEMMA HeadBack ==
    ASSUME NEW T, NEW q \in Seq(T), q # << >>
    PROVE  <<Head(q)>> \o Tail(q) = q
  OBVIOUS

\* The head of a line and its last thread, taken off and appended again.
LEMMA TurnLine ==
    ASSUME NEW T, NEW q \in Seq(T), q # << >>, NEW y \in T
    PROVE  /\ Append(FrontOf(<<y>> \o q), q[Len(q)]) = <<y>> \o q
           /\ Head(<<y>> \o q) = y /\ Tail(<<y>> \o q) = q
           /\ FrontOf(<<y>> \o q) = <<y>> \o FrontOf(q)
  BY DEF FrontOf

-----------------------------------------------------------------------------
(* The line, read off the scheduler's state.                               *)

\* Outside a kernel thread's yield, and until it has linked its thread, the line
\* is the run queue.
LEMMA LineOutside ==
    /\ cpu \notin KThreads \/ pc[cpu] \notin YieldPoints \ {"link"} =>
          ReadyLine = run_queue
    /\ cpu' \notin KThreads \/ pc'[cpu'] \notin YieldPoints \ {"link"} =>
          ReadyLine' = run_queue'
  BY DEF ReadyLine, Taken, InYield

\* Before the head is taken off the line lacks the thread that was put back;
\* after that it still begins with the thread that was taken.
InLine ==
    IF pc[cpu] \in {"gcur", "activate", "switch"} /\ next[cpu] # Idle
    THEN <<next[cpu]>> \o run_queue ELSE run_queue
LEMMA LineInside ==
    /\ cpu \in KThreads /\ pc[cpu] \in YieldPoints \ {"link"} /\ own[cpu] = cpu =>
          ReadyLine = IF cpu \in Elements(InLine) THEN FrontOf(InLine) ELSE InLine
    /\ cpu' \in KThreads /\ pc'[cpu'] \in YieldPoints \ {"link"} /\ own'[cpu'] = cpu' =>
          ReadyLine' = IF cpu' \in Elements(InLine') THEN FrontOf(InLine') ELSE InLine'
  BY DEF ReadyLine, Taken, InYield, YieldPoints, FrontOf, InLine

\* Only the kernel thread the CPU is on can be inside a yield, so a step that
\* leaves it or was not one of its steps ends outside.
LEMMA OthersOutside ==
    ASSUME TypeOK, SchedInv, cpu \notin KThreads, \A k \in KThreads : pc'[k] = pc[k]
    PROVE  /\ ReadyLine = run_queue /\ ReadyLine' = run_queue'
           /\ LineInv'
<1>1. \A k \in KThreads : pc'[k] = "run"
  BY DEF SchedInv, PlacesOK
<1>2. cpu' \in KThreads => pc'[cpu'] \notin YieldPoints
  BY <1>1 DEF YieldPoints
<1> QED
  BY <1>2, LineOutside DEF LineInv

-----------------------------------------------------------------------------
(* The yield of a kernel thread: its steps are one move of the line, at the *)
(* context switch.                                                         *)

\* Up to the unlinking of the head the line stands still.
LEMMA KernelQueueLine ==
    ASSUME TypeOK, SchedInv, LineInv, NEW k \in KThreads,
           KExit(k) \/ KYield(k) \/ KLink(k) \/ KPick(k) \/ KUnlink(k)
    PROVE  cpu' = cpu /\ ReadyLine' = ReadyLine /\ LineInv'
<1>0. /\ cpu = k /\ cpu' = k /\ k \in Threads /\ k \in All /\ k # Idle
      /\ pc[k] \notin {"activate", "switch"} => g_current = k
      /\ run_queue \in Seq(Threads) /\ NoRepeats(run_queue)
      /\ pc \in [All -> PCs] /\ own \in [KThreads -> All \cup {None}]
      /\ next \in [KThreads -> All \cup {None}]
      /\ pc[k] \in YieldPoints => own[k] = k
      /\ \A t \in Queued : thread_state[t] = "runnable"
  BY ConstFacts DEF KExit, KYield, KLink, KPick, KUnlink, KStep, Runs, sched, TypeOK,
     SchedInv, PhaseOK, QueuesSound
<1>1. CASE KExit(k)
  <2>1. pc[k] = "run" /\ pc'[k] = "exit" /\ run_queue' = run_queue
    BY <1>0, <1>1 DEF KExit, KStep
  <2> QED
    BY <1>0, <2>1, LineOutside DEF LineInv, YieldPoints
<1>2. CASE KYield(k)
  <2>1. /\ pc[k] \in {"run", "exit"} /\ run_queue' = run_queue /\ own'[k] = k
        /\ pc'[k] = IF MustAdd(thread_state, run_queue, k) THEN "link" ELSE "pick"
    BY <1>0, <1>2 DEF KYield, KStep
  <2>2. k \notin Queued /\ Queued' = Queued
    BY <1>0, <2>1 DEF SchedInv, PhaseOK, Queued
  <2>3. ReadyLine = run_queue
    BY <1>0, <2>1, LineOutside DEF YieldPoints
  <2>4. ReadyLine' = run_queue
    <3>1. CASE pc'[k] = "link"
      BY <1>0, <2>1, <3>1, LineOutside
    <3>2. CASE pc'[k] = "pick"
      BY <1>0, <2>1, <2>2, <3>2, LineInside DEF YieldPoints, InLine, Queued
    <3> QED
      BY <2>1, <3>1, <3>2
  <2> QED
    BY <1>0, <2>1, <2>2, <2>3, <2>4 DEF LineInv
<1>3. CASE KLink(k)
  <2>1. /\ pc[k] = "link" /\ pc'[k] = "pick" /\ own[k] = k /\ own' = own
        /\ run_queue' = Append(run_queue, k)
    BY <1>0, <1>3 DEF KLink, KStep, YieldPoints
  <2>2. ReadyLine = run_queue
    BY <1>0, <2>1, LineOutside
  <2>3. k \in Elements(run_queue') /\ InLine' = run_queue'
    BY <1>0, <2>1, AppendFacts DEF InLine
  <2>4. ReadyLine' = FrontOf(run_queue')
    BY <1>0, <2>1, <2>3, LineInside DEF YieldPoints
  <2>5. ReadyLine' = run_queue
    BY <1>0, <2>1, <2>4, FrontAppend
  <2>6. run_queue'[Len(run_queue')] = k
    BY <1>0, <2>1
  <2> QED
    BY <1>0, <2>1, <2>2, <2>5, <2>6 DEF LineInv
<1>4. CASE KPick(k)
  <2>1. /\ pc[k] = "pick" /\ run_queue' = run_queue /\ own' = own
        /\ pc'[k] = IF run_queue = << >> THEN "gcur" ELSE "unlink"
        /\ next'[k] = HeadOrIdle(run_queue)
    BY <1>0, <1>4 DEF KPick, KStep, sched
  <2>2. InLine = run_queue /\ InLine' = run_queue
    BY <1>0, <2>1 DEF InLine, HeadOrIdle
  <2>3. ReadyLine' = ReadyLine
    BY <1>0, <2>1, <2>2, LineInside DEF YieldPoints
  <2>4. pc'[k] = "gcur" => run_queue' = << >>
    BY <2>1
  <2> QED
    BY <1>0, <2>1, <2>3, <2>4 DEF LineInv, YieldPoints, Queued
<1>5. CASE KUnlink(k)
  <2>1. /\ pc[k] = "unlink" /\ pc'[k] = "gcur" /\ own' = own /\ next' = next
        /\ run_queue' = Unlink(run_queue, next[k])
        /\ run_queue # << >> /\ next[k] = Head(run_queue)
    BY <1>0, <1>5 DEF KUnlink, KStep, SchedInv, PhaseOK
  <2>2. run_queue' = Tail(run_queue) /\ next[k] \in Threads /\ next[k] # Idle
    BY <1>0, <2>1, UnlinkHead, TailFacts, ConstFacts
  <2>3. InLine = run_queue /\ InLine' = run_queue
    BY <1>0, <2>1, <2>2, HeadBack, Zenon DEF InLine
  <2>4. ReadyLine' = ReadyLine
    BY <1>0, <2>1, <2>3, LineInside DEF YieldPoints
  <2>5. k \in Queued => run_queue[Len(run_queue)] = k
    BY <1>0, <2>1 DEF LineInv, YieldPoints
  <2>6. k \in Queued' => k \in Queued /\ run_queue' # << >>
    <3>1. Elements(run_queue') \subseteq Elements(run_queue)
      BY <1>0, <2>1, <2>2, TailFacts, Zenon
    <3>2. Elements(<< >>) = {}
      BY DEF Elements
    <3> QED
      BY <3>1, <3>2, Zenon DEF Queued
  <2>7. k \in Queued' => run_queue'[Len(run_queue')] = k
    BY <1>0, <2>2, <2>5, <2>6
  <2>8. next[k] = k => run_queue' = << >>
    <3> SUFFICES ASSUME next[k] = k PROVE run_queue' = << >>
      OBVIOUS
    <3>1. run_queue[1] = k /\ run_queue[Len(run_queue)] = k
      BY <1>0, <2>1, <2>5 DEF Queued, Elements
    <3>2. Len(run_queue) = 1
      <4>1. 1 \in 1..Len(run_queue) /\ Len(run_queue) \in 1..Len(run_queue)
        BY <1>0, <2>1
      <4> QED
        BY <1>0, <3>1, <4>1, Zenon DEF NoRepeats
    <3> QED
      BY <1>0, <2>2, <3>2
  <2> QED
    BY <1>0, <2>1, <2>2, <2>4, <2>7, <2>8 DEF LineInv
<1> QED
  BY <1>1, <1>2, <1>3, <1>4, <1>5

\* From then on to the context switch, which moves the line: a thread that was
\* put back yields, one that exits leaves, and a thread alone keeps running.
LEMMA KernelSwitchLine ==
    ASSUME TypeOK, SchedInv, LineInv, NEW k \in KThreads,
           KStay(k) \/ KSetCurrent(k) \/ KActivate(k) \/ KSwitch(k)
    PROVE  [Line!Next]_(Line!vars) /\ LineInv'
<1>0. /\ cpu = k /\ k \in Threads /\ k \in All /\ k # Idle
      /\ pc[k] \in {"gcur", "activate", "switch"} /\ own[k] = k
      /\ run_queue' = run_queue
      /\ own' = own /\ next' = next
      /\ pc \in [All -> PCs]
      /\ next[k] \in All \ Queued
  <2>1. cpu = k /\ pc[k] \in {"gcur", "activate", "switch"} /\ run_queue' = run_queue
        /\ own' = own /\ next' = next
    BY DEF KStay, KSetCurrent, KActivate, KSwitch, KStep, Runs
  <2>2. k \in Threads /\ k \in All /\ k # Idle /\ pc \in [All -> PCs]
    BY ConstFacts, Types DEF ThreadTypes
  <2>3. own[k] = k /\ next[k] \in All \ Queued
    BY <2>1 DEF SchedInv, PhaseOK, YieldPoints
  <2> QED
    BY <2>1, <2>2, <2>3, Zenon
<1>queue. run_queue \in Seq(Threads)
  BY DEF TypeOK
<1>1. /\ next[k] \in {Idle, k} => run_queue = << >>
      /\ k \in Queued => run_queue[Len(run_queue)] = k
      /\ Queued' = Queued
  BY <1>0 DEF LineInv, YieldPoints, Queued
<1>2. ReadyLine = IF k \in Elements(InLine) THEN FrontOf(InLine) ELSE InLine
  BY <1>0, LineInside DEF YieldPoints
<1>3. CASE KStay(k)
  <2>1. cpu' = k /\ pc'[k] = "run" /\ next[k] = k /\ run_queue = << >>
    BY <1>0, <1>1, <1>3 DEF KStay, KStep
  <2>2. ReadyLine' = << >> /\ LineInv'
    BY <1>0, <2>1, LineOutside DEF LineInv, YieldPoints
  <2>3. InLine = <<k>>
    BY <1>0, <1>3, <2>1 DEF InLine
  <2>4. k \in Elements(<<k>>) /\ FrontOf(<<k>>) = << >>
    BY DEF Elements, FrontOf
  <2> QED
    BY <1>0, <1>2, <2>1, <2>2, <2>3, <2>4, Zenon DEF Line!vars
<1>4. CASE KSetCurrent(k) \/ KActivate(k)
  <2>1. cpu' = k /\ pc'[k] \in {"activate", "switch"}
    BY <1>0, <1>4 DEF KSetCurrent, KActivate, KStep
  <2>2. InLine' = InLine
    BY <1>0, <2>1 DEF InLine
  <2>3. ReadyLine' = ReadyLine
    BY <1>0, <1>2, <2>1, <2>2, LineInside DEF YieldPoints
  <2> QED
    BY <1>0, <1>1, <2>1, <2>3, Zenon DEF Line!vars, LineInv
<1>5. CASE KSwitch(k)
  <2>1. /\ pc[k] = "switch" /\ next[k] # k /\ PutBack(k) /\ g_current = next[k]
        /\ thread_state[next[k]] \in {"runnable", "running"}
    BY <1>0, <1>5 DEF KSwitch, KStep, SchedInv, PhaseOK, StatesOK
  <2>2. ctx[next[k]] = next[k] /\ next[k] # None
    BY <1>0, <2>1, ConstFacts DEF SchedInv, SavedOK
  <2>3. cpu' = next[k]
    BY <1>0, <1>5, <2>2 DEF KSwitch, ContextSwitch
  <2>4. cpu' \in KThreads => pc'[cpu'] = "run"
    BY <1>0, <1>5, <2>1, <2>3 DEF KSwitch, KStep, SchedInv, PlacesOK
  <2>5. ReadyLine' = run_queue /\ LineInv'
    BY <1>0, <2>4, LineOutside DEF LineInv, YieldPoints
  <2>6. CASE next[k] = Idle
    <3>1. InLine = << >> /\ run_queue = << >>
      BY <1>0, <1>1, <2>6 DEF InLine
    <3>2. Elements(<< >>) = {}
      BY DEF Elements
    <3>3. ReadyLine = << >>
      BY <1>2, <3>1, <3>2
    <3> QED
      BY <2>3, <2>5, <2>6, <3>1, <3>3, Zenon DEF Line!Next, Line!Dispatch
  <2>7. CASE next[k] # Idle
    <3>1. InLine = <<next[k]>> \o run_queue /\ next[k] \in Threads
      BY <1>0, <2>1, <2>7, ConstFacts DEF InLine
    <3> DEFINE one == <<next[k]>>
    <3>2. Elements(one) = {next[k]} /\ one \in Seq(Threads) /\ InLine = one \o run_queue
      BY <3>1 DEF Elements
    <3> HIDE DEF one
    <3>3. Elements(InLine) = {next[k]} \cup Queued
      BY <1>queue, <3>2, ConcatFacts DEF Queued
    <3>4. Head(InLine) = next[k] /\ Tail(InLine) = run_queue /\ InLine # << >>
      BY <1>queue, <3>1
    <3>5. CASE k \in Queued
      <4>1. run_queue # << >> /\ run_queue[Len(run_queue)] = k
        <5>1. Elements(<< >>) = {}
          BY DEF Elements
        <5> QED
          BY <1>1, <3>5, <5>1, Zenon DEF Queued
      <4>2. Append(FrontOf(InLine), k) = InLine
        BY <1>queue, <3>1, <4>1, TurnLine, Zenon
      <4>3. ReadyLine = FrontOf(InLine)
        BY <1>2, <3>3, <3>5
      <4> QED
        BY <1>0, <2>3, <2>5, <3>4, <4>2, <4>3, Zenon DEF Line!Next, Line!Yield
    <3>6. CASE k \notin Queued
      <4>1. ReadyLine = InLine
        BY <1>2, <2>1, <3>3, <3>6
      <4> QED
        BY <2>3, <2>5, <3>4, <4>1, Zenon DEF Line!Next, Line!Dispatch
    <3> QED
      BY <3>5, <3>6
  <2> QED
    BY <2>6, <2>7, Zenon
<1> QED
  BY <1>3, <1>4, <1>5

-----------------------------------------------------------------------------
(* Steps outside the yield of a kernel thread.                             *)

\* ksched_yield with interrupts off: a running thread goes to the end of the
\* line; one that exits or goes to sleep, and the idle thread, leave it.
LEMMA YieldLine ==
    ASSUME TypeOK, SchedInv, cpu \notin KThreads,
           NEW st \in [All -> ThreadStates],
           \A t \in All \ {cpu} : st[t] = thread_state[t],
           cpu \in Threads => st[cpu] \in {"running", "zombie", "sleeping"},
           cpu = Idle => st = thread_state,
           YieldFrom(st),
           \A k \in KThreads : pc'[k] = pc[k]
    PROVE  Line!Next /\ LineInv'
<1>1. ReadyLine = run_queue /\ ReadyLine' = run_queue' /\ LineInv'
  BY OthersOutside
<1>2. YieldPost(st)
  BY YieldStep
<1>3. g_current = cpu /\ cpu \in All /\ run_queue \in Seq(Threads)
      /\ (cpu \in Threads => cpu \notin Queued)
  BY ConstFacts DEF TypeOK, SchedInv, PhaseOK, QueuesSound
<1>4. cpu' = g_current'
  BY <1>2 DEF YieldPost
<1>5. CASE cpu \in Threads /\ st[cpu] = "running"
  <2>1. MustAdd(st, run_queue, cpu) /\ cpu # Idle
    BY <1>3, <1>5, ConstFacts DEF MustAdd, Queued
  <2>2. Append(run_queue, cpu) # << >>
    BY <1>3
  <2>3. /\ run_queue' = Tail(Append(run_queue, cpu))
        /\ g_current' = Head(Append(run_queue, cpu))
    BY <1>3, <2>1, <2>2, Zenon DEF YieldFrom, HeadOrIdle, RestOf
  <2> QED
    BY <1>1, <1>4, <2>1, <2>3, Zenon DEF Line!Next, Line!Yield
<1>6. CASE ~(cpu \in Threads /\ st[cpu] = "running")
  <2>1. ~MustAdd(st, run_queue, cpu)
    BY <1>3, <1>6, ConstFacts DEF MustAdd
  <2>2. run_queue' = RestOf(run_queue) /\ g_current' = HeadOrIdle(run_queue)
    BY <1>3, <2>1, Zenon DEF YieldFrom
  <2> QED
    BY <1>1, <1>4, <2>2, Zenon DEF Line!Next, Line!Dispatch, RestOf, HeadOrIdle
<1> QED
  BY <1>1, <1>5, <1>6

\* System calls: entering and leaving the kernel moves nobody, a yield, an exit
\* and a sleep are one move of the line, exec adds to its end, and waitpid frees
\* a thread that is not in it.
LEMMA UserLine ==
    ASSUME TypeOK, SchedInv, NEW t \in UThreads, UserStep(t)
    PROVE  [Line!Next]_(Line!vars) /\ LineInv'
<1>0. /\ cpu = t /\ cpu \notin KThreads /\ cpu \in Threads /\ cpu # Idle
      /\ g_current = cpu /\ thread_state[cpu] = "running" /\ cpu \in All
      /\ thread_state \in [All -> ThreadStates]
  <2>1. cpu = t
    BY DEF UserStep, SyscallEnter, SyscallLeave, Yield, Exit, Spawn, Reap, Sleep, Runs
  <2> QED
    BY <2>1, ConstFacts DEF TypeOK, SchedInv, PhaseOK
<1>1. CASE SyscallEnter(t) \/ SyscallLeave(t)
  <2>1. /\ cpu' = cpu /\ run_queue' = run_queue
        /\ \A k \in KThreads : pc'[k] = pc[k]
    BY <1>0, <1>1, ConstFacts DEF SyscallEnter, SyscallLeave, sched, TypeOK
  <2> QED
    BY <1>0, <2>1, OthersOutside DEF Line!vars
<1>2. CASE Yield(t)
  BY <1>0, <1>2, YieldLine DEF Yield, local
<1>3. CASE Exit(t)
  <2> DEFINE st == [thread_state EXCEPT ![cpu] = "zombie"]
  <2>1. /\ st \in [All -> ThreadStates] /\ YieldFrom(st) /\ st[cpu] = "zombie"
        /\ \A u \in All \ {cpu} : st[u] = thread_state[u]
    BY <1>0, <1>3 DEF Exit, ThreadStates
  <2>2. \A k \in KThreads : pc'[k] = pc[k]
    BY <1>0, <1>3, ConstFacts DEF Exit, TypeOK
  <2> HIDE DEF st
  <2> QED
    BY <1>0, <2>1, <2>2, YieldLine
<1>4. CASE \E n \in 0..MaxSleep : Sleep(t, n)
  <2> DEFINE st == [thread_state EXCEPT ![cpu] = "sleeping"]
  <2>1. /\ st \in [All -> ThreadStates] /\ YieldFrom(st) /\ st[cpu] = "sleeping"
        /\ \A u \in All \ {cpu} : st[u] = thread_state[u]
    BY <1>0, <1>4 DEF Sleep, ThreadStates
  <2>2. \A k \in KThreads : pc'[k] = pc[k]
    BY <1>4 DEF Sleep, local
  <2> HIDE DEF st
  <2> QED
    BY <1>0, <2>1, <2>2, YieldLine
<1>5. ASSUME NEW u \in UThreads, Spawn(t, u)
      PROVE  [Line!Next]_(Line!vars) /\ LineInv'
  <2>1. /\ cpu' = cpu /\ run_queue' = Append(run_queue, u) /\ run_queue \in Seq(Threads)
        /\ u \in Threads /\ u # cpu /\ u \notin Queued
    BY <1>0, <1>5, ConstFacts DEF Spawn, TypeOK, SchedInv, QueuesSound
  <2>2. \A k \in KThreads : pc'[k] = pc[k]
    BY <1>5, ConstFacts, Types DEF Spawn, ThreadTypes
  <2>3. ReadyLine = run_queue /\ ReadyLine' = Append(run_queue, u) /\ LineInv'
    BY <1>0, <2>1, <2>2, OthersOutside
  <2>4. /\ Append(run_queue, u) \in Seq(Threads) /\ Len(run_queue) \in Nat
        /\ Len(Append(run_queue, u)) = Len(run_queue) + 1
        /\ \A i \in 1..Len(run_queue) : Append(run_queue, u)[i] = run_queue[i]
        /\ Append(run_queue, u)[Len(run_queue) + 1] = u
    BY <2>1
  <2>5. Line!Waiting = Queued
    BY <2>3 DEF Line!Waiting, Queued, Elements
  <2>6. Line!Arrive
    BY <2>1, <2>3, <2>4, <2>5 DEF Line!Arrive
  <2> QED
    BY <2>3, <2>6, Zenon DEF Line!Next
<1>6. ASSUME NEW u \in UThreads, Reap(t, u)
      PROVE  [Line!Next]_(Line!vars) /\ LineInv'
  <2>1. u \notin Queued
    BY <1>6 DEF Reap, SchedInv, QueuesSound
  <2>2. run_queue' = run_queue /\ cpu' = cpu /\ \A k \in KThreads : pc'[k] = pc[k]
    BY <1>6, <2>1 DEF Reap, Unlink, Queued, local
  <2> QED
    BY <1>0, <2>2, OthersOutside DEF Line!vars
<1> QED
  BY <1>1, <1>2, <1>3, <1>4, <1>5, <1>6 DEF UserStep

-----------------------------------------------------------------------------
(* Interrupts.                                                             *)

\* sched_wake_sleepers: the sleepers that are due join the end of the line.
LEMMA TimerLine ==
    ASSUME TypeOK, SchedInv, LineInv, IrqSafe, TimerIrq
    PROVE  [Line!Next]_(Line!vars) /\ LineInv'
<1> DEFINE due == Due(g_pit_ticks')
<1>1. PICK s \in InSleepOrder(due) : run_queue' = run_queue \o s
  BY DEF TimerIrq
<1>2. UNCHANGED <<cpu, pc, own, next>> /\ run_queue \in Seq(Threads)
  BY DEF TimerIrq, local, TypeOK
<1>3. due \subseteq Elements(sleep_queue)
  BY DEF Due
<1> HIDE DEF due
<1>4. s \in Seq(Threads) /\ NoRepeats(s) /\ Elements(s) = due
  BY <1>3, SleepOrderFacts DEF SchedInv, QueuesSound
<1>5. \A t \in due : t \in Threads /\ thread_state[t] = "sleeping"
  BY <1>3, QueueTypes, Zenon DEF SchedInv, QueuesSound
<1>6. /\ Len(s) \in Nat /\ Len(run_queue) \in Nat
      /\ run_queue' \in Seq(Threads) /\ Len(run_queue') = Len(run_queue) + Len(s)
      /\ \A i \in 1..Len(run_queue) : run_queue'[i] = run_queue[i]
      /\ \A i \in 1..Len(s) : run_queue'[Len(run_queue) + i] = s[i]
      /\ Len(s) = 0 => run_queue' = run_queue
  BY <1>1, <1>2, <1>4
<1>7. CASE Len(s) = 0
  <2>1. run_queue' = run_queue
    BY <1>6, <1>7
  <2>2. ReadyLine' = ReadyLine
    BY <1>2, <2>1 DEF ReadyLine, Taken, InYield
  <2> QED
    BY <1>2, <2>1, <2>2, Zenon DEF Line!vars, LineInv, Queued
<1>8. CASE Len(s) # 0
  <2>1. s[1] \in due
    BY <1>4, <1>6, <1>8 DEF Elements
  <2>2. cpu \notin KThreads
    BY <1>5, <2>1, ConstFacts DEF IrqSafe, SchedInv, StatesOK
  <2>3. ReadyLine = run_queue /\ ReadyLine' = run_queue' /\ LineInv'
    BY <1>2, <2>2, OthersOutside
  <2>4. cpu \notin due /\ Queued \cap due = {}
    BY <1>5, <2>2, ConstFacts DEF SchedInv, PhaseOK, QueuesSound
  <2>5. Line!Waiting = Queued
    BY <2>3 DEF Line!Waiting, Queued, Elements
  <2>6. ASSUME NEW i \in Len(run_queue) + 1 .. Len(run_queue')
        PROVE  i - Len(run_queue) \in 1..Len(s) /\ run_queue'[i] = s[i - Len(run_queue)]
    <3>1. i - Len(run_queue) \in 1..Len(s) /\ Len(run_queue) + (i - Len(run_queue)) = i
      BY <1>6
    <3> QED
      BY <1>6, <3>1
  <2>7. \A i \in Len(run_queue) + 1 .. Len(run_queue') : run_queue'[i] \in due
    BY <1>4, <2>6 DEF Elements
  <2>8. \A i, j \in Len(run_queue) + 1 .. Len(run_queue') :
            run_queue'[i] = run_queue'[j] => i = j
    <3> SUFFICES ASSUME NEW i \in Len(run_queue) + 1 .. Len(run_queue'),
                        NEW j \in Len(run_queue) + 1 .. Len(run_queue'),
                        run_queue'[i] = run_queue'[j]
                 PROVE  i = j
      OBVIOUS
    <3>1. i - Len(run_queue) = j - Len(run_queue)
      <4>1. /\ i - Len(run_queue) \in 1..Len(s) /\ j - Len(run_queue) \in 1..Len(s)
            /\ s[i - Len(run_queue)] = s[j - Len(run_queue)]
        BY <2>6
      <4> QED
        BY <1>4, <4>1, Zenon DEF NoRepeats
    <3> QED
      BY <1>6, <3>1
  <2>9. Line!Arrive
    <3>1. Len(run_queue) < Len(run_queue')
      BY <1>6, <1>8
    <3>2. \A i \in Len(run_queue) + 1 .. Len(run_queue') :
              run_queue'[i] \notin Queued \cup {cpu}
      BY <2>4, <2>7
    <3> QED
      BY <1>2, <1>6, <2>3, <2>5, <2>8, <3>1, <3>2 DEF Line!Arrive
  <2> QED
    BY <2>3, <2>9 DEF Line!Next
<1> QED
  BY <1>7, <1>8

\* The keyboard interrupt yields for the thread it interrupted.
LEMMA IrqLine ==
    ASSUME TypeOK, SchedInv, LineInv, IrqSafe, Irq
    PROVE  [Line!Next]_(Line!vars) /\ LineInv'
<1>1. CASE KeyIrq
  <2>1. KThreads = {} /\ YieldFrom(thread_state) /\ pc' = pc
    BY <1>1 DEF KeyIrq, IrqSafe, local
  <2>2. /\ thread_state \in [All -> ThreadStates]
        /\ cpu \in Threads => thread_state[cpu] = "running"
    BY <2>1, ConstFacts DEF TypeOK, SchedInv, PhaseOK
  <2> QED
    BY <2>1, <2>2, YieldLine
<1>2. CASE KeyIrqReturn
  <2>1. UNCHANGED <<cpu, run_queue, pc, own, next>>
    BY <1>2 DEF KeyIrqReturn, sched, local
  <2>2. ReadyLine' = ReadyLine /\ LineInv'
    BY <2>1 DEF ReadyLine, Taken, InYield, LineInv, Queued
  <2> QED
    BY <2>1, <2>2 DEF Line!vars
<1> QED
  BY <1>1, <1>2, TimerLine, NoTornQueue DEF Irq

-----------------------------------------------------------------------------
(* The refinement.                                                         *)

\* Every step of the scheduler is a step of the line or leaves it alone.
LEMMA StepLine ==
    ASSUME TypeOK, SchedInv, LineInv, IrqSafe, [Next]_vars
    PROVE  [Line!Next]_(Line!vars) /\ LineInv'
<1>1. CASE \E t \in UThreads : UserStep(t)
  BY <1>1, UserLine
<1>2. CASE \E k \in KThreads : KernelStep(k)
  <2>1. PICK k \in KThreads : KernelStep(k)
    BY <1>2
  <2>2. CASE KExit(k) \/ KYield(k) \/ KLink(k) \/ KPick(k) \/ KUnlink(k)
    <3>1. cpu' = cpu /\ ReadyLine' = ReadyLine /\ LineInv'
      BY <2>2, KernelQueueLine
    <3> QED
      BY <3>1 DEF Line!vars
  <2>3. CASE KStay(k) \/ KSetCurrent(k) \/ KActivate(k) \/ KSwitch(k)
    BY <2>3, KernelSwitchLine
  <2> QED
    BY <2>1, <2>2, <2>3 DEF KernelStep
<1>3. CASE Irq
  BY <1>3, IrqLine
<1>4. CASE UNCHANGED vars
  <2>1. UNCHANGED <<cpu, run_queue, pc, own, next>>
    BY <1>4 DEF vars, sched, local
  <2>2. ReadyLine' = ReadyLine /\ LineInv'
    BY <2>1 DEF ReadyLine, Taken, InYield, LineInv, Queued
  <2> QED
    BY <2>1, <2>2 DEF Line!vars
<1> QED
  BY <1>1, <1>2, <1>3, <1>4 DEF Next

\* sched_start leaves the line the boot code built, its first thread running.
LEMMA InitLine == Init => Line!Init /\ LineInv
<1> SUFFICES ASSUME Init PROVE Line!Init /\ LineInv
  OBVIOUS
<1>1. /\ cpu = Head(BootQueue) /\ run_queue = Tail(BootQueue)
      /\ cpu \in All
  BY InitInv DEF Init, TypeOK
<1>2. pc[cpu] \in {"hlt", "run", "user"}
  BY <1>1 DEF Init, EntryPC
<1>3. ReadyLine = run_queue /\ LineInv
  BY <1>2, LineOutside DEF LineInv, YieldPoints
<1> QED
  BY <1>1, <1>3 DEF Line!Init

\* ksched_yield, split or not, called from a system call or an interrupt, serves
\* threads first come, first served: whatever exits, sleeps, wakes, starts and is
\* reaped, the scheduler's steps are steps of the round-robin line.
THEOREM SchedImplementsLine == ASSUME IrqSafe PROVE Spec => ImplementsRoundRobin
<1>1. Init => Line!Init /\ LineInv
  BY InitLine
<1>2. TypeOK /\ SchedInv /\ LineInv /\ [Next]_vars => [Line!Next]_(Line!vars) /\ LineInv'
  BY StepLine
<1> QED
  BY <1>1, <1>2, SchedInvariant, PTL DEF Spec, ImplementsRoundRobin, Line!Spec
=============================================================================

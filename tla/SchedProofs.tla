---------------------------- MODULE SchedProofs ----------------------------
(***************************************************************************)
(* The scheduler keeps its queues, its threads and its saved contexts      *)
(* sound for every number of threads, in every configuration in which no   *)
(* interrupt handler can break into ksched_yield (IrqSafe).                *)
(***************************************************************************)
EXTENDS SchedKernelProofs

-----------------------------------------------------------------------------
(* System calls and interrupts preserve the invariant.                     *)

\* System call entry and exit change nothing the scheduler looks at.
LEMMA SyscallInv ==
    ASSUME TypeOK, SchedInv, NEW t \in UThreads, SyscallEnter(t) \/ SyscallLeave(t)
    PROVE  TypeOK' /\ SchedInv'
<1>1. /\ UNCHANGED <<sched, timer, own, next, irq1>> /\ cpu = t
      /\ \E p \in {"user", "kern"} : pc' = [pc EXCEPT ![t] = p]
  BY DEF SyscallEnter, SyscallLeave, Runs
<1>2. /\ pc' \in [All -> PCs] /\ pc'[t] \in {"user", "kern"}
      /\ \A u \in All \ {t} : pc'[u] = pc[u]
  BY <1>1, ConstFacts DEF TypeOK, PCs
<1>3. TypeOK' /\ QueuesSound' /\ StatesOK' /\ SavedOK'
  BY <1>1, <1>2 DEF TypeOK, SchedInv, sched, timer, QueuesSound, StatesOK, SavedOK, Queued
<1>4. InHand' = InHand
  BY <1>1, <1>2, ConstFacts DEF InHand
<1>5. NoLostThread'
  BY <1>1, <1>4, SMTT(60) DEF SchedInv, NoLostThread, sched, Queued
<1>6. PlacesOK' /\ PhaseOK'
  BY <1>1, <1>2, ConstFacts DEF SchedInv, PlacesOK, PhaseOK, sched, YieldPoints
<1> QED
  BY <1>1, <1>3, <1>5, <1>6 DEF SchedInv, sched

\* A yield that touches no sleeper.
LEMMA QuietYield ==
    ASSUME TypeOK, SchedInv, cpu \notin KThreads, NEW st, YieldPost(st),
           \A t \in Threads : st[t] = "sleeping" <=> thread_state[t] = "sleeping",
           pc' \in [All -> PCs],
           \A t \in All : \/ pc'[t] = pc[t]
                          \/ t \in UThreads /\ pc'[t] \in {"user", "kern", "dead"},
           UNCHANGED <<timer, own, next>>, irq1' \in All \cup {None}
    PROVE  TypeOK' /\ SchedInv'
<1>1. TimerTypes' /\ own' = own /\ next' = next /\ sleep_queue' = sleep_queue
  BY SameTypes DEF timer
<1>2. /\ NoRepeats(sleep_queue)
      /\ \A t \in Threads : t \in Elements(sleep_queue) <=> st[t] = "sleeping"
      /\ \A t \in Threads : st[t] = "sleeping" => t \in Sleepers
  BY ConstFacts DEF SchedInv, QueuesSound, StatesOK
<1> QED
  BY <1>1, <1>2, AfterYield

\* ksched_yield of a waiting system call.
LEMMA YieldInv ==
    ASSUME TypeOK, SchedInv, NEW t \in UThreads, Yield(t)
    PROVE  TypeOK' /\ SchedInv'
<1>1. cpu = t /\ cpu \notin KThreads /\ cpu \in Threads /\ YieldFrom(thread_state)
      /\ UNCHANGED <<timer, local, irq1>>
  BY ConstFacts DEF Yield, Runs
<1>2. thread_state \in [All -> ThreadStates] /\ thread_state[cpu] = "running"
  BY <1>1 DEF TypeOK, SchedInv, PhaseOK
<1>3. YieldPost(thread_state)
  BY <1>1, <1>2, YieldStep, ConstFacts
<1>4. pc \in [All -> PCs] /\ irq1 \in All \cup {None}
  BY Types DEF ThreadTypes
<1> QED
  BY <1>1, <1>3, <1>4, QuietYield DEF local

\* SYS_exit.
LEMMA ExitInv ==
    ASSUME TypeOK, SchedInv, NEW t \in UThreads, Exit(t)
    PROVE  TypeOK' /\ SchedInv'
<1> DEFINE st == [thread_state EXCEPT ![cpu] = "zombie"]
<1>1. /\ cpu = t /\ cpu \notin KThreads /\ cpu \in Threads /\ g_current = cpu
      /\ YieldFrom(st) /\ pc' = [pc EXCEPT ![t] = "dead"]
      /\ UNCHANGED <<timer, own, next, irq1>>
  BY ConstFacts, SMTT(60) DEF Exit, Runs, SchedInv, PhaseOK
<1>2. /\ st \in [All -> ThreadStates] /\ st[cpu] = "zombie"
      /\ \A u \in All \ {cpu} : st[u] = thread_state[u]
      /\ thread_state[cpu] = "running"
  BY <1>1, ConstFacts DEF TypeOK, ThreadStates, SchedInv, PhaseOK
<1> HIDE DEF st
<1>3. YieldPost(st)
  BY <1>1, <1>2, YieldStep, ConstFacts
<1>4. /\ pc' \in [All -> PCs]
      /\ \A u \in All : \/ pc'[u] = pc[u]
                        \/ u \in UThreads /\ pc'[u] \in {"user", "kern", "dead"}
  BY <1>1, ConstFacts DEF TypeOK, PCs
<1>5. \A u \in Threads : st[u] = "sleeping" <=> thread_state[u] = "sleeping"
  BY <1>1, <1>2, ConstFacts
<1>6. irq1 \in All \cup {None}
  BY Types DEF ThreadTypes
<1> QED
  BY <1>1, <1>3, <1>4, <1>5, <1>6, QuietYield, SMTT(60)

\* sched_sleep.
LEMMA SleepInv ==
    ASSUME TypeOK, SchedInv, NEW t \in Sleepers, NEW n \in 0..MaxSleep, Sleep(t, n)
    PROVE  TypeOK' /\ SchedInv'
<1> DEFINE st == [thread_state EXCEPT ![cpu] = "sleeping"]
<1>1. /\ cpu = t /\ cpu \notin KThreads /\ cpu \in UThreads /\ g_current = cpu
      /\ YieldFrom(st) /\ sleep_queue' = <<cpu>> \o sleep_queue
      /\ wakeup_tick' = [wakeup_tick EXCEPT ![cpu] =
                             g_pit_ticks + (IF n = 0 THEN 1 ELSE n)]
      /\ UNCHANGED <<g_pit_ticks, local, irq1>>
  BY ConstFacts DEF Sleep, Runs, SchedInv, PhaseOK
<1>2. /\ st \in [All -> ThreadStates] /\ st[cpu] = "sleeping"
      /\ \A u \in All \ {cpu} : st[u] = thread_state[u]
      /\ thread_state[cpu] = "running" /\ cpu \in Threads
  BY <1>1, ConstFacts DEF TypeOK, ThreadStates, SchedInv, PhaseOK
<1> HIDE DEF st
<1>3. YieldPost(st)
  BY <1>1, <1>2, YieldStep, ConstFacts, Zenon
<1>4. wakeup_tick' \in [All -> Nat]
  <2>1. g_pit_ticks + (IF n = 0 THEN 1 ELSE n) \in Nat
    <3>1. g_pit_ticks \in 0..(TICK_MOD - 1) /\ TICK_MOD \in Nat /\ MaxSleep \in Nat
      BY TickFacts DEF TypeOK
    <3> QED
      BY <3>1
  <2>2. wakeup_tick \in [All -> Nat]
    BY DEF TypeOK
  <2> QED
    BY <1>1, <2>1, <2>2, Zenon
<1>5. /\ sleep_queue' \in Seq(Threads) /\ NoRepeats(sleep_queue')
      /\ Elements(sleep_queue') = {cpu} \cup Elements(sleep_queue)
  <2> DEFINE one == <<cpu>>
  <2>1. /\ one \in Seq(Threads) /\ NoRepeats(one) /\ Elements(one) = {cpu}
        /\ sleep_queue' = one \o sleep_queue
    BY <1>1, <1>2 DEF NoRepeats, Elements
  <2>2. cpu \notin Elements(sleep_queue) /\ NoRepeats(sleep_queue)
        /\ sleep_queue \in Seq(Threads)
    BY <1>2 DEF SchedInv, QueuesSound, TypeOK
  <2> HIDE DEF one
  <2>3. Elements(one) \cap Elements(sleep_queue) = {}
    BY <2>1, <2>2
  <2> QED
    BY <2>1, <2>2, <2>3, ConcatFacts
<1>6. /\ \A u \in Threads : u \in Elements(sleep_queue') <=> st[u] = "sleeping"
      /\ \A u \in Threads : st[u] = "sleeping" => u \in Sleepers
  BY <1>1, <1>2, <1>5, ConstFacts, ZenonT(60) DEF SchedInv, QueuesSound, StatesOK
<1>7. TimerTypes'
  <2>1. g_pit_ticks \in 0..(TICK_MOD - 1)
    BY DEF TypeOK
  <2> QED
    BY <1>1, <1>4, <1>5, <2>1 DEF TimerTypes
<1>8. NoRepeats(sleep_queue') /\ pc' = pc /\ own' = own /\ next' = next /\ irq1' = irq1
  BY <1>1, <1>5 DEF local
<1>9. pc \in [All -> PCs] /\ irq1 \in All \cup {None}
  BY Types DEF ThreadTypes
<1> QED
  BY <1>1, <1>3, <1>6, <1>7, <1>8, <1>9, AfterYield, SMTT(60)

\* exec: thread_create and sched_add of a new process.
LEMMA SpawnInv ==
    ASSUME TypeOK, SchedInv, NEW t \in UThreads, NEW u \in UThreads, Spawn(t, u)
    PROVE  TypeOK' /\ SchedInv'
<1>1. /\ cpu = t /\ g_current = t /\ thread_state[t] = "running"
      /\ u \in Threads \ KThreads /\ t \in Threads \ KThreads
      /\ thread_state[u] = "absent" /\ u # t /\ u \notin Queued
      /\ run_queue \in Seq(Threads) /\ NoRepeats(run_queue)
  BY ConstFacts DEF Spawn, Runs, SchedInv, PhaseOK, QueuesSound, TypeOK
<1>2. /\ \A x \in All : thread_state'[x] = IF x = u THEN "runnable" ELSE thread_state[x]
      /\ \A x \in All : ctx'[x] = IF x = u THEN u ELSE ctx[x]
      /\ \A x \in All : pc'[x] = IF x = u THEN "user" ELSE pc[x]
      /\ thread_state' \in [All -> ThreadStates] /\ pc' \in [All -> PCs]
      /\ ctx' \in [All -> All \cup {None}]
  BY <1>1, ConstFacts DEF Spawn, TypeOK, ThreadStates, PCs, EntryPC
<1>3. /\ run_queue' \in Seq(Threads) /\ NoRepeats(run_queue')
      /\ Queued' = Queued \cup {u}
  BY <1>1, AppendFacts DEF Spawn, Queued
<1>4. UNCHANGED <<g_current, cpu, fault, timer, own, next, irq1>>
  BY DEF Spawn
<1>5. TypeOK'
  BY <1>2, <1>3, <1>4, SMTT(60) DEF TypeOK, timer
<1>6. QueuesSound'
  BY <1>1, <1>2, <1>3, <1>4, ConstFacts, QueueTypes, SMTT(60) DEF SchedInv, QueuesSound, timer
<1>7. InHand' = InHand
  BY <1>1, <1>2, <1>4, ConstFacts DEF InHand
<1>8. NoLostThread' /\ StatesOK' /\ SavedOK'
  BY <1>1, <1>2, <1>3, <1>4, <1>7, ConstFacts, SMTT(60) DEF SchedInv, NoLostThread, StatesOK, SavedOK
<1>9. PlacesOK' /\ PhaseOK'
  BY <1>1, <1>2, <1>4, ConstFacts, SMTT(60) DEF SchedInv, PlacesOK, PhaseOK
<1> QED
  BY <1>4, <1>5, <1>6, <1>8, <1>9 DEF SchedInv

\* waitpid: proc_reap frees a thread that is on no queue.
LEMMA ReapInv ==
    ASSUME TypeOK, SchedInv, NEW t \in UThreads, NEW u \in UThreads, Reap(t, u)
    PROVE  TypeOK' /\ SchedInv'
<1>1. /\ cpu = t /\ g_current = t /\ thread_state[t] = "running"
      /\ u \in Threads \ KThreads /\ t \in Threads \ KThreads
      /\ thread_state[u] = "zombie" /\ u # t /\ u \notin Queued
  BY ConstFacts, SMTT(60) DEF Reap, Runs, SchedInv, PhaseOK, QueuesSound
<1>2. run_queue' = run_queue
  BY <1>1, SMTT(60) DEF Reap, Unlink, Queued
<1>3. \A x \in All : ctx[x] = u => x = u
  BY <1>1, ConstFacts DEF SchedInv, PlacesOK
<1>4. /\ \A x \in All : thread_state'[x] = IF x = u THEN "absent" ELSE thread_state[x]
      /\ \A x \in All : ctx'[x] = IF x = u THEN None ELSE ctx[x]
      /\ thread_state' \in [All -> ThreadStates]
      /\ ctx' \in [All -> All \cup {None}]
  BY <1>1, <1>3, ConstFacts, SMTT(60) DEF Reap, TypeOK, ThreadStates
<1>5. UNCHANGED <<g_current, cpu, fault, timer, local, irq1>>
  BY DEF Reap
<1>6. TypeOK'
  BY <1>2, <1>4, <1>5, SMTT(60) DEF TypeOK, timer, local
<1>8. InHand' = InHand /\ Queued' = Queued
  BY <1>2, <1>5, SMTT(60) DEF InHand, local, Queued
<1>7. QueuesSound'
  BY <1>1, <1>2, <1>4, <1>5, <1>8, ConstFacts, QueueTypes, SMTT(60)
  DEF SchedInv, QueuesSound, timer
<1>9. NoLostThread' /\ StatesOK' /\ SavedOK'
  BY <1>1, <1>4, <1>5, <1>8, ConstFacts, SMTT(60) DEF SchedInv, NoLostThread, StatesOK, SavedOK
<1>10. PlacesOK' /\ PhaseOK'
  BY <1>1, <1>4, <1>5, ConstFacts, SMTT(60) DEF SchedInv, PlacesOK, PhaseOK, local
<1> QED
  BY <1>5, <1>6, <1>7, <1>9, <1>10, SMTT(60) DEF SchedInv

\* The keyboard interrupt's yield, where no kernel thread can be interrupted.
LEMMA KeyIrqInv ==
    ASSUME TypeOK, SchedInv, IrqSafe, KeyIrq
    PROVE  TypeOK' /\ SchedInv'
<1>1. /\ KThreads = {} /\ YieldFrom(thread_state) /\ irq1' = cpu
      /\ UNCHANGED <<timer, local>>
  BY SMTT(60) DEF KeyIrq, IrqSafe
<1>2. /\ thread_state \in [All -> ThreadStates] /\ cpu \in All
      /\ cpu \in Threads => thread_state[cpu] = "running"
  BY <1>1, ConstFacts DEF TypeOK, SchedInv, PhaseOK
<1>3. YieldPost(thread_state)
  BY <1>1, <1>2, YieldStep, ConstFacts, Zenon
<1>4. pc \in [All -> PCs]
  BY Types DEF ThreadTypes
<1> QED
  BY <1>1, <1>2, <1>3, <1>4, QuietYield DEF local

\* The keyboard interrupt returns to the code it interrupted.
LEMMA KeyIrqReturnInv ==
    ASSUME TypeOK, SchedInv, KeyIrqReturn
    PROVE  TypeOK' /\ SchedInv'
<1>1. UNCHANGED <<sched, timer, local>> /\ irq1' = None
  BY DEF KeyIrqReturn
<1>2. TypeOK' /\ QueuesSound' /\ StatesOK' /\ SavedOK'
  BY <1>1 DEF TypeOK, SchedInv, sched, timer, local, QueuesSound, StatesOK, SavedOK, Queued
<1>3. InHand' = InHand /\ Queued' = Queued
  BY <1>1 DEF InHand, local, Queued, sched
<1>4. NoLostThread' /\ PlacesOK' /\ PhaseOK'
  BY <1>1, <1>3 DEF SchedInv, NoLostThread, PlacesOK, PhaseOK, PutBack, sched, local
<1> QED
  BY <1>1, <1>2, <1>4 DEF SchedInv, sched

\* The stores of two list operations never mix.
LEMMA NoTornQueue ==
    ASSUME TypeOK, SchedInv, IrqSafe
    PROVE  ~TornQueue
<1> SUFFICES ASSUME TornQueue PROVE FALSE
  OBVIOUS
<1>1. InsideLink
  BY DEF TornQueue
<1>2. cpu \in KThreads
  BY <1>1, ConstFacts, Zenon DEF InsideLink, SchedInv, PlacesOK, TypeOK
<1>3. ~KeyboardYields /\ Sleepers = {}
  BY <1>2 DEF IrqSafe
<1>4. Elements(sleep_queue) = {}
  BY <1>3, ConstFacts, QueueTypes DEF SchedInv, QueuesSound, StatesOK
<1> QED
  BY <1>3, <1>4 DEF TornQueue, Due

\* The part of the sleep queue that wakes, or stays, is again a queue.
LEMMA SleepOrderFacts ==
    ASSUME TypeOK, NoRepeats(sleep_queue), NEW D \in SUBSET Elements(sleep_queue),
           NEW s \in InSleepOrder(D)
    PROVE  s \in Seq(Threads) /\ NoRepeats(s) /\ Elements(s) = D
<1>1. PICK n \in 0..Len(sleep_queue) : s \in [1..n -> D]
  BY DEF InSleepOrder
<1>2. n \in Nat
  BY DEF TypeOK
<1>3. s \in Seq(Threads) /\ Len(s) = n /\ DOMAIN s = 1..n
  BY <1>1, <1>2, QueueTypes
<1>4. ASSUME NEW i \in 1..n, NEW j \in 1..n, i < j PROVE s[i] # s[j]
  <2>1. PICK k \in 1..Len(sleep_queue), l \in 1..Len(sleep_queue) :
            k < l /\ sleep_queue[k] = s[i] /\ sleep_queue[l] = s[j]
    BY <1>3, <1>4, Zenon DEF InSleepOrder
  <2>2. k # l /\ k \in DOMAIN sleep_queue /\ l \in DOMAIN sleep_queue
    BY <2>1 DEF TypeOK
  <2> QED
    BY <2>1, <2>2 DEF NoRepeats
<1>5. NoRepeats(s)
  BY <1>2, <1>3, <1>4 DEF NoRepeats
<1> QED
  BY <1>3, <1>5 DEF InSleepOrder

\* The timer interrupt: a wake-up never collides with a yield in progress.
LEMMA TimerIrqInv ==
    ASSUME TypeOK, SchedInv, IrqSafe, TimerIrq
    PROVE  TypeOK' /\ SchedInv'
<1> DEFINE due == Due(g_pit_ticks')
<1>1. /\ g_pit_ticks' = (g_pit_ticks + 1) % TICK_MOD
      /\ \A t \in All : thread_state'[t] = IF t \in due THEN "runnable" ELSE thread_state[t]
      /\ thread_state' \in [All -> ThreadStates]
      /\ wakeup_tick' \in [All -> Nat]
      /\ UNCHANGED <<g_current, cpu, ctx, fault, local, irq1>>
  BY SMTT(60) DEF TimerIrq, TypeOK, ThreadStates
<1>2. PICK s \in InSleepOrder(due) : run_queue' = run_queue \o s
  BY DEF TimerIrq
<1>3. PICK r \in InSleepOrder(Elements(sleep_queue) \ due) : sleep_queue' = r
  BY DEF TimerIrq
<1>4. due \subseteq Elements(sleep_queue)
  BY DEF Due
<1> HIDE DEF due
<1>5. /\ s \in Seq(Threads) /\ NoRepeats(s) /\ Elements(s) = due
      /\ r \in Seq(Threads) /\ NoRepeats(r)
      /\ Elements(r) = Elements(sleep_queue) \ due
  BY <1>4, SleepOrderFacts DEF SchedInv, QueuesSound
<1>6. Queued \cap due = {} /\ \A t \in due : thread_state[t] = "sleeping"
  BY <1>4, QueueTypes DEF SchedInv, QueuesSound
<1>7. /\ run_queue' \in Seq(Threads) /\ NoRepeats(run_queue')
      /\ Queued' = Queued \cup due
  <2>1. run_queue \in Seq(Threads) /\ NoRepeats(run_queue)
    BY DEF TypeOK, SchedInv, QueuesSound
  <2> QED
    BY <1>2, <1>5, <1>6, <2>1, ConcatFacts, SMTT(60) DEF Queued
<1>8. g_pit_ticks' \in 0..(TICK_MOD - 1)
  <2>1. g_pit_ticks \in 0..(TICK_MOD - 1) /\ TICK_MOD \in Nat \ {0}
    BY TickFacts, SMTT(60) DEF TypeOK
  <2> QED
    BY <1>1, <2>1
<1>9. TypeOK'
  BY <1>1, <1>3, <1>5, <1>7, <1>8, ZenonT(30) DEF TypeOK, local
<1>10. QueuesSound'
  BY <1>1, <1>3, <1>4, <1>5, <1>7, ConstFacts, QueueTypes, Zenon DEF SchedInv, QueuesSound
<1>11. InHand' = InHand
  BY <1>1 DEF InHand, local
<1>12. NoLostThread' /\ StatesOK' /\ SavedOK'
  BY <1>1, <1>4, <1>6, <1>7, <1>11, ConstFacts, QueueTypes, ZenonT(60)
  DEF SchedInv, NoLostThread, StatesOK, SavedOK
<1>13. PlacesOK'
  BY <1>1 DEF SchedInv, PlacesOK, local
<1>14. PhaseOK'
  <2>1. CASE cpu \in KThreads
    <3>1. due = {}
      BY <1>6, <1>4, <2>1, ConstFacts, QueueTypes, SMTT(60) DEF IrqSafe, SchedInv, StatesOK
    <3>2. run_queue' = run_queue
      <4>1. Len(s) = 0
        <5>1. \A i \in 1..Len(s) : s[i] \in Elements(s)
          BY DEF Elements
        <5>2. Len(s) \in Nat
          BY <1>5
        <5> QED
          BY <1>5, <3>1, <5>1, <5>2
      <4> QED
        BY <1>2, <1>5, <4>1 DEF TypeOK
    <3>3. thread_state' = thread_state
      <4>1. thread_state \in [All -> ThreadStates]
        BY Types DEF ThreadTypes
      <4> QED
        BY <1>1, <3>1, <4>1
    <3> QED
      BY <1>1, <3>2, <3>3 DEF SchedInv, PhaseOK, PutBack, Queued, local
  <2>2. CASE cpu \notin KThreads
    <3>1. cpu \in Threads => thread_state[cpu] = "running"
      BY <2>2, ConstFacts, SMTT(60) DEF SchedInv, PhaseOK
    <3> QED
      BY <1>1, <1>6, <2>2, <3>1, ConstFacts, ZenonT(30) DEF SchedInv, PhaseOK, local
  <2> QED
    BY <2>1, <2>2
<1> QED
  BY <1>1, <1>9, <1>10, <1>12, <1>13, <1>14 DEF SchedInv

-----------------------------------------------------------------------------
(* The theorems.                                                           *)

\* One step of the scheduler keeps the inductive invariant.
LEMMA NextInv ==
    ASSUME TypeOK, SchedInv, IrqSafe, [Next]_vars
    PROVE  TypeOK' /\ SchedInv'
<1>1. CASE \E t \in UThreads : UserStep(t)
  <2>1. PICK t \in UThreads : UserStep(t)
    BY <1>1
  <2> QED
    BY <2>1, SyscallInv, YieldInv, ExitInv, SpawnInv, ReapInv, SleepInv DEF UserStep
<1>2. CASE \E k \in KThreads : KernelStep(k)
  <2>1. PICK k \in KThreads : KernelStep(k)
    BY <1>2
  <2> QED
    BY <2>1, KernelQueueInv, KernelActivateInv, KSwitchInv DEF KernelStep
<1>3. CASE Irq
  BY <1>3, KeyIrqInv, KeyIrqReturnInv, TimerIrqInv, NoTornQueue DEF Irq
<1>4. CASE UNCHANGED vars
  <2>1. UNCHANGED <<sched, timer, local, irq1>>
    BY <1>4, SMTT(60) DEF vars
  <2>2. TypeOK' /\ QueuesSound' /\ StatesOK' /\ SavedOK'
    BY <2>1, SMTT(60) DEF TypeOK, SchedInv, sched, timer, local, QueuesSound, StatesOK, SavedOK, Queued
  <2>3. InHand' = InHand /\ Queued' = Queued
    BY <2>1, SMTT(60) DEF InHand, local, Queued, sched
  <2>4. NoLostThread' /\ PlacesOK' /\ PhaseOK'
    BY <2>1, <2>3, ZenonT(60) DEF SchedInv, NoLostThread, PlacesOK, PhaseOK, PutBack, sched, local
  <2> QED
    BY <2>1, <2>2, <2>4 DEF SchedInv, sched
<1> QED
  BY <1>1, <1>2, <1>3, <1>4 DEF Next

\* The scheduler's data stays well typed and inductive-invariant.
THEOREM SchedInvariant == ASSUME IrqSafe PROVE Spec => [](TypeOK /\ SchedInv)
<1>1. Init => TypeOK /\ SchedInv
  BY InitInv
<1>2. TypeOK /\ SchedInv /\ [Next]_vars => (TypeOK /\ SchedInv)'
  BY NextInv
<1> QED
  BY <1>1, <1>2, PTL DEF Spec

\* Type correctness of the scheduler.
THEOREM SchedTypes == ASSUME IrqSafe PROVE Spec => []TypeOK
  BY SchedInvariant, PTL

\* run_queue and sleep_queue hold exactly the threads they should, once each.
THEOREM SchedQueues == ASSUME IrqSafe PROVE Spec => []QueuesSound
<1>1. SchedInv => QueuesSound
  BY DEF SchedInv
<1> QED
  BY <1>1, SchedInvariant, PTL

\* No thread that can run is ever forgotten by ksched_yield.
THEOREM SchedKeepsThreads == ASSUME IrqSafe PROVE Spec => []NoLostThread
<1>1. SchedInv => NoLostThread
  BY DEF SchedInv
<1> QED
  BY <1>1, SchedInvariant, PTL

\* context_switch always resumes the stack of the thread it is given.
THEOREM SchedContexts == ASSUME IrqSafe PROVE Spec => []ContextsSound
<1>1. TypeOK /\ SchedInv => ContextsSound
  BY ConstFacts DEF SchedInv, PhaseOK, SavedOK, ContextsSound
<1> QED
  BY <1>1, SchedInvariant, PTL
=============================================================================

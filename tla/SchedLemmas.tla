---------------------------- MODULE SchedLemmas ----------------------------
(***************************************************************************)
(* The lemmas the scheduler's proofs share: about queues, about types, and *)
(* about ksched_yield run with interrupts off.                             *)
(***************************************************************************)
EXTENDS Sched, TLAPS

-----------------------------------------------------------------------------
(* Sequences without repetitions, as the run queue uses them.              *)

\* runqueue_add: appending a new element.
LEMMA AppendFacts ==
    ASSUME NEW T, NEW q \in Seq(T), NEW x \in T
    PROVE  /\ Append(q, x) \in Seq(T)
           /\ Append(q, x) # << >>
           /\ Elements(Append(q, x)) = Elements(q) \cup {x}
           /\ NoRepeats(q) /\ x \notin Elements(q) => NoRepeats(Append(q, x))
           /\ q # << >> => Head(Append(q, x)) = Head(q)
           /\ q = << >> => Head(Append(q, x)) = x /\ Tail(Append(q, x)) = << >>
  BY DEF Elements, NoRepeats

\* runqueue_next: taking the head.
LEMMA TailFacts ==
    ASSUME NEW T, NEW q \in Seq(T), q # << >>, NoRepeats(q)
    PROVE  /\ Head(q) \in Elements(q) /\ Head(q) \in T
           /\ Tail(q) \in Seq(T)
           /\ Elements(Tail(q)) = Elements(q) \ {Head(q)}
           /\ NoRepeats(Tail(q))
<1>1. /\ Head(q) = q[1] /\ Len(q) \in Nat \ {0}
      /\ Tail(q) \in Seq(T) /\ Len(Tail(q)) = Len(q) - 1
      /\ \A i \in 1..Len(q) - 1 : Tail(q)[i] = q[i + 1]
  OBVIOUS
<1>2. Head(q) \in Elements(q) /\ Head(q) \in T
  BY <1>1 DEF Elements
<1>3. Elements(Tail(q)) = Elements(q) \ {Head(q)}
  <2>1. ASSUME NEW x \in Elements(Tail(q)) PROVE x \in Elements(q) \ {Head(q)}
    <3>1. PICK i \in 1..Len(q) - 1 : x = q[i + 1]
      BY <1>1 DEF Elements
    <3>2. i + 1 \in 1..Len(q) /\ i + 1 # 1 /\ 1 \in 1..Len(q)
      BY <1>1
    <3> QED
      BY <1>1, <3>1, <3>2 DEF Elements, NoRepeats
  <2>2. ASSUME NEW x \in Elements(q), x # Head(q) PROVE x \in Elements(Tail(q))
    <3>1. PICK i \in 1..Len(q) : x = q[i]
      BY DEF Elements
    <3>2. i - 1 \in 1..Len(q) - 1 /\ (i - 1) + 1 = i
      BY <1>1, <2>2, <3>1
    <3>3. Tail(q)[i - 1] = q[i]
      BY <1>1, <3>2
    <3> QED
      BY <1>1, <3>1, <3>2, <3>3, Zenon DEF Elements
  <2> QED
    BY <2>1, <2>2
<1>4. NoRepeats(Tail(q))
  <2> SUFFICES ASSUME NEW i \in 1..Len(q) - 1, NEW j \in 1..Len(q) - 1,
                      Tail(q)[i] = Tail(q)[j]
               PROVE  i = j
    BY <1>1 DEF NoRepeats
  <2>1. q[i + 1] = q[j + 1] /\ i + 1 \in DOMAIN q /\ j + 1 \in DOMAIN q
    BY <1>1
  <2> QED
    BY <2>1 DEF NoRepeats
<1> QED
  BY <1>1, <1>2, <1>3, <1>4

\* What is left of a queue after its first link.
LEMMA AfterHead ==
    ASSUME NEW T, NEW q \in Seq(T), q # << >>
    PROVE  SubSeq(q, 1 + 1, Len(q)) = Tail(q)
  OBVIOUS

\* LinkRemove of the head is the same as taking the head.
LEMMA UnlinkHead ==
    ASSUME NEW T, NEW q \in Seq(T), q # << >>, NoRepeats(q)
    PROVE  Unlink(q, Head(q)) = Tail(q)
<1>1. Len(q) \in Nat \ {0} /\ 1 \in 1..Len(q) /\ Head(q) = q[1]
  OBVIOUS
<1>2. Head(q) \in Elements(q)
  BY <1>1 DEF Elements
<1>3. \A j \in 1..Len(q) : q[j] = Head(q) <=> j = 1
  BY <1>1 DEF NoRepeats
<1>4. (CHOOSE j \in 1..Len(q) : q[j] = Head(q)) = 1
  BY <1>1, <1>3
<1>5. Unlink(q, Head(q)) = SubSeq(q, 1, 1 - 1) \o SubSeq(q, 1 + 1, Len(q))
  BY <1>2, <1>4, Zenon DEF Unlink
<1>6. SubSeq(q, 1, 1 - 1) = << >> /\ Tail(q) \in Seq(T)
  OBVIOUS
<1>7. \A s \in Seq(T) : << >> \o s = s
  OBVIOUS
<1>8. SubSeq(q, 1 + 1, Len(q)) = Tail(q)
  BY AfterHead
<1>9. Unlink(q, Head(q)) = << >> \o Tail(q)
  BY <1>5, <1>6, <1>8, Zenon
<1> QED
  BY <1>6, <1>7, <1>9, Zenon

\* sched_wake_sleepers: a batch of threads that are not linked is appended.
LEMMA ConcatFacts ==
    ASSUME NEW T, NEW p \in Seq(T), NEW q \in Seq(T)
    PROVE  /\ p \o q \in Seq(T)
           /\ Elements(p \o q) = Elements(p) \cup Elements(q)
           /\ NoRepeats(p) /\ NoRepeats(q) /\ Elements(p) \cap Elements(q) = {}
                => NoRepeats(p \o q)
<1>1. /\ p \o q \in Seq(T) /\ Len(p) \in Nat /\ Len(q) \in Nat
      /\ Len(p \o q) = Len(p) + Len(q)
      /\ \A i \in 1..Len(p) : (p \o q)[i] = p[i]
      /\ \A i \in 1..Len(q) : (p \o q)[Len(p) + i] = q[i]
  OBVIOUS
<1>2. ASSUME NEW i \in 1..(Len(p) + Len(q)), i \notin 1..Len(p)
      PROVE  i - Len(p) \in 1..Len(q) /\ (p \o q)[i] = q[i - Len(p)]
  <2>1. i - Len(p) \in 1..Len(q) /\ Len(p) + (i - Len(p)) = i
    BY <1>1, <1>2
  <2> QED
    BY <1>1, <2>1
<1>3. Elements(p \o q) = Elements(p) \cup Elements(q)
  <2>1. ASSUME NEW x \in Elements(p \o q) PROVE x \in Elements(p) \cup Elements(q)
    <3>1. PICK i \in 1..(Len(p) + Len(q)) : x = (p \o q)[i]
      BY <1>1 DEF Elements
    <3> QED
      BY <1>1, <1>2, <3>1 DEF Elements
  <2>2. ASSUME NEW x \in Elements(p) PROVE x \in Elements(p \o q)
    <3>1. PICK i \in 1..Len(p) : x = p[i]
      BY DEF Elements
    <3>2. i \in 1..(Len(p) + Len(q))
      BY <1>1
    <3> QED
      BY <1>1, <3>1, <3>2 DEF Elements
  <2>3. ASSUME NEW x \in Elements(q) PROVE x \in Elements(p \o q)
    <3>1. PICK i \in 1..Len(q) : x = q[i]
      BY DEF Elements
    <3>2. Len(p) + i \in 1..(Len(p) + Len(q))
      BY <1>1
    <3> QED
      BY <1>1, <3>1, <3>2 DEF Elements
  <2> QED
    BY <2>1, <2>2, <2>3
<1>4. ASSUME NoRepeats(p), NoRepeats(q), Elements(p) \cap Elements(q) = {}
      PROVE  NoRepeats(p \o q)
  <2> SUFFICES ASSUME NEW i \in 1..(Len(p) + Len(q)), NEW j \in 1..(Len(p) + Len(q)),
                      (p \o q)[i] = (p \o q)[j]
               PROVE  i = j
    BY <1>1 DEF NoRepeats
  <2>0. /\ \A k \in 1..Len(p) : p[k] \in Elements(p)
        /\ \A k \in 1..Len(q) : q[k] \in Elements(q)
    BY DEF Elements
  <2>1. CASE i \in 1..Len(p) /\ j \in 1..Len(p)
    BY <1>1, <1>4, <2>1 DEF NoRepeats
  <2>2. CASE i \notin 1..Len(p) /\ j \notin 1..Len(p)
    <3>1. i - Len(p) = j - Len(p)
      BY <1>2, <1>4, <2>2, SMTT(30) DEF NoRepeats
    <3> QED
      BY <1>1, <3>1
  <2>3. CASE i \in 1..Len(p) /\ j \notin 1..Len(p)
    BY <1>1, <1>2, <1>4, <2>0, <2>3
  <2>4. CASE i \notin 1..Len(p) /\ j \in 1..Len(p)
    BY <1>1, <1>2, <1>4, <2>0, <2>4
  <2> QED
    BY <2>1, <2>2, <2>3, <2>4
<1> QED
  BY <1>1, <1>3, <1>4

\* runqueue_next on any run queue: the idle thread exactly when it is empty.
LEMMA NextFacts ==
    ASSUME NEW q \in Seq(Threads), NoRepeats(q)
    PROVE  /\ HeadOrIdle(q) \in All
           /\ RestOf(q) \in Seq(Threads) /\ NoRepeats(RestOf(q))
           /\ Elements(q) \subseteq Threads
           /\ Elements(RestOf(q)) = Elements(q) \ {HeadOrIdle(q)}
           /\ HeadOrIdle(q) = Idle <=> Elements(q) = {}
           /\ HeadOrIdle(q) # Idle => HeadOrIdle(q) \in Elements(q)
<1>0. Elements(q) \subseteq Threads /\ Idle \notin Threads
  BY SchedAssumption DEF Elements
<1>1. CASE q = << >>
  BY <1>0, <1>1 DEF Elements, HeadOrIdle, RestOf, All
<1>2. CASE q # << >>
  BY <1>0, <1>2, TailFacts DEF HeadOrIdle, RestOf, All
<1> QED
  BY <1>1, <1>2

-----------------------------------------------------------------------------
(* Constants and types.                                                    *)

\* What every proof below needs about the constants.
LEMMA ConstFacts ==
    /\ All = Threads \cup {Idle} /\ Idle \notin Threads /\ None \notin All
    /\ UThreads = Threads \ KThreads /\ KThreads \subseteq Threads
    /\ Sleepers \subseteq UThreads
  BY SchedAssumption DEF All, UThreads

\* The constants that are numbers.
LEMMA TickFacts == TICK_MOD \in Nat \ {0} /\ MaxSleep \in Nat
  BY SchedAssumption

\* TypeOK in three parts: the threads, the run queue, and the timer's data.  The
\* provers are quick only on obligations without sequences and numbers.
ThreadTypes ==
    /\ g_current \in All /\ cpu \in All /\ irq1 \in All \cup {None}
    /\ thread_state \in [All -> ThreadStates]
    /\ ctx \in [All -> All \cup {None}]
    /\ pc \in [All -> PCs]
    /\ own \in [KThreads -> All \cup {None}]
    /\ next \in [KThreads -> All \cup {None}]
    /\ fault \in {"none", "queue", "context"}
RunQueueType == run_queue \in Seq(Threads)
TimerTypes ==
    /\ sleep_queue \in Seq(Threads)
    /\ wakeup_tick \in [All -> Nat]
    /\ g_pit_ticks \in 0..(TICK_MOD - 1)

\* The parts make up TypeOK.
LEMMA Types ==
    /\ TypeOK <=> ThreadTypes /\ RunQueueType /\ TimerTypes
    /\ TypeOK' <=> ThreadTypes' /\ RunQueueType' /\ TimerTypes'
<1>1. TypeOK <=> ThreadTypes /\ RunQueueType /\ TimerTypes
  BY DEF TypeOK, ThreadTypes, RunQueueType, TimerTypes
<1>2. TypeOK' <=> ThreadTypes' /\ RunQueueType' /\ TimerTypes'
  BY SMTT(30) DEF TypeOK, ThreadTypes, RunQueueType, TimerTypes
<1> QED
  BY <1>1, <1>2

\* What is not assigned keeps its type.
LEMMA SameTypes ==
    /\ TypeOK /\ UNCHANGED timer => TimerTypes'
    /\ TypeOK /\ UNCHANGED run_queue => RunQueueType' /\ Queued' = Queued
  BY DEF TypeOK, TimerTypes, RunQueueType, timer, Queued

\* The queues hold threads.
LEMMA QueueTypes ==
    ASSUME TypeOK
    PROVE  Queued \subseteq Threads /\ Elements(sleep_queue) \subseteq Threads
  BY DEF TypeOK, Queued, Elements

-----------------------------------------------------------------------------
(* ksched_yield with interrupts off.                                       *)

\* What a yield of the current thread leaves behind when it starts from sound
\* data, with the current thread running, exiting or going to sleep.
YieldPost(st) ==
    /\ fault' = "none" /\ cpu' = g_current' /\ g_current' \in All
    /\ run_queue' \in Seq(Threads) /\ NoRepeats(run_queue')
    /\ thread_state' \in [All -> ThreadStates]
    /\ ctx' \in [All -> All \cup {None}]
    /\ \A t \in Queued' : thread_state'[t] = "runnable"
    /\ \A t \in Threads : thread_state'[t] \in {"runnable", "running"} =>
                              t \in Queued' \cup {g_current'}
    /\ \A t \in Threads : thread_state'[t] = "running" <=> t = g_current'
    /\ \A t \in Threads : thread_state'[t] = "sleeping" <=> st[t] = "sleeping"
    /\ thread_state'[Idle] \in {"runnable", "running"}
    /\ \A t \in All : ctx'[t] \in {t, None}
    /\ \A t \in All \ {cpu'} :
          thread_state'[t] \in {"runnable", "running", "sleeping"} => ctx'[t] = t

\* What ksched_yield with interrupts off does to queue, states and contexts.
LEMMA YieldStep ==
    ASSUME TypeOK, SchedInv, cpu \notin KThreads,
           NEW st \in [All -> ThreadStates],
           \A t \in All \ {cpu} : st[t] = thread_state[t],
           cpu \in Threads => st[cpu] \in {"running", "zombie", "sleeping"},
           cpu = Idle => st = thread_state,
           YieldFrom(st)
    PROVE  YieldPost(st)
<1> DEFINE add == MustAdd(st, run_queue, cpu)
           q1 == IF add THEN Append(run_queue, cpu) ELSE run_queue
           st1 == IF add THEN [st EXCEPT ![cpu] = "runnable"] ELSE st
           n == HeadOrIdle(q1)
<1>0. /\ g_current = cpu /\ cpu \in All /\ Idle \notin Threads /\ None \notin All
      /\ All = Threads \cup {Idle}
      /\ run_queue \in Seq(Threads) /\ NoRepeats(run_queue)
      /\ Queued \subseteq Threads /\ cpu \notin Queued
  <2>1. /\ cpu \in All /\ Idle \notin Threads /\ None \notin All
        /\ All = Threads \cup {Idle} /\ run_queue \in Seq(Threads)
    BY SchedAssumption DEF TypeOK, All
  <2>2. g_current = cpu /\ (cpu \in Threads => thread_state[cpu] = "running")
    BY DEF SchedInv, PhaseOK, UThreads
  <2>3. Queued \subseteq Threads
    BY <2>1 DEF Queued, Elements
  <2>4. NoRepeats(run_queue) /\ \A t \in Queued : thread_state[t] = "runnable"
    BY DEF SchedInv, QueuesSound
  <2> QED
    BY <2>1, <2>2, <2>3, <2>4
<1>1. /\ run_queue' = RestOf(q1)
      /\ thread_state' = [st1 EXCEPT ![n] = "running"]
      /\ g_current' = n
      /\ IF n = cpu THEN UNCHANGED <<cpu, ctx, fault>> ELSE ContextSwitch(cpu, n)
  BY <1>0 DEF YieldFrom
<1>2. /\ q1 \in Seq(Threads) /\ NoRepeats(q1)
      /\ Elements(q1) = Queued \cup (IF add THEN {cpu} ELSE {})
      /\ add => cpu \in Threads /\ st[cpu] = "running"
      /\ cpu \in Threads /\ st[cpu] = "running" => add
  <2>1. CASE add
    BY <1>0, <2>1, AppendFacts DEF MustAdd, Queued
  <2>2. CASE ~add
    BY <1>0, <2>2 DEF MustAdd, Queued
  <2> QED
    BY <2>1, <2>2
<1>3. /\ n \in All /\ run_queue' \in Seq(Threads) /\ NoRepeats(run_queue')
      /\ Queued' = Elements(q1) \ {n}
      /\ n = Idle <=> Elements(q1) = {}
      /\ n # Idle => n \in Elements(q1)
  BY <1>1, <1>2, NextFacts, Zenon DEF Queued
<1> HIDE DEF q1, n
<1>4. /\ \A t \in Queued : st[t] = "runnable"
      /\ \A t \in Threads \ {cpu} : st[t] # "running"
      /\ \A t \in Threads \ {cpu} : st[t] = "runnable" => t \in Queued
      /\ st[Idle] \in {"runnable", "running"}
  <2>1. InHand = {}
    BY <1>0 DEF InHand, SchedInv, PlacesOK
  <2> QED
    BY <1>0, <2>1 DEF SchedInv, QueuesSound, NoLostThread, StatesOK
<1>5. st1 \in [All -> ThreadStates] /\ thread_state' \in [All -> ThreadStates]
  BY <1>0, <1>1, <1>3 DEF ThreadStates
<1>6. \A t \in All : thread_state'[t] = IF t = n THEN "running"
                                        ELSE IF t = cpu /\ add THEN "runnable"
                                        ELSE st[t]
  BY <1>0, <1>1, <1>3, <1>5
<1> HIDE DEF st1, add
<1>7. n # cpu => ctx[n] = n
  BY <1>0, <1>2, <1>3, <1>4, SMTT(30) DEF SchedInv, SavedOK
<1>8. /\ fault' = "none" /\ cpu' = n
      /\ ctx' \in [All -> All \cup {None}]
      /\ \A t \in All : ctx'[t] = IF n = cpu THEN ctx[t]
                                    ELSE IF t = cpu THEN cpu
                                    ELSE IF t = n THEN None ELSE ctx[t]
  <2>1. CASE n = cpu
    BY <1>0, <1>1, <2>1 DEF TypeOK, SchedInv
  <2>2. CASE n # cpu
    <3>1. ctx[n] # None /\ \A t \in All : ctx[t] = n <=> t = n
      BY <1>0, <1>3, <1>7, <2>2 DEF SchedInv, PlacesOK
    <3>2. /\ fault' = fault /\ cpu' = ctx[n]
          /\ ctx' = [t \in All |-> IF t = cpu THEN cpu
                                   ELSE IF ctx[t] = ctx[n] THEN None ELSE ctx[t]]
      BY <1>1, <2>2, <3>1 DEF ContextSwitch
    <3>3. ctx' = [t \in All |-> IF t = cpu THEN cpu
                                ELSE IF t = n THEN None ELSE ctx[t]]
      BY <1>7, <2>2, <3>1, <3>2
    <3>4. fault = "none" /\ \A t \in All : ctx[t] \in All \cup {None}
      BY DEF TypeOK, SchedInv
    <3> QED
      BY <1>0, <1>7, <2>2, <3>2, <3>3, <3>4
  <2> QED
    BY <2>1, <2>2
<1>9. /\ \A t \in Queued' : thread_state'[t] = "runnable"
      /\ \A t \in Threads : thread_state'[t] \in {"runnable", "running"} =>
                                t \in Queued' \cup {g_current'}
      /\ \A t \in Threads : thread_state'[t] = "running" <=> t = g_current'
      /\ \A t \in Threads : thread_state'[t] = "sleeping" <=> st[t] = "sleeping"
      /\ thread_state'[Idle] \in {"runnable", "running"}
  BY <1>0, <1>1, <1>2, <1>3, <1>4, <1>6
<1>10. /\ \A t \in All : ctx'[t] \in {t, None}
       /\ \A t \in All \ {cpu'} :
          thread_state'[t] \in {"runnable", "running", "sleeping"} => ctx'[t] = t
  BY <1>0, <1>3, <1>4, <1>6, <1>8 DEF SchedInv, PlacesOK, SavedOK
<1> QED
  BY <1>1, <1>3, <1>5, <1>8, <1>9, <1>10 DEF YieldPost

\* A yield from sound data leaves sound data, whoever asked for it.
LEMMA AfterYield ==
    ASSUME TypeOK, SchedInv, cpu \notin KThreads, NEW st, YieldPost(st),
           TimerTypes', NoRepeats(sleep_queue'),
           \A t \in Threads : t \in Elements(sleep_queue') <=> st[t] = "sleeping",
           \A t \in Threads : st[t] = "sleeping" => t \in Sleepers,
           pc' \in [All -> PCs],
           \A t \in All : \/ pc'[t] = pc[t]
                          \/ t \in UThreads /\ pc'[t] \in {"user", "kern", "dead"},
           own' = own, next' = next, irq1' \in All \cup {None}
    PROVE  TypeOK' /\ SchedInv'
<1>1. TypeOK'
  <2>1. own \in [KThreads -> All \cup {None}] /\ next \in [KThreads -> All \cup {None}]
    BY Types DEF ThreadTypes
  <2>2. ThreadTypes' /\ RunQueueType'
    BY <2>1 DEF YieldPost, ThreadTypes, RunQueueType
  <2> QED
    BY <2>2, Types
<1>2. QueuesSound'
  BY DEF YieldPost, QueuesSound
<1>3. NoLostThread'
  BY DEF YieldPost, NoLostThread
<1>4. PlacesOK'
  <2>1. /\ \A t \in UThreads : pc[t] \in {"user", "kern", "dead"}
        /\ \A k \in KThreads : pc[k] = "run"
        /\ pc[Idle] = "hlt"
    BY DEF SchedInv, PlacesOK
  <2>2. \A t \in UThreads : pc'[t] \in {"user", "kern", "dead"}
    BY <2>1, ConstFacts
  <2>3. (\A k \in KThreads : pc'[k] = "run") /\ pc'[Idle] = "hlt"
    BY <2>1, ConstFacts
  <2>4. \A t \in All : ctx'[t] \in {t, None}
    BY DEF YieldPost
  <2> QED
    BY <2>2, <2>3, <2>4 DEF PlacesOK
<1>5. PhaseOK'
  <2>1. cpu' \in KThreads => pc'[cpu'] = "run"
    BY <1>4, ConstFacts DEF SchedInv, PlacesOK
  <2>2. /\ cpu' = g_current' /\ cpu' \in All
        /\ cpu' \in Threads => thread_state'[cpu'] = "running"
    BY DEF YieldPost
  <2> QED
    BY <2>1, <2>2, ConstFacts DEF PhaseOK, YieldPoints
<1>6. StatesOK' /\ SavedOK'
  BY ConstFacts DEF YieldPost, StatesOK, SavedOK
<1> QED
  BY <1>1, <1>2, <1>3, <1>4, <1>5, <1>6 DEF SchedInv, YieldPost

-----------------------------------------------------------------------------
(* The initial state.                                                      *)

\* sched_init and sched_start establish the invariant.
LEMMA InitInv == Init => TypeOK /\ SchedInv
<1> SUFFICES ASSUME Init PROVE TypeOK /\ SchedInv
  OBVIOUS
<1> DEFINE first == Head(BootQueue)
           rest == Tail(BootQueue)
<1>0. /\ first \in Threads /\ rest \in Seq(Threads) /\ NoRepeats(rest)
      /\ Elements(rest) = Elements(BootQueue) \ {first}
      /\ Elements(BootQueue) \subseteq Threads
      /\ All = Threads \cup {Idle} /\ Idle \notin Threads /\ None \notin All
      /\ UThreads = Threads \ KThreads /\ KThreads \subseteq Threads
      /\ TICK_MOD \in Nat \ {0}
  <2>1. /\ All = Threads \cup {Idle} /\ Idle \notin Threads /\ None \notin All
        /\ UThreads = Threads \ KThreads /\ KThreads \subseteq Threads
        /\ TICK_MOD \in Nat \ {0}
        /\ BootQueue \in Seq(Threads) /\ BootQueue # << >> /\ NoRepeats(BootQueue)
    BY SchedAssumption DEF All, UThreads
  <2>2. Elements(BootQueue) \subseteq Threads
    BY <2>1 DEF Elements
  <2> QED
    BY <2>1, <2>2, TailFacts
<1> HIDE DEF first, rest
<1>1. /\ g_current = first /\ cpu = first /\ run_queue = rest
      /\ Queued = Elements(rest)
      /\ \A t \in All : thread_state[t] = IF t = first THEN "running"
             ELSE IF t \in Elements(rest) \/ t = Idle THEN "runnable" ELSE "absent"
      /\ thread_state \in [All -> ThreadStates]
      /\ \A t \in All : ctx[t] = IF t # first /\ (t = Idle \/ t \in Elements(BootQueue))
                                  THEN t ELSE None
      /\ ctx \in [All -> All \cup {None}]
      /\ sleep_queue = << >> /\ fault = "none" /\ irq1 = None
  BY <1>0, Zenon DEF Init, Queued, ThreadStates, first, rest
<1>2. /\ \A t \in All : pc[t] = IF t = Idle THEN "hlt" ELSE EntryPC(t)
      /\ pc \in [All -> PCs]
  BY <1>0, Zenon DEF Init, EntryPC, PCs
<1>3. TypeOK
  <2>1. /\ wakeup_tick \in [All -> Nat] /\ g_pit_ticks \in 0..(TICK_MOD - 1)
        /\ own \in [KThreads -> All \cup {None}] /\ next \in [KThreads -> All \cup {None}]
    BY <1>0 DEF Init
  <2>2. sleep_queue \in Seq(Threads) /\ g_current \in All /\ cpu \in All
    BY <1>0, <1>1
  <2> QED
    BY <1>0, <1>1, <1>2, <2>1, <2>2 DEF TypeOK
<1>4. QueuesSound
  <2>1. Elements(sleep_queue) = {} /\ NoRepeats(sleep_queue)
    BY <1>1 DEF Elements, NoRepeats
  <2> QED
    BY <1>0, <1>1, <2>1 DEF QueuesSound
<1>5. NoLostThread /\ StatesOK /\ SavedOK
  BY <1>0, <1>1 DEF NoLostThread, StatesOK, SavedOK
<1>6. PlacesOK
  BY <1>0, <1>1, <1>2 DEF PlacesOK, EntryPC
<1>7. PhaseOK
  BY <1>0, <1>1, <1>2 DEF PhaseOK, EntryPC, YieldPoints
<1> QED
  BY <1>1, <1>3, <1>4, <1>5, <1>6, <1>7 DEF SchedInv
=============================================================================

------------------------- MODULE SchedKernelProofs -------------------------
(****************************************************************************)
(* The split ksched_yield of a kernel thread preserves the invariant: first *)
(* the steps up to the removal of the next thread from the run queue, then  *)
(* those from the choice of that thread to context_switch.                  *)
(****************************************************************************)
EXTENDS SchedLemmas

\* In the middle of a kernel thread's yield only that thread has a thread in
\* hand.
LEMMA KInHand ==
    ASSUME TypeOK, SchedInv, cpu \in KThreads
    PROVE  InHand = IF pc[cpu] = "gcur" THEN {next[cpu]} ELSE {}
  BY DEF InHand, SchedInv, PlacesOK

\* The steps that put the thread back and take the next one.
LEMMA KernelQueueInv ==
    ASSUME TypeOK, SchedInv, NEW k \in KThreads,
           KExit(k) \/ KYield(k) \/ KLink(k) \/ KPick(k) \/ KUnlink(k)
    PROVE  TypeOK' /\ SchedInv'
<1>0. /\ k \in Threads /\ k \in All /\ k # Idle /\ k # None /\ k \notin UThreads
      /\ fault = "none"
  BY ConstFacts DEF SchedInv
<1>q. run_queue \in Seq(Threads) /\ NoRepeats(run_queue)
  BY DEF TypeOK, SchedInv, QueuesSound
<1>t. ThreadTypes
  BY Types
<1>1. CASE KExit(k)
  <2>1. /\ cpu = k /\ pc[k] = "run" /\ g_current = k /\ thread_state[k] = "running"
        /\ thread_state' = [thread_state EXCEPT ![k] = "zombie"]
        /\ pc' = [pc EXCEPT ![k] = "exit"]
        /\ UNCHANGED <<g_current, run_queue, cpu, ctx, fault, own, next, timer, irq1>>
    BY <1>0, <1>1 DEF KExit, KStep, Runs, SchedInv, PhaseOK
  <2>2. ThreadTypes' /\ Queued' = Queued
    BY <1>0, <1>t, <2>1, SameTypes DEF ThreadTypes, ThreadStates, PCs
  <2>4. \A t \in All : /\ thread_state'[t] = IF t = k THEN "zombie" ELSE thread_state[t]
                       /\ pc'[t] = IF t = k THEN "exit" ELSE pc[t]
    BY <1>0, <1>t, <2>1 DEF ThreadTypes
  <2>3. InHand' = InHand
    BY <1>0, <2>1, <2>4, ConstFacts, SMTT(60) DEF InHand
  <2>5. QueuesSound' /\ NoLostThread' /\ StatesOK' /\ SavedOK'
    BY <1>0, <2>1, <2>2, <2>3, <2>4, ConstFacts, QueueTypes, SMTT(60)
    DEF SchedInv, QueuesSound, NoLostThread, StatesOK, SavedOK, timer
  <2>6. PlacesOK' /\ PhaseOK'
    BY <1>0, <2>1, <2>4, ConstFacts DEF SchedInv, PlacesOK, PhaseOK, YieldPoints
  <2> QED
    BY <2>1, <2>2, <2>5, <2>6, SameTypes, Types, Zenon DEF SchedInv
<1>2. CASE KYield(k)
  <2> DEFINE add == MustAdd(thread_state, run_queue, k)
  <2>1. /\ cpu = k /\ pc[k] \in {"run", "exit"} /\ g_current = k
        /\ pc' = [pc EXCEPT ![k] = IF add THEN "link" ELSE "pick"]
        /\ thread_state' = IF add THEN [thread_state EXCEPT ![k] = "runnable"]
                           ELSE thread_state
        /\ own' = [own EXCEPT ![k] = k]
        /\ UNCHANGED <<g_current, run_queue, cpu, ctx, fault, next, timer, irq1>>
    BY <1>0, <1>2, Zenon DEF KYield, KStep, Runs, SchedInv, PhaseOK
  <2>2. ThreadTypes' /\ Queued' = Queued
    BY <1>0, <1>t, <2>1, SameTypes, SMTT(60) DEF ThreadTypes, ThreadStates, PCs, YieldPoints
  <2>4. /\ k \notin Queued
        /\ pc[k] = "run" <=> add
        /\ ~add => thread_state[k] = "zombie"
    BY <1>0, <2>1 DEF SchedInv, PhaseOK, QueuesSound, MustAdd, Queued
  <2> HIDE DEF add
  <2>5. \A t \in All : /\ thread_state'[t] = IF t = k /\ add THEN "runnable"
                                              ELSE thread_state[t]
                       /\ pc'[t] = IF t # k THEN pc[t] ELSE IF add THEN "link" ELSE "pick"
    BY <1>0, <1>t, <2>1, SMTT(60) DEF ThreadTypes
  <2>3. InHand' = InHand
    BY <1>0, <2>1, <2>5, ConstFacts, SMTT(60) DEF InHand
  <2>6. QueuesSound' /\ NoLostThread' /\ StatesOK' /\ SavedOK'
    BY <1>0, <2>1, <2>2, <2>3, <2>4, <2>5, ConstFacts, QueueTypes, SMTT(60)
    DEF SchedInv, QueuesSound, NoLostThread, StatesOK, SavedOK, timer, PhaseOK
  <2>7. own'[k] = k
    BY <1>0, <1>t, <2>1 DEF ThreadTypes
  <2>8. PlacesOK'
    BY <1>0, <2>1, <2>5, ConstFacts, SMTT(60) DEF SchedInv, PlacesOK, YieldPoints
  <2>9. PhaseOK'
    BY <1>0, <2>1, <2>2, <2>4, <2>5, <2>7, ConstFacts, SMTT(60)
    DEF SchedInv, PhaseOK, PutBack, YieldPoints
  <2> QED
    BY <2>1, <2>2, <2>6, <2>8, <2>9, SameTypes, Types, Zenon DEF SchedInv
<1>3. CASE KLink(k)
  <2>1. /\ cpu = k /\ pc[k] = "link" /\ g_current = k /\ own[k] = k
        /\ thread_state[k] = "runnable" /\ k \notin Queued
        /\ pc' = [pc EXCEPT ![k] = "pick"] /\ run_queue' = Append(run_queue, k)
        /\ UNCHANGED <<g_current, thread_state, cpu, ctx, fault, own, next, timer, irq1>>
    BY <1>0, <1>3, SMTT(60) DEF KLink, KStep, Runs, SchedInv, PhaseOK, YieldPoints
  <2>2. /\ run_queue' \in Seq(Threads) /\ NoRepeats(run_queue')
        /\ Queued' = Queued \cup {k}
    BY <1>0, <1>q, <2>1, AppendFacts DEF Queued
  <2>3. RunQueueType' /\ NoRepeats(run_queue')
    BY <2>2 DEF RunQueueType
  <2>9. Queued' = Queued \cup {k}
    BY <2>2
  <2>10. ThreadTypes'
    BY <1>0, <1>t, <2>1 DEF ThreadTypes, PCs, YieldPoints
  <2>4. \A t \in All : pc'[t] = IF t = k THEN "pick" ELSE pc[t]
    BY <1>0, <1>t, <2>1, SMTT(60) DEF ThreadTypes
  <2>5. InHand' = InHand
    BY <1>0, <2>1, <2>4, ConstFacts, SMTT(60) DEF InHand
  <2>6. QueuesSound' /\ NoLostThread' /\ StatesOK' /\ SavedOK'
    BY <1>0, <2>1, <2>3, <2>5, <2>9, ConstFacts, QueueTypes, SMTT(60)
    DEF SchedInv, QueuesSound, NoLostThread, StatesOK, SavedOK, timer
  <2>7. PlacesOK'
    BY <1>0, <2>1, <2>4, ConstFacts, SMTT(60) DEF SchedInv, PlacesOK, YieldPoints
  <2>8. PhaseOK'
    BY <1>0, <2>1, <2>4, <2>9, ConstFacts, SMTT(60) DEF PhaseOK, PutBack, YieldPoints
  <2> QED
    BY <2>1, <2>3, <2>6, <2>7, <2>8, <2>10, SameTypes, Types, Zenon DEF SchedInv
<1>4. CASE KPick(k)
  <2> DEFINE n == HeadOrIdle(run_queue)
             p == IF run_queue = << >> THEN "gcur" ELSE "unlink"
  <2>1. /\ cpu = k /\ pc[k] = "pick" /\ g_current = k /\ own[k] = k /\ PutBack(k)
        /\ pc' = [pc EXCEPT ![k] = p] /\ next' = [next EXCEPT ![k] = n]
        /\ UNCHANGED <<g_current, thread_state, run_queue, cpu, ctx, fault, own, timer, irq1>>
    BY <1>0, <1>4 DEF KPick, KStep, Runs, SchedInv, PhaseOK, YieldPoints, sched
  <2>2. /\ n \in All /\ (n = Idle <=> Queued = {})
        /\ run_queue # << >> => n = Head(run_queue) /\ n \in Queued /\ p = "unlink"
        /\ run_queue = << >> => n = Idle /\ p = "gcur"
    BY <1>q, NextFacts, TailFacts DEF Queued, HeadOrIdle
  <2> HIDE DEF n, p
  <2>3. ThreadTypes' /\ Queued' = Queued
    BY <1>0, <1>t, <2>1, <2>2, SameTypes DEF ThreadTypes, PCs, YieldPoints
  <2>4. /\ \A t \in All : pc'[t] = IF t = k THEN p ELSE pc[t]
        /\ next'[k] = n
    BY <1>0, <1>t, <2>1, Zenon DEF ThreadTypes
  <2>5. QueuesSound' /\ StatesOK' /\ SavedOK'
    BY <2>1, <2>3, SMTT(60) DEF SchedInv, QueuesSound, StatesOK, SavedOK, timer
  <2>6. NoLostThread'
    <3>1. InHand = {}
      BY <2>1, KInHand, SMTT(60)
    <3> QED
      BY <2>1, <2>3, <3>1, SMTT(60) DEF SchedInv, NoLostThread
  <2>7. PlacesOK'
    BY <1>0, <2>1, <2>2, <2>4, ConstFacts, SMTT(60) DEF SchedInv, PlacesOK, YieldPoints
  <2>8. PhaseOK'
    <3>1. n # Idle => thread_state[n] = "runnable"
      BY <2>2, SMTT(60) DEF SchedInv, QueuesSound
    <3> QED
      BY <1>0, <2>1, <2>2, <2>3, <2>4, <3>1, ConstFacts, QueueTypes
      DEF PhaseOK, PutBack, YieldPoints
  <2> QED
    BY <2>1, <2>3, <2>5, <2>6, <2>7, <2>8, SameTypes, Types, Zenon DEF SchedInv
<1>5. CASE KUnlink(k)
  <2>1. /\ cpu = k /\ pc[k] = "unlink" /\ g_current = k /\ own[k] = k /\ PutBack(k)
        /\ run_queue # << >> /\ next[k] = Head(run_queue)
        /\ pc' = [pc EXCEPT ![k] = "gcur"] /\ run_queue' = Unlink(run_queue, next[k])
        /\ fault' = IF next[k] \in Queued THEN fault ELSE "queue"
        /\ UNCHANGED <<g_current, thread_state, cpu, ctx, own, next, timer, irq1>>
    BY <1>0, <1>5, SMTT(60) DEF KUnlink, KStep, Runs, SchedInv, PhaseOK, YieldPoints
  <2>2. /\ next[k] \in Queued /\ next[k] \in Threads
        /\ Tail(run_queue) \in Seq(Threads) /\ NoRepeats(Tail(run_queue))
        /\ Elements(Tail(run_queue)) = Queued \ {next[k]}
    BY <1>q, <2>1, TailFacts, SMTT(60) DEF Queued
  <2>3. run_queue' = Tail(run_queue)
    BY <1>q, <2>1, UnlinkHead
  <2>10. /\ RunQueueType' /\ NoRepeats(run_queue') /\ Queued' = Queued \ {next[k]}
         /\ next[k] \in Queued /\ next[k] \in Threads /\ fault' = "none"
    BY <1>0, <2>1, <2>2, <2>3, Zenon DEF RunQueueType, Queued
  <2>4. \A t \in All : pc'[t] = IF t = k THEN "gcur" ELSE pc[t]
    BY <1>0, <1>t, <2>1 DEF ThreadTypes
  <2>5. ThreadTypes'
    BY <1>0, <1>t, <2>1, <2>10, Zenon DEF ThreadTypes, PCs, YieldPoints
  <2>6. QueuesSound' /\ StatesOK' /\ SavedOK'
    BY <2>1, <2>10, Zenon DEF SchedInv, QueuesSound, StatesOK, SavedOK, timer
  <2>7. NoLostThread'
    <3>1. InHand = {}
      BY <2>1, KInHand
    <3>2. next[k] \in InHand'
      BY <1>0, <2>1, <2>4, SMTT(60) DEF InHand
    <3> QED
      BY <2>1, <2>10, <3>1, <3>2, Zenon DEF SchedInv, NoLostThread
  <2>8. PlacesOK'
    BY <1>0, <2>1, <2>4, ConstFacts, SMTT(60) DEF SchedInv, PlacesOK, YieldPoints
  <2>9. PhaseOK'
    <3>1. thread_state[next[k]] = "runnable"
      BY <2>10, SMTT(60) DEF SchedInv, QueuesSound
    <3> QED
      BY <1>0, <2>1, <2>4, <2>10, <3>1, ConstFacts, SMTT(60) DEF PhaseOK, PutBack, YieldPoints
  <2> QED
    BY <2>1, <2>5, <2>6, <2>7, <2>8, <2>9, <2>10, SameTypes, Types, Zenon DEF SchedInv
<1> QED
  BY <1>1, <1>2, <1>3, <1>4, <1>5

\* The steps that make the chosen thread current.
LEMMA KernelActivateInv ==
    ASSUME TypeOK, SchedInv, NEW k \in KThreads,
           KStay(k) \/ KSetCurrent(k) \/ KActivate(k)
    PROVE  TypeOK' /\ SchedInv'
<1>0. /\ k \in Threads /\ k \in All /\ k # Idle /\ k # None /\ k \notin UThreads
      /\ fault = "none"
  BY ConstFacts DEF SchedInv
<1>t. ThreadTypes
  BY Types
<1>1. CASE KStay(k)
  <2>1. /\ cpu = k /\ pc[k] = "gcur" /\ g_current = k /\ own[k] = k /\ next[k] = k
        /\ k \notin Queued
        /\ pc' = [pc EXCEPT ![k] = "run"]
        /\ thread_state' = [thread_state EXCEPT ![k] = "running"]
        /\ UNCHANGED <<g_current, run_queue, cpu, ctx, fault, own, next, timer, irq1>>
    BY <1>0, <1>1, Zenon DEF KStay, KStep, Runs, SchedInv, PhaseOK, YieldPoints
  <2>2. ThreadTypes' /\ Queued' = Queued
    BY <1>0, <1>t, <2>1, SameTypes DEF ThreadTypes, ThreadStates, PCs
  <2>3. \A t \in All : /\ thread_state'[t] = IF t = k THEN "running" ELSE thread_state[t]
                       /\ pc'[t] = IF t = k THEN "run" ELSE pc[t]
    BY <1>0, <1>t, <2>1, SMTT(60) DEF ThreadTypes
  <2>4. thread_state[k] = "runnable" /\ InHand = {k}
    BY <1>0, <2>1, KInHand, SMTT(60) DEF SchedInv, PhaseOK
  <2>5. QueuesSound' /\ NoLostThread' /\ StatesOK' /\ SavedOK'
    BY <1>0, <2>1, <2>2, <2>3, <2>4, ConstFacts, QueueTypes, SMTT(60)
    DEF SchedInv, QueuesSound, NoLostThread, StatesOK, SavedOK, timer
  <2>6. PlacesOK'
    BY <1>0, <2>1, <2>3, ConstFacts, SMTT(60) DEF SchedInv, PlacesOK, YieldPoints
  <2>7. PhaseOK'
    BY <1>0, <2>1, <2>3, ConstFacts, SMTT(60) DEF PhaseOK, YieldPoints
  <2> QED
    BY <2>1, <2>2, <2>5, <2>6, <2>7, SameTypes, Types, Zenon DEF SchedInv
<1>2. CASE KSetCurrent(k)
  <2>1. /\ cpu = k /\ pc[k] = "gcur" /\ g_current = k /\ own[k] = k /\ next[k] # k
        /\ PutBack(k) /\ next[k] \in All \ Queued
        /\ next[k] = Idle \/ thread_state[next[k]] = "runnable"
        /\ pc' = [pc EXCEPT ![k] = "activate"] /\ g_current' = next[k]
        /\ UNCHANGED <<thread_state, run_queue, cpu, ctx, fault, own, next, timer, irq1>>
    BY <1>0, <1>2 DEF KSetCurrent, KStep, Runs, SchedInv, PhaseOK, YieldPoints
  <2>3. ThreadTypes' /\ Queued' = Queued
    BY <1>0, <1>t, <2>1, SameTypes DEF ThreadTypes, PCs, YieldPoints
  <2>4. \A t \in All : pc'[t] = IF t = k THEN "activate" ELSE pc[t]
    BY <1>0, <1>t, <2>1, SMTT(60) DEF ThreadTypes
  <2>5. QueuesSound' /\ SavedOK'
    BY <2>1, <2>3, SMTT(60) DEF SchedInv, QueuesSound, SavedOK, timer
  <2>6. NoLostThread' /\ StatesOK'
    <3>1. InHand = {next[k]}
      BY <2>1, KInHand
    <3>2. thread_state[k] # "running"
      BY <2>1, SMTT(60) DEF PutBack
    <3> QED
      BY <1>0, <2>1, <2>3, <3>1, <3>2, ConstFacts, SMTT(60) DEF SchedInv, NoLostThread, StatesOK, PutBack
  <2>7. PlacesOK'
    BY <1>0, <2>1, <2>4, ConstFacts, SMTT(60) DEF SchedInv, PlacesOK, YieldPoints
  <2>8. PhaseOK'
    BY <1>0, <2>1, <2>3, <2>4, ConstFacts, SMTT(60) DEF PhaseOK, PutBack, YieldPoints
  <2> QED
    BY <2>1, <2>3, <2>5, <2>6, <2>7, <2>8, SameTypes, Types, Zenon DEF SchedInv
<1>3. CASE KActivate(k)
  <2>1. /\ cpu = k /\ pc[k] = "activate" /\ own[k] = k /\ next[k] # k
        /\ PutBack(k) /\ next[k] \in All \ Queued /\ g_current = next[k]
        /\ next[k] = Idle \/ thread_state[next[k]] = "runnable"
        /\ pc' = [pc EXCEPT ![k] = "switch"]
        /\ thread_state' = [thread_state EXCEPT ![next[k]] = "running"]
        /\ UNCHANGED <<g_current, run_queue, cpu, ctx, fault, own, next, timer, irq1>>
    BY <1>0, <1>3 DEF KActivate, KStep, Runs, SchedInv, PhaseOK, YieldPoints
  <2>2. ThreadTypes' /\ Queued' = Queued
    BY <1>0, <1>t, <2>1, SameTypes DEF ThreadTypes, ThreadStates, PCs, YieldPoints
  <2>3. \A t \in All : /\ thread_state'[t] = IF t = next[k] THEN "running"
                                              ELSE thread_state[t]
                       /\ pc'[t] = IF t = k THEN "switch" ELSE pc[t]
    BY <1>0, <1>t, <2>1 DEF ThreadTypes
  <2>4. InHand = {}
    BY <2>1, KInHand
  <2>5. thread_state[Idle] \in {"runnable", "running"}
    BY SMTT(60) DEF SchedInv, StatesOK
  <2>6. QueuesSound' /\ NoLostThread' /\ StatesOK' /\ SavedOK'
    BY <1>0, <2>1, <2>2, <2>3, <2>4, <2>5, ConstFacts, QueueTypes, SMTT(60)
    DEF SchedInv, QueuesSound, NoLostThread, StatesOK, SavedOK, timer
  <2>7. PlacesOK'
    BY <1>0, <2>1, <2>3, ConstFacts, SMTT(60) DEF SchedInv, PlacesOK, YieldPoints
  <2>8. PhaseOK'
    BY <1>0, <2>1, <2>2, <2>3, ConstFacts DEF PhaseOK, PutBack, YieldPoints
  <2> QED
    BY <2>1, <2>2, <2>6, <2>7, <2>8, SameTypes, Types, Zenon DEF SchedInv
<1> QED
  BY <1>1, <1>2, <1>3

\* The context switch that ends it.
LEMMA KSwitchInv ==
    ASSUME TypeOK, SchedInv, NEW k \in KThreads, KSwitch(k)
    PROVE  TypeOK' /\ SchedInv'
<1> DEFINE n == next[k]
<1>0. k \in Threads /\ k \in All /\ k # Idle /\ k \notin UThreads
  BY ConstFacts, SMTT(60)
<1>1. /\ cpu = k /\ pc[k] = "switch" /\ own[k] = k /\ n # k
      /\ PutBack(k) /\ n \in All \ Queued /\ g_current = n
      /\ n = Idle \/ thread_state[n] = "running"
      /\ pc' = [pc EXCEPT ![k] = "run"] /\ ContextSwitch(k, n)
      /\ UNCHANGED <<g_current, thread_state, run_queue, own, next, timer, irq1>>
  BY <1>0, SMTT(60) DEF KSwitch, KStep, Runs, SchedInv, PhaseOK, YieldPoints
<1>2. /\ thread_state[Idle] \in {"runnable", "running"} /\ ctx[n] = n
      /\ \A t \in All : ctx[t] \in {t, None}
      /\ fault = "none"
  BY <1>1, ConstFacts, SMTT(60) DEF SchedInv, StatesOK, SavedOK, PlacesOK
<1> HIDE DEF n
<1>3. /\ cpu' = n /\ fault' = "none"
      /\ ctx' = [t \in All |-> IF t = k THEN k ELSE IF t = n THEN None ELSE ctx[t]]
  <2>1. ctx[n] # None /\ \A t \in All : ctx[t] = ctx[n] <=> t = n
    BY <1>1, <1>2, ConstFacts, SMTT(60)
  <2>2. /\ cpu' = ctx[n] /\ fault' = fault
        /\ ctx' = [t \in All |-> IF t = k THEN cpu
                                 ELSE IF ctx[t] = ctx[n] THEN None ELSE ctx[t]]
    BY <1>1, <2>1 DEF ContextSwitch
  <2> QED
    BY <1>1, <1>2, <2>1, <2>2, SMTT(60)
<1>t. ThreadTypes
  BY Types, SMTT(60)
<1>4. /\ \A t \in All : pc'[t] = IF t = k THEN "run" ELSE pc[t]
      /\ Queued' = Queued
  BY <1>0, <1>1, <1>t, SameTypes DEF ThreadTypes
<1>5. \A t \in All : ctx'[t] = IF t = k THEN k ELSE IF t = n THEN None ELSE ctx[t]
  BY <1>3, SMTT(60)
<1>6. ThreadTypes'
  <2>1. ctx' \in [All -> All \cup {None}]
    BY <1>0, <1>2, <1>3, SMTT(60)
  <2> QED
    BY <1>0, <1>1, <1>3, <1>t, <2>1, SMTT(60) DEF ThreadTypes, PCs
<1>7. QueuesSound' /\ StatesOK'
  BY <1>1, <1>4, SMTT(60) DEF SchedInv, QueuesSound, StatesOK, timer
<1>8. NoLostThread'
  <2>1. InHand = {}
    BY <1>1, KInHand, SMTT(60)
  <2> QED
    BY <1>1, <1>4, <2>1, SMTT(60) DEF SchedInv, NoLostThread
<1>9. PlacesOK' /\ SavedOK'
  BY <1>0, <1>1, <1>2, <1>3, <1>4, <1>5, ConstFacts, SMTT(60) DEF SchedInv, PlacesOK, SavedOK
<1>10. PhaseOK'
  <2>1. n \in KThreads => pc'[n] = "run"
    BY <1>0, <1>1, <1>4, ConstFacts DEF SchedInv, PlacesOK
  <2> QED
    BY <1>1, <1>3, <2>1, ConstFacts, SMTT(60) DEF PhaseOK, YieldPoints
<1> QED
  BY <1>1, <1>3, <1>6, <1>7, <1>8, <1>9, <1>10, SameTypes, Types, Zenon DEF SchedInv
=============================================================================

------------------------------- MODULE Signals -------------------------------
(***************************************************************************)
(* A thread's signal state: bit sets of words of WordBits bits, and the    *)
(* queue of real-time signals, whose entries move between two linked lists *)
(* of a fixed pool.  Callers run with interrupts off (the keyboard         *)
(* interrupt, the scheduler), so each call is one step.                    *)
(***************************************************************************)
EXTENDS Links, FiniteSets

CONSTANTS SIG_MAX, SIGRTMIN, \* signal numbers are 1 .. SIG_MAX, real-time from SIGRTMIN
          WordBits,          \* bits of an unsigned long
          RTQ_CAPACITY

VARIABLES sig_links, \* the links of the queue
          pool,      \* entry -> its signal
          count,     \* rtq_t.count
          pending, mask,
          answer     \* what the last call returned

sigVars == <<sig_links, pool, count, pending, mask, answer>>

(* The pool's entries, between the heads of the two lists. *)
Pool == 1 .. RTQ_CAPACITY
UsedHead == 0
FreeHead == RTQ_CAPACITY + 1
AllSignals == 1 .. SIG_MAX
SIG_IS_REALTIME(sig) == sig >= SIGRTMIN /\ sig <= SIG_MAX

(* sigset_t: the bits set, as <<word, offset>>. *)
BitFor(sig) == <<(sig - 1) \div WordBits, (sig - 1) % WordBits>>
sigaddset(set, sig) == set \cup {BitFor(sig)}
sigdelset(set, sig) == set \ {BitFor(sig)}
sigismember(set, sig) == BitFor(sig) \in set
Members(set) == {sig \in AllSignals : sigismember(set, sig)}

(* rtq_init pushes the entries on the free list one by one. *)
rtq_init ==
  LET heads == [l \in 0 .. RTQ_CAPACITY + 1 |-> l]
      f[i \in 0 .. RTQ_CAPACITY] ==
        IF i = 0 THEN [next |-> heads, prev |-> heads]
        ELSE LET l == f[i - 1] IN LinkAfter(LinkInit(l, i), FreeHead, i)
  IN f[RTQ_CAPACITY]

SigInit ==
  /\ sig_links = rtq_init /\ pool = [e \in Pool |-> 0] /\ count = 0
  /\ pending = {} /\ mask = {} /\ answer = <<"ok", 0>>

------------------------------------------------------------------------------
rtq_is_empty == ListIsEmpty(sig_links, UsedHead)
rtq_is_full == ListIsEmpty(sig_links, FreeHead)

\* Mutant of rtq_enqueue: the entry goes to the front.
EnqueueAtFront(sig) ==
  \/ rtq_is_full /\ answer' = <<"full", 0>> /\ UNCHANGED <<sig_links, pool, count>>
  \/ LET e == sig_links.next[FreeHead] IN
     /\ ~rtq_is_full
     /\ sig_links' = LinkAfter(LinkRemove(sig_links, e), UsedHead, e)
     /\ pool' = [pool EXCEPT ![e] = sig]
     /\ count' = count + 1 /\ answer' = <<"ok", 0>>

rtq_enqueue(sig) ==
  \/ rtq_is_full /\ answer' = <<"full", 0>> /\ UNCHANGED <<sig_links, pool, count>>
  \/ LET e == sig_links.next[FreeHead] IN
     /\ ~rtq_is_full
     /\ sig_links' = LinkBefore(LinkRemove(sig_links, e), UsedHead, e)
     /\ pool' = [pool EXCEPT ![e] = sig]
     /\ count' = count + 1 /\ answer' = <<"ok", 0>>

\* Mutant of rtq_dequeue: the entry is not taken off the used list.
DequeueKeepsLink ==
  LET e == sig_links.next[UsedHead] IN
  /\ sig_links' = LinkAfter(sig_links, FreeHead, e)
  /\ pool' = [pool EXCEPT ![e] = 0]
  /\ count' = count - 1 /\ answer' = <<"got", pool[e]>>

rtq_dequeue ==
  LET e == sig_links.next[UsedHead] IN
  /\ sig_links' = LinkAfter(LinkRemove(sig_links, e), FreeHead, e)
  /\ pool' = [pool EXCEPT ![e] = 0]
  /\ count' = count - 1 /\ answer' = <<"got", pool[e]>>

rtq_peek == pool[sig_links.next[UsedHead]]

signal_add(sig) ==
  \/ SIG_IS_REALTIME(sig) /\ rtq_enqueue(sig) /\ UNCHANGED <<pending, mask>>
  \/ /\ ~SIG_IS_REALTIME(sig)
     /\ pending' = sigaddset(pending, sig) /\ answer' = <<"ok", 0>>
     /\ UNCHANGED <<sig_links, pool, count, mask>>

HeadDeliverable == ~rtq_is_empty /\ ~sigismember(mask, rtq_peek)
Deliverable == {sig \in AllSignals : sigismember(pending, sig) /\ ~sigismember(mask, sig)}

signal_fetch ==
  \/ HeadDeliverable /\ rtq_dequeue /\ UNCHANGED <<pending, mask>>
  \/ /\ ~HeadDeliverable
     /\ \/ \E sig \in Deliverable :
             /\ \A s \in Deliverable : sig <= s
             /\ pending' = sigdelset(pending, sig) /\ answer' = <<"got", sig>>
        \/ Deliverable = {} /\ answer' = <<"got", 0>> /\ UNCHANGED pending
     /\ UNCHANGED <<sig_links, pool, count, mask>>

signal_has_pending_unmasked == HeadDeliverable \/ Deliverable # {}

signal_block(set) ==
  /\ mask' = mask \cup set /\ answer' = <<"ok", 0>>
  /\ UNCHANGED <<sig_links, pool, count, pending>>

signal_unblock(set) ==
  /\ mask' = mask \ set /\ answer' = <<"ok", 0>>
  /\ UNCHANGED <<sig_links, pool, count, pending>>

(* The real-time queue is left alone. *)
signal_clear_all ==
  /\ pending' = {} /\ answer' = <<"ok", 0>>
  /\ UNCHANGED <<sig_links, pool, count, mask>>

SigNext ==
  \/ \E sig \in AllSignals : \/ signal_add(sig)
                             \/ signal_block({BitFor(sig)}) \/ signal_unblock({BitFor(sig)})
  \/ signal_fetch \/ signal_clear_all

SigSpec == SigInit /\ [][SigNext]_sigVars

------------------------------------------------------------------------------
UsedList == Visited(sig_links.next, UsedHead, RTQ_CAPACITY + 1)
FreeList == Visited(sig_links.next, FreeHead, RTQ_CAPACITY + 1)

QueuedSignals == LET used == UsedList IN [i \in 1 .. Len(used) |-> pool[used[i]]]

Box == INSTANCE SignalBox WITH
         Realtime <- {s \in AllSignals : SIG_IS_REALTIME(s)},
         Ordinary <- {s \in AllSignals : ~SIG_IS_REALTIME(s)},
         Capacity <- RTQ_CAPACITY,
         fifo <- QueuedSignals,
         waiting <- Members(pending), blocked <- Members(mask), out <- answer

Elements(s) == {s[i] : i \in 1 .. Len(s)}

(* Both lists are rings in both directions, every pool entry is on exactly  *)
(* one of them, and count tells the used ones.                              *)
QueueRingsSound ==
  /\ Len(UsedList) = count
  /\ Elements(UsedList \o FreeList) = Pool /\ Len(UsedList \o FreeList) = RTQ_CAPACITY
  /\ \A l \in 0 .. RTQ_CAPACITY + 1 :
       sig_links.prev[sig_links.next[l]] = l /\ sig_links.next[sig_links.prev[l]] = l

(* The scheduler's quick check agrees with the call it predicts. *)
CheckPredictsFetch ==
  signal_fetch => (signal_has_pending_unmasked <=> answer' # <<"got", 0>>)

(* The lists are whole whenever a call begins, and the scheduler's check says *)
(* what the fetch will find (signal.c, queue.c).                            *)
SignalsSound == [][QueueRingsSound /\ CheckPredictsFetch]_sigVars
================================================================================

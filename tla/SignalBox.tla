------------------------------ MODULE SignalBox ------------------------------
(***************************************************************************)
(* What a thread's signal state promises: real-time signals are kept in    *)
(* order of arrival and come out one for one; an ordinary signal is kept   *)
(* once; what is masked is not handed out; a full queue refuses.           *)
(***************************************************************************)
EXTENDS Naturals, Sequences

CONSTANTS Realtime, Ordinary, Capacity

VARIABLES fifo,    \* real-time signals waiting
          waiting, \* ordinary signals waiting
          blocked, \* masked signals
          out      \* the last answer: got a signal (0: none), full, or ok

boxVars == <<fifo, waiting, blocked, out>>

BoxInit == fifo = <<>> /\ waiting = {} /\ blocked = {} /\ out = <<"ok", 0>>

Post(sig) ==
  \/ /\ sig \in Realtime /\ Len(fifo) < Capacity
     /\ fifo' = Append(fifo, sig) /\ out' = <<"ok", 0>> /\ UNCHANGED <<waiting, blocked>>
  \/ /\ sig \in Realtime /\ Len(fifo) = Capacity
     /\ out' = <<"full", 0>> /\ UNCHANGED <<fifo, waiting, blocked>>
  \/ /\ sig \in Ordinary
     /\ waiting' = waiting \cup {sig} /\ out' = <<"ok", 0>> /\ UNCHANGED <<fifo, blocked>>

TakeQueued ==
  /\ fifo # <<>> /\ Head(fifo) \notin blocked
  /\ out' = <<"got", Head(fifo)>> /\ fifo' = Tail(fifo) /\ UNCHANGED <<waiting, blocked>>

(* An ordinary signal, the lowest; or nothing, when none may be handed out. *)
TakeOrdinary ==
  /\ fifo # <<>> => Head(fifo) \in blocked
  /\ \/ \E sig \in waiting \ blocked :
          /\ \A s \in waiting \ blocked : sig <= s
          /\ out' = <<"got", sig>> /\ waiting' = waiting \ {sig}
     \/ waiting \subseteq blocked /\ out' = <<"got", 0>> /\ UNCHANGED waiting
  /\ UNCHANGED <<fifo, blocked>>

Mask == /\ blocked' \in SUBSET (Realtime \cup Ordinary)
        /\ out' = <<"ok", 0>> /\ UNCHANGED <<fifo, waiting>>

Forget == waiting' = {} /\ out' = <<"ok", 0>> /\ UNCHANGED <<fifo, blocked>>

BoxNext == (\E sig \in Realtime \cup Ordinary : Post(sig)) \/ TakeQueued \/ TakeOrdinary
           \/ Mask \/ Forget

BoxSpec == BoxInit /\ [][BoxNext]_boxVars
==============================================================================

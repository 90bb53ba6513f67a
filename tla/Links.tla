-------------------------------- MODULE Links --------------------------------
(***************************************************************************)
(* kernel/list.h: intrusive doubly linked lists.  l is the state of all    *)
(* links, [next, prev], each a function on links; NULL is not a link.      *)
(***************************************************************************)
EXTENDS Naturals, Sequences

CONSTANT NULL

LinkInit(l, x) == [next |-> [l.next EXCEPT ![x] = x], prev |-> [l.prev EXCEPT ![x] = x]]

(* The four assignments of an insertion between p and n, in their order. *)
Insert(l, p, n, x) ==
  [next |-> [[l.next EXCEPT ![x] = n] EXCEPT ![p] = x],
   prev |-> [[l.prev EXCEPT ![n] = x] EXCEPT ![x] = p]]

LinkAfter(l, a, x) == Insert(l, a, l.next[a], x)
LinkBefore(l, a, x) == Insert(l, l.prev[a], a, x)

LinkRemove(l, x) ==
  [next |-> [[l.next EXCEPT ![l.prev[x]] = l.next[x]] EXCEPT ![x] = NULL],
   prev |-> [[l.prev EXCEPT ![l.next[x]] = l.prev[x]] EXCEPT ![x] = NULL]]

ListIsEmpty(l, head) == l.next[head] = head

(* What ListForEach visits from head, at most n links. *)
Visited(step, head, n) ==
  LET seq[k \in 0 .. n] ==
        IF k = 0 THEN <<>>
        ELSE LET s == seq[k - 1]
                 at == IF s = <<>> THEN head ELSE s[Len(s)]
             IN IF Len(s) < k - 1 \/ step[at] \in {head, NULL} THEN s ELSE Append(s, step[at])
  IN seq[n]
==============================================================================

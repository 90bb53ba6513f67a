------------------------------ MODULE LineBox ------------------------------
(***************************************************************************)
(* What the terminal promises its readers: a submitted line waits in a box *)
(* until exactly one reader takes it, and that reader gets it as it was    *)
(* submitted.                                                              *)
(***************************************************************************)
CONSTANTS Readers, Inputs, Empty

VARIABLES
    box,    \* the submitted line, or Empty
    got     \* what each reader took last, or Empty

vars == <<box, got>>

Init == box = Empty /\ got = [r \in Readers |-> Empty]

Submit(x) == box = Empty /\ box' = x /\ got' = got

Take(r) ==
    /\ box # Empty
    /\ got' = [got EXCEPT ![r] = box]
    /\ box' = Empty

Next == (\E x \in Inputs : Submit(x)) \/ \E r \in Readers : Take(r)

Spec == Init /\ [][Next]_vars
=============================================================================

------------------------------ MODULE MCMemory ------------------------------
(* Finite instances of Memory.                                             *)
EXTENDS Memory

\* malloc returns: "Pointer to allocated memory, or NULL on failure" (heap.h).
\* It never leaves the machine repeating a page fault on a page that the heap's
\* range covers and the kernel's page tables do not.
MallocReturns == ~stuck
=============================================================================

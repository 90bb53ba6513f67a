----------------------------- MODULE MCPrograms -----------------------------
(* What a program stands on, in one run: the name space and the descriptor *)
(* tables, the contents of files and the copy command, address spaces and  *)
(* the loader, and the string and number routines of the library.  They    *)
(* share no state: `unit' says which one moves.                            *)
EXTENDS Vfs, FileIO, AddressSpace, CStrings, Numbers

CONSTANTS n1, n2

VARIABLE unit

\* Interchangeable names.
Alike == Permutations({n1, n2})

\* Programs: a segment that starts inside a page and is longer in memory than in
\* the file, two segments apart, and two that share a page.
Seg(v, f, m) == [vaddr |-> v, filesz |-> f, memsz |-> m]
SomePrograms == {<<Seg(3, 3, 6)>>, <<Seg(0, 2, 2), Seg(4, 0, 2)>>, <<Seg(0, 1, 1), Seg(1, 1, 1)>>}

\* Argument lists; the last three are too long for the stack, too many, and one
\* string too long.
SomeArgs == {<<>>, <<5>>, <<1, 2>>, <<5, 5>>, <<1, 1, 1>>, <<6>>}

\* Byte 1 is the upper-case form of byte 2.
Fold == 1 :> 2

all == <<unit, vfsVars, ioVars, spaceVars, strVars, operands>>

ProgramsInit ==
    /\ unit \in {"vfs", "io", "space", "strings", "numbers"}
    /\ VfsInit /\ IOInit /\ SpaceInit /\ StrInit /\ NumInit
    /\ unit # "io" => fs = "ramfs"

ProgramsNext ==
    /\ UNCHANGED unit
    /\ \/ unit = "vfs" /\ VfsNext /\ UNCHANGED <<ioVars, spaceVars, strVars, operands>>
       \/ unit = "io" /\ IONext /\ UNCHANGED <<vfsVars, spaceVars, strVars, operands>>
       \/ unit = "space" /\ SpaceNext /\ UNCHANGED <<vfsVars, ioVars, strVars, operands>>
       \/ unit = "strings" /\ StrNext /\ UNCHANGED <<vfsVars, ioVars, spaceVars, operands>>
       \/ unit = "numbers" /\ NumNext /\ UNCHANGED <<vfsVars, ioVars, spaceVars, strVars>>

ProgramsSpec == ProgramsInit /\ [][ProgramsNext]_all

\* Loads are followed until frames have been lost in two ways.
FewLeaks == Cardinality(leaks) < 2

\* The C library (shared/libc/asm) against the definitions of what it computes.
LibraryExact == StringsExact /\ NumbersExact
=============================================================================

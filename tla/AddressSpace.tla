----------------------------- MODULE AddressSpace -----------------------------
(***************************************************************************)
(* Address spaces and the loading of programs: paging.c, elf.c,            *)
(* sched/exec.c.  An address space is a directory of four regions: the     *)
(* kernel's own, the program, the stack, and the one of the temporary      *)
(* window through which the kernel reaches any frame.  Loading runs        *)
(* without a yield; it is cut at the points where it may run out of frames.*)
(***************************************************************************)
EXTENDS Naturals, Sequences, FiniteSets, TLC

CONSTANTS MaxFrames,  \* frames 1 .. MaxFrames are the allocator's
          Spaces,     \* address spaces that may exist besides the kernel's
          Slots,      \* entries of a page table
          PAGE_SIZE, StackPages,
          Programs,   \* the files: sequences of segments [vaddr, filesz, memsz]
          ArgLists,   \* the lengths of the strings given to execve
          MaxArgs, MaxArg, \* strings, and bytes of one, that execve takes (16 and 128)
          WordBytes, StackAlign

VARIABLES mm,      \* used frames, directories, tables, the bytes of the frames in use
          life,    \* space -> "none", "loading" or "runs", the program, the parent
          loading, \* what the load in progress has done
          leaks    \* the places where a frame has been lost

spaceVars == <<mm, life, loading, leaks>>

Kernel == 0
Regions == {"kernel", "program", "stack", "temp"}
SpaceFrames == 1 .. MaxFrames
KernelTable == MaxFrames + 1 \* a table paging_init made; stands for all of them
NoPde == [pt |-> 0, user |-> FALSE]
NoPte == [phys |-> 0, user |-> FALSE]
Gone == [is |-> "none", prog |-> <<>>, parent |-> Kernel]
NoLoad == [step |-> "idle"]
ZeroByte == <<0, 0>>       \* other bytes: <<segment, offset>>, and in an argument block
StringKind == 10           \* <<StringKind + i, k>>, byte k of string i,
PointerKind == 20          \* <<PointerKind + k, place>>, part k of a pointer;
JunkKind == 30             \* <<JunkKind, 0>> in a frame nobody has written
EmptyTable == [slot \in 0 .. Slots - 1 |-> NoPte]
KernelDir == [r \in Regions |-> IF r = "kernel" THEN [pt |-> KernelTable, user |-> FALSE] ELSE NoPde]

FreeFrames(m) == SpaceFrames \ m.used
pmm_alloc_frame(m) == CHOOSE f \in FreeFrames(m) : \A g \in FreeFrames(m) : f <= g
Used(m, f) == [m EXCEPT !.used = @ \cup {f}]

--------------------------------------------------------------------------------
(* paging.c.  A page is <<region, slot>>. *)
NeedsTable(m, s, page) == m.dir[s][page[1]] = NoPde
CanMap(m, s, page) == NeedsTable(m, s, page) => FreeFrames(m) # {}

WithTable(m, s, page, user) ==
  IF NeedsTable(m, s, page)
  THEN LET t == pmm_alloc_frame(m) IN
       [Used(m, t) EXCEPT !.dir[s][page[1]] = [pt |-> t, user |-> user],
                          !.table = t :> EmptyTable @@ m.table]
  ELSE [m EXCEPT !.dir[s][page[1]].user = @ \/ user]

Entered(m, s, page, pte) == [m EXCEPT !.table[m.dir[s][page[1]].pt][page[2]] = pte]

paging_map_page(m, s, page, f, user) ==
  Entered(WithTable(m, s, page, user), s, page, [phys |-> f, user |-> user])

TempPage == <<"temp", 0>>
Window(m, s, f) == paging_map_page(m, s, TempPage, f, FALSE)

(* The spaces the window is opened in, in this order. *)
Opened(active, s) == <<Kernel>> \o (IF active \in {Kernel, s} THEN <<>> ELSE <<active>>) \o <<s>>

(* The window of frame f opened one space after another: ok, and the state. *)
paging_temp_map_frame(m, active, s, f) ==
  LET o == Opened(active, s)
      open[k \in 0 .. Len(o)] ==
        IF k = 0 THEN [ok |-> TRUE, m |-> m]
        ELSE LET before == open[k - 1] IN
             IF before.ok /\ CanMap(before.m, o[k], TempPage)
             THEN [ok |-> TRUE, m |-> Window(before.m, o[k], f)]
             ELSE [before EXCEPT !.ok = FALSE]
      closed(m2) == [m2 EXCEPT !.table = [t \in DOMAIN m2.table |->
                       IF \E i \in 1 .. Len(o) : m2.dir[o[i]]["temp"].pt = t
                       THEN [m2.table[t] EXCEPT ![0] = NoPte] ELSE m2.table[t]]]
      last == open[Len(o)]
  IN IF last.ok THEN last ELSE [last EXCEPT !.m = closed(last.m)]

\* Mutant of paging_temp_unmap_frame: only the active space's window is closed.
UnmapActiveOnly(m, active, s) ==
  [m EXCEPT !.table[m.dir[active]["temp"].pt][0] = NoPte]

paging_temp_unmap_frame(m, active, s) ==
  LET tables == {m.dir[o]["temp"].pt : o \in {Kernel, active, s}}
  IN [m EXCEPT !.table = [t \in DOMAIN m.table |->
                            IF t \in tables THEN [m.table[t] EXCEPT ![0] = NoPte] ELSE m.table[t]]]

Junk == [i \in 0 .. PAGE_SIZE - 1 |-> <<JunkKind, 0>>] \* what a frame holds at first
Zeroes == [i \in 0 .. PAGE_SIZE - 1 |-> ZeroByte]
BytesIn(m, f) == IF f \in DOMAIN m.bytes THEN m.bytes[f] ELSE Junk

(* A store through the window reaches the frame that the active space maps. *)
Poked(m, active, bytes) ==
  LET f == m.table[m.dir[active]["temp"].pt][0].phys IN
  IF f \notin SpaceFrames THEN m
  ELSE [m EXCEPT !.bytes = f :> bytes @@ m.bytes]
Peeked(m, active) == BytesIn(m, m.table[m.dir[active]["temp"].pt][0].phys)

paging_create_address_space(m, s) ==
  LET f == pmm_alloc_frame(m) IN
  [Used(m, f) EXCEPT !.dir[s] = m.dir[Kernel], !.root[s] = f]

UserRegions(m, s) == {r \in Regions : m.dir[s][r].user /\ m.dir[s][r] # m.dir[Kernel][r]}
PagesIn(m, t) == {m.table[t][i].phys : i \in {j \in DOMAIN m.table[t] : m.table[t][j].user}}
Owned(m, s) ==
  {m.root[s]} \cup {m.dir[s][r].pt : r \in UserRegions(m, s)}
    \cup UNION {PagesIn(m, m.dir[s][r].pt) : r \in UserRegions(m, s)}

(* The space is gone; what its frames and tables held no longer matters.    *)
Forgotten(m, s) ==
  LET tables == {m.dir[s][r].pt : r \in Regions} \ {m.dir[Kernel][r].pt : r \in Regions}
  IN [m EXCEPT !.dir[s] = [r \in Regions |-> NoPde], !.root[s] = 0,
               !.table = [t \in DOMAIN @ \ tables |-> @[t]],
               !.bytes = [f \in DOMAIN @ \ Owned(m, s) |-> @[f]]]

paging_destroy_address_space(m, s) == [Forgotten(m, s) EXCEPT !.used = @ \ Owned(m, s)]

(* A table of the window that this space does not share is not given back. *)
OwnWindow(m, s) == m.dir[s]["temp"] \notin {NoPde, m.dir[Kernel]["temp"]}

--------------------------------------------------------------------------------
SpaceInit ==
  /\ mm = [used |-> {}, root |-> [s \in Spaces |-> 0],
           dir |-> [s \in Spaces \cup {Kernel} |->
                      IF s = Kernel THEN KernelDir ELSE [r \in Regions |-> NoPde]],
           table |-> KernelTable :> EmptyTable,
           bytes |-> << >>]
  /\ life = [s \in Spaces |-> Gone] /\ loading = NoLoad /\ leaks = {}

Live == {s \in Spaces : life[s].is = "runs"}

(* exec_elf_vnode_args, called by kinit or by a process; exec_elf_image is  *)
(* called by kinit alone.                                                   *)
Exec(active, s, prog, image) ==
  /\ loading = NoLoad /\ life[s] = Gone
  /\ IF Live = {} THEN active = Kernel ELSE active \in Live /\ ~image
  /\ FreeFrames(mm) # {}
  /\ mm' = paging_create_address_space(mm, s)
  /\ life' = [life EXCEPT ![s].is = "loading"]
  /\ loading' = [step |-> "segment", active |-> active, space |-> s, prog |-> prog, image |-> image,
                 args |-> <<>>, seg |-> 1, page |-> 0, pages |-> <<>>]
  /\ UNCHANGED leaks

Destroyed(m, why) ==
  /\ mm' = paging_destroy_address_space(m, loading.space)
  /\ leaks' = leaks \cup why \cup (IF OwnWindow(m, loading.space) THEN {"window"} ELSE {})
  /\ life' = [life EXCEPT ![loading.space] = Gone]
  /\ loading' = NoLoad

(* elf32_load_image failed: the vnode path destroys the space, the image    *)
(* path forgets it.                                                         *)
LoadFails(m, why) ==
  IF loading.image
  THEN /\ mm' = Forgotten(m, loading.space)
       /\ leaks' = leaks \cup {"image"} /\ loading' = NoLoad
       /\ life' = [life EXCEPT ![loading.space] = Gone]
  ELSE Destroyed(m, why)

(* A zeroed page: allocate, map, open the window, clear, close it. The       *)
(* outcome says where it stopped.                                           *)
NewPage(m, page) ==
  IF FreeFrames(m) = {} THEN [ok |-> "no frame", m |-> m, f |-> 0]
  ELSE LET f == pmm_alloc_frame(m)
           taken == Used(m, f)
           s == loading.space
       IN IF ~CanMap(taken, s, page) THEN [ok |-> "no table", m |-> taken, f |-> f]
          ELSE LET w == paging_temp_map_frame(paging_map_page(taken, s, page, f, TRUE),
                                              loading.active, s, f)
               IN [ok |-> IF w.ok THEN "ok" ELSE "no window", f |-> f,
                   m |-> IF w.ok THEN paging_temp_unmap_frame(Poked(w.m, loading.active, Zeroes),
                                                              loading.active, s)
                         ELSE w.m]

Segment == loading.prog[loading.seg]
FirstPage(g) == g.vaddr \div PAGE_SIZE
PageCount(g) == IF g.memsz = 0 THEN 0
                ELSE (g.vaddr + g.memsz + PAGE_SIZE - 1) \div PAGE_SIZE - FirstPage(g)
LoadsPages == loading.step = "segment" /\ loading.seg <= Len(loading.prog)

(* elf32_validate or a check of the program headers refuses the file, or it *)
(* cannot be read.                                                          *)
ImageRejected ==
  /\ loading.step = "segment" /\ loading.seg = 1 /\ loading.page = 0
  /\ LoadFails(mm, {})

(* load_segment: its pages, one after another *)
SegmentPage ==
  /\ LoadsPages /\ loading.page < PageCount(Segment)
  /\ \E page \in {<<"program", FirstPage(Segment) + loading.page>>} :
     \E new \in {NewPage(mm, page)} :
       \/ /\ new.ok = "ok"
          /\ mm' = new.m
          /\ loading' = [loading EXCEPT !.page = @ + 1, !.pages = Append(@, new.f)]
          /\ leaks' = IF mm.dir[loading.space]["program"] # NoPde
                         /\ mm.table[mm.dir[loading.space]["program"].pt][page[2]] # NoPte
                      THEN leaks \cup {"overlap"} ELSE leaks
          /\ UNCHANGED life
       \/ new.ok = "no table" /\ LoadFails(new.m, {"page"})
       \/ new.ok \in {"no frame", "no window"} /\ LoadFails(new.m, {})

(* The file's bytes, page by page through the window. *)
Copied(m, g, k) ==
  LET chunk(p, copied) == LET off == IF p = 1 THEN g.vaddr % PAGE_SIZE ELSE 0
                              space == PAGE_SIZE - off
                              remain == g.filesz - copied
                          IN [off |-> off, n |-> IF remain < space THEN remain ELSE space]
      copy[p \in 0 .. Len(loading.pages)] ==
        IF p = 0 THEN [m |-> m, copied |-> 0]
        ELSE LET before == copy[p - 1]
                 c == chunk(p, before.copied)
                 open == paging_temp_map_frame(before.m, loading.active, loading.space,
                                               loading.pages[p]).m
                 new == [i \in 0 .. PAGE_SIZE - 1 |->
                           IF i >= c.off /\ i < c.off + c.n
                           THEN <<k, before.copied + i - c.off>>
                           ELSE Peeked(open, loading.active)[i]]
             IN IF before.copied >= g.filesz THEN before
                ELSE [m |-> paging_temp_unmap_frame(Poked(open, loading.active, new),
                                                    loading.active, loading.space),
                      copied |-> before.copied + c.n]
  IN copy[Len(loading.pages)].m

SegmentBytes ==
  /\ LoadsPages /\ loading.page = PageCount(Segment)
  /\ \/ /\ mm' = Copied(mm, Segment, loading.seg)
        /\ loading' = [loading EXCEPT !.seg = @ + 1, !.page = 0, !.pages = <<>>]
        /\ UNCHANGED <<life, leaks>>
     \/ LoadFails(mm, {}) \* the heap is exhausted, or the file cannot be read

StackPage(k) == <<"stack", IF k = StackPages THEN 0 ELSE Slots - StackPages + k>>

StackFrame(m, s, k) == m.table[m.dir[s]["stack"].pt][StackPage(k)[2]].phys

(* exec_elf_context: the stack's pages, then the trampoline's. *)
StackStep ==
  /\ loading.step = "segment" /\ loading.seg > Len(loading.prog) /\ loading.page <= StackPages
  /\ \E new \in {NewPage(mm, StackPage(loading.page))} :
       \/ /\ new.ok = "ok" /\ mm' = new.m
          /\ loading' = [loading EXCEPT !.page = @ + 1]
          /\ UNCHANGED <<life, leaks>>
       \/ new.ok = "no table" /\ Destroyed([new.m EXCEPT !.used = @ \ {new.f}], {})
       \/ new.ok \in {"no frame", "no window"} /\ Destroyed(new.m, {})

--------------------------------------------------------------------------------
(* exec_build_stack, with addresses counted from the stack's base. *)
StackSize == StackPages * PAGE_SIZE
AlignDown(a, n) == a - (a % n)

(* The place of the last k strings, top down; empty when one does not fit. *)
Strings(args) ==
  LET at[k \in 0 .. Len(args)] ==
        IF k = 0 THEN <<StackSize>>
        ELSE LET below == at[k - 1]
                 n == args[Len(args) - k + 1]
             IN IF below = <<>> \/ n > Head(below) THEN <<>>
                ELSE <<Head(below) - n>> \o below
  IN at[Len(args)]

Vector(args) == (Len(args) + 1) * WordBytes
exec_build_stack(args) ==
  LET s == Strings(args) IN
  IF s = <<>> THEN <<>>
  ELSE LET top == AlignDown(Head(s), WordBytes) IN
       IF Vector(args) > top THEN <<>>
       ELSE <<[argv |-> top - Vector(args), esp |-> AlignDown(top - Vector(args), StackAlign),
               strings |-> s]>>

\* Mutant of exec_copy_to_user_space: nothing is copied beyond the first page.
CopyFirstPage(m, at, bytes) ==
  LET p == at \div PAGE_SIZE
      open == paging_temp_map_frame(m, loading.active, loading.space,
                                    StackFrame(m, loading.space, p)).m
      new == [i \in 0 .. PAGE_SIZE - 1 |->
                LET k == p * PAGE_SIZE + i - at + 1 IN
                IF k \in 1 .. Len(bytes) THEN bytes[k] ELSE Peeked(open, loading.active)[i]]
  IN paging_temp_unmap_frame(Poked(open, loading.active, new), loading.active, loading.space)

(* exec_copy_to_user_space: page by page, through the window. *)
exec_copy_to_user_space(m, at, bytes) ==
  LET first == at \div PAGE_SIZE
      last == (at + Len(bytes) - 1) \div PAGE_SIZE
      copy[p \in 0 .. last] ==
        LET before == IF p <= first THEN m ELSE copy[p - 1]
            f == StackFrame(before, loading.space, p)
            open == paging_temp_map_frame(before, loading.active, loading.space, f).m
            new == [i \in 0 .. PAGE_SIZE - 1 |->
                      LET k == p * PAGE_SIZE + i - at + 1 IN
                      IF k \in 1 .. Len(bytes) THEN bytes[k] ELSE Peeked(open, loading.active)[i]]
        IN paging_temp_unmap_frame(Poked(open, loading.active, new), loading.active,
                                   loading.space)
  IN copy[last]

(* The bytes of the i-th string, and of the vector of the strings' places.  *)
StringBytes(args, i) == [k \in 1 .. args[i] |-> <<StringKind + i, k>>]
VectorBytes(args, places) ==
  [k \in 1 .. Vector(args) |->
     LET j == (k - 1) \div WordBytes + 1 IN
     IF j > Len(args) THEN ZeroByte ELSE <<PointerKind + (k % WordBytes), places[j]>>]

(* What a call that does not fit has copied is left out: its frames are     *)
(* freed, and cleared before they are used again.                           *)
Delivered(m, args) ==
  LET b == exec_build_stack(args)
      put[k \in 0 .. Len(args)] ==
        IF k = 0 THEN m
        ELSE LET i == Len(args) - k + 1 IN
             exec_copy_to_user_space(put[k - 1], b[1].strings[i], StringBytes(args, i))
  IN IF b = <<>> THEN m
     ELSE exec_copy_to_user_space(put[Len(args)], b[1].argv, VectorBytes(args, b[1].strings))

(* What SYS_execve takes from the caller's memory; kinit gives no strings.  *)
syscall_exec_process(args) ==
  Len(args) <= MaxArgs /\ \A i \in 1 .. Len(args) : args[i] <= MaxArg

(* exec_build_stack is given the strings of the call. *)
Arguments(args) ==
  /\ loading.step = "segment" /\ loading.seg > Len(loading.prog) /\ loading.page > StackPages
  /\ IF loading.active = Kernel THEN args = <<>> ELSE syscall_exec_process(args)
  /\ mm' = Delivered(mm, args)
  /\ loading' = [loading EXCEPT !.step = "finish", !.args = args]
  /\ UNCHANGED <<life, leaks>>

(* The argument block, the trampoline's code, the context, the kernel stack *)
(* and the thread, the process.                                             *)
ExecDone ==
  /\ loading.step = "finish"
  /\ exec_build_stack(loading.args) # <<>>
  /\ life' = [life EXCEPT ![loading.space] = [is |-> "runs", prog |-> loading.prog, parent |-> loading.active]]
  /\ loading' = NoLoad
  /\ UNCHANGED <<mm, leaks>>

(* The arguments do not fit, or an allocation fails, or no process is free. *)
ExecFails ==
  /\ loading.step = "finish"
  /\ Destroyed(mm, {})

(* proc_reap, called by the parent's waitpid *)
Reap(s) ==
  /\ loading = NoLoad /\ s \in Live /\ life[s].parent \in Live
  /\ mm' = paging_destroy_address_space(mm, s)
  /\ leaks' = leaks \cup (IF OwnWindow(mm, s) THEN {"window"} ELSE {})
  /\ life' = [life EXCEPT ![s] = Gone]
  /\ UNCHANGED loading

SpaceNext ==
  \/ \E active \in Spaces \cup {Kernel}, s \in Spaces, prog \in Programs :
       Exec(active, s, prog, TRUE) \/ Exec(active, s, prog, FALSE)
  \/ \E args \in ArgLists : Arguments(args)
  \/ loading # NoLoad /\ (ImageRejected \/ SegmentPage \/ SegmentBytes \/ StackStep \/ ExecDone \/ ExecFails)
  \/ \E s \in Spaces : Reap(s)

SpaceSpec == SpaceInit /\ [][SpaceNext]_spaceVars

--------------------------------------------------------------------------------
Exists == {s \in Spaces : life[s] # Gone}
WindowTables == {mm.dir[s]["temp"].pt : s \in Exists \cup {Kernel}} \ {0}

(* No frame has two owners and none in use is free for another, after any   *)
(* failure in the middle of a load; the only frames ever lost are those of  *)
(* the four known places.                                                   *)
FramesOwnedOnce ==
  /\ \A s, t \in Exists : s # t => Owned(mm, s) \cap Owned(mm, t) = {}
  /\ UNION {Owned(mm, s) : s \in Exists} \cap WindowTables = {}
  /\ UNION {Owned(mm, s) : s \in Exists} \cup WindowTables \subseteq mm.used
  /\ leaks = {} /\ loading = NoLoad
       => mm.used = UNION {Owned(mm, s) : s \in Exists} \cup WindowTables

(* Whenever a load is at a point where it may stop, and after it, the        *)
(* temporary window is closed in every space, the ones of other programs    *)
(* and the one a failure left behind included.                              *)
WindowClosed ==
  \A t \in WindowTables : mm.table[t][0] = NoPte

PageShared(prog, k) ==
  \E j \in 1 .. Len(prog) : j # k /\
    {FirstPage(prog[j]) + i : i \in 0 .. PageCount(prog[j]) - 1}
      \cap {FirstPage(prog[k]) + i : i \in 0 .. PageCount(prog[k]) - 1} # {}

(* A running program's memory is what its file says, byte for byte, zero    *)
(* where the file is shorter than the segment, for every segment that       *)
(* shares no page with another, whoever loaded it and whatever was loaded   *)
(* or destroyed around it.                                                  *)
ImageFaithful ==
  \A s \in Live : \A k \in 1 .. Len(life[s].prog) : ~PageShared(life[s].prog, k) =>
    LET g == life[s].prog[k] IN
    \A a \in g.vaddr .. g.vaddr + g.memsz - 1 :
      LET pte == mm.table[mm.dir[s]["program"].pt][a \div PAGE_SIZE] IN
      /\ pte.user
      /\ BytesIn(mm, pte.phys)[a % PAGE_SIZE]
           = IF a - g.vaddr < g.filesz THEN <<k, a - g.vaddr>> ELSE ZeroByte

(* A program that is started finds its arguments: the vector holds the      *)
(* places of the strings and ends in null, each string is there whole, byte *)
(* for byte across pages, and the initial stack pointer lies below them.    *)
ArgumentsDelivered ==
  loading.step = "finish" => \A k \in DOMAIN exec_build_stack(loading.args) :
    LET b == exec_build_stack(loading.args)[k]
        At(a) == BytesIn(mm, StackFrame(mm, loading.space, a \div PAGE_SIZE))[a % PAGE_SIZE]
        Shows(a, bytes) == \A i \in 1 .. Len(bytes) : a + i <= StackSize /\ At(a + i - 1) = bytes[i]
    IN /\ 0 <= b.esp /\ b.esp <= b.argv /\ b.esp % StackAlign = 0
       /\ Shows(b.argv, VectorBytes(loading.args, b.strings))
       /\ \A i \in 1 .. Len(loading.args) : Shows(b.strings[i], StringBytes(loading.args, i))

(* Memory is given back through every failure of elf_load and exec: frames  *)
(* have one owner and the temporary window is closed.                       *)
FramesSound == FramesOwnedOnce /\ WindowClosed

(* What runs is the program that was asked for, with its arguments.         *)
ProgramsDelivered == ImageFaithful /\ ArgumentsDelivered
================================================================================

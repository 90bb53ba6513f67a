-------------------------------- MODULE Boot --------------------------------
(***************************************************************************)
(* Start-up: kmain from the drivers to kernel_init, the choice of the root *)
(* file system, unpacking the embedded archive, and the first process.     *)
(* Interrupts are on from the middle of kmain; a timer tick or a key may   *)
(* come between any two steps after that.                                  *)
(***************************************************************************)
EXTENDS Naturals, Sequences
LOCAL INSTANCE SequencesExt

CONSTANTS BootDevices, \* registered block devices, in the order they are tried
          Contents,    \* what a device may hold: [fs, init]
          Archives,    \* embedded archives: sequences of [name, dir, size]
          BlockBytes,  \* 512
          MaxTicks     \* bound: timer ticks during start-up

VARIABLES stage,     \* the step of kmain and kernel_init that comes next
          holds,     \* device -> its contents
          tries,     \* mounts still to be tried: <<device, file system>>
          mount_fs,  \* what is mounted on "/": [fs, dev], or NoMount
          archive,   \* init.tar, block by block
          ptr,       \* the block tar_extract looks at
          tree,      \* the RAM file system: path -> [dir, size]
          fb0,       \* /dev/fb0 exists
          init_from, \* where the first process came from
          ticks,     \* timer ticks so far
          resched    \* reschedule_pending

bootVars == <<stage, holds, tries, mount_fs, archive, ptr, tree, fb0, init_from, ticks, resched>>

NoMount == [fs |-> "none", dev |-> "none"]
BlocksOf(n) == (n + BlockBytes - 1) \div BlockBytes

(* An archive entry is a header block followed by its data; an empty name   *)
(* ends the archive.  Names are what normalize makes of them: components,   *)
(* none for "./".                                                           *)
Data == [kind |-> "data", name |-> <<>>, dir |-> FALSE, size |-> 0]
EndBlock == [Data EXCEPT !.kind = "end"]
EntryBlocks(e) ==
  <<[kind |-> "header", name |-> e.name, dir |-> e.dir, size |-> e.size]>>
  \o [i \in 1 .. BlocksOf(e.size) |-> Data]
Packed(entries) ==
  FlattenSeq([i \in 1 .. Len(entries) |-> EntryBlocks(entries[i])]) \o <<EndBlock>>

TryAll(devs) ==
  FlattenSeq([i \in 1 .. Len(devs) |-> <<<<devs[i], "fat">>, <<devs[i], "ext2">>>>])

BootInit ==
  /\ stage = "interrupts"
  /\ holds \in [ToSet(BootDevices) -> Contents]
  /\ tries = <<>> /\ mount_fs = NoMount
  /\ archive \in {Packed(a) : a \in Archives} /\ ptr = 1
  /\ tree = << >> /\ fb0 = FALSE /\ init_from = "none"
  /\ ticks = 0 /\ resched = FALSE

------------------------------------------------------------------------------
Goto(next) == stage' = next

(* enableinterrupts .. ext2_init: nothing is mounted yet. *)
Drivers ==
  /\ stage = "interrupts" /\ Goto("sched")
  /\ UNCHANGED <<holds, tries, mount_fs, archive, ptr, tree, fb0, init_from, ticks, resched>>

(* proc_init and sched_init forget earlier ticks. *)
SchedInit ==
  /\ stage = "sched" /\ Goto("mount")
  /\ resched' = FALSE
  /\ tries' = TryAll(BootDevices)
  /\ UNCHANGED <<holds, mount_fs, archive, ptr, tree, fb0, init_from, ticks>>

\* Mutant of TryMount: a failed mount is tried again.
TryMountForever(works) ==
  /\ stage = "mount" /\ tries # <<>>
  /\ LET dev == Head(tries)[1]
         fs == Head(tries)[2]
     IN works /\ holds[dev].fs = fs /\ mount_fs' = [fs |-> fs, dev |-> dev]
  /\ tries' = <<>> /\ Goto("check")
  /\ UNCHANGED <<holds, archive, ptr, tree, fb0, init_from, ticks, resched>>

(* install_mount_disk_root: one mount_do_mount.  A device may fail to read. *)
TryMount(works) ==
  /\ stage = "mount" /\ tries # <<>>
  /\ LET dev == Head(tries)[1]
         fs == Head(tries)[2]
     IN IF works /\ holds[dev].fs = fs
        THEN mount_fs' = [fs |-> fs, dev |-> dev] /\ tries' = <<>> /\ Goto("check")
        ELSE UNCHANGED <<mount_fs, stage>> /\ tries' = Tail(tries)
  /\ UNCHANGED <<holds, archive, ptr, tree, fb0, init_from, ticks, resched>>

NoDisk ==
  /\ stage = "mount" /\ tries = <<>> /\ Goto("ramfs")
  /\ UNCHANGED <<holds, tries, mount_fs, archive, ptr, tree, fb0, init_from, ticks, resched>>

\* Mutant of CheckInstalled: a disk without /init stays mounted.
CheckKeepsDisk(works) ==
  /\ stage = "check"
  /\ Goto(IF works /\ holds[mount_fs.dev].init THEN "dev" ELSE "ramfs")
  /\ UNCHANGED <<holds, tries, mount_fs, archive, ptr, tree, fb0, init_from, ticks, resched>>

(* install_check_disk_installed, and mount_do_unmount when /init is not     *)
(* found there.  Unmounting succeeds: nothing else refers to the root.      *)
CheckInstalled(works) ==
  /\ stage = "check"
  /\ IF works /\ holds[mount_fs.dev].init
     THEN Goto("dev") /\ UNCHANGED mount_fs
     ELSE Goto("ramfs") /\ mount_fs' = NoMount
  /\ UNCHANGED <<holds, tries, archive, ptr, tree, fb0, init_from, ticks, resched>>

(* mount_do_mount of the RAM file system: refused while "/" is taken. *)
MountRamfs ==
  /\ stage = "ramfs"
  /\ mount_fs' = IF mount_fs = NoMount THEN [fs |-> "ramfs", dev |-> "none"] ELSE mount_fs
  /\ Goto(IF mount_fs = NoMount THEN "untar" ELSE "dev")
  /\ UNCHANGED <<holds, tries, archive, ptr, tree, fb0, init_from, ticks, resched>>

------------------------------------------------------------------------------
(* tar_extract. *)
IsDir(t, path) == path = <<>> \/ (path \in DOMAIN t /\ t[path].dir)
PathsTo(path) == {SubSeq(path, 1, n) : n \in 1 .. Len(path)}
With(t, path, node) == [p \in DOMAIN t \cup {path} |-> IF p = path THEN node ELSE t[p]]

(* mkdir_p: creates what is missing; stops, with nothing below it, at a     *)
(* component that is a file.                                                *)
mkdir_p(t, path) ==
  LET blocked == \E p \in PathsTo(path) : p \in DOMAIN t /\ ~t[p].dir
      new == {p \in PathsTo(path) : p \notin DOMAIN t}
  IN [ok |-> ~blocked,
      tree |-> IF blocked THEN t
               ELSE [p \in DOMAIN t \cup new |-> IF p \in new THEN [dir |-> TRUE, size |-> 0]
                                                 ELSE t[p]]]

(* What an entry leaves below its parent: an existing name is kept as it    *)
(* is, whatever its type.                                                   *)
Placed(t, hdr) ==
  IF hdr.name \in DOMAIN t THEN t
  ELSE With(t, hdr.name, [dir |-> hdr.dir, size |-> IF hdr.dir THEN 0 ELSE hdr.size])

TarStep ==
  LET hdr == archive[ptr]
      parent == mkdir_p(tree, Front(hdr.name))
  IN /\ stage = "untar" /\ ptr <= Len(archive) /\ hdr.kind # "end"
     /\ IF hdr.name = <<>> THEN ptr' = ptr + 1 /\ UNCHANGED <<tree, stage>>
        ELSE IF ~parent.ok THEN Goto("dev") /\ UNCHANGED <<tree, ptr>>
        ELSE /\ tree' = Placed(parent.tree, hdr)
             /\ ptr' = ptr + 1 + BlocksOf(hdr.size)
             /\ UNCHANGED stage
     /\ UNCHANGED <<holds, tries, mount_fs, archive, fb0, init_from, ticks, resched>>

TarEnds ==
  /\ stage = "untar"
  /\ ptr > Len(archive) \/ archive[ptr].kind = "end"
  /\ Goto("dev")
  /\ UNCHANGED <<holds, tries, mount_fs, archive, ptr, tree, fb0, init_from, ticks, resched>>

------------------------------------------------------------------------------
(* /dev and /dev/fb0: FAT and EXT2 cannot hold a device node. *)
MakeDev ==
  /\ stage = "dev"
  /\ IF mount_fs.fs = "ramfs"
     THEN LET dev == mkdir_p(tree, <<"dev">>) IN
          /\ fb0' = (dev.ok /\ <<"dev", "fb0">> \notin DOMAIN tree)
          /\ tree' = IF dev.ok THEN With(dev.tree, <<"dev", "fb0">>, [dir |-> FALSE, size |-> 0])
                     ELSE tree
     ELSE UNCHANGED <<fb0, tree>>
  /\ Goto("exec")
  /\ UNCHANGED <<holds, tries, mount_fs, archive, ptr, init_from, ticks, resched>>

HasInit == IF mount_fs.fs = "ramfs" THEN <<"init">> \in DOMAIN tree
           ELSE holds[mount_fs.dev].init

(* exec_elf_vnode(/init), or the embedded image when there is no /init; an  *)
(* image that does not load is only logged.                                 *)
ExecInit(loads) ==
  /\ stage = "exec"
  /\ init_from' = IF ~loads THEN "failed" ELSE IF HasInit THEN mount_fs.fs ELSE "embedded"
  /\ Goto("start")
  /\ UNCHANGED <<holds, tries, mount_fs, archive, ptr, tree, fb0, ticks, resched>>

(* The serial thread is created and sched_start takes over. *)
StartScheduler ==
  /\ stage = "start" /\ Goto("running")
  /\ UNCHANGED <<holds, tries, mount_fs, archive, ptr, tree, fb0, init_from, ticks, resched>>

(* pit_handler: nothing sleeps yet, so a tick only asks for a reschedule,   *)
(* which nothing in start-up acts on.                                       *)
BootTick ==
  /\ stage \notin {"interrupts", "running", "lost"} /\ ticks < MaxTicks
  /\ ticks' = ticks + 1 /\ resched' = TRUE
  /\ UNCHANGED <<stage, holds, tries, mount_fs, archive, ptr, tree, fb0, init_from>>

(* Enter on the keyboard: the handler yields, and ksched_yield leaves       *)
(* start-up, which is no thread, for the idle thread or the first process.  *)
(* Start-up is never resumed, and the keyboard's end of interrupt never     *)
(* sent.  Before sched_init the run queue is not a list yet: the yield      *)
(* works on whatever lies at address 0, and may or may not come back.       *)
BootEnter ==
  /\ stage \notin {"interrupts", "running", "lost"}
  /\ Goto("lost") \/ (stage = "sched" /\ UNCHANGED stage)
  /\ UNCHANGED <<holds, tries, mount_fs, archive, ptr, tree, fb0, init_from, ticks, resched>>

BootStep ==
  \/ Drivers \/ SchedInit \/ (\E works \in BOOLEAN : TryMount(works) \/ CheckInstalled(works))
  \/ NoDisk \/ MountRamfs \/ TarStep \/ TarEnds \/ MakeDev
  \/ (\E loads \in BOOLEAN : ExecInit(loads)) \/ StartScheduler

BootNext == BootStep \/ BootTick \/ BootEnter

BootSpec == BootInit /\ [][BootNext]_bootVars

------------------------------------------------------------------------------
(* tar_extract only ever takes header blocks for headers: entries and their *)
(* padded data are skipped exactly.                                         *)
TarReadsHeaders == stage = "untar" /\ ptr <= Len(archive) => archive[ptr].kind # "data"

Headers == {i \in 1 .. Len(archive) : archive[i].kind = "header" /\ archive[i].name # <<>>}

(* An archive that was read to its end is unpacked: each name is there with *)
(* its first entry's type and size, below directories only.  The exception  *)
(* is a directory listed after an entry inside it, which exists already.    *)
ArchiveUnpacked ==
  stage \in {"exec", "start", "running"} /\ mount_fs.fs = "ramfs"
  /\ archive[ptr].kind = "end" =>
     /\ \A i \in Headers :
          /\ archive[i].name \in DOMAIN tree
          /\ (\A j \in Headers : j < i => archive[i].name \notin PathsTo(archive[j].name)) =>
               tree[archive[i].name] = [dir |-> archive[i].dir,
                                        size |-> IF archive[i].dir THEN 0 ELSE archive[i].size]
     /\ \A p \in DOMAIN tree : IsDir(tree, Front(p))

(* When the scheduler starts there is a root file system; it is the disk's  *)
(* only if /init was found there, so a blank disk never hides the embedded  *)
(* system; and the first process comes from the root that is mounted.       *)
BootEndsWithRoot ==
  stage = "running" =>
     /\ mount_fs # NoMount
     /\ mount_fs.fs # "ramfs" => holds[mount_fs.dev].init
     /\ init_from \in {mount_fs.fs, "failed"} \cup (IF HasInit THEN {} ELSE {"embedded"})

(* What start-up hands to the scheduler: an archive that was read header by *)
(* header and unpacked whole, a root, and a first process from it.          *)
BootSound == TarReadsHeaders /\ ArchiveUnpacked /\ BootEndsWithRoot
=============================================================================

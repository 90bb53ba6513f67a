------------------------- MODULE ProcessDiskProofs -------------------------
(***************************************************************************)
(* Two components that share nothing.                                      *)
(*                                                                         *)
(* The process table: waitpid's pointer, descriptors, exit codes and the   *)
(* shell's children, for any table size.                                   *)
(*                                                                         *)
(* The disk under the file systems, for every partition table, every size  *)
(* the drive may report and any number of power failures: partitions lie   *)
(* apart, transfers stay inside them, and a reported write is durable.     *)
(***************************************************************************)
EXTENDS Process, Disk, TLAPS

\* What a process in waitpid holds on to: the child keeps its slot, its number
\* and its parent's pid, and only that parent can reap it.
WaitInv ==
    /\ \A p \in Pids : alive[p] => g_proc_used[p]
    /\ \A p \in Pids : waiting[p] # 0 =>
          /\ alive[p]
          /\ g_proc_used[waiting[p]]
          /\ ppid[waiting[p]] = p
          /\ born[waiting[p]] = target[p]

Inv == TypeOK /\ WaitInv /\ NoOrphanDescriptors

\* The table that holds init alone satisfies the invariant.
LEMMA InitInv == Init => Inv
BY ProcessAssumption DEF Init, Inv, TypeOK, WaitInv, NoOrphanDescriptors, Pids

\* Every step of every process keeps the invariant.
LEMMA NextInv == Inv /\ [Next]_vars => Inv'
PROOF
<1> SUFFICES ASSUME Inv, [Next]_vars PROVE Inv'
  OBVIOUS
<1> USE ProcessAssumption
<1>t. TypeOK /\ WaitInv /\ NoOrphanDescriptors
  BY DEF Inv
<1>w. \A q \in Pids : waiting[q] # 0 => waiting[q] \in Pids
  <2>1. \A n \in 0..MAX_PROCS : n # 0 => n \in Pids
    BY DEF Pids
  <2> QED BY <1>t, <2>1 DEF TypeOK
<1>p. \A q \in Pids : q \in 0..MAX_PROCS
  BY DEF Pids
<1>1. CASE UNCHANGED vars
  BY <1>1, <1>t DEF Inv, TypeOK, WaitInv, NoOrphanDescriptors, vars, table, files, history
<1>2. ASSUME NEW p \in Pids, Execve(p) PROVE Inv'
  <2>1. PICK c \in Pids : FirstFree(c)
            /\ g_proc_used' = [g_proc_used EXCEPT ![c] = TRUE]
            /\ alive' = [alive EXCEPT ![c] = TRUE]
            /\ ppid' = [ppid EXCEPT ![c] = p]
            /\ exit_code' = [exit_code EXCEPT ![c] = 0]
            /\ born' = [born EXCEPT ![c] = births + 1]
            /\ parent' = [parent EXCEPT ![c] = born[p]]
    BY <1>2, Zenon DEF Execve
  <2>2. ~g_proc_used[c] /\ births < MaxBorn /\ births' = births + 1
    BY <1>2, <2>1 DEF Execve, FirstFree, FreeSlots
  <2>3. UNCHANGED <<g_fd_tables_used, fds, waiting, target>>
    BY <1>2 DEF Execve, files
  <2>4. TypeOK'
    <3>1. births' \in 0..MaxBorn /\ births + 1 \in 0..MaxBorn /\ born[p] \in 0..MaxBorn
      BY <1>t, <2>2 DEF TypeOK
    <3>2. p \in 0..MAX_PROCS
      BY <1>p
    <3> QED BY <1>t, <2>1, <2>3, <3>1, <3>2 DEF TypeOK
  <2>5. \A q \in Pids : q # c =>
            /\ g_proc_used'[q] = g_proc_used[q] /\ alive'[q] = alive[q]
            /\ ppid'[q] = ppid[q] /\ born'[q] = born[q]
    BY <1>t, <2>1 DEF TypeOK
  <2>6. g_proc_used'[c] /\ alive'[c]
    BY <1>t, <2>1 DEF TypeOK
  <2>7. \A q \in Pids : waiting[q] # 0 => waiting[q] # c /\ q # c
    BY <1>t, <2>2 DEF WaitInv
  <2>8. WaitInv'
    BY <1>t, <1>w, <2>3, <2>5, <2>6, <2>7 DEF WaitInv
  <2>9. NoOrphanDescriptors'
    BY <1>t, <2>2, <2>3, <2>5, <2>6 DEF NoOrphanDescriptors
  <2> QED BY <2>4, <2>8, <2>9 DEF Inv
<1>3. ASSUME NEW p \in Pids, NEW code \in Codes, Exit(p, code) PROVE Inv'
  <2>1. /\ g_proc_used[p] /\ waiting[p] = 0
        /\ alive' = [alive EXCEPT ![p] = FALSE]
        /\ exit_code' = [exit_code EXCEPT ![p] = code]
        /\ UNCHANGED <<g_proc_used, ppid, waiting, g_fd_tables_used, fds>>
        /\ UNCHANGED <<born, parent, target, births>>
    BY <1>3 DEF Exit, Runs, files, history
  <2>2. TypeOK' /\ NoOrphanDescriptors'
    BY <1>t, <2>1 DEF TypeOK, NoOrphanDescriptors
  <2>3. \A q \in Pids : (q # p => alive'[q] = alive[q]) /\ ~alive'[p]
    BY <1>t, <2>1, Zenon DEF TypeOK
  <2>4. WaitInv'
    BY <1>t, <2>1, <2>3 DEF WaitInv
  <2> QED BY <2>2, <2>4 DEF Inv
<1>4. ASSUME NEW p \in Pids, NEW c \in Pids, Waitpid(p, c) PROVE Inv'
  <2>1. /\ alive[p] /\ g_proc_used[c] /\ ppid[c] = p
        /\ waiting' = [waiting EXCEPT ![p] = c]
        /\ target' = [target EXCEPT ![p] = born[c]]
        /\ UNCHANGED <<g_proc_used, alive, ppid, exit_code, g_fd_tables_used, fds>>
        /\ UNCHANGED <<born, parent, births>>
    BY <1>4 DEF Waitpid, IsChild, Runs, table, files
  <2>2. TypeOK' /\ NoOrphanDescriptors'
    <3>1. c \in 0..MAX_PROCS /\ born[c] \in 0..MaxBorn
      BY <1>t, <1>p DEF TypeOK
    <3> QED BY <1>t, <2>1, <3>1 DEF TypeOK, NoOrphanDescriptors
  <2>3. /\ \A q \in Pids : q # p => waiting'[q] = waiting[q] /\ target'[q] = target[q]
        /\ waiting'[p] = c /\ target'[p] = born[c]
    BY <1>t, <2>1 DEF TypeOK
  <2>4. WaitInv'
    BY <1>t, <2>1, <2>3 DEF WaitInv
  <2> QED BY <2>2, <2>4 DEF Inv
<1>5. ASSUME NEW p \in Pids, WaitDone(p) PROVE Inv'
  <2> DEFINE c == waiting[p]
  <2>1. c \in Pids /\ ~alive[c] /\ ppid[c] = p
    BY <1>5, <1>t, <1>w DEF WaitDone, WaitInv
  <2>2. TypeOK'
    BY <1>5, <1>t, <2>1 DEF WaitDone, TypeOK, history
  <2>3. WaitInv'
    <3>1. \A q \in Pids : waiting'[q] # 0 => waiting'[q] = waiting[q] /\ q # p
      BY <1>5, <1>t DEF WaitDone, TypeOK
    <3>2. \A q \in Pids : waiting'[q] # 0 => waiting[q] # c
      BY <1>t, <2>1, <3>1 DEF WaitInv
    <3>3. \A q \in Pids : q # c => g_proc_used'[q] = g_proc_used[q] /\ ppid'[q] = ppid[q]
      BY <1>5, <1>t DEF WaitDone, TypeOK
    <3>5. UNCHANGED <<alive, born, target>>
      BY <1>5 DEF WaitDone, history
    <3> HIDE DEF c
    <3> QED BY <1>t, <2>1, <1>w, <3>1, <3>2, <3>3, <3>5 DEF WaitInv
  <2>4. NoOrphanDescriptors'
    BY <1>5, <1>t, <2>1 DEF WaitDone, TypeOK, NoOrphanDescriptors
  <2> QED BY <2>2, <2>3, <2>4 DEF Inv
<1>6. ASSUME NEW p \in Pids, WaitCopyFails(p) PROVE Inv'
  <2>1. /\ waiting' = [waiting EXCEPT ![p] = 0]
        /\ UNCHANGED <<g_proc_used, alive, ppid, exit_code>>
        /\ UNCHANGED <<g_fd_tables_used, fds, born, parent, target, births>>
    BY <1>6 DEF WaitCopyFails, table, files, history
  <2>2. TypeOK' /\ NoOrphanDescriptors'
    BY <1>t, <2>1 DEF TypeOK, NoOrphanDescriptors
  <2>3. \A q \in Pids : waiting'[q] # 0 => waiting'[q] = waiting[q]
    BY <1>t, <2>1 DEF TypeOK
  <2>4. WaitInv'
    BY <1>t, <2>1, <2>3 DEF WaitInv
  <2> QED BY <2>2, <2>4 DEF Inv
<1>7. ASSUME NEW p \in Pids, Open(p) PROVE Inv'
  BY <1>7, <1>t DEF Open, Runs, FdTable, FreeFds, Inv, TypeOK, WaitInv, NoOrphanDescriptors,
      table, history
<1>8. ASSUME NEW p \in Pids, NEW fd \in 3..FD_MAX-1, Close(p, fd) PROVE Inv'
  BY <1>8, <1>t DEF Close, Runs, FdTable, Inv, TypeOK, WaitInv, NoOrphanDescriptors,
      table, history
<1> QED
  BY <1>1, <1>2, <1>3, <1>4, <1>5, <1>6, <1>7, <1>8 DEF Next, ProcessStep

\* The inductive invariant holds in every reachable state.
THEOREM ProcessInvariant == Spec => []Inv
BY InitInv, NextInv, PTL DEF Spec

\* The slot waitpid points to while it yields (SYS_waitpid) still holds the
\* process that was looked up, whoever else runs, exits, reaps or starts.
THEOREM ProcessWaitStable == Spec => []WaitTargetStable
PROOF
<1>1. Inv => WaitTargetStable
  BY DEF Inv, WaitInv, WaitTargetStable
<1> QED BY <1>1, ProcessInvariant, PTL

\* The reap in SYS_waitpid leaves no open file behind for the next process that
\* gets the pid.
THEOREM ProcessDescriptors == Spec => []NoOrphanDescriptors
PROOF
<1>1. Inv => NoOrphanDescriptors
  BY DEF Inv
<1> QED BY <1>1, ProcessInvariant, PTL

\* Between exit and reap neither the status nor the owner of a slot changes.
THEOREM ProcessExitCode == Spec => ExitCodeKept
PROOF
<1> DEFINE Kept == \A p \in Pids : g_proc_used[p] /\ ~alive[p] /\ g_proc_used'[p] =>
                      born'[p] = born[p] /\ exit_code'[p] = exit_code[p]
<1>1. Inv /\ [Next]_vars => [Kept]_vars
  <2> SUFFICES ASSUME Inv, Next PROVE Kept
    OBVIOUS
  <2>1. TypeOK /\ WaitInv
    BY DEF Inv
  <2>2. PICK q \in Pids : ProcessStep(q)
    BY DEF Next
  <2>3. CASE Execve(q)
    BY <2>1, <2>3 DEF Execve, FirstFree, FreeSlots, TypeOK
  <2>4. CASE \E code \in Codes : Exit(q, code)
    BY <2>1, <2>4 DEF Exit, Runs, TypeOK, history
  <2>5. CASE WaitDone(q)
    <3>1. waiting[q] \in Pids
      BY <2>1, <2>5 DEF WaitDone, TypeOK, Pids
    <3> QED BY <2>1, <2>5, <3>1 DEF WaitDone, TypeOK, history
  <2>6. CASE \E c \in Pids : Waitpid(q, c)
    BY <2>6 DEF Waitpid, table
  <2>7. CASE WaitCopyFails(q) \/ Open(q) \/ \E fd \in 3..FD_MAX-1 : Close(q, fd)
    BY <2>7 DEF WaitCopyFails, Open, Close, table, history
  <2> QED BY <2>2, <2>3, <2>4, <2>5, <2>6, <2>7 DEF ProcessStep
<1> QED BY <1>1, ProcessInvariant, PTL DEF Spec, ExitCodeKept

\* init keeps slot 1, and only process 1 ever writes pid 1 as a parent.
ShellInv ==
    /\ 1 \in Pids /\ g_proc_used[1] /\ ppid[1] = 0
    /\ births # 0
    /\ \A p \in Pids : born[p] = 1 <=> p = 1
    /\ \A p \in Pids : ppid[p] = 1 => parent[p] = 1

\* What waitpid points to is a slot of the table.
LEMMA WaitedPid ==
    ASSUME TypeOK, NEW p \in Pids, waiting[p] # 0
    PROVE  waiting[p] \in Pids
PROOF
<1>1. \A n \in 0..MAX_PROCS : n # 0 => n \in Pids
  BY ProcessAssumption DEF Pids
<1> QED BY <1>1 DEF TypeOK

\* SYS_waitpid of init, the shell, waits only for programs the shell started,
\* however pids are reused around it.
THEOREM ProcessShellChildren == Spec => []ShellWaitsOnlyForChildren
PROOF
<1>1. Init => ShellInv
  <2>1. 1 \in Pids
    BY ProcessAssumption DEF Pids
  <2>2. Init => g_proc_used[1]
    BY <2>1, Zenon DEF Init
  <2> QED BY <2>1, <2>2 DEF Init, ShellInv
<1>2. Inv /\ ShellInv /\ [Next]_vars => ShellInv'
  <2> SUFFICES ASSUME Inv, ShellInv, [Next]_vars PROVE ShellInv'
    OBVIOUS
  <2>1. TypeOK /\ WaitInv
    BY DEF Inv
  <2>2. CASE UNCHANGED vars
    BY <2>2 DEF ShellInv, vars, table, history
  <2>3. ASSUME NEW q \in Pids, Execve(q) PROVE ShellInv'
    <3>1. PICK c \in Pids : FirstFree(c)
              /\ g_proc_used' = [g_proc_used EXCEPT ![c] = TRUE]
              /\ ppid' = [ppid EXCEPT ![c] = q]
              /\ born' = [born EXCEPT ![c] = births + 1]
              /\ parent' = [parent EXCEPT ![c] = born[q]]
      BY <2>3, Zenon DEF Execve
    <3>2. c # 1
      BY <3>1 DEF FirstFree, FreeSlots, ShellInv
    <3>3. births' = births + 1 /\ births + 1 # 1 /\ births + 1 # 0
      BY <2>1, <2>3 DEF Execve, TypeOK, ShellInv
    <3> QED BY <2>1, <3>1, <3>2, <3>3 DEF ShellInv, TypeOK
  <2>4. ASSUME NEW q \in Pids, \E code \in Codes : Exit(q, code) PROVE ShellInv'
    BY <2>4 DEF Exit, ShellInv, history
  <2>5. ASSUME NEW q \in Pids, \E c \in Pids : Waitpid(q, c) PROVE ShellInv'
    BY <2>5 DEF Waitpid, ShellInv, table
  <2>6. ASSUME NEW q \in Pids, WaitDone(q) PROVE ShellInv'
    <3>1. waiting[q] \in Pids /\ waiting[q] # 1
      <4>1. q # 0
        BY DEF Pids
      <4> QED BY <2>1, <2>6, <4>1, WaitedPid DEF WaitDone, WaitInv, ShellInv
    <3> QED BY <2>1, <2>6, <3>1 DEF WaitDone, TypeOK, ShellInv, history
  <2>7. ASSUME NEW q \in Pids, WaitCopyFails(q) \/ Open(q) \/ \E fd \in 3..FD_MAX-1 : Close(q, fd)
        PROVE  ShellInv'
    BY <2>7 DEF WaitCopyFails, Open, Close, table, history, ShellInv
  <2> QED BY <2>2, <2>3, <2>4, <2>5, <2>6, <2>7 DEF Next, ProcessStep
<1>3. Inv /\ ShellInv => ShellWaitsOnlyForChildren
  <2> SUFFICES ASSUME Inv, ShellInv, NEW p \in Pids, born[p] = 1, waiting[p] # 0
               PROVE  parent[waiting[p]] = 1
    BY DEF ShellWaitsOnlyForChildren
  <2>1. waiting[p] \in Pids
    BY WaitedPid DEF Inv
  <2> QED BY <2>1 DEF Inv, WaitInv, ShellInv
<1> QED BY <1>1, <1>2, <1>3, ProcessInvariant, PTL DEF Spec

-----------------------------------------------------------------------------
(* partition_scan.                                                         *)

\* The overlap test of partition_scan is the same whichever entry comes first.
LEMMA OverlapSymmetric ==
    ASSUME NEW e, NEW f
    PROVE  Overlaps(e, f) <=> Overlaps(f, e)
  BY DEF Overlaps

Slots == 1 .. 4

\* The slots accepted so far are usable and lie apart.
Apart(S) ==
    /\ S \subseteq Slots
    /\ \A i \in S : Usable(mbr[i])
    /\ \A i, j \in S : i # j => ~Overlaps(mbr[i], mbr[j])

\* One slot of the scan: it joins only if it is usable and overlaps no other.
LEMMA AcceptApart ==
    ASSUME NEW S, NEW i \in Slots, Apart(S)
    PROVE  Apart(Accept(S, i))
  BY OverlapSymmetric DEF Apart, Accept

\* The slots the scan registers are usable and lie apart.
LEMMA AcceptedApart == Apart(Accepted)
<1>1. Apart({}) /\ 1 \in Slots /\ 2 \in Slots /\ 3 \in Slots /\ 4 \in Slots
  BY DEF Apart, Slots
<1>2. Apart(Accept({}, 1))
  BY <1>1, AcceptApart
<1>3. Apart(Accept(Accept({}, 1), 2))
  BY <1>1, <1>2, AcceptApart
<1>4. Apart(Accept(Accept(Accept({}, 1), 2), 3))
  BY <1>1, <1>3, AcceptApart
<1> QED
  BY <1>1, <1>4, AcceptApart DEF Accepted

\* What the table of devices holds after some of the slots were registered: the
\* disk, and partitions under the names of accepted slots.
Registered(devs, S) ==
    /\ "hd0" \in DOMAIN devs
    /\ devs["hd0"] = devices["hd0"]
    /\ \A d \in DOMAIN devs \ {"hd0"} : \E i \in S \cap Accepted :
          /\ d = PartitionName[i]
          /\ devs[d] = [start |-> mbr[i].start, count |-> mbr[i].count]

\* The four names are those of four devices, none of them the disk's.
LEMMA NamesDiffer ==
    /\ \A i \in Slots : PartitionName[i] # "hd0"
    /\ \A i, j \in Slots : PartitionName[i] = PartitionName[j] => i = j
  BY DEF PartitionName, Slots

\* Registering one more slot.
LEMMA RegisterOne ==
    ASSUME NEW devs, NEW S \in SUBSET Slots, NEW i \in Slots, Registered(devs, S)
    PROVE  Registered(RegisterPartition(devs, i), S \cup {i})
<1> DEFINE r == [start |-> mbr[i].start, count |-> mbr[i].count]
<1>1. CASE i \notin Accepted
  BY <1>1 DEF RegisterPartition, Registered
<1>2. CASE i \in Accepted /\ PartitionName[i] \in DOMAIN devs
  BY <1>2 DEF RegisterPartition, blockdev_register, Registered
<1>3. CASE i \in Accepted /\ PartitionName[i] \notin DOMAIN devs
  <2> DEFINE new == RegisterPartition(devs, i)
  <2>1. /\ DOMAIN new = DOMAIN devs \cup {PartitionName[i]}
        /\ new[PartitionName[i]] = r
        /\ \A d \in DOMAIN devs : new[d] = devs[d]
    BY <1>3 DEF RegisterPartition, blockdev_register
  <2> HIDE DEF new, r
  <2>2. "hd0" \in DOMAIN new /\ new["hd0"] = devices["hd0"]
    BY <2>1 DEF Registered
  <2>3. ASSUME NEW d \in DOMAIN new \ {"hd0"}
        PROVE  \E j \in (S \cup {i}) \cap Accepted :
                  /\ d = PartitionName[j]
                  /\ new[d] = [start |-> mbr[j].start, count |-> mbr[j].count]
    BY <1>3, <2>1 DEF Registered, r
  <2> QED
    BY <2>2, <2>3 DEF Registered, new
<1> QED
  BY <1>1, <1>2, <1>3

\* partition_scan registers partitions that lie inside the disk and apart.
LEMMA ScanInv ==
    ASSUME DiskInv, partition_scan
    PROVE  DevicesInv'
<1>1. /\ "hd0" \in DOMAIN devices /\ ~g_partition_disk /\ g_partition_disk'
      /\ UNCHANGED <<mbr, g_ata_sector_count>>
      /\ devices' = RegisterPartition(RegisterPartition(
                      RegisterPartition(RegisterPartition(devices, 1), 2), 3), 4)
  BY DEF partition_scan
<1>2. Registered(devices, {})
  BY <1>1 DEF DiskInv, DevicesInv, Registered
<1>3. Registered(devices', {} \cup {1} \cup {2} \cup {3} \cup {4})
  <2>0. 1 \in Slots /\ 2 \in Slots /\ 3 \in Slots /\ 4 \in Slots
    BY DEF Slots
  <2>1. Registered(RegisterPartition(devices, 1), {} \cup {1})
    BY <1>2, <2>0, RegisterOne
  <2>2. Registered(RegisterPartition(RegisterPartition(devices, 1), 2), {} \cup {1} \cup {2})
    BY <2>0, <2>1, RegisterOne
  <2>3. Registered(RegisterPartition(RegisterPartition(RegisterPartition(devices, 1), 2), 3),
                   {} \cup {1} \cup {2} \cup {3})
    BY <2>0, <2>2, RegisterOne
  <2> QED
    BY <1>1, <2>0, <2>3, RegisterOne
<1>4. /\ g_ata_sector_count \in Nat \ {0} /\ g_ata_sector_count <= LBA28_LIMIT
      /\ \A i \in Slots : mbr[i].start \in Nat /\ mbr[i].count \in Nat
  BY <1>1, DiskAssumption DEF DiskInv, DevicesInv, Slots
<1>5. /\ "hd0" \in DOMAIN devices'
      /\ devices'["hd0"] = [start |-> 0, count |-> g_ata_sector_count]
  BY <1>1, <1>3 DEF Registered, DiskInv, DevicesInv
<1>6. ASSUME NEW d \in DOMAIN devices' \ {"hd0"}
      PROVE  \E i \in Accepted :
               /\ d = PartitionName[i]
               /\ devices'[d] = [start |-> mbr[i].start, count |-> mbr[i].count]
  BY <1>3 DEF Registered
<1>7. ASSUME NEW d \in DOMAIN devices' \ {"hd0"}
      PROVE  /\ devices'[d].start \in Nat \ {0} /\ devices'[d].count \in Nat \ {0}
             /\ devices'[d].start + devices'[d].count <= g_ata_sector_count
  <2>1. PICK i \in Accepted :
            devices'[d] = [start |-> mbr[i].start, count |-> mbr[i].count]
    BY <1>6
  <2>2. i \in Slots /\ Usable(mbr[i])
    BY AcceptedApart DEF Apart
  <2> QED
    BY <1>4, <2>1, <2>2 DEF Usable
<1>8. ASSUME NEW d \in DOMAIN devices' \ {"hd0"}, NEW e \in DOMAIN devices' \ {"hd0", d}
      PROVE  ~Overlaps(devices'[d], devices'[e])
  <2>1. PICK i \in Accepted :
            /\ d = PartitionName[i]
            /\ devices'[d] = [start |-> mbr[i].start, count |-> mbr[i].count]
    BY <1>6
  <2>2. PICK j \in Accepted :
            /\ e = PartitionName[j]
            /\ devices'[e] = [start |-> mbr[j].start, count |-> mbr[j].count]
    BY <1>6
  <2>3. i # j
    BY <2>1, <2>2
  <2> QED
    BY <2>1, <2>2, <2>3, AcceptedApart DEF Apart, Overlaps
<1> QED
  BY <1>1, <1>4, <1>5, <1>7, <1>8 DEF DevicesInv

-----------------------------------------------------------------------------
(* Each step keeps the invariant.                                          *)

\* The first step: nothing registered, nothing written.
LEMMA DiskInitInv == DiskInit => DiskInv
  BY DiskAssumption DEF DiskInit, DiskInv, DevicesInv, TransferInv, ContentsInv,
     SectorContents

\* Without a disk there is no transfer.
LEMMA NoDiskNoTransfer ==
    ASSUME DiskInv, DOMAIN devices = {}
    PROVE  io = NoIO
  BY DEF DiskInv, TransferInv

\* ata_init: the identified disk is registered as a whole.
LEMMA IdentifyInv ==
    ASSUME DiskInv, ata_init
    PROVE  DiskInv'
<1>1. /\ g_ata_sector_count = 0 /\ g_ata_sector_count' = Clamped(size)
      /\ devices' = blockdev_register(devices, "hd0",
                                      [start |-> 0, count |-> Clamped(size)])
      /\ UNCHANGED <<mbr, size, platter, cache, g_partition_disk, io, allowed, losses>>
      /\ size > 0
  BY DEF ata_init
<1>2. DOMAIN devices = {}
  BY <1>1 DEF DiskInv, DevicesInv
<1>3. Clamped(size) \in 1 .. LBA28_LIMIT
  BY <1>1, DiskAssumption DEF Clamped, DiskInv
<1>4. /\ DOMAIN devices' = {"hd0"}
      /\ devices'["hd0"] = [start |-> 0, count |-> Clamped(size)]
  BY <1>1, <1>2 DEF blockdev_register
<1>5. DevicesInv'
  BY <1>1, <1>3, <1>4 DEF DevicesInv
<1>6. TransferInv' /\ ContentsInv'
  BY <1>1, <1>2, NoDiskNoTransfer, Zenon DEF DiskInv, TransferInv, ContentsInv
<1> QED
  BY <1>1, <1>5, <1>6 DEF DiskInv

\* Where a registered device lies, seen from the disk.
LEMMA DeviceFacts ==
    ASSUME DiskInv, NEW d \in DOMAIN devices
    PROVE  /\ devices[d].start \in Nat /\ devices[d].count \in Nat
           /\ devices[d].start + devices[d].count <= g_ata_sector_count
           /\ g_ata_sector_count \in Nat /\ g_ata_sector_count <= LBA28_LIMIT
           /\ LBA28_LIMIT \in Nat
<1>1. g_ata_sector_count \in Nat /\ g_ata_sector_count <= LBA28_LIMIT /\ LBA28_LIMIT \in Nat
  BY DiskAssumption DEF DiskInv, DevicesInv
<1> QED
  BY <1>1 DEF DiskInv, DevicesInv

\* What a request accepted by blockdev_read or blockdev_write sets: the transfer,
\* from sector `at' on, and what a power failure may leave in its sectors.
Started(op, dev, n, v, at) ==
    /\ io' = [op |-> op, dev |-> dev, at |-> at, left |-> n, first |-> at, val |-> v]
    /\ allowed' = [s \in Sectors |->
                     IF op = "write" /\ s >= at /\ s < at + n
                     THEN allowed[s] \cup {v} ELSE allowed[s]]
    /\ UNCHANGED <<mbr, size, platter, cache, g_ata_sector_count, devices,
                   g_partition_disk, losses>>

\* A transfer inside its device keeps the invariant.
LEMMA StartedInv ==
    ASSUME DiskInv, NEW op \in {"read", "write"}, NEW dev \in DOMAIN devices,
           NEW n \in Nat, NEW v \in SectorContents, NEW at \in Nat,
           Started(op, dev, n, v, at),
           devices[dev].start <= at, at + n <= devices[dev].start + devices[dev].count
    PROVE  DiskInv'
<1>1. ContentsInv'
  <2>1. allowed' \in [Sectors -> SUBSET SectorContents]
    BY DEF Started, DiskInv, ContentsInv
  <2>2. \A s \in Sectors : allowed[s] \subseteq allowed'[s]
    BY DEF Started
  <2>3. UNCHANGED <<platter, cache>>
    BY DEF Started
  <2> QED
    BY <2>1, <2>2, <2>3 DEF DiskInv, ContentsInv
<1>2. TransferInv'
  <2>1. io' = [op |-> op, dev |-> dev, at |-> at, left |-> n, first |-> at, val |-> v]
    BY DEF Started
  <2>2. /\ io'.op = op /\ io'.dev = dev /\ io'.at = at /\ io'.left = n /\ io'.first = at
        /\ io'.val = v
        /\ io' \in [op : {"read", "write"}, dev : DOMAIN devices, at : Nat, left : Nat,
                    first : Nat, val : SectorContents]
    BY <2>1
  <2>3. \A s \in Sectors : op = "write" /\ at <= s /\ s < at + n => v \in allowed'[s]
    BY DEF Started, Sectors
  <2>4. \A s \in Sectors : at <= s /\ s < at => FALSE
    BY DiskAssumption DEF Sectors
  <2>5. UNCHANGED <<cache, devices>>
    BY Zenon DEF Started
  <2> QED
    BY <2>2, <2>3, <2>4, <2>5 DEF TransferInv
<1>3. DevicesInv'
  BY DEF Started, DiskInv, DevicesInv
<1>4. UNCHANGED <<mbr, size, g_ata_sector_count, losses>>
  BY DEF Started
<1> QED
  BY <1>1, <1>2, <1>3, <1>4 DEF DiskInv

\* blockdev_read and blockdev_write: a request that passes the range checks is a
\* transfer inside its device.
LEMMA StartInv ==
    ASSUME DiskInv, NEW op \in {"read", "write"}, NEW dev \in DOMAIN devices,
           NEW lba \in Sectors, NEW n \in Counts, NEW v \in SectorContents,
           StartIO(op, dev, lba, n, v)
    PROVE  DiskInv'
<1>1. PICK at \in OnDisk(devices[dev], lba, n) : Started(op, dev, n, v, at)
  BY DEF StartIO, Started
<1>2. lba \in Nat /\ n \in Nat
  BY DiskAssumption DEF Sectors
<1>3. at = devices[dev].start + lba /\ lba < devices[dev].count /\ n <= devices[dev].count - lba
  BY <1>1 DEF OnDisk, InRange
<1>4. /\ at \in Nat /\ devices[dev].start <= at
      /\ at + n <= devices[dev].start + devices[dev].count
  BY <1>2, <1>3, DeviceFacts
<1> QED
  BY <1>1, <1>2, <1>4, StartedInv, Zenon

\* A sector of a write, also the one an error leaves behind, is inside the device
\* and allowed.
LEMMA SectorInside ==
    ASSUME DiskInv, io # NoIO, io.left > 0
    PROVE  /\ io.at \in Sectors
           /\ io.at \in RangeOf(io.dev)
           /\ io.op = "write" => io.val \in allowed[io.at]
<1>1. /\ io.dev \in DOMAIN devices /\ io.at \in Nat /\ io.left \in Nat /\ io.first \in Nat
      /\ io.first <= io.at /\ devices[io.dev].start <= io.first
      /\ io.at + io.left <= devices[io.dev].start + devices[io.dev].count
  BY DEF DiskInv, TransferInv
<1>2. /\ devices[io.dev].start \in Nat /\ devices[io.dev].count \in Nat
      /\ devices[io.dev].start + devices[io.dev].count <= g_ata_sector_count
      /\ g_ata_sector_count \in Nat /\ g_ata_sector_count <= LBA28_LIMIT
      /\ LBA28_LIMIT \in Nat
  BY <1>1, DeviceFacts
<1>3. io.at \in Sectors /\ io.at < io.at + io.left
  BY <1>1, <1>2 DEF Sectors
<1>4. io.at \in RangeOf(io.dev)
  BY <1>1, <1>2 DEF RangeOf
<1> QED
  BY <1>1, <1>3, <1>4 DEF DiskInv, TransferInv

\* One sector of ata_read28 or ata_write28.
LEMMA SectorInv ==
    ASSUME DiskInv, ata_sector
    PROVE  DiskInv'
<1>1. /\ io.op # "none" /\ io.left > 0
      /\ cache' = IF io.op = "write" THEN [cache EXCEPT ![io.at] = io.val] ELSE cache
      /\ io' = IF io.op = "read" /\ io.left = 1 THEN NoIO
               ELSE [io EXCEPT !.at = @ + 1, !.left = @ - 1]
      /\ UNCHANGED <<mbr, size, platter, g_ata_sector_count, devices, g_partition_disk,
                     allowed, losses>>
  BY DEF ata_sector
<1>2. /\ io # NoIO
      /\ io \in [op : {"read", "write"}, dev : DOMAIN devices, at : Nat, left : Nat,
                 first : Nat, val : SectorContents]
  BY <1>1 DEF DiskInv, TransferInv, NoIO
<1>3. io.at \in Sectors /\ (io.op = "write" => io.val \in allowed[io.at])
  BY <1>1, <1>2, SectorInside
<1>4. ContentsInv'
  BY <1>1, <1>2, <1>3 DEF DiskInv, ContentsInv
<1>5. TransferInv'
  <2>1. CASE io.op = "read" /\ io.left = 1
    BY <1>1, <2>1 DEF TransferInv
  <2>2. CASE ~(io.op = "read" /\ io.left = 1)
    <3>1. /\ io'.op = io.op /\ io'.dev = io.dev /\ io'.at = io.at + 1
          /\ io'.left = io.left - 1 /\ io'.first = io.first /\ io'.val = io.val
          /\ io' \in [op : {"read", "write"}, dev : DOMAIN devices, at : Nat, left : Nat,
                      first : Nat, val : SectorContents]
      <4>1. io' = [io EXCEPT !.at = @ + 1, !.left = @ - 1]
        BY <1>1, <2>2
      <4>2. io.at + 1 \in Nat /\ io.left - 1 \in Nat
        BY <1>1, <1>2
      <4> QED
        BY <1>2, <4>1, <4>2, Zenon
    <3>2. /\ io.first <= io.at /\ devices[io.dev].start <= io.first
          /\ io.at + io.left <= devices[io.dev].start + devices[io.dev].count
      BY <1>2 DEF DiskInv, TransferInv
    <3>3. /\ io'.first <= io'.at /\ devices'[io'.dev].start <= io'.first
          /\ io'.at + io'.left = io.at + io.left
      BY <1>1, <1>2, <3>1, <3>2
    <3>4. ASSUME io.op = "write", NEW s \in Sectors
          PROVE  /\ io'.first <= s /\ s < io'.at + io'.left => io.val \in allowed[s]
                 /\ io'.first <= s /\ s < io'.at => cache'[s] = io.val
      <4>1. s < io'.at => s < io.at \/ s = io.at
        BY <1>2, <3>1, DiskAssumption DEF Sectors
      <4>2. /\ s # io.at => cache'[s] = cache[s]
            /\ s = io.at => cache'[s] = io.val
        BY <1>1, <3>4 DEF DiskInv, ContentsInv
      <4> QED
        BY <1>2, <3>1, <3>3, <3>4, <4>1, <4>2 DEF DiskInv, TransferInv
    <3> QED
      <4>1. devices' = devices /\ allowed' = allowed
        BY <1>1
      <4>2. io'.at + io'.left <= devices'[io'.dev].start + devices'[io'.dev].count
        BY <3>1, <3>2, <3>3, <4>1
      <4> QED
        BY <3>1, <3>3, <3>4, <4>1, <4>2 DEF TransferInv
  <2> QED
    BY <2>1, <2>2
<1>6. DevicesInv'
  BY <1>1 DEF DiskInv, DevicesInv
<1> QED
  BY <1>1, <1>4, <1>5, <1>6 DEF DiskInv

\* A wait that ends in an error, in any phase of a transfer.
LEMMA ErrorInv ==
    ASSUME DiskInv, ata_error
    PROVE  DiskInv'
<1>1. /\ io' = NoIO
      /\ UNCHANGED <<mbr, size, platter, g_ata_sector_count, devices, g_partition_disk,
                     allowed, losses>>
      /\ \/ cache' = cache
         \/ io.op = "write" /\ io.left > 0 /\ cache' = [cache EXCEPT ![io.at] = io.val]
  BY DEF ata_error
<1>2. ContentsInv'
  <2>1. CASE cache' = cache
    BY <1>1, <2>1 DEF DiskInv, ContentsInv
  <2>2. CASE io.op = "write" /\ io.left > 0 /\ cache' = [cache EXCEPT ![io.at] = io.val]
    <3>1. io # NoIO
      BY <2>2 DEF NoIO
    <3>2. io.at \in Sectors /\ io.val \in allowed[io.at]
      BY <2>2, <3>1, SectorInside, Zenon
    <3> QED
      BY <1>1, <2>2, <3>2 DEF DiskInv, ContentsInv
  <2> QED
    BY <1>1, <2>1, <2>2
<1>3. DevicesInv' /\ TransferInv'
  BY <1>1 DEF DiskInv, DevicesInv, TransferInv
<1> QED
  BY <1>1, <1>2, <1>3 DEF DiskInv

\* FLUSH, the end of ata_write28: the write is on the platter when it is reported.
LEMMA FlushInv ==
    ASSUME DiskInv, ata_flush
    PROVE  DiskInv'
<1>1. /\ io.op = "write" /\ platter' = cache /\ io' = NoIO
      /\ allowed' = [s \in Sectors |->
                       IF s >= io.first /\ s < io.at THEN {io.val} ELSE allowed[s]]
      /\ UNCHANGED <<mbr, size, cache, g_ata_sector_count, devices, g_partition_disk, losses>>
  BY DEF ata_flush
<1>2. /\ io # NoIO /\ io.val \in SectorContents /\ io.first \in Nat
      /\ \A s \in Sectors : io.first <= s /\ s < io.at => cache[s] = io.val
  <2>1. io # NoIO
    BY <1>1 DEF NoIO
  <2> QED
    BY <1>1, <2>1 DEF DiskInv, TransferInv
<1>3. \A s \in Sectors : s >= io.first <=> io.first <= s
  BY <1>2, DiskAssumption DEF Sectors
<1>4. \A s \in Sectors : cache[s] \in allowed'[s]
  BY <1>1, <1>2, <1>3 DEF DiskInv, ContentsInv
<1>5. allowed' \in [Sectors -> SUBSET SectorContents]
  BY <1>1, <1>2 DEF DiskInv, ContentsInv
<1>6. ContentsInv'
  BY <1>1, <1>4, <1>5, Zenon DEF DiskInv, ContentsInv
<1>7. DevicesInv' /\ TransferInv'
  BY <1>1, Zenon DEF DiskInv, DevicesInv, TransferInv
<1> QED
  BY <1>1, <1>6, <1>7 DEF DiskInv

\* The drive's own moves, and a power failure.
LEMMA DriveInv ==
    ASSUME DiskInv, (\E s \in Sectors : Destage(s)) \/ PowerLoss
    PROVE  DiskInv'
<1>1. CASE \E s \in Sectors : Destage(s)
  <2>1. PICK s \in Sectors : platter' = [platter EXCEPT ![s] = cache[s]]
    BY <1>1, Zenon DEF Destage
  <2>2. UNCHANGED <<mbr, size, cache, g_ata_sector_count, devices, g_partition_disk, io,
                    allowed, losses>>
    BY <1>1 DEF Destage
  <2>3. ContentsInv'
    BY <2>1, <2>2, Zenon DEF DiskInv, ContentsInv
  <2>4. DevicesInv' /\ TransferInv'
    BY <2>2, Zenon DEF DiskInv, DevicesInv, TransferInv
  <2> QED
    BY <2>2, <2>3, <2>4 DEF DiskInv
<1>2. CASE PowerLoss
  <2>1. /\ cache' = platter /\ io' = NoIO /\ losses' = losses + 1
        /\ g_ata_sector_count' = 0 /\ devices' = << >> /\ UNCHANGED <<mbr, size, platter, allowed>>
    BY <1>2, Zenon DEF PowerLoss
  <2>2. ContentsInv' /\ TransferInv'
    BY <2>1 DEF DiskInv, ContentsInv, TransferInv
  <2>3. DevicesInv'
    BY <2>1, DiskAssumption DEF DevicesInv
  <2> QED
    BY <2>1, <2>2, <2>3 DEF DiskInv
<1> QED
  BY <1>1, <1>2

\* One step of disk, driver or power keeps the invariant.
LEMMA DiskNextInv ==
    ASSUME DiskInv, [DiskNext]_diskVars
    PROVE  DiskInv'
<1>1. CASE partition_scan
  <2>1. UNCHANGED <<mbr, size, platter, cache, g_ata_sector_count, io, allowed, losses>>
        /\ io = NoIO
    BY <1>1, Zenon DEF partition_scan
  <2>2. TransferInv' /\ ContentsInv'
    BY <2>1 DEF DiskInv, TransferInv, ContentsInv
  <2> QED
    BY <1>1, <2>1, <2>2, ScanInv DEF DiskInv
<1>2. CASE Request
  <2>1. \A v \in SectorValues \cup {0} : v \in SectorContents
    BY Zenon DEF SectorContents
  <2> QED
    BY <1>2, <2>1, StartInv DEF Request
<1>3. CASE UNCHANGED diskVars
  BY <1>3 DEF diskVars, DiskInv, DevicesInv, TransferInv, ContentsInv
<1> QED
  BY <1>1, <1>2, <1>3, IdentifyInv, SectorInv, ErrorInv, FlushInv, DriveInv DEF DiskNext

\* What disk, driver and partition code rest on holds in every reachable state.
THEOREM DiskInvariant == DiskSpec => []DiskInv
  BY DiskInitInv, DiskNextInv, PTL DEF DiskSpec

-----------------------------------------------------------------------------
(* The property.                                                           *)

\* The invariant's partitions lie inside the disk, off sector 0, and apart.
LEMMA PartitionsApart == DiskInv => PartitionsSound
<1> SUFFICES ASSUME DiskInv, NEW d \in DOMAIN devices \ {"hd0"}
             PROVE  /\ 0 \notin RangeOf(d) /\ RangeOf(d) \subseteq RangeOf("hd0")
                    /\ RangeOf("hd0") \subseteq Sectors
                    /\ \A e \in DOMAIN devices \ {"hd0", d} : RangeOf(d) \cap RangeOf(e) = {}
  BY DEF PartitionsSound
<1>1. /\ devices[d].start \in Nat \ {0} /\ devices[d].count \in Nat \ {0}
      /\ devices[d].start + devices[d].count <= g_ata_sector_count
      /\ g_ata_sector_count \in Nat /\ g_ata_sector_count <= LBA28_LIMIT
      /\ devices["hd0"].start = 0 /\ devices["hd0"].count = g_ata_sector_count
      /\ LBA28_LIMIT \in Nat
  BY DiskAssumption DEF DiskInv, DevicesInv
<1>2. 0 \notin RangeOf(d) /\ RangeOf(d) \subseteq RangeOf("hd0")
  BY <1>1 DEF RangeOf
<1>3. RangeOf("hd0") \subseteq Sectors
  BY <1>1 DEF RangeOf, Sectors
<1>4. ASSUME NEW e \in DOMAIN devices \ {"hd0", d}
      PROVE  RangeOf(d) \cap RangeOf(e) = {}
  <2>1. devices[e].start \in Nat /\ devices[e].count \in Nat /\ ~Overlaps(devices[d], devices[e])
    BY DEF DiskInv, DevicesInv
  <2> QED
    BY <1>1, <2>1 DEF Overlaps, RangeOf
<1> QED
  BY <1>2, <1>3, <1>4

\* Only the sector a transfer is at changes, or all of them in a power failure.
LEMMA StepStaysInside ==
    ASSUME DiskInv, [DiskNext]_diskVars
    PROVE  WritesStayInside
<1> SUFFICES ASSUME NEW s \in Sectors, cache'[s] # cache[s]
             PROVE  losses' # losses \/ s \in RangeOf(io.dev)
  BY DEF WritesStayInside
<1>1. CASE ata_sector \/ ata_error
  <2>1. io.op = "write" /\ io.left > 0 /\ cache' = [cache EXCEPT ![io.at] = io.val]
    BY <1>1 DEF ata_sector, ata_error
  <2>2. s = io.at /\ io # NoIO
    BY <2>1 DEF DiskInv, ContentsInv, NoIO
  <2> QED
    BY <2>1, <2>2, SectorInside
<1>2. CASE PowerLoss
  BY <1>2 DEF PowerLoss, DiskInv
<1>3. ~(ata_init \/ partition_scan \/ Request \/ ata_flush \/ (\E x \in Sectors : Destage(x)))
  BY DEF ata_init, partition_scan, Request, StartIO, ata_flush, Destage
<1>4. ~UNCHANGED diskVars
  BY DEF diskVars
<1> QED
  BY <1>1, <1>2, <1>3, <1>4 DEF DiskNext

\* For every partition table, size and sequence of requests, errors and power
\* failures: partition_scan keeps partitions apart and inside the disk, blockdev
\* transfers change no sector outside their device, and what ata_write28 reported
\* as written is what a later start finds.
THEOREM DiskIsSound == DiskSpec => DiskSound
<1>1. DiskInv => WritesDurable
  BY DEF DiskInv, ContentsInv, WritesDurable
<1>2. DiskInv /\ [DiskNext]_diskVars => WritesStayInside
  BY StepStaysInside
<1> QED
  BY <1>1, <1>2, PartitionsApart, DiskInvariant, PTL DEF DiskSpec, DiskSound

=============================================================================

-------------------------------- MODULE Disk --------------------------------
(***************************************************************************)
(* The ATA disk, the block device table and MBR partitions.  The drive     *)
(* (external) keeps written sectors in a volatile cache until it moves     *)
(* them to the platter by itself or on a FLUSH command; every status poll  *)
(* may end in an error, a time-out or "no device".                         *)
(***************************************************************************)
EXTENDS Naturals, FiniteSets

CONSTANTS ReportedSizes, \* sector counts IDENTIFY may report
          LBA28_LIMIT,   \* ATA_LBA28_SECTOR_LIMIT
          MBRs,          \* partition tables: slot -> [type, status, start, count]
          Counts,        \* sector counts of requests
          SectorValues,  \* bound: contents written to a sector
          MaxLosses      \* bound: power failures

ASSUME DiskAssumption ==
  /\ LBA28_LIMIT \in Nat \ {0} /\ ReportedSizes \subseteq Nat
  /\ MBRs \subseteq [1 .. 4 -> [type : STRING, status : Nat, start : Nat, count : Nat]]
  /\ Counts \subseteq Nat /\ MaxLosses \in Nat

VARIABLES mbr,            \* the partition table on the disk
          size,           \* sectors the drive reports
          platter, cache, \* sector -> contents
          g_ata_sector_count,
          devices,        \* the registered block devices: name -> [start, count]
          g_partition_disk,
          io,             \* the transfer in progress
          allowed,        \* history: sector -> contents a later start may find
          losses

diskVars == <<mbr, size, platter, cache, g_ata_sector_count, devices, g_partition_disk,
              io, allowed, losses>>

Sectors == 0 .. LBA28_LIMIT - 1
NoIO == [op |-> "none", dev |-> "none", at |-> 0, left |-> 0, first |-> 0, val |-> 0]

DiskInit ==
  /\ mbr \in MBRs /\ size \in ReportedSizes
  /\ platter = [s \in Sectors |-> 0] /\ cache = platter
  /\ g_ata_sector_count = 0 /\ devices = << >> /\ g_partition_disk = FALSE
  /\ io = NoIO /\ allowed = [s \in Sectors |-> {0}] /\ losses = 0

------------------------------------------------------------------------------
(* ata_init: identify, clamp the size to what 28 bits address, register.    *)
(* When the drive does not answer nothing is registered.                    *)
Clamped(n) == IF n > LBA28_LIMIT THEN LBA28_LIMIT ELSE n

(* A name is registered once. *)
blockdev_register(devs, name, range) ==
  IF name \in DOMAIN devs THEN devs
  ELSE [d \in DOMAIN devs \cup {name} |-> IF d = name THEN range ELSE devs[d]]

ata_init ==
  /\ g_ata_sector_count = 0 /\ size > 0
  /\ g_ata_sector_count' = Clamped(size)
  /\ devices' = blockdev_register(devices, "hd0", [start |-> 0, count |-> Clamped(size)])
  /\ UNCHANGED <<mbr, size, platter, cache, g_partition_disk, io, allowed, losses>>

(* partition_scan: slots in order; an entry that is empty, of an extended   *)
(* type, out of range or overlapping an accepted one is skipped.            *)
Usable(e) ==
  /\ e.type # "empty" /\ e.count > 0 /\ e.status \in {0, 128} /\ e.type # "extended"
  /\ e.start # 0 /\ e.start < g_ata_sector_count
  /\ e.count <= g_ata_sector_count - e.start

Overlaps(e, f) == e.start < f.start + f.count /\ f.start < e.start + e.count

Accept(before, i) ==
  IF Usable(mbr[i]) /\ ~\E j \in before : Overlaps(mbr[i], mbr[j])
  THEN before \cup {i} ELSE before

Accepted == Accept(Accept(Accept(Accept({}, 1), 2), 3), 4)

PartitionName == <<"hd0p1", "hd0p2", "hd0p3", "hd0p4">>

RegisterPartition(devs, i) ==
  IF i \notin Accepted THEN devs
  ELSE blockdev_register(devs, PartitionName[i],
                         [start |-> mbr[i].start, count |-> mbr[i].count])

(* A sector 0 that cannot be read leaves everything for the next scan.      *)
partition_scan ==
  /\ "hd0" \in DOMAIN devices /\ ~g_partition_disk /\ io = NoIO
  /\ g_partition_disk' = TRUE
  /\ devices' = RegisterPartition(RegisterPartition(
                  RegisterPartition(RegisterPartition(devices, 1), 2), 3), 4)
  /\ UNCHANGED <<mbr, size, platter, cache, g_ata_sector_count, io, allowed, losses>>

------------------------------------------------------------------------------
(* blockdev_write and blockdev_read, through a partition or the whole disk. *)
InRange(count, lba, n) == lba < count /\ n <= count - lba

(* partition_read and partition_write: the sector of the disk, if the       *)
(* request lies in the partition.                                           *)
OnDisk(d, lba, n) == IF InRange(d.count, lba, n) THEN {d.start + lba} ELSE {}

StartIO(op, dev, lba, n, val) ==
  \E at \in OnDisk(devices[dev], lba, n) :
  /\ io = NoIO /\ n > 0
  /\ InRange(g_ata_sector_count, at, n)
  /\ io' = [op |-> op, dev |-> dev, at |-> at, left |-> n, first |-> at, val |-> val]
  /\ allowed' = [s \in Sectors |->
                   IF op = "write" /\ s >= at /\ s < at + n
                   THEN allowed[s] \cup {val} ELSE allowed[s]]
  /\ UNCHANGED <<mbr, size, platter, cache, g_ata_sector_count, devices, g_partition_disk,
                 losses>>

(* One sector of ata_write28 or ata_read28. *)
ata_sector ==
  /\ io.op # "none" /\ io.left > 0
  /\ cache' = IF io.op = "write" THEN [cache EXCEPT ![io.at] = io.val] ELSE cache
  /\ io' = IF io.op = "read" /\ io.left = 1 THEN NoIO
           ELSE [io EXCEPT !.at = @ + 1, !.left = @ - 1]
  /\ UNCHANGED <<mbr, size, platter, g_ata_sector_count, devices, g_partition_disk, allowed,
                 losses>>

(* A wait ends in an error: the call returns it, the sector at hand may or  *)
(* may not have reached the drive.                                          *)
ata_error ==
  /\ io.op # "none"
  /\ \/ UNCHANGED cache
     \/ io.op = "write" /\ io.left > 0 /\ cache' = [cache EXCEPT ![io.at] = io.val]
  /\ io' = NoIO
  /\ UNCHANGED <<mbr, size, platter, g_ata_sector_count, devices, g_partition_disk, allowed,
                 losses>>

\* Mutant of ata_flush: success is reported without the FLUSH command.
NoFlush ==
  /\ io.op = "write" /\ io.left = 0
  /\ allowed' = [s \in Sectors |-> IF s >= io.first /\ s < io.at THEN {io.val} ELSE allowed[s]]
  /\ io' = NoIO
  /\ UNCHANGED <<mbr, size, platter, cache, g_ata_sector_count, devices, g_partition_disk,
                 losses>>

(* The last sector is written: FLUSH, and only then success. *)
ata_flush ==
  /\ io.op = "write" /\ io.left = 0
  /\ platter' = cache
  /\ allowed' = [s \in Sectors |-> IF s >= io.first /\ s < io.at THEN {io.val} ELSE allowed[s]]
  /\ io' = NoIO
  /\ UNCHANGED <<mbr, size, cache, g_ata_sector_count, devices, g_partition_disk, losses>>

(* The drive moves a sector to the platter when it likes. *)
Destage(s) ==
  /\ platter[s] # cache[s]
  /\ platter' = [platter EXCEPT ![s] = cache[s]]
  /\ UNCHANGED <<mbr, size, cache, g_ata_sector_count, devices, g_partition_disk, io, allowed,
                 losses>>

PowerLoss ==
  /\ losses < MaxLosses
  /\ cache' = platter /\ io' = NoIO /\ losses' = losses + 1
  /\ g_ata_sector_count' = 0 /\ devices' = << >> /\ g_partition_disk' = FALSE
  /\ UNCHANGED <<mbr, size, platter, allowed>>

Request ==
  \E dev \in DOMAIN devices, lba \in Sectors, n \in Counts :
     \/ \E v \in SectorValues : StartIO("write", dev, lba, n, v)
     \/ StartIO("read", dev, lba, n, 0)

DiskNext ==
  \/ ata_init \/ partition_scan \/ Request \/ ata_sector \/ ata_error \/ ata_flush
  \/ (\E s \in Sectors : Destage(s)) \/ PowerLoss

DiskSpec == DiskInit /\ [][DiskNext]_diskVars

------------------------------------------------------------------------------
RangeOf(d) == devices[d].start .. devices[d].start + devices[d].count - 1

(* Whatever the partition table on the disk says, the partitions registered *)
(* lie inside the disk, leave its first sector alone, and share no sector.  *)
PartitionsSound ==
  \A d \in DOMAIN devices \ {"hd0"} :
     /\ 0 \notin RangeOf(d) /\ RangeOf(d) \subseteq RangeOf("hd0")
     /\ RangeOf("hd0") \subseteq Sectors
     /\ \A e \in DOMAIN devices \ {"hd0", d} : RangeOf(d) \cap RangeOf(e) = {}

(* A write that reported success survives a power failure; after one that   *)
(* failed or was cut off each sector holds its old or its new contents.     *)
WritesDurable == \A s \in Sectors : platter[s] \in allowed[s]

(* Transfers through a partition change no sector outside it. *)
WritesStayInside ==
  \A s \in Sectors : cache'[s] # cache[s] => losses' # losses \/ s \in RangeOf(io.dev)

(* The disk under the file systems: partitions apart, transfers inside      *)
(* them, and writes durable once reported, after every step.                *)
DiskSound == [][PartitionsSound' /\ WritesDurable' /\ WritesStayInside]_diskVars

(* What the three rest on, at every step.  The registered devices are the   *)
(* disk as identified and, after a scan, partitions of it that are apart.   *)
DevicesInv ==
  /\ g_ata_sector_count \in 0 .. LBA28_LIMIT
  /\ DOMAIN devices # {} => "hd0" \in DOMAIN devices
  /\ "hd0" \in DOMAIN devices <=> g_ata_sector_count # 0
  /\ "hd0" \in DOMAIN devices => devices["hd0"] = [start |-> 0, count |-> g_ata_sector_count]
  /\ \A d \in DOMAIN devices \ {"hd0"} :
       /\ g_partition_disk
       /\ devices[d].start \in Nat \ {0} /\ devices[d].count \in Nat \ {0}
       /\ devices[d].start + devices[d].count <= g_ata_sector_count
       /\ \A e \in DOMAIN devices \ {"hd0", d} : ~Overlaps(devices[d], devices[e])

SectorContents == SectorValues \cup {0}

(* A transfer stays in the range of its device; what it has written is in   *)
(* the drive's cache, what it may still write is allowed.                   *)
TransferInv ==
  io # NoIO =>
    /\ io \in [op : {"read", "write"}, dev : DOMAIN devices, at : Nat, left : Nat,
               first : Nat, val : SectorContents]
    /\ io.first <= io.at
    /\ devices[io.dev].start <= io.first
    /\ io.at + io.left <= devices[io.dev].start + devices[io.dev].count
    /\ io.op = "write" =>
         \A s \in Sectors :
           /\ io.first <= s /\ s < io.at + io.left => io.val \in allowed[s]
           /\ io.first <= s /\ s < io.at => cache[s] = io.val

(* Neither copy of a sector holds anything a later start may not find. *)
ContentsInv ==
  /\ cache \in [Sectors -> SectorContents] /\ platter \in [Sectors -> SectorContents]
  /\ allowed \in [Sectors -> SUBSET SectorContents]
  /\ \A s \in Sectors : cache[s] \in allowed[s] /\ platter[s] \in allowed[s]

DiskInv == mbr \in MBRs /\ size \in ReportedSizes /\ losses \in Nat
           /\ DevicesInv /\ TransferInv /\ ContentsInv
=============================================================================

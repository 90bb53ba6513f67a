------------------------------ MODULE FatTable ------------------------------
(***************************************************************************)
(* The bytes of the allocation tables: the volume layout fat_probe_type    *)
(* accepts, and how FAT12, FAT16 and FAT32 entries are read from and       *)
(* written to their sectors.  A byte is two nibbles of base NIB (16 in the *)
(* code).  A FAT12 entry is three nibbles and may lie across two sectors,  *)
(* which are written one after the other, for each table copy in turn.     *)
(***************************************************************************)
EXTENDS Naturals, Sequences, FiniteSets

CONSTANTS NIB,         \* values of half a byte
          SectorBytes, \* bytes_per_sector
          Volumes,     \* boot sector contents offered to mount
          TableValues  \* bound: values written to an entry

VARIABLES volume,  \* the boot sector of the mounted volume
          table,   \* table copy -> offset -> byte
          wanted,  \* entry -> the value last written to it
          sectors, \* sector writes of the current update still to come
          torn     \* entries an update of which was cut short

tableVars == <<volume, table, wanted, sectors, torn>>

Byte == NIB * NIB
TableBytes(v) == v.fatSectors * SectorBytes

(* fat_probe_type; the format (kind) is given rather than told from the     *)
(* number of clusters, whose limits are out of a small instance's reach.    *)
DataStart(v) == v.reserved + v.fatCount * v.fatSectors + v.rootSectors
ClusterCount(v) == (v.total - DataStart(v)) \div v.perCluster
EntryCount(v) == ClusterCount(v) + 2

fat_probe_type(v) ==
  /\ v.total > 0 /\ v.perCluster \in {2^k : k \in 0 .. 7}
  /\ v.reserved > 0 /\ v.fatCount \in {1, 2}
  /\ v.fatSectors > 0 /\ v.total <= v.deviceSectors
  /\ DataStart(v) <= v.total /\ ClusterCount(v) > 0
  /\ IF v.kind = 32 THEN v.rootSectors = 0 /\ v.rootCluster \in 2 .. EntryCount(v) - 1
     ELSE v.rootSectors > 0
  /\ CASE v.kind = 12 -> EntryCount(v) <= (TableBytes(v) * 2) \div 3
       [] v.kind = 16 -> EntryCount(v) <= v.fatSectors * (SectorBytes \div 2)
       [] OTHER -> EntryCount(v) <= v.fatSectors * (SectorBytes \div 4)

fat_cluster_to_lba(v, cluster) == DataStart(v) + (cluster - 2) * v.perCluster

Entries(v) == 0 .. EntryCount(v) - 1

------------------------------------------------------------------------------
Width(v) == IF v.kind = 32 THEN 4 ELSE 2
OffsetOf(v, i) == IF v.kind = 12 THEN i + (i \div 2) ELSE i * Width(v)

Word(bytes, off, n) ==
  LET w[k \in 0 .. n] == IF k = 0 THEN 0 ELSE w[k - 1] + bytes[off + k - 1] * Byte^(k - 1)
  IN w[n]

get_fat_entry(v, bytes, i) ==
  LET w == Word(bytes, OffsetOf(v, i), Width(v)) IN
  CASE v.kind = 12 /\ i % 2 = 1 -> w \div NIB
    [] v.kind = 12 /\ i % 2 = 0 -> w % NIB^3
    [] v.kind = 16 -> w
    [] OTHER -> w % NIB^7

\* Mutant of NewWord: an odd FAT12 entry clears its neighbour's bits.
NewWordClears(v, w, i, val) ==
  CASE v.kind = 12 /\ i % 2 = 1 -> val * NIB
    [] v.kind = 12 /\ i % 2 = 0 -> (w - (w % NIB^3)) + val
    [] v.kind = 16 -> val
    [] OTHER -> (w - (w % NIB^7)) + val

(* The word to store: the bits of the neighbouring entry (FAT12) or the     *)
(* reserved top bits (FAT32) are kept.                                      *)
NewWord(v, w, i, val) ==
  CASE v.kind = 12 /\ i % 2 = 1 -> (w % NIB) + val * NIB
    [] v.kind = 12 /\ i % 2 = 0 -> (w - (w % NIB^3)) + val
    [] v.kind = 16 -> val
    [] OTHER -> (w - (w % NIB^7)) + val

SectorOf(off) == off \div SectorBytes

(* set_fat_entry on one copy: the sectors it writes, first to last. *)
CopyWrites(v, c, i, off, w) ==
  LET bytes == [o \in off .. off + Width(v) - 1 |-> (w \div Byte^(o - off)) % Byte]
      Part(s) == [copy |-> c, entry |-> i,
                  bytes |-> [o \in {x \in DOMAIN bytes : SectorOf(x) = s} |-> bytes[o]]]
  IN IF SectorOf(off) = SectorOf(off + Width(v) - 1) THEN <<Part(SectorOf(off))>>
     ELSE <<Part(SectorOf(off)), Part(SectorOf(off) + 1)>>

set_fat_entry(i, val) ==
  LET Writes(c) == CopyWrites(volume, c, i, OffsetOf(volume, i),
                     NewWord(volume, Word(table[c], OffsetOf(volume, i), Width(volume)), i, val))
  IN /\ sectors = <<>>
     /\ sectors' = IF volume.fatCount = 1 THEN Writes(1) ELSE Writes(1) \o Writes(2)
     /\ wanted' = [wanted EXCEPT ![i] = val]
     /\ UNCHANGED <<volume, table, torn>>

WriteSector ==
  /\ sectors # <<>>
  /\ table' = [table EXCEPT ![Head(sectors).copy] =
                 [o \in DOMAIN @ |-> IF o \in DOMAIN Head(sectors).bytes
                                     THEN Head(sectors).bytes[o] ELSE @[o]]]
  /\ sectors' = Tail(sectors)
  /\ UNCHANGED <<volume, wanted, torn>>

(* A sector write fails, or the machine stops, part way through. *)
CutShort ==
  /\ sectors # <<>> /\ torn = {}
  /\ torn' = {Head(sectors).entry}
  /\ sectors' = <<>>
  /\ UNCHANGED <<volume, table, wanted>>

TableInit ==
  /\ volume \in {v \in Volumes : fat_probe_type(v)}
  /\ \E top \in {0, Byte - 1} :
       table = [c \in 1 .. volume.fatCount |->
                  [o \in 0 .. TableBytes(volume) - 1 |->
                     IF volume.kind = 32 /\ o % 4 = 3 THEN NIB * (top \div NIB) ELSE 0]]
  /\ wanted = [i \in Entries(volume) |-> 0]
  /\ sectors = <<>> /\ torn = {}

TableNext ==
  \/ \E i \in Entries(volume), val \in TableValues : set_fat_entry(i, val)
  \/ WriteSector \/ CutShort

TableSpec == TableInit /\ [][TableNext]_tableVars

------------------------------------------------------------------------------
(* On every volume fat_probe_type accepts, each entry the driver may ask    *)
(* for lies inside the table, and each cluster inside the volume.           *)
LayoutAddressable ==
  /\ \A i \in Entries(volume) :
       OffsetOf(volume, i) + Width(volume) - 1 < TableBytes(volume)
  /\ \A c \in 2 .. EntryCount(volume) - 1 :
       fat_cluster_to_lba(volume, c) + volume.perCluster <= volume.deviceSectors

(* Updating an entry, even cut short between two sectors or two copies,     *)
(* never changes what any other entry reads as; and an update that went     *)
(* through reads back as written, in every copy.                            *)
OtherEntriesUntouched ==
  \A i \in Entries(volume) \ torn :
     LET busy == {sectors[k].copy : k \in {j \in 1 .. Len(sectors) : sectors[j].entry = i}}
     IN \A c \in (1 .. volume.fatCount) \ busy : get_fat_entry(volume, table[c], i) = wanted[i]

(* The allocation table is addressed inside the volume and updated entry by *)
(* entry.                                                                   *)
TableSound == LayoutAddressable /\ OtherEntriesUntouched
=============================================================================

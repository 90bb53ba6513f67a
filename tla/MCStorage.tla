----------------------------- MODULE MCStorage -----------------------------
(* The storage drivers in one run: the FAT driver, its names and tables,   *)
(* the EXT2 driver, and the disk with its partitions.  They share no state:*)
(* each layer is checked against any use of it by the layer above.  `unit' *)
(* says which one moves.                                                   *)
EXTENDS Fat, FatTable, ShortName, Ext2, Disk, TLC

CONSTANTS a, b, f1, f2

VARIABLE unit

\* Interchangeable names and files.
Alike == Permutations({a, b}) \cup Permutations({f1, f2})

\* FAT volumes of each width, with and without a root region and a second table,
\* some too large for their device or for their table.
SmallVolumes ==
    [kind : {12, 16, 32}, reserved : {1}, fatCount : {1, 2}, fatSectors : {1, 2},
     rootSectors : {0, 1}, perCluster : {1, 2, 3}, total : 3 .. 10, deviceSectors : {9},
     rootCluster : {3}]

\* The only letter with two cases.
Capital == "a" :> "A"

\* Bytes of the directory records of the new names.
RecLens == "x" :> 1 @@ "y" :> 3

\* Partition tables with entries that overlap, start at sector 0, are empty, of
\* another type, or have a bad status byte.
Part == [type |-> "fat", status |-> 128, start |-> 1, count |-> 1]
SomeEntries == [type : {"fat"}, status : {0}, start : {0, 1, 2}, count : {2}]
               \cup {[Part EXCEPT !.type = "extended"], [Part EXCEPT !.status = 7]}
SomeMBRs == {<<e, Part, [Part EXCEPT !.start = 2], [Part EXCEPT !.count = 0]>> : e \in SomeEntries}

all == <<unit, fatVars, tableVars, nameVars, e2Vars, diskVars>>

StorageInit ==
    /\ unit \in {"fat", "table", "names", "ext2", "disk"}
    /\ FatInit /\ TableInit /\ NamesInit /\ Ext2Init /\ DiskInit
    /\ unit # "table" => volume = CHOOSE v \in SmallVolumes : fat_probe_type(v)
    /\ unit # "table" => \A o \in DOMAIN table[1] : table[1][o] = 0
    /\ unit # "ext2" => first_data_block = 0
    /\ unit # "disk" => size = 0 /\ mbr[1] = [Part EXCEPT !.status = 7]

StorageNext ==
    /\ UNCHANGED unit
    /\ \/ unit = "fat" /\ FatNext /\ UNCHANGED <<tableVars, nameVars, e2Vars, diskVars>>
       \/ unit = "table" /\ TableNext /\ UNCHANGED <<fatVars, nameVars, e2Vars, diskVars>>
       \/ unit = "names" /\ NamesNext /\ UNCHANGED <<fatVars, tableVars, e2Vars, diskVars>>
       \/ unit = "ext2" /\ Ext2Next /\ UNCHANGED <<fatVars, tableVars, nameVars, diskVars>>
       \/ unit = "disk" /\ DiskNext /\ UNCHANGED <<fatVars, tableVars, nameVars, e2Vars>>

StorageSpec == StorageInit /\ [][StorageNext]_all

\* Nothing is explored beyond the states the properties no longer speak of: a
\* volume spoiled by a stale copy or a failed write, and a lost disk.
StillGuarded ==
    /\ taint \cap {"stale", "shrink"} = {} /\ (taint = {} \/ steps # <<>>)
    /\ "ignored" \notin e2taint /\ first_data_block = 0
    /\ "undefined" \in e2taint => job = Idle /\ \A h \in Opens : node[h] = Closed
    /\ losses = 0
=============================================================================

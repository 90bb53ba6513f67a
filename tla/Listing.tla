-------------------------------- MODULE Listing --------------------------------
(***************************************************************************)
(* A directory listed by its indices: dir calls readdir with 0, 1, 2 ...   *)
(* until it returns ERR_NOT_FOUND, and each file system counts up to the   *)
(* index among its own records, of which some are not entries.             *)
(***************************************************************************)
EXTENDS Naturals, Sequences

CONSTANTS Records \* the records of a directory, each [name, kind]

VARIABLES fs, dir, \* the file system, and the records of the directory
          index, names, \* dir's index and what it has printed
          result   \* "listing", "ok" or the error dir ends with

listVars == <<fs, dir, index, names, result>>

SUCCESS == "success"
NOT_FOUND == "not found"
FAILED == "-1"
IO_ERROR == "io error"

(* The records a driver counts: FAT stops at the first record never used    *)
(* and passes over deleted ones and volume labels, EXT2 passes over records *)
(* without an inode; ramfs has no other records than children.              *)
Counted(d) ==
  LET ends == {k \in 1 .. Len(d) : d[k].kind = "end"}
      last == IF ends = {} THEN Len(d) ELSE (CHOOSE k \in ends : \A j \in ends : k <= j) - 1
  IN CASE fs = "fat" -> SelectSeq(SubSeq(d, 1, last), LAMBDA e : e.kind = "entry")
       [] fs = "ext2" -> SelectSeq(d, LAMBDA e : e.kind = "entry")
       [] OTHER -> d

Nth(s, i, none) == IF i < Len(s) THEN <<SUCCESS, s[i + 1].name>> ELSE <<none, 0>>

ramfs_readdir_vn(d, i) == Nth(d, i, NOT_FOUND)

fat_readdir_vn(d, i) == Nth(Counted(d), i, NOT_FOUND)

(* The end and a block that cannot be read are both -1. *)
ext2_readdir_vn(d, i) == Nth(Counted(d), i, FAILED)

(* What SYS_readdir may return: FAT and EXT2 read the disk. *)
SYS_readdir(d, i) ==
  CASE fs = "ramfs" -> {ramfs_readdir_vn(d, i)}
    [] fs = "fat" -> {fat_readdir_vn(d, i), <<IO_ERROR, 0>>}
    [] OTHER -> {ext2_readdir_vn(d, i), <<FAILED, 0>>}

ListInit ==
  /\ fs \in {"ramfs", "fat", "ext2"} /\ dir \in Records
  /\ \A k \in 1 .. Len(dir) : dir[k].kind \in
       (CASE fs = "ramfs" -> {"entry"} [] fs = "ext2" -> {"entry", "unused"}
          [] OTHER -> {"entry", "unused", "label", "end"})
  /\ \A j, k \in 1 .. Len(dir) : j < k /\ dir[j].kind = "end" => dir[k].kind = "end"
  /\ index = 0 /\ names = <<>> /\ result = "listing"

cmd_dir ==
  /\ result = "listing"
  /\ \E r \in SYS_readdir(dir, index) :
       /\ index' = IF r[1] = SUCCESS THEN index + 1 ELSE index
       /\ names' = IF r[1] = SUCCESS THEN Append(names, r[2]) ELSE names
       /\ result' = CASE r[1] = SUCCESS -> "listing" [] r[1] = NOT_FOUND -> "ok" [] OTHER -> r[1]
  /\ UNCHANGED <<fs, dir>>

ListNext == cmd_dir

ListSpec == ListInit /\ [][ListNext]_listVars

--------------------------------------------------------------------------------
(* What is printed are entries of the directory, in their order and none    *)
(* twice, and a listing that reports success has them all.  On EXT2 none    *)
(* does: the end of the directory is reported as -1, an error to dir.       *)
ListingHonest ==
  LET live == SelectSeq(dir, LAMBDA e : e.kind = "entry")
  IN /\ Len(names) <= Len(live) /\ \A k \in 1 .. Len(names) : names[k] = live[k].name
     /\ result = "ok" => Len(names) = Len(live)
     /\ fs = "ext2" => result # "ok"
================================================================================

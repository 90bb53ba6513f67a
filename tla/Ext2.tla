-------------------------------- MODULE Ext2 --------------------------------
(***************************************************************************)
(* The EXT2 driver: block bitmap and group counters, inodes on disk, the   *)
(* copy of an inode every vnode has of its own, and the root directory as  *)
(* records linked by their lengths.  A write is a loop whose block device  *)
(* calls are separate steps; the machine may stop between them, and the    *)
(* results of the bitmap, counter and inode writes are ignored.            *)
(***************************************************************************)
EXTENDS Naturals, Sequences, FiniteSets

CONSTANTS Groups,      \* block groups
          PerGroup,    \* blocks_per_group
          Meta,        \* blocks taken by the superblock, tables and bitmaps
          Direct,      \* direct block pointers of an inode (12)
          Files,       \* regular files of the volume
          Opens,       \* bound: vnodes at once
          NewNames,    \* name -> length of its record
          DirBlock,    \* bytes of a directory block
          MaxE2Faults  \* bound: failed writes and restarts

VARIABLES first_data_block, \* 1 on a volume with 1 KiB blocks, else 0
          bitmap,     \* the bits set in the block bitmaps, over all groups
          free_count, \* group -> free_blocks_count of its descriptor
          inode,      \* file -> its inode on disk
          node,       \* vnode -> [ino, inode], or Closed
          held,       \* block -> the file and index last written to it
          job,        \* the write loop in progress
          root,       \* the root directory's blocks: sequences of records
          written,    \* history: what writes have reported as done
          e2faults,   \* failed writes and restarts so far
          e2taint     \* history: what has happened that the driver does not guard

e2Vars == <<first_data_block, bitmap, free_count, inode, node, held, job, root, written,
            e2faults, e2taint>>

AllBits == 0 .. Groups * PerGroup - 1
BitOf(block) == block - first_data_block
ROOTDIR == "root"
NoTag == <<"none", 0>>
EmptyInode == [block |-> [i \in 0 .. Direct - 1 |-> 0], size |-> 0]
Closed == [ino |-> "none", inode |-> EmptyInode]
Idle == [pc |-> "idle", h |-> 0, i |-> 0, to |-> 0, blk |-> 0, done |-> {}]

Ext2Init ==
  /\ first_data_block \in {0, 1}
  /\ bitmap = 0 .. Meta                     \* the last one: the root directory
  /\ free_count = [g \in 0 .. Groups - 1 |-> Cardinality({b \in AllBits : b \div PerGroup = g
                                                                         /\ b > Meta})]
  /\ inode = [f \in Files \cup {ROOTDIR} |->
                IF f = ROOTDIR
                THEN [block |-> [i \in 0 .. Direct - 1 |->
                                   IF i = 0 THEN first_data_block + Meta ELSE 0], size |-> 1]
                ELSE EmptyInode]
  /\ node = [h \in Opens |-> Closed]
  /\ held = [b \in 0 .. Groups * PerGroup |-> NoTag]
  /\ job = Idle
  /\ root = <<<<[name |-> ".", rec |-> 2], [name |-> "..", rec |-> DirBlock - 2]>>>>
  /\ written = {} /\ e2faults = 0 /\ e2taint = {}

------------------------------------------------------------------------------
(* ext2_alloc_block: the first clear bit of the first group whose counter   *)
(* is not zero.  The block number it returns is the bit's number.           *)
ext2_alloc_block ==
  {b \in AllBits \ bitmap :
     /\ free_count[b \div PerGroup] > 0
     /\ \A a \in AllBits \ bitmap : free_count[a \div PerGroup] > 0 => b <= a}

ext2_lookup_vn(h, f) ==
  /\ job.pc = "idle" /\ node[h] = Closed
  /\ node' = [node EXCEPT ![h] = [ino |-> f, inode |-> inode[f]]]
  /\ UNCHANGED <<first_data_block, bitmap, free_count, inode, held, job, root, written,
                 e2faults, e2taint>>

(* ext2_read_vn of block i of a file with inode n: what the reader gets;    *)
(* NoTag past the end and where there is no block.                          *)
ext2_read_vn(n, i) ==
  IF i >= n.size \/ i >= Direct THEN NoTag
  ELSE IF n.block[i] = 0 THEN NoTag ELSE held[n.block[i]]

CloseNode(h) ==
  /\ job.pc = "idle" /\ node[h] # Closed
  /\ node' = [node EXCEPT ![h] = Closed]
  /\ UNCHANGED <<first_data_block, bitmap, free_count, inode, held, job, root, written,
                 e2faults, e2taint>>

(* ext2_write_vn on the block indexes from .. to. *)
ext2_write_vn(h, from, to) ==
  /\ job.pc = "idle" /\ node[h] # Closed
  /\ job' = [Idle EXCEPT !.pc = "loop", !.h = h, !.i = from, !.to = to]
  /\ e2taint' = IF node[h].inode = inode[node[h].ino] THEN e2taint ELSE e2taint \cup {"stale"}
  /\ UNCHANGED <<first_data_block, bitmap, free_count, inode, node, held, root, written,
                 e2faults>>

CurrentBlock == node[job.h].inode.block[job.i]

(* The bitmap write; `ok` tells whether the device stored it. *)
AllocBitmap(ok) ==
  /\ job.pc = "loop" /\ job.i <= job.to /\ job.i < Direct /\ CurrentBlock = 0
  /\ \E b \in ext2_alloc_block :
       /\ bitmap' = IF ok THEN bitmap \cup {b} ELSE bitmap
       /\ job' = [job EXCEPT !.pc = "count", !.blk = b]
  /\ ok \/ e2faults < MaxE2Faults
  /\ e2faults' = IF ok THEN e2faults ELSE e2faults + 1
  /\ e2taint' = IF ok THEN e2taint ELSE e2taint \cup {"ignored"}
  /\ UNCHANGED <<first_data_block, free_count, inode, node, held, root, written>>

AllocCount ==
  /\ job.pc = "count"
  /\ free_count' = [free_count EXCEPT ![job.blk \div PerGroup] = @ - 1]
  /\ node' = [node EXCEPT ![job.h].inode.block[job.i] = job.blk]
  /\ job' = [job EXCEPT !.pc = "data"]
  /\ UNCHANGED <<first_data_block, bitmap, inode, held, root, written, e2faults, e2taint>>

HaveBlock ==
  /\ job.pc = "loop" /\ job.i <= job.to /\ job.i < Direct /\ CurrentBlock # 0
  /\ job' = [job EXCEPT !.pc = "data"]
  /\ UNCHANGED <<first_data_block, bitmap, free_count, inode, node, held, root, written,
                 e2faults, e2taint>>

DataWrite ==
  /\ job.pc = "data"
  /\ held' = [held EXCEPT ![CurrentBlock] = <<node[job.h].ino, job.i>>]
  /\ job' = [job EXCEPT !.pc = "loop", !.i = @ + 1,
                        !.done = @ \cup {<<node[job.h].ino, job.i>>}]
  /\ UNCHANGED <<first_data_block, bitmap, free_count, inode, node, root, written, e2faults,
                 e2taint>>

(* Reading or writing the data block fails: the loop ends. *)
DataError ==
  /\ job.pc = "data" /\ e2faults < MaxE2Faults
  /\ job' = [job EXCEPT !.pc = "inode"]
  /\ e2faults' = e2faults + 1
  /\ UNCHANGED <<first_data_block, bitmap, free_count, inode, node, held, root, written, e2taint>>

LoopEnds ==
  /\ job.pc = "loop"
  /\ job.i <= job.to /\ job.i < Direct => CurrentBlock = 0 /\ ext2_alloc_block = {}
  /\ job' = [job EXCEPT !.pc = "inode"]
  /\ UNCHANGED <<first_data_block, bitmap, free_count, inode, node, held, root, written,
                 e2faults, e2taint>>

\* Mutant of ext2_write_inode: the size does not grow.
InodeKeepsSize(ok) ==
  LET n == node[job.h]
  IN /\ job.pc = "inode" /\ ok
     /\ inode' = [inode EXCEPT ![n.ino] = n.inode]
     /\ written' = written \cup job.done
     /\ job' = Idle
     /\ UNCHANGED <<first_data_block, bitmap, free_count, node, held, root, e2faults, e2taint>>

(* ext2_write_inode from the vnode's copy; the size has grown to what was   *)
(* done.  The system call then reports the bytes done.                      *)
ext2_write_inode(ok) ==
  LET n == node[job.h]
      new == [n.inode EXCEPT !.size = IF job.done # {} /\ job.i > @ THEN job.i ELSE @]
  IN /\ job.pc = "inode"
     /\ node' = [node EXCEPT ![job.h].inode = new]
     /\ inode' = IF ok THEN [inode EXCEPT ![n.ino] = new] ELSE inode
     /\ written' = written \cup job.done
     /\ job' = Idle
     /\ ok \/ e2faults < MaxE2Faults
     /\ e2faults' = IF ok THEN e2faults ELSE e2faults + 1
     /\ e2taint' = IF ok THEN e2taint ELSE e2taint \cup {"ignored"}
     /\ UNCHANGED <<first_data_block, bitmap, free_count, held, root>>

Ext2Restart ==
  /\ e2faults < MaxE2Faults
  /\ e2faults' = e2faults + 1
  /\ node' = [h \in Opens |-> Closed] /\ job' = Idle
  /\ UNCHANGED <<first_data_block, bitmap, free_count, inode, held, root, written, e2taint>>

------------------------------------------------------------------------------
(* ext2_alloc_inode takes no inode: its bitmap scan cannot be reached.  It  *)
(* fails at the first group with free inodes whose bitmap it can read; when *)
(* every group is skipped it ends without a return statement, the number    *)
(* not set, and its caller may take that for success.                       *)
ext2_alloc_inode(skipped) ==
  IF skipped = 0 .. Groups - 1 THEN {"fails", "undefined"} ELSE {"fails"}

LastRecord(b) == root[b][Len(root[b])]
RecordLen(name) == IF name \in DOMAIN NewNames THEN NewNames[name] ELSE 2
Slack(b) == LastRecord(b).rec - RecordLen(LastRecord(b).name)

InsertIn(b, name) ==
  LET last == Len(root[b]) IN
  root' = [root EXCEPT ![b] =
             Append([@ EXCEPT ![last].rec = RecordLen(LastRecord(b).name)],
                    [name |-> name, rec |-> Slack(b)])]

ext2_dir_add_entry(name) ==
  LET fits == {b \in 1 .. Len(root) : Slack(b) >= NewNames[name]} IN
  \/ \E b \in fits : /\ \A c \in fits : b <= c
                     /\ InsertIn(b, name)
                     /\ UNCHANGED <<bitmap, free_count, inode>>
  \/ /\ fits = {} /\ Len(root) < Direct
     /\ \E blk \in ext2_alloc_block :
          /\ bitmap' = bitmap \cup {blk}
          /\ free_count' = [free_count EXCEPT ![blk \div PerGroup] = @ - 1]
          /\ inode' = [inode EXCEPT ![ROOTDIR].block[Len(root)] = blk,
                                    ![ROOTDIR].size = Len(root) + 1]
          /\ root' = Append(root, <<[name |-> name, rec |-> DirBlock]>>)

Listed == UNION {{root[b][i].name : i \in 1 .. Len(root[b])} : b \in 1 .. Len(root)}

ext2_create_vn(name) ==
  /\ job.pc = "idle" /\ name \notin Listed
  /\ \E skipped \in SUBSET (0 .. Groups - 1) : "undefined" \in ext2_alloc_inode(skipped)
  /\ ext2_dir_add_entry(name)
  /\ e2taint' = e2taint \cup {"undefined"}
  /\ UNCHANGED <<first_data_block, node, held, job, written, e2faults>>

Ext2Next ==
  \/ \E h \in Opens : \/ \E f \in Files : ext2_lookup_vn(h, f)
                      \/ CloseNode(h)
                      \/ \E from \in 0 .. Direct - 1 : \E to \in from .. Direct :
                           ext2_write_vn(h, from, to)
  \/ \E ok \in BOOLEAN : AllocBitmap(ok) \/ ext2_write_inode(ok)
  \/ AllocCount \/ HaveBlock \/ DataWrite \/ DataError \/ LoopEnds \/ Ext2Restart
  \/ \E name \in DOMAIN NewNames : ext2_create_vn(name)

Ext2Spec == Ext2Init /\ [][Ext2Next]_e2Vars

------------------------------------------------------------------------------
Pointers == {p \in (Files \cup {ROOTDIR}) \X (0 .. Direct - 1) : inode[p[1]].block[p[2]] # 0}
Target(p) == inode[p[1]].block[p[2]]

(* Whatever interrupts a write, every block an inode on disk points to is   *)
(* marked used, is no metadata block and has no second owner.  This holds   *)
(* for volumes with blocks above 1 KiB and while no bitmap or inode write   *)
(* fails: the driver returns a bit's number as block number, which is one   *)
(* less than the block the bit stands for when first_data_block is 1.       *)
Ext2BlocksOwned ==
  first_data_block = 0 /\ "ignored" \notin e2taint =>
     \A p \in Pointers : /\ BitOf(Target(p)) \in bitmap /\ BitOf(Target(p)) >= Meta
                         /\ \A q \in Pointers \ {p} : Target(p) # Target(q)

(* What a write reported as done is read back by every later lookup, after  *)
(* a restart too, as long as no vnode wrote from an inode copy that another *)
(* one had outdated.                                                        *)
Ext2WritesKept ==
  first_data_block = 0 /\ e2taint \cap {"ignored", "stale"} = {} =>
     \A p \in written : ext2_read_vn(inode[p[1]], p[2]) = p

RecLenSum(records) ==
  LET s[k \in 0 .. Len(records)] == IF k = 0 THEN 0 ELSE s[k - 1] + records[k].rec
  IN s[Len(records)]

(* Adding an entry keeps every directory block walkable: the records fill   *)
(* the block exactly, each holds its name, and no name appears twice.       *)
DirectoryWalkable ==
  \A b \in 1 .. Len(root) :
     /\ RecLenSum(root[b]) = DirBlock
     /\ \A i \in 1 .. Len(root[b]) : root[b][i].rec >= RecordLen(root[b][i].name)
     /\ \A c \in 1 .. Len(root) : \A i \in 1 .. Len(root[b]), j \in 1 .. Len(root[c]) :
          root[b][i].name = root[c][j].name => b = c /\ i = j

(* What EXT2 has on disk after any stop: blocks with one owner, writes that *)
(* were reported, directories that can be walked.                           *)
Ext2Sound == Ext2BlocksOwned /\ Ext2WritesKept /\ DirectoryWalkable
=============================================================================

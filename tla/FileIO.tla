------------------------------- MODULE FileIO -------------------------------
(***************************************************************************)
(* The contents of files: RAMFS buffers and their growth, the offset of an *)
(* open file, the chunked SYS_read and SYS_write, SYS_lseek, SYS_ftruncate,*)
(* and the copy command, which is built from them.                         *)
(*                                                                         *)
(* A file is edited through one descriptor, then `copy src dst` runs.  The *)
(* scheduler does not preempt, so nothing runs between the system calls of *)
(* copy.  On fs = "ramfs" a call can run out of memory; on fs = "disk" the *)
(* vnode operations (external here) may fail after part of the transfer.   *)
(***************************************************************************)
EXTENDS Integers, Sequences

CONSTANTS IOChunk,   \* SYSCALL_IO_CHUNK
          CopyBuf,   \* the buffer of copy
          MinCap,    \* first capacity of a RAMFS buffer
          MaxLen,    \* bound: longest file
          MaxEdits,  \* bound: edits before copy starts
          FileSystems

VARIABLES fs,        \* the file system both files live on
          ramnode,   \* file -> RAMFS node: buffer (Len = capacity) and size
          content,   \* file -> what a reader is entitled to see
          pos,       \* file -> offset of its open file
          edits,     \* edits so far
          copy       \* the copy command: pc, buffer, written, result, faults met

ioVars == <<fs, ramnode, content, pos, edits, copy>>

IOFiles == {"src", "dst"}
Bytes == {1, 2}
Garbage == -1     \* what realloc leaves in the part it adds
ERR == -1         \* any error code
Least(a, b) == IF a < b THEN a ELSE b
Most(a, b) == IF a > b THEN a ELSE b
Buffers(n) == UNION {[1 .. k -> Bytes] : k \in 1 .. n}
NoCopy == [pc |-> "idle", buf |-> <<>>, written |-> 0, ret |-> 0,
           readFault |-> FALSE, shortWrite |-> FALSE]

IOInit ==
  /\ fs \in FileSystems
  /\ ramnode = [f \in IOFiles |-> [data |-> <<>>, size |-> 0]]
  /\ content = [f \in IOFiles |-> <<>>]
  /\ pos = [f \in IOFiles |-> 0]
  /\ edits = 0
  /\ copy = NoCopy

------------------------------------------------------------------------------
(* RAMFS. *)

ramfs_capacity(cap, need) ==
  LET grown[k \in 0 .. MaxLen] ==
        IF k = 0 THEN IF cap = 0 THEN MinCap ELSE cap
        ELSE LET c == grown[k - 1] IN IF c < need THEN 2 * c ELSE c
  IN IF need <= cap THEN cap ELSE grown[MaxLen]

ramfs_ensure_capacity(n, need) ==
  [i \in 1 .. ramfs_capacity(Len(n.data), need) |->
     IF i <= Len(n.data) THEN n.data[i] ELSE Garbage]

\* Mutant of ramfs_write_vn: the gap before the offset is not cleared.
WriteLeavesGap(n, off, buf) ==
  LET end == off + Len(buf)
      d == ramfs_ensure_capacity(n, end)
  IN [data |-> [i \in 1 .. Len(d) |-> IF i > off /\ i <= end THEN buf[i - off] ELSE d[i]],
      size |-> Most(n.size, end)]

ramfs_write_vn(n, off, buf) ==
  LET end == off + Len(buf)
      d == ramfs_ensure_capacity(n, end)
  IN [data |-> [i \in 1 .. Len(d) |->
                  IF i > off /\ i <= end THEN buf[i - off]
                  ELSE IF i > n.size /\ i <= off THEN 0 ELSE d[i]],
      size |-> Most(n.size, end)]

ramfs_truncate_vn(n, len) ==
  LET d == ramfs_ensure_capacity(n, len)
  IN [data |-> [i \in 1 .. Len(d) |-> IF i > n.size /\ i <= len THEN 0 ELSE d[i]],
      size |-> len]

ramfs_read_vn(n, off, len) ==
  SubSeq(n.data, off + 1, Least(n.size, off + len))

(* What the operations mean for a reader. *)
Overwritten(c, off, buf) ==
  [i \in 1 .. Most(Len(c), off + Len(buf)) |->
     IF i > off /\ i <= off + Len(buf) THEN buf[i - off]
     ELSE IF i <= Len(c) THEN c[i] ELSE 0]
Resized(c, len) == [i \in 1 .. len |-> IF i <= Len(c) THEN c[i] ELSE 0]

------------------------------------------------------------------------------
(* System calls.  `bad` is the chunk whose vnode operation fails (0: none)  *)
(* and `part` how many bytes of it were transferred before the failure.     *)

Chunks(len) == (len + IOChunk - 1) \div IOChunk

WriteFaults(len) ==
  {<<0, 0>>} \cup {<<c, k>> \in (1 .. Chunks(len)) \X (0 .. IOChunk - 1) :
                     /\ (c - 1) * IOChunk + k < len
                     /\ fs = "ramfs" => k = 0}

(* The bytes that reach the file, the result, and the offset's advance:     *)
(* vfs_generic_write moves the offset only when the vnode reported success. *)
SYS_write(len, w) ==
  LET whole == (w[1] - 1) * IOChunk
      total == whole + w[2]
  IN IF w[1] = 0 THEN [stored |-> len, ret |-> len, adv |-> len]
     ELSE [stored |-> total, ret |-> IF total > 0 THEN total ELSE ERR, adv |-> whole]

(* The bytes from the open file's offset on, which moves past them. *)
vfs_generic_read(f, len) == ramfs_read_vn(ramnode[f], pos[f], len)

(* A failing first chunk is reported as ERR_SUCCESS, which is 0. *)
SYS_read(f, len, bad) ==
  LET got == vfs_generic_read(f, IF bad = 0 THEN len ELSE Least(len, (bad - 1) * IOChunk))
  IN [bytes |-> got, ret |-> Len(got)]

Put(f, buf, w) ==
  LET res == SYS_write(Len(buf), w)
      head == SubSeq(buf, 1, res.stored)
  IN /\ ramnode' = IF head = <<>> THEN ramnode
                   ELSE [ramnode EXCEPT ![f] = ramfs_write_vn(@, pos[f], head)]
     /\ content' = IF head = <<>> THEN content
                   ELSE [content EXCEPT ![f] = Overwritten(@, pos[f], head)]
     /\ pos' = [pos EXCEPT ![f] = @ + res.adv]

Edit == copy.pc = "idle" /\ edits < MaxEdits /\ edits' = edits + 1 /\ UNCHANGED <<fs, copy>>

EditWrite(f) ==
  \E buf \in Buffers(IOChunk + 1) : \E w \in WriteFaults(Len(buf)) :
     Edit /\ pos[f] + Len(buf) <= MaxLen /\ Put(f, buf, w)

(* SEEK_SET, SEEK_CUR and SEEK_END reach every non-negative offset. *)
SysLseek(f) ==
  \E target \in 0 .. MaxLen - 1 :
     /\ Edit /\ pos' = [pos EXCEPT ![f] = target] /\ UNCHANGED <<ramnode, content>>

Truncate(f, len) ==
  /\ ramnode' = [ramnode EXCEPT ![f] = ramfs_truncate_vn(@, len)]
  /\ content' = [content EXCEPT ![f] = Resized(@, len)]

SysFtruncate(f) ==
  \E len \in 0 .. MaxLen : Edit /\ Truncate(f, len) /\ UNCHANGED pos

------------------------------------------------------------------------------
(* cmd_copy. *)

CopyOpen ==
  /\ copy.pc = "idle"
  /\ pos' = [f \in IOFiles |-> 0]
  /\ \/ Truncate("dst", 0) /\ copy' = [copy EXCEPT !.pc = "read"]
     \/ /\ fs = "disk" /\ copy' = [copy EXCEPT !.pc = "done", !.ret = ERR]
        /\ UNCHANGED <<ramnode, content>>
  /\ UNCHANGED <<fs, edits>>

(* A read of an empty range never calls the failing part of the device. *)
CopyRead ==
  \E bad \in {0} \cup (IF fs = "disk" /\ pos["src"] < ramnode["src"].size THEN {1} ELSE {}) :
     LET res == SYS_read("src", CopyBuf, bad) IN
     /\ copy.pc = "read"
     /\ copy' = [copy EXCEPT !.pc = IF res.ret <= 0 THEN "done" ELSE "write",
                             !.ret = IF res.ret < 0 THEN res.ret ELSE 0,
                             !.buf = res.bytes, !.written = 0,
                             !.readFault = bad # 0]
     /\ pos' = [pos EXCEPT !["src"] = @ + Len(res.bytes)]
     /\ UNCHANGED <<fs, ramnode, content, edits>>

CopyWrite ==
  LET rest == SubSeq(copy.buf, copy.written + 1, Len(copy.buf)) IN
  \E w \in WriteFaults(Len(rest)) :
     LET res == SYS_write(Len(rest), w)
         written == copy.written + res.ret
     IN /\ copy.pc = "write"
        /\ Put("dst", rest, w)
        /\ copy' = IF res.ret <= 0 THEN [copy EXCEPT !.pc = "done", !.ret = ERR]
                   ELSE [copy EXCEPT !.pc = IF written < Len(copy.buf) THEN "write" ELSE "read",
                                     !.written = written,
                                     !.shortWrite = @ \/ res.adv # res.ret]
        /\ UNCHANGED <<fs, edits>>

IONext ==
  \/ \E f \in IOFiles : EditWrite(f) \/ SysLseek(f) \/ SysFtruncate(f)
  \/ CopyOpen \/ CopyRead \/ CopyWrite

IOSpec == IOInit /\ [][IONext]_ioVars

------------------------------------------------------------------------------
(* Properties. *)

(* The state is well typed. *)
IOTypeOK ==
  /\ fs \in FileSystems /\ edits \in 0 .. MaxEdits
  /\ \A f \in IOFiles :
       /\ \A i \in 1 .. Len(ramnode[f].data) : ramnode[f].data[i] \in {0, Garbage} \cup Bytes
       /\ ramnode[f].size \in 0 .. Len(ramnode[f].data)
       /\ pos[f] \in 0 .. MaxLen
  /\ copy.pc \in {"idle", "read", "write", "done"} /\ copy.ret \in {0, ERR}

(* A RAMFS file reads back what was written: after any mix of writes past   *)
(* the end, truncations down and up and buffer growth, no byte below the    *)
(* size is what realloc left behind or what an earlier truncation cut off.  *)
ContentsExact ==
  \A f \in IOFiles : SubSeq(ramnode[f].data, 1, ramnode[f].size) = content[f]

(* A copy that reports success made dst equal to src, unless a device error *)
(* hid from it: a read error that SYS_read turned into end of file, or a    *)
(* write that transferred bytes without moving the offset.                  *)
CopyFaithful ==
  copy.pc = "done" /\ copy.ret = 0 /\ ~copy.readFault /\ ~copy.shortWrite
     => content["dst"] = content["src"]

(* A read that fails is reported to the program as an error, so copy does   *)
(* not take it for the end of the file.                                     *)
ReadErrorsReported == copy.pc = "done" /\ copy.readFault => copy.ret < 0

(* What files hold is what was written to them, directly and by copy.       *)
FilesExact == IOTypeOK /\ ContentsExact /\ CopyFaithful
=============================================================================

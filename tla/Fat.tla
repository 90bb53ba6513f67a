--------------------------------- MODULE Fat ---------------------------------
(***************************************************************************)
(* The FAT driver: allocation table, directory entries, and the in-memory  *)
(* copies of an entry (first cluster and size) that every open file has of *)
(* its own.  fat_lookup_vn makes a new copy on each call; nothing relates  *)
(* two copies of one entry.                                                *)
(*                                                                         *)
(* Disk transfers are polled with interrupts off, so operations do not     *)
(* interleave; each is the sequence of sector writes it performs, and the  *)
(* machine may stop, or a write may fail, between any two of them.  A step *)
(* carries the copy's value at the time of the write and the writes that   *)
(* undo the operation if this one fails.  Left out because nothing reads   *)
(* them: file data, the second allocation table, the rest of a deleted     *)
(* entry, and what a free cluster still holds (allocation clears it).      *)
(***************************************************************************)
EXTENDS Naturals, Sequences, FiniteSets
LOCAL INSTANCE SequencesExt

CONSTANTS Clusters,    \* cluster numbers
          ClusterSize, \* bytes per cluster
          Sizes,       \* bound: the file sizes asked for
          RootSlots,   \* entries of the fixed root directory
          DirSlots,    \* entries of a directory cluster
          FatNames,    \* short names
          Handles,     \* bound: files open at once
          MaxFaults    \* bound: write errors and restarts

VARIABLES fat,      \* cluster -> 0 (free), EOC or the next cluster
          dirent,   \* place -> slot -> directory entry
          copy_of,  \* handle -> the fat_node_t of an open file, or NoNode
          steps,    \* writes of the current operation still to come
          owner,    \* the handle the current operation works for (0: none)
          shrinking,\* the current operation cuts a chain short
          faults,   \* write errors and restarts so far
          taint     \* history: what has happened that the driver does not guard

fatVars == <<fat, dirent, copy_of, steps, owner, shrinking, faults, taint>>

EOC == 1                        \* every value is_eoc accepts
ROOT == 0                       \* the place of the fixed root directory
NoNode == [slot |-> <<0, 0>>, first |-> 0, size |-> 0]
EndEntry == [name |-> "end", dir |-> FALSE, first |-> 0, size |-> 0]
Entry(slot) == dirent[slot[1]][slot[2]]
Used(e) == e.name \in FatNames
CountOf(size) == (size + ClusterSize - 1) \div ClusterSize

FatInit ==
  /\ fat = [c \in Clusters |-> 0]
  /\ dirent = [p \in {ROOT} \cup Clusters |->
                 [i \in 1 .. IF p = ROOT THEN RootSlots ELSE DirSlots |-> EndEntry]]
  /\ copy_of = [h \in Handles |-> NoNode]
  /\ steps = <<>> /\ owner = 0 /\ shrinking = FALSE /\ faults = 0 /\ taint = {}

------------------------------------------------------------------------------
(* Chains and directories. *)

(* The clusters fat_next_cluster visits from `first`, up to the end of the  *)
(* chain, a free or repeated cluster.                                       *)
Chain(first) ==
  LET ch[k \in 0 .. Cardinality(Clusters)] ==
        IF k = 0 THEN IF first = 0 THEN <<>> ELSE <<first>>
        ELSE LET s == ch[k - 1] IN
             IF s # <<>> /\ fat[Last(s)] \in Clusters /\ ~Contains(s, fat[Last(s)])
             THEN Append(s, fat[Last(s)]) ELSE s
  IN ch[Cardinality(Clusters)]

Ends(ch) == ch # <<>> => fat[Last(ch)] = EOC

(* fat_read_vn of a whole file finds a cluster for every byte: it starts at *)
(* the first cluster and asks the table for each further one.               *)
fat_read_vn(node) ==
  LET at[k \in 1 .. CountOf(node.size)] ==
        IF k = 1 THEN node.first ELSE IF at[k - 1] \in Clusters THEN fat[at[k - 1]] ELSE 0
  IN \A k \in 1 .. CountOf(node.size) : at[k] \in Clusters

(* fat_alloc_cluster takes the lowest free cluster, so a run of allocations *)
(* takes the free clusters in order.                                        *)
FreeClusters == SetToSortSeq({c \in Clusters : fat[c] = 0}, <)

ChainSlots(ch) ==
  [j \in 1 .. DirSlots * Len(ch) |->
     <<ch[((j - 1) \div DirSlots) + 1], ((j - 1) % DirSlots) + 1>>]
Slots(dir) == IF dir = ROOT THEN [i \in 1 .. RootSlots |-> <<ROOT, i>>]
              ELSE ChainSlots(Chain(dir))

(* fat_iter_dir: the used entries before the first end marker. *)
UsedBeforeEnd(s) ==
  {s[i] : i \in {j \in 1 .. Len(s) : /\ Used(Entry(s[j]))
                                    /\ \A k \in 1 .. j : Entry(s[k]).name # "end"}}
fat_iter_dir(dir) == UsedBeforeEnd(Slots(dir))

fat_lookup_vn(dir, name) == {slot \in fat_iter_dir(dir) : Entry(slot).name = name}

Directories == {ROOT} \cup {Entry(s).first : s \in {t \in fat_iter_dir(ROOT) : Entry(t).dir}}

------------------------------------------------------------------------------
(* The writes of the operations. *)

Step(w, node, undo) == [w |-> w, node |-> node, undo |-> undo]
SetFat(c, v) == [op |-> "fat", at |-> c, val |-> v]
Alloc(c) == [op |-> "alloc", at |-> c, val |-> EOC]
SetEntry(slot, e) == [op |-> "entry", at |-> slot, val |-> e]
Update(node) == [op |-> "update", at |-> node.slot, val |-> node]
Keep(node) == <<Step([op |-> "none", at |-> 0, val |-> 0], node, <<>>)>>

fat_free_chain(ch, node) ==
  LET freed == IF ch # <<>> /\ fat[Last(ch)] = 0 THEN Front(ch) ELSE ch
  IN [i \in 1 .. Len(freed) |-> Step(SetFat(freed[i], 0), node, <<>>)]

(* fat_ensure_cluster(node, count - 1) on a file whose chain is ch, with    *)
(* `got` to take: each missing cluster is allocated, then linked; a failed  *)
(* link frees it again.  A file without a first cluster gets one in its     *)
(* copy only.                                                               *)
Grow(before, after, prev, c) ==
  IF prev = 0 THEN <<Step(Alloc(c), before, <<>>)>>
  ELSE <<Step(Alloc(c), after, <<>>), Step(SetFat(prev, c), after, <<SetFat(c, 0)>>)>>

Grown(node, after, all, old, count) ==
  [steps |-> FlattenSeq([i \in 1 .. Len(all) - old |->
                           Grow(node, after, IF old + i = 1 THEN 0 ELSE all[old + i - 1],
                                all[old + i])]),
   node |-> after, chain |-> all, ok |-> count <= Len(all)]

Taking(node, ch, got, count) ==
  Grown(node, IF ch = <<>> /\ got # <<>> THEN [node EXCEPT !.first = got[1]] ELSE node,
        ch \o got, Len(ch), count)

Missing(ch, count) == IF count > Len(ch) /\ Ends(ch) THEN count - Len(ch) ELSE 0

Prefix(s, n) == SubSeq(s, 1, IF n < Len(s) THEN n ELSE Len(s))

fat_ensure_cluster(node, count, ch) ==
  Taking(node, ch, Prefix(FreeClusters, Missing(ch, count)), count)

fat_update_dirent(node) == <<Step(Update(node), node, <<>>)>>

\* Mutant of CutChain: the clusters cut off are not freed.
CutKeepsTail(node, last, size, tail) ==
  <<Step(SetFat(last, EOC), node, <<>>)>> \o fat_update_dirent([node EXCEPT !.size = size])

CutChain(node, last, size, tail) ==
  <<Step(SetFat(last, EOC), node, <<>>)>> \o fat_free_chain(tail, node)
  \o (IF Ends(tail) THEN fat_update_dirent([node EXCEPT !.size = size]) ELSE <<>>)

(* fat_truncate_vn, for a file with chain ch for which fat_ensure_cluster   *)
(* returned e.                                                              *)
fat_truncate_vn(node, size, ch, e) ==
  CASE size < node.size /\ size = 0 ->
         fat_free_chain(ch, node)
         \o (IF Ends(ch) THEN fat_update_dirent([node EXCEPT !.size = 0, !.first = 0])
             ELSE <<>>)
    [] size < node.size /\ size > 0 /\ e.ok ->
         e.steps \o CutChain(e.node, e.chain[CountOf(size)], size,
                             SubSeq(e.chain, CountOf(size) + 1, Len(e.chain)))
    [] size > node.size /\ e.ok ->
         e.steps \o fat_update_dirent([e.node EXCEPT !.size = size])
    [] size = node.size -> fat_update_dirent(node)
    [] OTHER -> e.steps \o Keep(e.node)

(* A write that ends at `end`. *)
fat_write_vn(node, end, ch, e) ==
  IF end > node.size THEN fat_truncate_vn(node, end, ch, e)
  ELSE e.steps \o fat_update_dirent(e.node)

(* fat_find_free_slot: the first end or deleted entry; a directory that is  *)
(* a chain is extended by a cluster.                                        *)
FirstUnused(s) ==
  {s[i] : i \in {j \in 1 .. Len(s) : /\ ~Used(Entry(s[j]))
                                    /\ \A k \in 1 .. j - 1 : Used(Entry(s[k]))}}

SlotIn(free, dir, e) ==
  IF free # {} THEN [slots |-> free, steps |-> <<>>, taken |-> 0]
  ELSE IF dir = ROOT \/ ~e.ok THEN [slots |-> {}, steps |-> <<>>, taken |-> 0]
  ELSE [slots |-> {<<Last(e.chain), 1>>}, steps |-> e.steps, taken |-> 1]

fat_find_free_slot(dir, ch) ==
  SlotIn(FirstUnused(Slots(dir)), dir,
         fat_ensure_cluster([NoNode EXCEPT !.first = dir], Len(ch) + 1, ch))

------------------------------------------------------------------------------
(* The operations. *)

Start(h, s) == /\ steps = <<>> /\ s # <<>>
               /\ steps' = s /\ owner' = h
               /\ UNCHANGED <<fat, dirent, faults>>

(* The copy h works from no longer says what its directory entry says. *)
Stale(h) == LET e == Entry(copy_of[h].slot) IN
            ~Used(e) \/ e.dir \/ e.first # copy_of[h].first \/ e.size # copy_of[h].size

Marks(h, ch, count) ==
  taint \cup (IF Stale(h) THEN {"stale"} ELSE {})
        \cup (IF Missing(ch, count) > Len(FreeClusters) THEN {"full"} ELSE {})

IsOpen(h) == copy_of[h].slot # <<0, 0>>

FatOpen(h, dir, name) ==
  /\ steps = <<>> /\ ~IsOpen(h)
  /\ \E slot \in fat_lookup_vn(dir, name) :
       /\ ~Entry(slot).dir
       /\ copy_of' = [copy_of EXCEPT ![h] = [slot |-> slot, first |-> Entry(slot).first,
                                                           size |-> Entry(slot).size]]
  /\ UNCHANGED <<fat, dirent, steps, owner, shrinking, faults, taint>>

FatClose(h) ==
  /\ steps = <<>> /\ IsOpen(h)
  /\ copy_of' = [copy_of EXCEPT ![h] = NoNode]
  /\ UNCHANGED <<fat, dirent, steps, owner, shrinking, faults, taint>>

FatWrite(h, end) ==
  \E ch \in {Chain(copy_of[h].first)} :
     /\ IsOpen(h) /\ end > 0
     /\ Start(h, fat_write_vn(copy_of[h], end, ch,
                              fat_ensure_cluster(copy_of[h], CountOf(end), ch)))
     /\ shrinking' = FALSE /\ taint' = Marks(h, ch, CountOf(end)) /\ UNCHANGED copy_of

FatTruncate(h, size) ==
  \E ch \in {Chain(copy_of[h].first)} :
     /\ IsOpen(h)
     /\ Start(h, fat_truncate_vn(copy_of[h], size, ch,
                                 fat_ensure_cluster(copy_of[h], CountOf(size), ch)))
     /\ shrinking' = (size < copy_of[h].size)
     /\ taint' = Marks(h, ch, CountOf(size)) /\ UNCHANGED copy_of

CreateSteps(place, slot, entry) ==
  place.steps
  \o (IF entry.first # 0 THEN <<Step(Alloc(entry.first), NoNode, <<>>)>> ELSE <<>>)
  \o (IF entry.dir /\ entry.first = 0 THEN <<>>
      ELSE <<Step(SetEntry(slot, entry), NoNode,
                  IF entry.dir THEN <<SetFat(entry.first, 0)>> ELSE <<>>)>>)

FatCreate(dir, name, isdir) ==
  \E place \in {fat_find_free_slot(dir, Chain(dir))} : \E slot \in place.slots :
     LET n == place.taken + 1
         first == IF isdir /\ n <= Len(FreeClusters) THEN FreeClusters[n] ELSE 0
     IN /\ fat_lookup_vn(dir, name) = {}
        /\ Start(0, CreateSteps(place, slot, [name |-> name, dir |-> isdir,
                                              first |-> first, size |-> 0]))
        /\ shrinking' = FALSE /\ UNCHANGED <<copy_of, taint>>

\* Mutant of FatUnlink: the chain is freed before the entry is deleted.
UnlinkFreesFirst(dir, name) ==
  \E slot \in fat_lookup_vn(dir, name) :
     LET e == Entry(slot) IN
     /\ e.dir => fat_iter_dir(e.first) = {}
     /\ Start(0, fat_free_chain(Chain(e.first), NoNode)
                 \o <<Step(SetEntry(slot, [EndEntry EXCEPT !.name = "deleted"]), NoNode, <<>>)>>)
     /\ shrinking' = FALSE /\ UNCHANGED <<copy_of, taint>>

FatUnlink(dir, name) ==
  \E slot \in fat_lookup_vn(dir, name) :
     LET e == Entry(slot) IN
     /\ e.dir => fat_iter_dir(e.first) = {}
     /\ Start(0, <<Step(SetEntry(slot, [EndEntry EXCEPT !.name = "deleted"]), NoNode, <<>>)>>
                 \o fat_free_chain(Chain(e.first), NoNode))
     /\ shrinking' = FALSE /\ UNCHANGED <<copy_of, taint>>

------------------------------------------------------------------------------
(* The disk. *)

Write(w) ==
  /\ fat' = IF w.op \in {"fat", "alloc"} THEN [fat EXCEPT ![w.at] = w.val] ELSE fat
  /\ dirent' = CASE w.op = "alloc" \/ (w.op = "fat" /\ w.val = 0) ->
                      [dirent EXCEPT ![w.at] = [i \in 1 .. DirSlots |-> EndEntry]]
                 [] w.op = "entry" -> [dirent EXCEPT ![w.at[1]][w.at[2]] = w.val]
                 [] w.op = "update" ->
                      [dirent EXCEPT ![w.at[1]][w.at[2]].first = w.val.first,
                                     ![w.at[1]][w.at[2]].size = w.val.size]
                 [] OTHER -> dirent

SetCopy == copy_of' = IF owner = 0 THEN copy_of
                      ELSE [copy_of EXCEPT ![owner] = Head(steps).node]

Flush ==
  /\ steps # <<>>
  /\ Write(Head(steps).w) /\ SetCopy
  /\ steps' = Tail(steps)
  /\ UNCHANGED <<owner, shrinking, faults, taint>>

WriteError ==
  /\ steps # <<>> /\ Head(steps).w.op # "none" /\ faults < MaxFaults
  /\ SetCopy
  /\ steps' = [i \in 1 .. Len(Head(steps).undo) |->
                 Step(Head(steps).undo[i], Head(steps).node, <<>>)]
  /\ taint' = taint \cup {"fault"} \cup (IF shrinking THEN {"shrink"} ELSE {})
  /\ faults' = faults + 1
  /\ UNCHANGED <<fat, dirent, owner, shrinking>>

(* The machine stops and starts again: only the disk survives. *)
Restart ==
  /\ faults < MaxFaults
  /\ copy_of' = [h \in Handles |-> NoNode]
  /\ steps' = <<>> /\ owner' = 0 /\ shrinking' = FALSE
  /\ taint' = taint \cup {"fault"} \cup (IF shrinking /\ steps # <<>> THEN {"shrink"} ELSE {})
  /\ faults' = faults + 1
  /\ UNCHANGED <<fat, dirent>>

Operation ==
  \E dir \in Directories, name \in FatNames :
     \/ \E h \in Handles : FatOpen(h, dir, name)
     \/ FatUnlink(dir, name)
     \/ FatCreate(dir, name, FALSE)
     \/ dir = ROOT /\ FatCreate(dir, name, TRUE)

FatNext ==
  \/ steps = <<>> /\ Operation
  \/ steps = <<>> /\ \E h \in {k \in Handles : IsOpen(k)} :
       \/ \E size \in Sizes : FatWrite(h, size) \/ FatTruncate(h, size)
       \/ FatClose(h)
  \/ Flush \/ WriteError \/ Restart

FatSpec == FatInit /\ [][FatNext]_fatVars

------------------------------------------------------------------------------
(* Properties. *)

AllUsed == UNION {fat_iter_dir(d) : d \in Directories}

(* Every entry of every directory owns a chain of its own that ends, and    *)
(* can be read to its size.                                                 *)
EntriesOwnChains ==
  LET used == AllUsed
      chain == [s \in used |-> Chain(Entry(s).first)]
  IN \A s \in used :
       /\ Ends(chain[s]) /\ fat_read_vn(Entry(s))
       /\ Entry(s).dir => chain[s] # <<>>
       /\ \A t \in used \ {s} : ToSet(chain[s]) \cap ToSet(chain[t]) = {}

(* Wherever the machine stops or a write fails, what a restart finds on the *)
(* disk is sound: create, mkdir, write, unlink and rmdir order their writes *)
(* so that an entry never leads to clusters it does not own.  Not covered:  *)
(* shrinking a file, which frees clusters before it updates the entry, once *)
(* it was cut short; and work done through an outdated copy of an entry.    *)
RestartFindsSoundDisk ==
  taint \cap {"stale", "shrink"} = {} /\ ~(shrinking /\ steps # <<>>) => EntriesOwnChains

(* Between operations no cluster is lost: what is allocated belongs to an   *)
(* entry, unless there was a fault, a full disk or an outdated copy.        *)
NoClusterLost ==
  taint = {} /\ steps = <<>> =>
     {c \in Clusters : fat[c] # 0} = UNION {ToSet(Chain(Entry(s).first)) : s \in AllUsed}
==============================================================================

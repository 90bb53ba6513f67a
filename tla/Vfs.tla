--------------------------------- MODULE Vfs ---------------------------------
(***************************************************************************)
(* The name space: RAMFS trees, vnodes and their reference counts, open    *)
(* files, descriptor tables, mounts, working directories, and the system   *)
(* calls and kernel entry points that change them.                         *)
(*                                                                         *)
(* RAMFS keeps one vnode per node in node->vnode_cache for as long as the  *)
(* node is linked, and a vnode's destruction frees its node, so a node and *)
(* its vnode are one record here.  A handler runs with interrupts off and  *)
(* does not yield: it is one step.  A call that fails before it changed    *)
(* anything is a stuttering step and is not written down.                  *)
(***************************************************************************)
EXTENDS Naturals, Sequences, FiniteSets

CONSTANTS Names,       \* component names
          Dot, DotDot, \* the components "." and ".."
          Users,       \* processes that own a descriptor table
          MaxNodes,    \* bound: RAMFS nodes the heap holds
          MaxFiles,    \* bound: struct file the heap holds
          FD_MAX,      \* slots of a descriptor table
          PathMax,     \* components that fit SYSCALL_PATH_MAX
          Targets,     \* mount points
          RootTarget   \* the mount point "/"

ASSUME VfsConstants ==
  /\ RootTarget \in Targets
  /\ Dot \notin Names /\ DotDot \notin Names /\ Dot # DotDot
  /\ MaxNodes \in Nat /\ MaxFiles \in Nat /\ FD_MAX \in Nat /\ FD_MAX > 3

VARIABLES vnode,         \* node id -> node with its vnode
          file,          \* file id -> struct file
          fds,           \* process -> descriptor -> file id (0: unused)
          cwd,           \* process -> working directory, a path from "/"
          living,        \* processes that exist
          g_root_vnode,  \* root of every lookup (0: NULL)
          g_mounts       \* the mount list

vfsVars == <<vnode, file, fds, cwd, living, g_root_vnode, g_mounts>>

NodeIds == 1 .. MaxNodes
FileIds == 1 .. MaxFiles
Fds == 0 .. FD_MAX - 1
FreeNode == [type |-> "free", name |-> Dot, parent |-> 0, children |-> <<>>,
             cached |-> FALSE, refcnt |-> 0]
FreeFile == [vn |-> 0, refcount |-> 0]
Paths == UNION {[1 .. k -> Names] : k \in 0 .. PathMax}
UserPaths == [abs : BOOLEAN,
              comps : UNION {[1 .. k -> Names \cup {Dot, DotDot}] : k \in 1 .. PathMax}]
               \cup {[abs |-> TRUE, comps |-> <<>>]}
FreeNodes == {n \in NodeIds : vnode[n].type = "free"}
FreeFiles == {f \in FileIds : file[f].refcount = 0}
Lowest(S) == CHOOSE x \in S : \A y \in S : x <= y
Elems(s) == {s[i] : i \in 1 .. Len(s)}
Without(s, e) == SelectSeq(s, LAMBDA x : x # e)
NONE == 0

VfsInit ==
  /\ vnode = [n \in NodeIds |-> FreeNode]
  /\ file = [f \in FileIds |-> FreeFile]
  /\ fds = [p \in Users |-> [fd \in Fds |-> 0]]
  /\ cwd = [p \in Users |-> <<>>]
  /\ living = {}
  /\ g_root_vnode = NONE
  /\ g_mounts = <<>>

------------------------------------------------------------------------------
(* Paths.  0 stands for every lookup error. *)

TooLong == <<Dot>>   \* ERR_NAME_TOO_LONG

\* Mutant of syscall_resolve_path: ".." keeps the first component.
ResolveKeepsFirst(dir, path) ==
  LET r[i \in 0 .. Len(path.comps)] ==
        IF i = 0 THEN IF path.abs THEN <<>> ELSE dir
        ELSE LET c == path.comps[i]
                 s == r[i - 1]
             IN CASE c = Dot \/ s = TooLong -> s
                  [] c = DotDot -> IF Len(s) <= 1 THEN s ELSE SubSeq(s, 1, Len(s) - 1)
                  [] OTHER -> IF Len(s) = PathMax THEN TooLong ELSE Append(s, c)
  IN r[Len(path.comps)]

syscall_resolve_path(dir, path) ==
  LET r[i \in 0 .. Len(path.comps)] ==
        IF i = 0 THEN IF path.abs THEN <<>> ELSE dir
        ELSE LET c == path.comps[i]
                 s == r[i - 1]
             IN CASE c = Dot \/ s = TooLong -> s
                  [] c = DotDot -> IF s = <<>> THEN s ELSE SubSeq(s, 1, Len(s) - 1)
                  [] OTHER -> IF Len(s) = PathMax THEN TooLong ELSE Append(s, c)
  IN r[Len(path.comps)]

(* What each path argument resolves to from each working directory. *)
Resolution == [dir \in Paths |-> [u \in UserPaths |-> syscall_resolve_path(dir, u)]]

Resolved(p) == {Resolution[cwd[p]][u] : u \in UserPaths} \ {TooLong}

Named(dir, name) == {c \in Elems(vnode[dir].children) : vnode[c].name = name}

vfs_lookup_component(dir, name) ==
  IF dir = NONE \/ (dir # NONE /\ vnode[dir].type # "dir") THEN NONE
  ELSE IF name = Dot THEN dir
  ELSE IF name = DotDot
       THEN IF vnode[dir].parent = NONE THEN dir ELSE vnode[dir].parent
  ELSE IF Named(dir, name) = {} THEN NONE
       ELSE CHOOSE c \in Named(dir, name) : TRUE

Walk(from, comps) ==
  LET at[i \in 0 .. Len(comps)] ==
        IF i = 0 THEN from ELSE vfs_lookup_component(at[i - 1], comps[i])
  IN at[Len(comps)]

vfs_lookup(path) == Walk(g_root_vnode, path)

Parent(path) == IF path = <<>> THEN NONE
                ELSE vfs_lookup(SubSeq(path, 1, Len(path) - 1))
Leaf(path) == path[Len(path)]

------------------------------------------------------------------------------
(* Reference counts, as functions from one table to the next. *)

vnode_unref(vn, n) ==
  [vn EXCEPT ![n] = IF @.refcnt <= 1 THEN FreeNode ELSE [@ EXCEPT !.refcnt = @ - 1]]

ramfs_node_release(vn, n) ==
  vnode_unref([vn EXCEPT ![n].cached = FALSE, ![n].parent = NONE], n)

file_unref(s, f) ==
  IF s.file[f].refcount > 1
  THEN [s EXCEPT !.file[f].refcount = @ - 1]
  ELSE [vnode |-> vnode_unref(s.vnode, s.file[f].vn),
        file |-> [s.file EXCEPT ![f] = FreeFile]]

fd_find_free(p) ==
  LET free == {fd \in 3 .. FD_MAX - 1 : fds[p][fd] = 0}
  IN IF free = {} THEN 0 ELSE Lowest(free)

------------------------------------------------------------------------------
(* Mounts. *)

find_mount_by_target(target) == {i \in 1 .. Len(g_mounts) : g_mounts[i].target = target}

(* ramfs_mount_fn and ramfs_root_vnode: a fresh root directory. *)
ramfs_mount_fn(r) ==
  [vnode EXCEPT ![r] = [FreeNode EXCEPT !.type = "dir", !.cached = TRUE, !.refcnt = 1]]

mount_do_mount(target) ==
  /\ find_mount_by_target(target) = {} /\ FreeNodes # {}
  /\ LET r == Lowest(FreeNodes) IN
     /\ vnode' = ramfs_mount_fn(r)
     /\ g_mounts' = Append(g_mounts, [target |-> target, root |-> r])
     /\ g_root_vnode' = IF target = RootTarget THEN r ELSE g_root_vnode
  /\ UNCHANGED <<file, fds, cwd, living>>

ramfs_tree(r) ==
  LET below[k \in 0 .. MaxNodes] ==
        IF k = 0 THEN {r}
        ELSE LET up == below[k - 1]
             IN up \cup UNION {Elems(vnode[n].children) : n \in up}
  IN below[MaxNodes]

ramfs_tree_release(roots) ==
  [n \in NodeIds |->
     IF \E r \in roots : n \in ramfs_tree(r)
     THEN ramfs_node_release([vnode EXCEPT ![n].children = <<>>], n)[n]
     ELSE vnode[n]]

mount_do_unmount(target) ==
  \E i \in find_mount_by_target(target) :
     /\ vnode' = ramfs_tree_release({g_mounts[i].root})
     /\ g_root_vnode' = IF g_root_vnode = g_mounts[i].root THEN NONE ELSE g_root_vnode
     /\ g_mounts' = Without(g_mounts, g_mounts[i])
     /\ UNCHANGED <<file, fds, cwd, living>>

(* mount_shutdown: every mount in turn; no root is left. *)
mount_cleanup ==
  /\ g_mounts # <<>>
  /\ vnode' = ramfs_tree_release({g_mounts[i].root : i \in 1 .. Len(g_mounts)})
  /\ g_root_vnode' = NONE /\ g_mounts' = <<>>
  /\ UNCHANGED <<file, fds, cwd, living>>

------------------------------------------------------------------------------
(* Operations on names. *)

Created(vn, dir, name, type, n) ==
  [vn EXCEPT ![n] = [FreeNode EXCEPT !.type = type, !.name = name, !.parent = dir,
                                     !.cached = TRUE, !.refcnt = 1],
             ![dir].children = <<n>> \o @]

ramfs_create_vn(dir, name, type) ==
  /\ dir # NONE /\ vnode[dir].type = "dir" /\ Named(dir, name) = {} /\ FreeNodes # {}
  /\ vnode' = Created(vnode, dir, name, type, Lowest(FreeNodes))
  /\ UNCHANGED <<file, fds, cwd, living, g_root_vnode, g_mounts>>

vfs_mkdir(r) == r # <<>> /\ ramfs_create_vn(Parent(r), Leaf(r), "dir")

SysMkdir(p) == \E r \in Resolved(p) : vfs_mkdir(r)

\* Mutant of ramfs_unlink_vn: a directory need not be empty.
UnlinkNonEmpty(dir, name) ==
  \E n \in Named(dir, name) :
     /\ vnode' = ramfs_node_release([vnode EXCEPT ![dir].children = Without(@, n)], n)
     /\ UNCHANGED <<file, fds, cwd, living, g_root_vnode, g_mounts>>

ramfs_unlink_vn(dir, name) ==
  \E n \in Named(dir, name) :
     /\ vnode[n].children = <<>>
     /\ vnode' = ramfs_node_release([vnode EXCEPT ![dir].children = Without(@, n)], n)
     /\ UNCHANGED <<file, fds, cwd, living, g_root_vnode, g_mounts>>

vfs_unlink(r) ==
  /\ Parent(r) # NONE /\ vnode[Parent(r)].type = "dir"
  /\ ramfs_unlink_vn(Parent(r), Leaf(r))

SysUnlink(p) == \E r \in Resolved(p) : vfs_unlink(r)

SysChdir(p) ==
  \E r \in Resolved(p) :
     /\ vfs_lookup(r) # NONE /\ vnode[vfs_lookup(r)].type = "dir"
     /\ cwd' = [cwd EXCEPT ![p] = r]
     /\ UNCHANGED <<vnode, file, fds, living, g_root_vnode, g_mounts>>

(* vfs_open up to its calloc: the vnode opened, and the table with it.  A   *)
(* new node stays when calloc of the struct file fails.                     *)
vfs_open(r, create) ==
  LET n == vfs_lookup(r)
      fresh == Lowest(FreeNodes)
      may == /\ create /\ r # <<>> /\ Parent(r) # NONE
             /\ vnode[Parent(r)].type = "dir" /\ FreeNodes # {}
  IN IF n # NONE THEN [vn |-> n, vnode |-> vnode]
     ELSE IF may THEN [vn |-> fresh,
                       vnode |-> Created(vnode, Parent(r), Leaf(r), "file", fresh)]
     ELSE [vn |-> NONE, vnode |-> vnode]

(* A struct file that fd_alloc finds no slot for is dropped again.          *)
SysOpen(p, create) ==
  \E r \in Resolved(p) :
     LET o == vfs_open(r, create)
         f == Lowest(FreeFiles)
         fd == fd_find_free(p)
     IN /\ o.vn # NONE
        /\ IF FreeFiles = {} \/ fd = 0
           THEN vnode' = o.vnode /\ UNCHANGED <<file, fds>>
           ELSE /\ vnode' = [o.vnode EXCEPT ![o.vn].refcnt = @ + 1]
                /\ file' = [file EXCEPT ![f] = [vn |-> o.vn, refcount |-> 1]]
                /\ fds' = [fds EXCEPT ![p][fd] = f]
        /\ UNCHANGED <<cwd, living, g_root_vnode, g_mounts>>

------------------------------------------------------------------------------
(* Descriptors. *)

SysClose(p, fd) ==
  /\ fds[p][fd] # 0
  /\ LET s == file_unref([vnode |-> vnode, file |-> file], fds[p][fd])
     IN vnode' = s.vnode /\ file' = s.file
  /\ fds' = [fds EXCEPT ![p][fd] = 0]
  /\ UNCHANGED <<cwd, living, g_root_vnode, g_mounts>>

fd_alloc(p, f) ==
  /\ fd_find_free(p) # 0
  /\ file' = [file EXCEPT ![f].refcount = @ + 1]
  /\ fds' = [fds EXCEPT ![p][fd_find_free(p)] = f]
  /\ UNCHANGED <<vnode, cwd, living, g_root_vnode, g_mounts>>

fd_dup(p, old) == fds[p][old] # 0 /\ fd_alloc(p, fds[p][old])

(* What the slot held is closed first; nothing changes if it is the same.   *)
fd_alloc_at(p, new, f) ==
  LET s == IF fds[p][new] = 0 THEN [vnode |-> vnode, file |-> file]
           ELSE file_unref([vnode |-> vnode, file |-> file], fds[p][new])
  IN /\ fds[p][new] # f
     /\ vnode' = s.vnode
     /\ file' = [s.file EXCEPT ![f].refcount = @ + 1]
     /\ fds' = [fds EXCEPT ![p][new] = f]
     /\ UNCHANGED <<cwd, living, g_root_vnode, g_mounts>>

fd_dup2(p, old, new) == fds[p][old] # 0 /\ new # old /\ fd_alloc_at(p, new, fds[p][old])

(* SYS_waitpid on an exited child closes every descriptor of its table. *)
ReapTable(p) ==
  LET closed[i \in 0 .. FD_MAX] ==
        IF i = 0 THEN [vnode |-> vnode, file |-> file]
        ELSE IF fds[p][i - 1] = 0 THEN closed[i - 1]
        ELSE file_unref(closed[i - 1], fds[p][i - 1])
  IN /\ p \in living
     /\ vnode' = closed[FD_MAX].vnode /\ file' = closed[FD_MAX].file
     /\ fds' = [fds EXCEPT ![p] = [fd \in Fds |-> 0]]
     /\ living' = living \ {p}
     /\ cwd' = [cwd EXCEPT ![p] = <<>>]
     /\ UNCHANGED <<g_root_vnode, g_mounts>>

(* proc_create: the child starts in its parent's working directory.  The    *)
(* parent may have changed to any directory before it was removed.          *)
SpawnUser(p, dir) ==
  /\ p \notin living
  /\ living' = living \cup {p}
  /\ cwd' = [cwd EXCEPT ![p] = dir]
  /\ UNCHANGED <<vnode, file, fds, g_root_vnode, g_mounts>>

VfsNext ==
  \/ \E t \in Targets : mount_do_mount(t) \/ mount_do_unmount(t)
  \/ mount_cleanup
  \/ \E p \in living :
       \/ SysMkdir(p) \/ SysUnlink(p) \/ SysChdir(p)
       \/ \E create \in BOOLEAN : SysOpen(p, create)
       \/ \E fd \in 3 .. FD_MAX - 1 :
            \/ SysClose(p, fd) \/ fd_dup(p, fd)
            \/ \E new \in 3 .. FD_MAX - 1 : fd_dup2(p, fd, new)
       \/ ReapTable(p)
  \/ \E p \in Users, dir \in Paths : SpawnUser(p, dir)

VfsSpec == VfsInit /\ [][VfsNext]_vfsVars

------------------------------------------------------------------------------
(* Properties. *)

InUse(n) == vnode[n].type # "free"
Open(f) == file[f].refcount > 0

(* The state of the tables is well typed. *)
VfsTypeOK ==
  /\ vnode \in [NodeIds -> [type : {"free", "dir", "file"}, name : Names \cup {Dot},
                            parent : 0 .. MaxNodes, children : Seq(NodeIds),
                            cached : BOOLEAN, refcnt : Nat]]
  /\ file \in [FileIds -> [vn : 0 .. MaxNodes, refcount : Nat]]
  /\ fds \in [Users -> [Fds -> 0 .. MaxFiles]]
  /\ cwd \in [Users -> Paths] /\ living \subseteq Users
  /\ g_root_vnode \in 0 .. MaxNodes

(* Every vnode's refcnt is the number of its holders (RAMFS's vnode_cache   *)
(* while the node is linked, and the open files on it), and every struct    *)
(* file's refcount is the number of descriptors naming it, across open,     *)
(* dup, close, reap, unlink of an open file and unmount under open files:   *)
(* no vnode or file is freed while held, and none is leaked.                *)
RefcountsExact ==
  /\ \A n \in NodeIds :
        vnode[n].refcnt = (IF vnode[n].cached THEN 1 ELSE 0)
                          + Cardinality({f \in FileIds : Open(f) /\ file[f].vn = n})
  /\ \A n \in NodeIds : InUse(n) <=> vnode[n].refcnt > 0
  /\ \A f \in FileIds :
        file[f].refcount = Cardinality({x \in Users \X Fds : fds[x[1]][x[2]] = f})

(* The linked nodes are exactly the trees below the mounted roots, with     *)
(* parent and child agreeing and no name twice in a directory; a node that  *)
(* was unlinked or unmounted is in no tree, so no lookup returns it.        *)
TreeSound ==
  /\ {n \in NodeIds : vnode[n].cached} =
        UNION {ramfs_tree(g_mounts[i].root) : i \in 1 .. Len(g_mounts)}
  /\ \A n \in NodeIds : LET kids == vnode[n].children IN
        /\ kids # <<>> => vnode[n].type = "dir" /\ vnode[n].cached
        /\ Cardinality(Elems(kids)) = Len(kids)
        /\ \A c \in Elems(kids) : vnode[c].parent = n
        /\ \A c, d \in Elems(kids) : vnode[c].name = vnode[d].name => c = d
  /\ g_root_vnode # NONE =>
        \E i \in 1 .. Len(g_mounts) :
           g_mounts[i] = [target |-> RootTarget, root |-> g_root_vnode]

(* The system calls resolve "." and ".." in the text of the path before the *)
(* lookup.  Whenever following the components from the working directory,   *)
(* with RAMFS's own "." and "..", reaches a node, the textual resolution    *)
(* reaches the same one.                                                    *)
TextualPathIsWalk ==
  \A p \in living, path \in UserPaths :
     LET from == IF path.abs THEN g_root_vnode ELSE vfs_lookup(cwd[p])
         n == Walk(from, path.comps)
         r == Resolution[cwd[p]][path]
     IN n # NONE /\ r # TooLong => vfs_lookup(r) = n

(* The name space as a whole: tables, counts and trees agree after every    *)
(* call of every process (open to unlink, dup, close, reap, mount, unmount).*)
NameSpaceSound == VfsTypeOK /\ RefcountsExact /\ TreeSound
==============================================================================

-------------------------------- MODULE Files --------------------------------
(***************************************************************************)
(* servers/vfs.c with drivers/ramdisk.c: devices, nodes, paths and file    *)
(* positions.  (Descriptors, inheritance and pipes are in module VFS; here *)
(* pipe and tty are devices that answer, or hold, a request.)              *)
(*                                                                         *)
(* A request is one action, as in VFS.  A path is the directories to walk  *)
(* and the last name, 0 if it ends in '/'; NONE is NULL or the empty       *)
(* path.  Root and working directory of every task are node 0 of device 1. *)
(***************************************************************************)
EXTENDS Memfile

CONSTANTS Pid, MAX_FD, MAX_FILP, MAX_DEV,
          Data, Path

\* A node of memfile, whose bytes are numbers.
MfNode ==
  [refcnt : Nat, links : Nat, dir : BOOLEAN, size : 0..LIMIT, file : [0..LIMIT -> Int]]

\* The three drivers have a place in devtab.
ASSUME FilesAssumption ==
  /\ {MF_MAX_NODES, MF_MAX_ENTRIES, MAX_FD, MAX_FILP} \subseteq Nat \ {0}
  /\ MAX_DEV \in Nat /\ MAX_DEV > 2
  /\ Data \subseteq Int /\ EOF \notin Int /\ NONE \notin MfNode
  /\ IsFiniteSet(Pid)

Fd == 0..(MAX_FD - 1)
Filp == 0..(MAX_FILP - 1)
PIPE == 0
MEMFILE == 1
TTY == 2

VARIABLES devtab,     \* the device numbers with a driver
          fd, filp,   \* descriptors, and what they are open on
          nodes,      \* of memfile
          stuck,      \* vfs waits for a driver that does not exist
          wild,       \* a device used a number outside its node table
          moved       \* history: bytes moved through a filp since it was opened

vars == <<devtab, fd, filp, nodes, stuck, wild, moved>>

Init ==
  /\ devtab = {PIPE, MEMFILE, TTY}
  /\ fd = [p \in Pid |-> [i \in Fd |-> -1]]
  /\ filp = [f \in Filp |-> [dev |-> 0, ino |-> 0, refcnt |-> 0, pos |-> 0]]
  /\ nodes = [i \in MfIno |-> IF i = 0 THEN RootNode ELSE NONE]
  /\ stuck = FALSE /\ wild = FALSE
  /\ moved = [f \in Filp |-> 0]

Serves == ~stuck /\ ~wild

Lowest(S) == IF S = {} THEN -1 ELSE Min(S)

find_empty_devtab == Lowest((0..(MAX_DEV - 1)) \ devtab)

\* do_mkdev().
MkDev ==
  /\ Serves /\ find_empty_devtab >= 0
  /\ devtab' = devtab \cup {find_empty_devtab}
  /\ UNCHANGED <<fd, filp, nodes, stuck, wild, moved>>

-----------------------------------------------------------------------------
\* vfs_get_direntry(): the node called name in directory ino, -1, or WILD if
\* ino is the number of no node.
WILD == -2

vfs_get_direntry(ino, name) ==
  IF ino = -1 THEN -1
  ELSE IF \A i \in MfIno : i # ino \/ nodes[i] = NONE THEN WILD
  ELSE mf_get_direntry(nodes[ino], name)

\* vfs_get_dir() and, with basename(), vfs_get_node().
vfs_get_dir(path) == IF path = NONE THEN -1 ELSE FoldLeft(vfs_get_direntry, 0, path.dirs)

vfs_get_node(path) ==
  IF path = NONE THEN -1
  ELSE IF path.base = 0 THEN vfs_get_dir(path)
  ELSE vfs_get_direntry(vfs_get_dir(path), path.base)

\* do_stat(): it changes nothing unless it goes astray.
Stat(path) ==
  /\ Serves
  /\ wild' = (vfs_get_node(path) = WILD)
  /\ UNCHANGED <<devtab, fd, filp, nodes, stuck, moved>>

\* do_mknod(): makes a node on the directory's device, and links it; without
\* a node the link is asked for number -1.
Mknod(path) ==
  LET dir == vfs_get_dir(path)
      ino == mf_free(nodes)
  IN /\ Serves
     /\ \/ /\ dir = -1
           /\ UNCHANGED <<nodes, wild>>
        \/ /\ dir # -1 /\ (dir = WILD \/ ino = -1)
           /\ wild' = TRUE
           /\ UNCHANGED nodes
        \/ /\ dir # -1 /\ dir # WILD /\ ino # -1
           /\ nodes' = mf_count_link(mf_create_node(nodes, FALSE), ino)
           /\ UNCHANGED wild
     /\ UNCHANGED <<devtab, fd, filp, stuck, moved>>

-----------------------------------------------------------------------------
find_empty_fd(c) == Lowest({i \in Fd : fd[c][i] < 0})
find_empty_filp == Lowest({f \in Filp : filp[f].refcnt = 0})

\* The filp table with f prepared for a node, and counted if it was found.
Opened(f, dev, ino, found) ==
  [filp EXCEPT ![f] = [dev |-> dev, ino |-> ino, pos |-> 0, refcnt |-> IF found THEN 1 ELSE 0]]

\* Mutation: with no descriptor left the node is grabbed all the same.
Open_late(c, dev, ino) ==
  LET n == find_empty_fd(c)
      f == find_empty_filp
  IN /\ Serves
     /\ f >= 0 /\ dev = MEMFILE /\ ino \in MfIno /\ nodes[ino] # NONE
     /\ nodes' = mf_grab(nodes, ino)
     /\ \/ n < 0 /\ UNCHANGED <<fd, filp, moved>>
        \/ /\ n >= 0
           /\ filp' = Opened(f, dev, ino, TRUE)
           /\ fd' = [fd EXCEPT ![c][n] = f]
           /\ moved' = [moved EXCEPT ![f] = 0]
     /\ UNCHANGED <<devtab, stuck, wild>>

\* do_open(): the device number is used as it comes from the user, and so is
\* the node number.  pipe's own node table is in module VFS.
Open(c, dev, ino) ==
  LET n == find_empty_fd(c)
      f == find_empty_filp
  IN /\ Serves
     /\ n >= 0 /\ f >= 0
     /\ \/ /\ dev \notin devtab
           /\ stuck' = TRUE
           /\ UNCHANGED <<fd, filp, nodes, wild, moved>>
        \/ /\ dev = MEMFILE /\ ino \notin MfIno
           /\ wild' = TRUE
           /\ UNCHANGED <<fd, filp, nodes, stuck, moved>>
        \/ /\ dev = MEMFILE /\ ino \in MfIno /\ nodes[ino] = NONE
           /\ filp' = Opened(f, dev, ino, FALSE)
           /\ UNCHANGED <<fd, nodes, stuck, wild, moved>>
        \/ /\ dev = MEMFILE => ino \in MfIno /\ nodes[ino] # NONE
           /\ dev \in devtab
           /\ nodes' = IF dev = MEMFILE THEN mf_grab(nodes, ino) ELSE nodes
           /\ filp' = Opened(f, dev, ino, TRUE)
           /\ fd' = [fd EXCEPT ![c][n] = f]
           /\ moved' = [moved EXCEPT ![f] = 0]
           /\ UNCHANGED <<stuck, wild>>
     /\ UNCHANGED devtab

\* One end of do_pipe(): pos is not written.
PipeEnd(c) ==
  LET n == find_empty_fd(c)
      f == find_empty_filp
  IN /\ Serves
     /\ n >= 0 /\ f >= 0
     /\ filp' = [filp EXCEPT ![f] = [dev |-> PIPE, ino |-> 0, refcnt |-> 1, pos |-> filp[f].pos]]
     /\ fd' = [fd EXCEPT ![c][n] = f]
     /\ UNCHANGED <<devtab, nodes, stuck, wild, moved>>

\* do_dup().
Dup(c, i) ==
  LET n == find_empty_fd(c)
  IN /\ Serves
     /\ fd[c][i] >= 0 /\ n >= 0
     /\ fd' = [fd EXCEPT ![c][n] = fd[c][i]]
     /\ filp' = [filp EXCEPT ![fd[c][i]].refcnt = @ + 1]
     /\ UNCHANGED <<devtab, nodes, stuck, wild, moved>>

\* do_close() of an open descriptor.
Close(c, i) ==
  LET f == fd[c][i]
  IN /\ Serves
     /\ f >= 0
     /\ fd' = [fd EXCEPT ![c][i] = -1]
     /\ filp' = [filp EXCEPT ![f].refcnt = @ - 1]
     /\ nodes' = IF filp'[f].refcnt = 0 /\ filp[f].dev = MEMFILE
                 THEN mf_release(nodes, filp[f].ino) ELSE nodes
     /\ UNCHANGED <<devtab, stuck, wild, moved>>

\* do_rw() on memfile, w is what the device answers: bnum is added to pos.
Advance(f, w) ==
  /\ nodes' = [nodes EXCEPT ![filp[f].ino] = w.node]
  /\ filp' = [filp EXCEPT ![f].pos = @ + w.bnum]
  /\ moved' = [moved EXCEPT ![f] = IF w.data = EOF THEN @ ELSE @ + 1]
  /\ UNCHANGED <<devtab, fd, stuck, wild>>

OpenOn(c, i, dev) == Serves /\ fd[c][i] >= 0 /\ filp[fd[c][i]].dev = dev

Readc(c, i) ==
  LET f == fd[c][i]
  IN OpenOn(c, i, MEMFILE) /\ Advance(f, mf_readc(nodes[filp[f].ino], filp[f].pos))

Writec(c, i, d) ==
  LET f == fd[c][i]
  IN OpenOn(c, i, MEMFILE) /\ Advance(f, mf_writec(nodes[filp[f].ino], filp[f].pos, d))

\* do_rw() on tty, which holds the request and answers with bnum as it was:
\* the word still holds pos.  (When tty serves it, and from pipe always, bnum
\* is 0 and nothing changes here.)
Hold(c, i) ==
  LET f == fd[c][i]
  IN /\ OpenOn(c, i, TTY)
     /\ filp' = [filp EXCEPT ![f].pos = @ + @]
     /\ UNCHANGED <<devtab, fd, nodes, stuck, wild, moved>>

Next ==
  \/ MkDev
  \/ \E path \in Path : Stat(path) \/ Mknod(path)
  \/ \E c \in Pid :
       \/ PipeEnd(c)
       \/ \E ino \in 0..MF_MAX_NODES : Open(c, MEMFILE, ino)
       \/ \E dev \in 0..(MAX_DEV - 1) \ {MEMFILE} : Open(c, dev, 0)
       \/ \E i \in Fd : \/ Dup(c, i) \/ Close(c, i) \/ Readc(c, i) \/ Hold(c, i)
                        \/ \E d \in Data : Writec(c, i, d)

Spec == Init /\ [][Next]_vars

-----------------------------------------------------------------------------
(* Types of the tables of vfs and of memfile.                              *)
TypeOK ==
  /\ devtab \subseteq 0..(MAX_DEV - 1)
  /\ fd \in [Pid -> [Fd -> Filp \cup {-1}]]
  /\ filp \in [Filp -> [dev : 0..(MAX_DEV - 1), ino : Nat, refcnt : Nat, pos : Nat]]
  /\ nodes \in [MfIno -> MfNode \cup {NONE}]
  /\ moved \in [Filp -> Nat]

InUse(f) == filp[f].refcnt > 0 /\ filp[f].dev = MEMFILE

(* The position of an open file is the number of bytes that were read or   *)
(* written through it, through all its descriptors, and stays inside the   *)
(* file's array; what the word shared by pos and bnum (vfs.h:71) held for  *)
(* an earlier use of the filp, or another device, never gets into it.      *)
PosExact ==
  TypeOK /\ \A f \in Filp : InUse(f) => filp[f].pos = moved[f] /\ filp[f].pos <= LIMIT

(* A node is there as long as a file is open on it, and counts the filps   *)
(* that are; what was opened and closed leaves no reference behind.        *)
NodeCounted ==
  \A i \in MfIno :
    LET users == Cardinality({f \in Filp : InUse(f) /\ filp[f].ino = i})
    IN IF nodes[i] = NONE THEN users = 0 ELSE nodes[i].refcnt = users

(* vfs.c:390, "Node not found on dev": open() of what is not there fails,  *)
(* and vfs goes on to serve others.                                        *)
OpenReturns == ~stuck

(* The same for a node number the device does not have.                    *)
NodesInTable == ~wild
=============================================================================

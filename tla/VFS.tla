--------------------------------- MODULE VFS ---------------------------------
(***************************************************************************)
(* servers/vfs.c with drivers/pipe.c: file descriptors, the filp table and *)
(* pipes.                                                                  *)
(*                                                                         *)
(* vfs and its drivers run with interrupts off, vfs handles one request at *)
(* a time, and its drivers answer at once: a request is one action.  A     *)
(* client whose request is on hold is in held.  Device 0 is the pipe       *)
(* device; device 1 is memfile, of which one node is used, its root        *)
(* directory, which is always there and answers every request at once.     *)
(*                                                                         *)
(* filp.pos, paths and directories are left out: no descriptor depends on  *)
(* them.  A filp with refcnt 0 is free, whatever its other fields hold.    *)
(*                                                                         *)
(* Tasks name descriptors in 0..MAX_FD-1 only.  The code tests for negative*)
(* ones alone, and takes what lies behind fd[] (wdev, wino, ...) for the   *)
(* filp of a larger one.  refcnt, a char, is a natural number here: it is  *)
(* at most the number of descriptors of all tasks.                         *)
(***************************************************************************)
EXTENDS Pipedev, SeqOps, FiniteSetsExt

CONSTANTS Pid, MAX_FD, MAX_FILP, Data

Fd == 0..(MAX_FD - 1)
Filp == 0..(MAX_FILP - 1)
PIPE == 0

Request == [client : Pid, cmd : {"READC", "WRITEC"}, data : Data \cup {EOF}]
Node == [refcnt : Nat, msgs : Seq(Request)]

ASSUME VfsAssumption ==
  /\ {MAX_FD, MAX_FILP} \subseteq Nat /\ PD_MAX_NODES \in Nat \ {0}
  /\ EOF \notin Data /\ NONE \notin Node
  /\ IsFiniteSet(Pid)

VARIABLES known,      \* the pids of vfs_task_q
          fd,         \* the descriptors of each task
          filp,       \* dev, ino and refcnt
          nodes,      \* of the pipe device
          held,       \* clients blocked in readc() or writec()
          answers,    \* rw answers of the last step
          wild,       \* pipedev has written outside its node table
          unread      \* history: the bytes written to each pipe and not read yet

vars == <<known, fd, filp, nodes, held, answers, wild, unread>>

files == <<known, fd, filp>>

NoFile == [i \in Fd |-> -1]
FreeFilp == [dev |-> PIPE, ino |-> 0, refcnt |-> 0]

Init ==
  /\ known = {}
  /\ fd = [p \in Pid |-> NoFile]
  /\ filp = [f \in Filp |-> FreeFilp]
  /\ nodes = [i \in Ino |-> NONE]
  /\ held = {}
  /\ answers = NoAnswers
  /\ wild = FALSE
  /\ unread = [i \in Ino |-> <<>>]

-----------------------------------------------------------------------------
\* find_empty_fd() and find_empty_filp(): the lowest free index, or -1.
Lowest(S) == IF S = {} THEN -1 ELSE Min(S)
find_empty_fd(fds) == Lowest({i \in Fd : fds[i] < 0})

find_empty_filp(fp) == Lowest({f \in Filp : fp[f].refcnt = 0})

\* The filp table with one more reference to f.
Grab(fp, f) == [fp EXCEPT ![f].refcnt = @ + 1]

\* The filp table with f opened on a node.
OpenFilp(fp, f, dev, ino) == [fp EXCEPT ![f] = [dev |-> dev, ino |-> ino, refcnt |-> 1]]

\* Mutation: the node is released though the filp has other descriptors.
do_close_always(s, p, i) ==
  LET f == s.fd[p][i]
      fds == [s.fd EXCEPT ![p][i] = -1]
  IN IF f < 0 THEN s
     ELSE LET fp == [s.filp EXCEPT ![f].refcnt = @ - 1]
              r == pd_release(s.nodes, fp[f].ino)
          IN IF fp[f].dev # PIPE
             THEN [fd |-> fds, filp |-> fp, nodes |-> s.nodes, eof |-> s.eof]
             ELSE [fd |-> fds, filp |-> fp, nodes |-> r.nodes, eof |-> s.eof \cup DOMAIN r.answers]

\* do_close() of descriptor i of task p: s holds fd, filp and nodes so far
\* and the clients that were answered with EOF.
do_close(s, p, i) ==
  LET f == s.fd[p][i]
      fds == [s.fd EXCEPT ![p][i] = -1]
  IN IF f < 0 THEN s
     ELSE LET fp == [s.filp EXCEPT ![f].refcnt = @ - 1]
              r == pd_release(s.nodes, fp[f].ino)
          IN IF fp[f].refcnt # 0 \/ fp[f].dev # PIPE
             THEN [fd |-> fds, filp |-> fp, nodes |-> s.nodes, eof |-> s.eof]
             ELSE [fd |-> fds, filp |-> fp, nodes |-> r.nodes, eof |-> s.eof \cup DOMAIN r.answers]

Before == [fd |-> fd, filp |-> filp, nodes |-> nodes, eof |-> {}]

\* The step ends with the files as s says; those who got EOF go on, and what
\* they were to write is not written.
Becomes(s) ==
  /\ fd' = s.fd /\ filp' = s.filp /\ nodes' = s.nodes
  /\ held' = held \ s.eof
  /\ answers' = [c \in s.eof |-> EOF]
  /\ unread' = [i \in Ino |->
       IF nodes[i] # NONE /\ (\E m \in Range(nodes[i].msgs) : m.client \in s.eof)
       THEN <<>> ELSE unread[i]]
  /\ UNCHANGED wild

\* A client that may ask.
Asks(c) == c \in known \ held /\ ~wild

\* A request that answers nobody else.
Quiet == answers' = NoAnswers /\ UNCHANGED <<held, wild, unread>>

-----------------------------------------------------------------------------
\* Mutation: the child's descriptors are not counted.
Inherit_uncounted(par) == filp

\* The filp table when a task inherits the descriptors of par.
Inherit(par) ==
  [f \in Filp |-> [filp[f] EXCEPT !.refcnt = @ + Cardinality({i \in Fd : fd[par][i] = f})]]

\* VFS_ADDTASK: vfs_addnewtask() of the first task, or of a child of par.
AddFirst(p) ==
  /\ known = {} /\ ~wild
  /\ known' = {p}
  /\ UNCHANGED <<fd, filp, nodes>> /\ Quiet

AddTask(p, par) ==
  /\ Asks(par) /\ p \notin known
  /\ known' = known \cup {p}
  /\ fd' = [fd EXCEPT ![p] = fd[par]]
  /\ filp' = Inherit(par)
  /\ UNCHANGED nodes /\ Quiet

\* vfs_removetask() closes every descriptor of p, in order: what is left
\* after the first i.  (TLC computes what is bound by the set once.)
Closing(p) ==
  LET closed[i \in 0..MAX_FD] ==
        IF i = 0 THEN Before
        ELSE CHOOSE s \in {do_close(r, p, i - 1) : r \in {closed[i - 1]}} : TRUE
  IN closed

\* VFS_DELTASK.
DelTask(p) ==
  /\ Asks(p)
  /\ known' = known \ {p}
  /\ \E s \in {Closing(p)[MAX_FD]} : Becomes(s)

\* VFS_CLOSE.
Close(c, i) ==
  /\ Asks(c)
  /\ Becomes(do_close(Before, c, i))
  /\ UNCHANGED known

\* VFS_DUP: do_dup().
Dup(c, i) ==
  LET n == find_empty_fd(fd[c])
  IN /\ Asks(c)
     /\ IF fd[c][i] < 0 \/ n < 0
        THEN UNCHANGED <<fd, filp>>
        ELSE /\ fd' = [fd EXCEPT ![c][n] = fd[c][i]]
             /\ filp' = Grab(filp, fd[c][i])
     /\ UNCHANGED <<known, nodes>> /\ Quiet

\* VFS_OPEN: do_open().  The node is grabbed last; with no descriptor, no
\* filp or no such node nothing is opened.
Open(c, dev, ino) ==
  LET n == find_empty_fd(fd[c])
      f == find_empty_filp(filp)
  IN /\ Asks(c)
     /\ IF n < 0 \/ f < 0 \/ (dev = PIPE /\ nodes[ino] = NONE)
        THEN UNCHANGED <<fd, filp, nodes>>
        ELSE /\ nodes' = IF dev = PIPE THEN pd_grab(nodes, ino) ELSE nodes
             /\ filp' = OpenFilp(filp, f, dev, ino)
             /\ fd' = [fd EXCEPT ![c][n] = f]
     /\ UNCHANGED known /\ Quiet

\* VFS_PIPE: do_pipe() when the device has a node.  The node is made and
\* grabbed twice before the descriptors are looked for; what was made by
\* then stays when one is missing.
Pipe(c) ==
  LET ino == pd_find_empty_node(nodes)
      n == find_empty_fd(fd[c])
      f == find_empty_filp(filp)
      fds == [fd[c] EXCEPT ![n] = f]
      fp == OpenFilp(filp, f, PIPE, ino)
      n2 == find_empty_fd(fds)
      f2 == find_empty_filp(fp)
  IN /\ Asks(c)
     /\ ino >= 0
     /\ nodes' = pd_grab(pd_grab(pd_mknod(nodes, ino), ino), ino)
     /\ IF f < 0 \/ n < 0 THEN UNCHANGED <<fd, filp>>
        ELSE IF f2 < 0 \/ n2 < 0
        THEN fd' = [fd EXCEPT ![c] = fds] /\ filp' = fp
        ELSE /\ fd' = [fd EXCEPT ![c] = [fds EXCEPT ![n2] = f2]]
             /\ filp' = OpenFilp(fp, f2, PIPE, ino)
     /\ answers' = NoAnswers
     /\ UNCHANGED <<known, held, wild, unread>>

\* VFS_PIPE when the device has no node left: nodes[-1] is written.
PipeFull(c) ==
  /\ Asks(c)
  /\ pd_find_empty_node(nodes) < 0
  /\ wild' = TRUE
  /\ answers' = NoAnswers
  /\ UNCHANGED <<files, nodes, held, unread>>

\* VFS_READC and VFS_WRITEC on something that is no pipe: a wrong descriptor,
\* or memfile, which leaves the descriptors alone.
RwOther(c, i) ==
  /\ Asks(c)
  /\ (fd[c][i] >= 0) => (filp[fd[c][i]].dev # PIPE)
  /\ answers' = Answer1(c, EOF)
  /\ UNCHANGED <<files, nodes, held, wild, unread>>

\* History: two clients that are answered have passed a byte on, and it is
\* taken off the front, if it is there.
ReadFront(q, ans) ==
  IF Cardinality(DOMAIN ans) = 2 /\ q # <<>> /\ (\A c \in DOMAIN ans : ans[c] = Head(q))
  THEN Tail(q) ELSE q

\* VFS_READC and VFS_WRITEC on a pipe: do_rw() answers the clients the
\* device names, and the caller unless its request is on hold.
RwPipe(c, i, cmd, d) ==
  LET ino == filp[fd[c][i]].ino
      r == pd_rw(nodes, ino, [client |-> c, cmd |-> cmd, data |-> d])
  IN /\ Asks(c)
     /\ fd[c][i] >= 0 /\ filp[fd[c][i]].dev = PIPE
     /\ nodes' = r.nodes
     /\ answers' = r.answers
     /\ held' = (held \cup {c}) \ DOMAIN r.answers
     /\ unread' = [unread EXCEPT ![ino] = ReadFront(
          IF cmd = "WRITEC" /\ r.answers # Answer1(c, EOF) THEN Append(@, d) ELSE @,
          r.answers)]
     /\ UNCHANGED <<files, wild>>

Next ==
  \E c \in Pid :
    \/ AddFirst(c) \/ DelTask(c) \/ Pipe(c) \/ PipeFull(c)
    \/ \E p \in Pid : AddTask(p, c)
    \/ \E i \in Fd : \/ Close(c, i) \/ Dup(c, i) \/ RwOther(c, i)
                     \/ RwPipe(c, i, "READC", EOF)
                     \/ \E d \in Data : RwPipe(c, i, "WRITEC", d)
    \/ Open(c, 1, 0)
    \/ \E ino \in Ino : Open(c, PIPE, ino)

Spec == Init /\ [][Next]_vars

-----------------------------------------------------------------------------
(* Types of the tables of vfs and of the pipe device.                      *)
TypeOK ==
  /\ known \subseteq Pid /\ held \subseteq known
  /\ fd \in [Pid -> [Fd -> Filp \cup {-1}]]
  /\ filp \in [Filp -> [dev : {PIPE, 1}, ino : Ino, refcnt : Nat]]
  /\ nodes \in [Ino -> Node \cup {NONE}]
  /\ unread \in [Ino -> Seq(Data)]

Users(f) == {u \in Pid \X Fd : fd[u[1]][u[2]] = f}
Filps(i) == {f \in Filp : filp[f].refcnt > 0 /\ filp[f].dev = PIPE /\ filp[f].ino = i}

(* refcnt of a filp is the number of descriptors that use it, over all     *)
(* tasks and through every inheritance, dup, close and exit: "Refcnt       *)
(* already zero, this is a serious error" (vfs.c:419) cannot happen.       *)
FilpCounted == TypeOK /\ \A f \in Filp : filp[f].refcnt = Cardinality(Users(f))

(* A pipe node outlives its descriptors: each filp open on it holds one of *)
(* its references.  (It may hold more: pipe() that fails leaves them.)     *)
NodeHeld ==
  \A i \in Ino : Filps(i) # {} => nodes[i] # NONE /\ nodes[i].refcnt >= Cardinality(Filps(i))

\* The requests on hold at a node, and where those of client c are.
Msgs(i) == IF nodes[i] = NONE THEN <<>> ELSE nodes[i].msgs
Slots(c) == UNION {{<<i, k>> : k \in {j \in 1..Len(Msgs(i)) : Msgs(i)[j].client = c}} : i \in Ino}

(* A request on hold is there once, of a client that is blocked and has    *)
(* the pipe open; all requests of a node are of one kind, for the other    *)
(* kind would have met them.  A blocked client has one request.            *)
HeldOnce ==
  /\ \A i \in Ino : \A k \in 1..Len(Msgs(i)) :
       LET m == Msgs(i)[k]
       IN /\ m.client \in held
          /\ m.cmd = Msgs(i)[1].cmd
          /\ \E x \in Fd : fd[m.client][x] \in Filps(i)
  /\ \A c \in held : \E u \in Slots(c) : Slots(c) = {u}

(* Nobody waits on a pipe that has lost its other end: the close, or exit, *)
(* that takes the last but one reference answers them.  References are what*)
(* the driver counts: a pipe() that failed half-way has left one that no   *)
(* descriptor has.                                                         *)
NoWaitAtOneEnd ==
  \A i \in Ino : nodes[i] # NONE /\ nodes[i].refcnt <= 1 => nodes[i].msgs = <<>>

(* The bytes written to a pipe and not yet read are those the waiting      *)
(* writers hold, in that order: what is read is the oldest byte there is,  *)
(* nothing is lost and nothing read twice, however readers and writers     *)
(* queue up.  (A writer that is told EOF has written nothing.)             *)
BytesInOrder ==
  \A i \in Ino :
    LET waiting == Pick(Msgs(i), {k \in 1..Len(Msgs(i)) : Msgs(i)[k].cmd = "WRITEC"})
    IN unread[i] = [k \in 1..Len(waiting) |-> waiting[k].data]

(* vfs.c:301, "Cannot create node": when the pipe device has no node left  *)
(* it says so and nothing else happens.                                    *)
NodeTableBounded == ~wild
==============================================================================

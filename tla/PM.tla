--------------------------------- MODULE PM ---------------------------------
(***************************************************************************)
(* servers/pm.c: the process manager.  Processes, their parents, exit      *)
(* codes, and the memory they own.                                         *)
(*                                                                         *)
(* pm() is one task that handles one message at a time and whose clients   *)
(* stay blocked in sendrec() until they are answered, so each request is   *)
(* one action.  A client that is not answered is in unanswered.            *)
(*                                                                         *)
(* A process is known to others by its pid (the kernel's task_t address)   *)
(* and to the process manager by the address of its pm_task_t.  Both are   *)
(* used again: the pid as soon as the process exits, the pm_task_t when it *)
(* is freed, which for a zombie is later.                                  *)
(***************************************************************************)
EXTENDS SeqOps

CONSTANTS Pid,       \* task_t addresses createtask() may return
          Struct,    \* pm_task_t addresses
          Block,     \* addresses of other kmalloc() memory
          Code,      \* exit codes
          NULL,
          TASK_ANY

\* The answer to a wait(): whom it goes to, the child and its exit code.
Answer == [to : Pid, pid : Pid \cup {NULL}, code : Code \cup {NULL}]

\* Exit codes may be any words, also NULL, TASK_ANY or a pid.
ASSUME PmAssumption ==
  /\ NULL \notin Answer
  /\ {NULL, TASK_ANY} \cap (Pid \cup Struct \cup Block) = {}
  /\ NULL # TASK_ANY

VARIABLES task_q, wait_q, zombie_q,   \* sequences of pm_task_t
          pt,          \* contents of the pm_task_t structures
          heap,        \* blocks in use
          ktask,       \* kernel: what became of each pid
          vfs_tasks,   \* vfs: the pids it keeps file descriptors for
          unanswered,  \* clients blocked in sendrec() to pm
          answer,      \* answer to a wait() sent in the last step, or NULL
          status       \* code given to mexit() by the process that had this
                       \* pm_task_t: history, for the properties only

vars == <<task_q, wait_q, zombie_q, pt, heap, ktask, vfs_tasks, unanswered,
          answer, status>>

queues == <<task_q, wait_q, zombie_q>>
outside == <<ktask, vfs_tasks>>

\* word is the union of waitfor and exitcode; a chunk is the pair of its
\* mem_chunk_t and the memory given to the client.
PmTask == [pid : Pid \cup {NULL}, parent : Struct \cup {NULL},
           word : Pid \cup {TASK_ANY, NULL} \cup Code,
           args : Block \cup {NULL}, chunks : SUBSET (Block \X Block)]

Blank == [pid |-> NULL, parent |-> NULL, word |-> NULL, args |-> NULL, chunks |-> {}]

Tasks == Range(task_q)
Waiters == Range(wait_q)
Zombies == Range(zombie_q)
Structs == Tasks \cup Waiters \cup Zombies

Started == {p \in Pid : ktask[p] = "started"}

\* Memory a process owns.
ChunkBlocks(s) == UNION {{k[1], k[2]} : k \in pt[s].chunks}
ArgsBlock(s) == {pt[s].args} \ {NULL}

Children(s) == {x \in Structs : pt[x].parent = s}

-----------------------------------------------------------------------------
\* pm_findbypid().
pm_findbypid(p) ==
  LET i == SelectInSeq(task_q, LAMBDA s : pt[s].pid = p)
  IN IF i = 0 THEN NULL ELSE task_q[i]

\* pm(): the client of this request, and task_q with the client in front.
Asks(p) == p \in Started \ unanswered /\ pm_findbypid(p) # NULL
PM_CLIENT(p) == pm_findbypid(p)
ClientFirst(p) == Cons(PM_CLIENT(p), Q_REMV(task_q, PM_CLIENT(p)))

\* pm_newtask().
pm_newtask(p, parent) == [Blank EXCEPT !.pid = p, !.parent = parent]

NoAnswer == answer' = NULL /\ UNCHANGED status

-----------------------------------------------------------------------------
\* pm() when it enters its loop: do_spawnexec() has started init.  (If that
\* fails pm has no clients and nothing ever happens.)
Init ==
  /\ \E p \in Pid, n \in Struct, a \in Block :
       /\ task_q = <<n>>
       /\ pt = [s \in Struct |-> IF s = n THEN [pm_newtask(p, NULL) EXCEPT !.args = a]
                                 ELSE Blank]
       /\ heap = {a}
       /\ ktask = [x \in Pid |-> IF x = p THEN "started" ELSE "free"]
       /\ vfs_tasks = {p}
  /\ wait_q = <<>> /\ zombie_q = <<>>
  /\ unanswered = {}
  /\ answer = NULL
  /\ status = [s \in Struct |-> NULL]

\* A task that do_spawn() created and left behind: known to the kernel only.
Abandon(p, q) ==
  /\ ktask' = [ktask EXCEPT ![p] = "created"]
  /\ task_q' = q
  /\ UNCHANGED <<pt, heap, vfs_tasks>>

\* A process that do_spawn() put at the end of task_q and did not start;
\* known says whether vfs_createtask() succeeded.
Embryo(p, n, parent, q, known) ==
  /\ ktask' = [ktask EXCEPT ![p] = "created"]
  /\ task_q' = Append(q, n)
  /\ pt' = [pt EXCEPT ![n] = pm_newtask(p, parent)]
  /\ vfs_tasks' = IF known THEN vfs_tasks \cup {p} ELSE vfs_tasks
  /\ UNCHANGED heap

\* A process set up (pm_setuptask() with arguments at a) and started.
Offspring(p, n, parent, q, a) ==
  /\ ktask' = [ktask EXCEPT ![p] = "started"]
  /\ task_q' = Append(q, n)
  /\ pt' = [pt EXCEPT ![n] = [pm_newtask(p, parent) EXCEPT !.args = a]]
  /\ vfs_tasks' = vfs_tasks \cup {p}
  /\ heap' = heap \cup {a}

\* PM_SPAWN: do_spawn(), as far as createtask(), pm_newtask(),
\* vfs_createtask() and kmalloc() let it get.
Spawn(c) ==
  LET q == ClientFirst(c)
  IN /\ Asks(c)
     /\ \/ task_q' = q /\ UNCHANGED <<pt, heap, outside>>
        \/ \E p \in {x \in Pid : ktask[x] = "free"} :
             \/ Abandon(p, q)
             \/ \E n \in Struct \ Structs :
                  \/ \E known \in BOOLEAN : Embryo(p, n, PM_CLIENT(c), q, known)
                  \/ \E a \in Block \ heap : Offspring(p, n, PM_CLIENT(c), q, a)
     /\ NoAnswer
     /\ UNCHANGED <<wait_q, zombie_q, unanswered>>

\* PM_EXEC: do_exec().  With no such program the client is answered; with no
\* memory for the arguments it never is; otherwise it starts afresh, its
\* chunks and its old arguments are freed after the new ones were made.
Exec(c) ==
  LET s == PM_CLIENT(c)
  IN /\ Asks(c)
     /\ task_q' = ClientFirst(c)
     /\ \/ UNCHANGED <<pt, heap, unanswered>>
        \/ unanswered' = unanswered \cup {c} /\ UNCHANGED <<pt, heap>>
        \/ \E a \in Block \ heap :
             /\ heap' = (heap \ (ChunkBlocks(s) \cup ArgsBlock(s))) \cup {a}
             /\ pt' = [pt EXCEPT ![s].args = a, ![s].chunks = {}]
             /\ UNCHANGED unanswered
     /\ NoAnswer
     /\ UNCHANGED <<wait_q, zombie_q, outside>>

\* PM_MALLOC: do_pmalloc().  Both kmalloc() calls, or no trace of either.
Malloc(c) ==
  LET s == PM_CLIENT(c)
  IN /\ Asks(c)
     /\ task_q' = ClientFirst(c)
     /\ \/ UNCHANGED <<pt, heap>>
        \/ \E k \in (Block \ heap) \X (Block \ heap) :
             /\ k[1] # k[2]
             /\ pt' = [pt EXCEPT ![s].chunks = @ \cup {k}]
             /\ heap' = heap \cup {k[1], k[2]}
     /\ NoAnswer
     /\ UNCHANGED <<wait_q, zombie_q, outside, unanswered>>

\* PM_FREE: do_pmfree().  A pointer the client does not own is ignored.
Free(c, ptr) ==
  LET s == PM_CLIENT(c)
      found == {k \in pt[s].chunks : k[2] = ptr}
  IN /\ Asks(c)
     /\ task_q' = ClientFirst(c)
     /\ pt' = [pt EXCEPT ![s].chunks = @ \ found]
     /\ heap' = heap \ UNION {{k[1], k[2]} : k \in found}
     /\ NoAnswer
     /\ UNCHANGED <<wait_q, zombie_q, outside, unanswered>>

-----------------------------------------------------------------------------
(* PM_EXIT: do_exit().                                                     *)

\* Chunks, the kernel task and the file descriptors go; zombie children go
\* (pm_removechild) and the other children lose their parent
\* (pm_makechildorphan).  What is left of pt and heap:
Buried(s) == {z \in Zombies : pt[z].parent = s}

\* Mutation: children that wait are forgotten.
Bereaved_tasks(s) ==
  [x \in Struct |->
     IF x \in Buried(s) THEN Blank
     ELSE IF x \in Tasks /\ pt[x].parent = s THEN [pt[x] EXCEPT !.parent = NULL]
     ELSE IF x = s THEN [pt[x] EXCEPT !.chunks = {}]
     ELSE pt[x]]

Bereaved(s) ==
  [x \in Struct |->
     IF x \in Buried(s) THEN Blank
     ELSE IF x \in Tasks \cup Waiters /\ pt[x].parent = s THEN [pt[x] EXCEPT !.parent = NULL]
     ELSE IF x = s THEN [pt[x] EXCEPT !.chunks = {}]
     ELSE pt[x]]

\* Mutation: the arguments of zombie children are not freed.
Kept_args(s) == heap \ ChunkBlocks(s)

Kept(s) == heap \ (ChunkBlocks(s) \cup UNION {ArgsBlock(z) : z \in Buried(s)})

Survivors(s) == Pick(zombie_q, {i \in 1..Len(zombie_q) : zombie_q[i] \notin Buried(s)})

Forget(s, code) == [x \in Struct |-> IF x \in Buried(s) THEN NULL
                                     ELSE IF x = s THEN code ELSE status[x]]

\* Mutation: no vfs_deletetask().
Depart_files(c) ==
  /\ Asks(c)
  /\ ktask' = [ktask EXCEPT ![c] = "free"]
  /\ UNCHANGED vfs_tasks

\* The part of do_exit() before the client's parent is looked at.
Depart(c) ==
  /\ Asks(c)
  /\ ktask' = [ktask EXCEPT ![c] = "free"]
  /\ vfs_tasks' = vfs_tasks \ {c}

\* Mutation: a parent that waits for any child is not found.
ParentWaits_pid(c) ==
  LET s == PM_CLIENT(c)
  IN pt[s].parent \in Waiters /\ pt[pt[s].parent].word = c

\* Is the parent in wait_q, and for this child?
ParentWaits(c) ==
  LET s == PM_CLIENT(c)
  IN pt[s].parent \in Waiters /\ pt[pt[s].parent].word \in {c, TASK_ANY}

\* An orphan is removed at once.
ExitOrphan(c) ==
  LET s == PM_CLIENT(c)
  IN /\ Depart(c)
     /\ pt[s].parent = NULL
     /\ task_q' = Tail(ClientFirst(c))
     /\ zombie_q' = Survivors(s)
     /\ pt' = [Bereaved(s) EXCEPT ![s] = Blank]
     /\ heap' = Kept(s) \ ArgsBlock(s)
     /\ answer' = NULL
     /\ status' = Forget(s, NULL)
     /\ UNCHANGED <<wait_q, unanswered>>

\* Mutation: the answer's pid is written first, over the exit code.
ExitToParent_aliased(c, code) ==
  LET s == PM_CLIENT(c)
      par == pt[s].parent
  IN /\ Depart(c)
     /\ ParentWaits(c)
     /\ task_q' = Append(Tail(ClientFirst(c)), par)
     /\ wait_q' = Q_REMV(wait_q, par)
     /\ zombie_q' = Survivors(s)
     /\ pt' = [Bereaved(s) EXCEPT ![s] = Blank]
     /\ heap' = Kept(s) \ ArgsBlock(s)
     /\ unanswered' = unanswered \ {pt[par].pid}
     /\ answer' = [to |-> pt[par].pid, pid |-> c, code |-> c]
     /\ status' = Forget(s, code)

\* The parent's wait() is answered; the exit code is read out of the message
\* before the answer is written over it.
ExitToParent(c, code) ==
  LET s == PM_CLIENT(c)
      par == pt[s].parent
  IN /\ Depart(c)
     /\ ParentWaits(c)
     /\ task_q' = Append(Tail(ClientFirst(c)), par)
     /\ wait_q' = Q_REMV(wait_q, par)
     /\ zombie_q' = Survivors(s)
     /\ pt' = [Bereaved(s) EXCEPT ![s] = Blank]
     /\ heap' = Kept(s) \ ArgsBlock(s)
     /\ unanswered' = unanswered \ {pt[par].pid}
     /\ answer' = [to |-> pt[par].pid, pid |-> c, code |-> code]
     /\ status' = Forget(s, code)

\* The parent does not wait for it yet: the client becomes a zombie.
ExitZombie(c, code) ==
  LET s == PM_CLIENT(c)
  IN /\ Depart(c)
     /\ pt[s].parent # NULL /\ ~ParentWaits(c)
     /\ task_q' = Tail(ClientFirst(c))
     /\ zombie_q' = Append(Survivors(s), s)
     /\ pt' = [Bereaved(s) EXCEPT ![s].word = code]
     /\ heap' = Kept(s)
     /\ answer' = NULL
     /\ status' = Forget(s, code)
     /\ UNCHANGED <<wait_q, unanswered>>

-----------------------------------------------------------------------------
(* PM_WAIT: do_wait().                                                     *)

\* pm_findzombie() over zombie_q, the client waiting for w.
Reapable(s, w) ==
  SelectInSeq(zombie_q, LAMBDA z : pt[z].parent = s /\ w \in {pt[z].pid, TASK_ANY})

\* A zombie child is there: it is reported and removed.
WaitReaps(c, w) ==
  LET s == PM_CLIENT(c)
      z == zombie_q[Reapable(s, w)]
  IN /\ Asks(c)
     /\ Reapable(s, w) # 0
     /\ task_q' = ClientFirst(c)
     /\ zombie_q' = Q_REMV(zombie_q, z)
     /\ pt' = [pt EXCEPT ![s].word = w, ![z] = Blank]
     /\ heap' = heap \ ArgsBlock(z)
     /\ answer' = [to |-> c, pid |-> pt[z].pid, code |-> pt[z].word]
     /\ status' = [status EXCEPT ![z] = NULL]
     /\ UNCHANGED <<wait_q, outside, unanswered>>

\* No child at all: answered with pid 0.
WaitFails(c, w) ==
  LET s == PM_CLIENT(c)
  IN /\ Asks(c)
     /\ Reapable(s, w) = 0
     /\ Children(s) \cap (Tasks \cup Waiters) = {}
     /\ task_q' = ClientFirst(c)
     /\ pt' = [pt EXCEPT ![s].word = w]
     /\ answer' = [to |-> c, pid |-> NULL, code |-> NULL]
     /\ UNCHANGED <<wait_q, zombie_q, heap, outside, unanswered, status>>

\* Mutation: the waiting client is not taken off task_q.
WaitBlocks_stays(c, w) ==
  LET s == PM_CLIENT(c)
  IN /\ Asks(c)
     /\ Reapable(s, w) = 0
     /\ Children(s) \cap (Tasks \cup Waiters) # {}
     /\ task_q' = ClientFirst(c)
     /\ wait_q' = Append(wait_q, s)
     /\ pt' = [pt EXCEPT ![s].word = w]
     /\ unanswered' = unanswered \cup {c}
     /\ NoAnswer
     /\ UNCHANGED <<zombie_q, heap, outside>>

\* There are children, none of them reported now: the client waits.
WaitBlocks(c, w) ==
  LET s == PM_CLIENT(c)
  IN /\ Asks(c)
     /\ Reapable(s, w) = 0
     /\ Children(s) \cap (Tasks \cup Waiters) # {}
     /\ task_q' = Tail(ClientFirst(c))
     /\ wait_q' = Append(wait_q, s)
     /\ pt' = [pt EXCEPT ![s].word = w]
     /\ unanswered' = unanswered \cup {c}
     /\ NoAnswer
     /\ UNCHANGED <<zombie_q, heap, outside>>

Next ==
  \E c \in Pid :
    \/ Spawn(c) \/ Exec(c) \/ Malloc(c)
    \/ \E ptr \in Block \cup {NULL} : Free(c, ptr)
    \/ ExitOrphan(c)
    \/ \E code \in Code : ExitToParent(c, code) \/ ExitZombie(c, code)
    \/ \E w \in Pid \cup {TASK_ANY} : WaitReaps(c, w) \/ WaitFails(c, w) \/ WaitBlocks(c, w)

Spec == Init /\ [][Next]_vars

-----------------------------------------------------------------------------
(* Types of the manager's queues and structures.                           *)
TypeOK ==
  /\ task_q \in Seq(Struct) /\ wait_q \in Seq(Struct) /\ zombie_q \in Seq(Struct)
  /\ pt \in [Struct -> PmTask]
  /\ heap \subseteq Block
  /\ ktask \in [Pid -> {"free", "created", "started"}]
  /\ vfs_tasks \subseteq Pid
  /\ unanswered \subseteq Pid
  /\ answer \in Answer \cup {NULL}
  /\ status \in [Struct -> Code \cup {NULL}]

(* A pm_task_t is on one of the three queues, once, and pm_findbypid() can *)
(* find only one for a pid: a live process has its pid for itself, though  *)
(* zombies may still carry it.  A waiter is a client still unanswered.     *)
OneQueue ==
  /\ TypeOK
  /\ IsInjective(task_q \o wait_q \o zombie_q)
  /\ \A s, x \in Tasks \cup Waiters : pt[s].pid = pt[x].pid => s = x
  /\ \A s \in Waiters : pt[s].pid \in unanswered

(* parent always points to a process that has not exited: never to a       *)
(* zombie, to freed memory, or to a stranger that got the address again.   *)
(* Only live processes are orphans; a zombie has a parent to report to, so *)
(* "the shell won't have any zombies" of its grandchildren (usr/sh.c:167). *)
ParentAlive ==
  /\ \A s \in Tasks \cup Waiters : pt[s].parent \in Tasks \cup Waiters \cup {NULL}
  /\ \A z \in Zombies : pt[z].parent \in Tasks \cup Waiters

(* No process waits for what has already happened: a waiter has no zombie  *)
(* child that its wait() asks for, and one that waits for any child has a  *)
(* child that is not a zombie.  (That child may be one do_spawn() never    *)
(* started, or one whose exec() failed: those do not exit.)                *)
NoMissedExit ==
  \A s \in Waiters :
    /\ Reapable(s, pt[s].word) = 0
    /\ pt[s].word = TASK_ANY => Children(s) \cap (Tasks \cup Waiters) # {}

(* Every block in use belongs to exactly one process that is still known,  *)
(* and no process refers to a block that was freed; a zombie keeps only    *)
(* its arguments.  No order of malloc, free, exec, exit and wait leaks.    *)
MemoryOwned ==
  /\ heap = UNION {ChunkBlocks(s) \cup ArgsBlock(s) : s \in Structs}
  /\ \A s, x \in Structs : s # x => (ChunkBlocks(s) \cup ArgsBlock(s))
                                  \cap (ChunkBlocks(x) \cup ArgsBlock(x)) = {}
  /\ \A z \in Zombies : pt[z].chunks = {}

(* Who has file descriptors: every pid that was started and has not        *)
(* exited, and besides those only children that do_spawn() gave up on      *)
(* after vfs_createtask() (pm.c:388).  They stay in task_q, never run, and *)
(* keep what they inherited for good.  A pid that is given out again       *)
(* starts with none of the old.                                            *)
LeftBehind == {pt[s].pid : s \in Tasks} \ Started

VfsInStep ==
  /\ Started \subseteq vfs_tasks
  /\ vfs_tasks \subseteq Started \cup LeftBehind

(* Who is told of an exit: a child whose parent lives is removed only in a *)
(* step that answers the parent's wait() with its pid and the code it gave *)
(* to mexit(), and a wait() gets no other answer than that or "no child".  *)
Gone(s) == s \in Structs /\ s \notin Structs'

\* A zombie gave its code earlier, any other process that goes in this step.
GivenToMexit(s) == IF s \in Zombies THEN status[s] ELSE status'[s]
Report(s) == [to |-> pt[pt[s].parent].pid, pid |-> pt[s].pid, code |-> GivenToMexit(s)]

Reports ==
  /\ \A s \in Structs :
       Gone(s) /\ pt[s].parent \in (Tasks \cup Waiters)' => answer' = Report(s)
  /\ answer' # NULL /\ answer'.pid # NULL =>
       \E s \in Structs : Gone(s) /\ answer' = Report(s)
  /\ answer' # NULL => answer'.to \notin unanswered'

ExitReported == [][Reports]_vars

(* pm.c:12, "Waits for this pid to die": a waitpid() that names a child is *)
(* answered only when no child of the caller with that pid is alive.       *)
WaitpidDead ==
  [][answer' # NULL =>
       ~\E x \in Tasks \cup Waiters, s \in Tasks \cup Waiters :
          /\ pt[x].pid = answer'.to /\ pt'[x].word = answer'.pid
          /\ pt[s].pid = answer'.pid /\ pt[s].parent = x
          /\ s \in Structs']_vars

(* pm.c:409, "nothing to do, task should be removed completely": a client  *)
(* whose exec() fails for lack of memory does not stay in task_q.          *)
ExecFailureRemoves == \A s \in Tasks : pt[s].pid \notin unanswered
=============================================================================

------------------------------ MODULE PMProofs ------------------------------
(***************************************************************************)
(* The process manager's invariants, for any number of processes,          *)
(* structures and blocks.  The inductive invariant PInv is stated on the   *)
(* sets of structures the queues hold, and its parts are operators of      *)
(* values, so that one lemma per kind of change serves every request that  *)
(* makes it.                                                               *)
(***************************************************************************)
EXTENDS PM, SeqLemmas

\* Memory that a structure with contents r owns.
ChunkMem(r) == UNION {{k[1], k[2]} : k \in r.chunks}
Mem(r) == ChunkMem(r) \cup ({r.args} \ {NULL})

\* T, W and Z are the structures on task_q, wait_q and zombie_q.
Living(T, W, f, kt, un) ==
  /\ \A s \in T \cup W : f[s].pid \in Pid /\ kt[f[s].pid] # "free"
  /\ \A s, x \in T \cup W : f[s].pid = f[x].pid => s = x
  /\ \A s \in W : f[s].pid \in un

Related(T, W, Z, f) ==
  /\ \A s \in T \cup W : f[s].parent \in T \cup W \cup {NULL} /\ f[s].parent # s
  /\ \A z \in Z : f[z].parent \in T \cup W

Patient(T, W, Z, f) ==
  \A s \in W :
    /\ \A z \in Z : ~(f[z].parent = s /\ f[s].word \in {f[z].pid, TASK_ANY})
    /\ f[s].word = TASK_ANY => \E x \in T \cup W : f[x].parent = s

Family(T, W, Z, f, kt, un) ==
  /\ T \cap W = {} /\ T \cap Z = {} /\ W \cap Z = {}
  /\ Living(T, W, f, kt, un)
  /\ Related(T, W, Z, f)
  /\ Patient(T, W, Z, f)

\* Every block of H has one owner in S, and is part of one chunk of it or
\* its arguments.
Owned(S, f, H) ==
  /\ \A b \in H : \E s \in S : b \in Mem(f[s])
  /\ \A s \in S : Mem(f[s]) \subseteq H
  /\ \A s, x \in S : s # x => Mem(f[s]) \cap Mem(f[x]) = {}

Tidy(S, f) ==
  \A s \in S :
    /\ f[s].args \notin ChunkMem(f[s])
    /\ \A k, l \in f[s].chunks : k # l => {k[1], k[2]} \cap {l[1], l[2]} = {}

PInv ==
  /\ TypeOK
  /\ IsInjective(task_q) /\ IsInjective(wait_q) /\ IsInjective(zombie_q)
  /\ Family(Tasks, Waiters, Zombies, pt, ktask, unanswered)
  /\ Owned(Structs, pt, heap)
  /\ Tidy(Structs, pt)
  /\ VfsInStep
  /\ \A z \in Zombies : pt[z].chunks = {} /\ pt[z].word = status[z] /\ status[z] \in Code

-----------------------------------------------------------------------------
(* What each kind of change does to the family.                            *)

(* A request that moves nobody from queue to queue and leaves pids,        *)
(* parents, and what waiters and zombies have in word.                     *)
LEMMA FamilyQuiet ==
  ASSUME NEW T, NEW W, NEW Z, NEW f, NEW kt, NEW un, Family(T, W, Z, f, kt, un),
         NEW g, NEW k2, NEW u2,
         \A x \in T \cup W \cup Z : g[x].pid = f[x].pid /\ g[x].parent = f[x].parent,
         \A x \in W : g[x].word = f[x].word,
         \A p \in Pid : kt[p] # "free" => k2[p] # "free",
         un \subseteq u2
  PROVE  Family(T, W, Z, g, k2, u2)
<1>1. Living(T, W, g, k2, u2)
  BY DEF Family, Living
<1>2. Related(T, W, Z, g)
  BY DEF Family, Related
<1>3. Patient(T, W, Z, g)
  BY DEF Family, Patient
<1> QED
  BY <1>1, <1>2, <1>3 DEF Family

(* A child n of the client s, with a pid that was free. *)
LEMMA FamilyBorn ==
  ASSUME NEW T, NEW W, NEW Z, NEW f, NEW kt, NEW un, Family(T, W, Z, f, kt, un),
         NEW g, NEW k2, NEW n, n \notin T \cup W \cup Z, n # NULL,
         NEW s \in T, NEW p \in Pid, kt[p] = "free",
         \A x \in T \cup W \cup Z : g[x] = f[x],
         g[n].pid = p, g[n].parent = s,
         \A q \in Pid : kt[q] # "free" => k2[q] # "free",
         k2[p] # "free"
  PROVE  Family(T \cup {n}, W, Z, g, k2, un)
<1>1. Living(T \cup {n}, W, g, k2, un)
  BY DEF Family, Living
<1>2. Related(T \cup {n}, W, Z, g)
  BY DEF Family, Related
<1>3. Patient(T \cup {n}, W, Z, g)
  BY DEF Family, Patient
<1> QED
  BY <1>1, <1>2, <1>3 DEF Family

(* The client s waits for w: it has children, and no zombie it asks for. *)
LEMMA FamilyBlocks ==
  ASSUME NEW T, NEW W, NEW Z, NEW f, NEW kt, NEW un, Family(T, W, Z, f, kt, un),
         NEW g, NEW s \in T, NEW w,
         \A x \in T \cup W \cup Z : g[x].pid = f[x].pid /\ g[x].parent = f[x].parent,
         \A x \in W : g[x].word = f[x].word,
         g[s].word = w,
         \A z \in Z : ~(f[z].parent = s /\ w \in {f[z].pid, TASK_ANY}),
         \E x \in T \cup W : f[x].parent = s
  PROVE  Family(T \ {s}, W \cup {s}, Z, g, kt, un \cup {f[s].pid})
<1>1. Living(T \ {s}, W \cup {s}, g, kt, un \cup {f[s].pid})
  BY DEF Family, Living
<1>2. Related(T \ {s}, W \cup {s}, Z, g)
  BY DEF Family, Related
<1>3. Patient(T \ {s}, W \cup {s}, Z, g)
  BY DEF Family, Patient
<1> QED
  BY <1>1, <1>2, <1>3 DEF Family

(* Zombies are freed. *)
LEMMA FamilyReaped ==
  ASSUME NEW T, NEW W, NEW Z, NEW f, NEW kt, NEW un, Family(T, W, Z, f, kt, un), NEW B
  PROVE  Family(T, W, Z \ B, f, kt, un)
BY DEF Family, Living, Related, Patient

(* A waiter is answered and goes back to task_q. *)
LEMMA FamilyWakes ==
  ASSUME NEW T, NEW W, NEW Z, NEW f, NEW kt, NEW un, Family(T, W, Z, f, kt, un),
         NEW s \in W
  PROVE  Family(T \cup {s}, W \ {s}, Z, f, kt, un \ {f[s].pid})
<1>1. Living(T \cup {s}, W \ {s}, f, kt, un \ {f[s].pid})
  BY DEF Family, Living
<1>2. Related(T \cup {s}, W \ {s}, Z, f)
  BY DEF Family, Related
<1>3. Patient(T \cup {s}, W \ {s}, Z, f)
  BY DEF Family, Patient
<1> QED
  BY <1>1, <1>2, <1>3 DEF Family

-----------------------------------------------------------------------------
(* What each kind of change does to the memory.                            *)

(* One structure s, old or new, gives back the blocks D and gets the free  *)
(* blocks N.                                                               *)
LEMMA OwnedChange ==
  ASSUME NEW S, NEW f, NEW H, Owned(S, f, H), NEW s, NEW g, NEW M, NEW D, NEW N,
         M = IF s \in S THEN Mem(f[s]) ELSE {},
         D \subseteq M, N \cap H = {},
         Mem(g[s]) = (M \ D) \cup N,
         \A x \in S \ {s} : Mem(g[x]) = Mem(f[x])
  PROVE  Owned(S \cup {s}, g, (H \ D) \cup N)
<1>1. M \subseteq H /\ \A x \in S \ {s} : Mem(f[x]) \cap M = {} /\ Mem(f[x]) \subseteq H
  BY DEF Owned
<1>2. \A b \in (H \ D) \cup N : \E x \in S \cup {s} : b \in Mem(g[x])
  <2> SUFFICES ASSUME NEW b \in H, b \notin D PROVE \E x \in S \cup {s} : b \in Mem(g[x])
    OBVIOUS
  <2>1. PICK x \in S : b \in Mem(f[x])
    BY DEF Owned
  <2> QED
    BY <2>1
<1>3. \A x \in S \cup {s} : Mem(g[x]) \subseteq (H \ D) \cup N
  BY <1>1
<1>4. \A x \in S \ {s} : Mem(g[x]) \cap Mem(g[s]) = {}
  BY <1>1
<1>5. \A x, y \in S \ {s} : x # y => Mem(g[x]) \cap Mem(g[y]) = {}
  BY DEF Owned
<1> QED
  BY <1>2, <1>3, <1>4, <1>5 DEF Owned

(* The structures G are freed with all that they own. *)
LEMMA OwnedFreed ==
  ASSUME NEW S, NEW f, NEW H, Owned(S, f, H), NEW G, G \subseteq S, NEW g,
         \A x \in S \ G : Mem(g[x]) = Mem(f[x])
  PROVE  Owned(S \ G, g, H \ UNION {Mem(f[x]) : x \in G})
<1> DEFINE D == UNION {Mem(f[x]) : x \in G}
<1>1. \A x \in S \ G : Mem(f[x]) \cap D = {}
  BY DEF Owned
<1>2. \A b \in H \ D : \E x \in S \ G : b \in Mem(g[x])
  <2> SUFFICES ASSUME NEW b \in H, b \notin D PROVE \E x \in S \ G : b \in Mem(g[x])
    OBVIOUS
  <2>1. PICK x \in S : b \in Mem(f[x])
    BY DEF Owned
  <2>2. x \notin G
    BY <2>1
  <2> QED
    BY <2>1, <2>2
<1>3. \A x \in S \ G : Mem(g[x]) \subseteq H \ D
  BY <1>1 DEF Owned
<1>4. \A x, y \in S \ G : x # y => Mem(g[x]) \cap Mem(g[y]) = {}
  BY DEF Owned
<1> QED
  BY <1>2, <1>3, <1>4 DEF Owned

(* Structures that keep their blocks keep the heap. *)
LEMMA OwnedSame ==
  ASSUME NEW S, NEW f, NEW H, Owned(S, f, H), NEW g,
         \A x \in S : Mem(g[x]) = Mem(f[x])
  PROVE  Owned(S, g, H)
BY DEF Owned

LEMMA TidySame ==
  ASSUME NEW S, NEW f, Tidy(S, f), NEW R, NEW g,
         \A x \in R : x \in S /\ g[x].chunks \subseteq f[x].chunks /\ g[x].args = f[x].args
  PROVE  Tidy(R, g)
<1> SUFFICES ASSUME NEW x \in R
             PROVE  /\ g[x].args \notin ChunkMem(g[x])
                    /\ \A k, l \in g[x].chunks : k # l => {k[1], k[2]} \cap {l[1], l[2]} = {}
  BY DEF Tidy
<1>1. ChunkMem(g[x]) \subseteq ChunkMem(f[x])
  BY DEF ChunkMem
<1> QED
  BY <1>1 DEF Tidy

(* One more structure, or one changed: the others are as tidy as before. *)
LEMMA TidyChange ==
  ASSUME NEW S, NEW f, Tidy(S, f), NEW s, NEW g,
         \A x \in S \ {s} : g[x] = f[x],
         g[s].args \notin ChunkMem(g[s]),
         \A k, l \in g[s].chunks : k # l => {k[1], k[2]} \cap {l[1], l[2]} = {}
  PROVE  Tidy(S \cup {s}, g)
<1>1. \A x \in S \ {s} : ChunkMem(g[x]) = ChunkMem(f[x])
  OBVIOUS
<1> QED
  BY <1>1 DEF Tidy

-----------------------------------------------------------------------------
(* The scans of task_q and zombie_q, and the client of a request.          *)

(* pm_findbypid() (pm.c) returns a process on task_q with that pid. *)
LEMMA FindFacts ==
  ASSUME TypeOK, NEW c, pm_findbypid(c) # NULL
  PROVE  pm_findbypid(c) \in Tasks /\ pt[pm_findbypid(c)].pid = c
<1> DEFINE I == {i \in 1..Len(task_q) : pt[task_q[i]].pid = c}
           k == CHOOSE i \in I : \A j \in I : i <= j
<1>1. task_q \in Seq(Struct) /\ Len(task_q) \in Nat /\ DOMAIN task_q = 1..Len(task_q)
  BY DEF TypeOK
<1>2. I # {} /\ pm_findbypid(c) = IF k = 0 THEN NULL ELSE task_q[k]
  BY SMTT(30) DEF pm_findbypid, SelectInSeq, Min
<1>3. I \subseteq Nat
  OBVIOUS
<1>4. \E i \in I : \A j \in I : i <= j
  <2> HIDE DEF I
  <2> QED
    BY <1>2, <1>3, LeastNat
<1>5. k \in I
  BY <1>4
<1> HIDE DEF k
<1>6. k \in 1..Len(task_q) /\ pt[task_q[k]].pid = c
  BY <1>5
<1>7. k # 0 /\ task_q[k] \in Tasks
  BY <1>1, <1>6 DEF Tasks, Range
<1> QED
  BY <1>2, <1>6, <1>7

(* pm_findzombie() over zombie_q: none, or a zombie child that w asks for. *)
LEMMA ReapFacts ==
  ASSUME TypeOK, NEW s, NEW w
  PROVE  /\ Reapable(s, w) = 0 <=>
              \A z \in Zombies : ~(pt[z].parent = s /\ w \in {pt[z].pid, TASK_ANY})
         /\ Reapable(s, w) # 0 =>
              /\ zombie_q[Reapable(s, w)] \in Zombies
              /\ pt[zombie_q[Reapable(s, w)]].parent = s
<1> DEFINE I == {i \in 1..Len(zombie_q) :
                   pt[zombie_q[i]].parent = s /\ w \in {pt[zombie_q[i]].pid, TASK_ANY}}
           k == CHOOSE i \in I : \A j \in I : i <= j
<1>1. /\ zombie_q \in Seq(Struct) /\ Len(zombie_q) \in Nat
      /\ DOMAIN zombie_q = 1..Len(zombie_q)
  BY DEF TypeOK
<1>2. Reapable(s, w) = IF I # {} THEN k ELSE 0
  BY DEF Reapable, SelectInSeq, Min
<1>3. CASE I = {}
  BY <1>1, <1>2, <1>3 DEF Zombies, Range
<1>4. CASE I # {}
  <2>1. I \subseteq Nat
    OBVIOUS
  <2>2. \E i \in I : \A j \in I : i <= j
    <3> HIDE DEF I
    <3> QED
      BY <1>4, <2>1, LeastNat
  <2>3. k \in I
    BY <2>2
  <2> HIDE DEF k
  <2>4. /\ k \in 1..Len(zombie_q) /\ pt[zombie_q[k]].parent = s
        /\ w \in {pt[zombie_q[k]].pid, TASK_ANY}
    BY <2>3
  <2>5. k # 0 /\ zombie_q[k] \in Zombies
    BY <1>1, <2>4 DEF Zombies, Range
  <2>6. Reapable(s, w) = k
    BY <1>2, <1>4
  <2> QED
    BY <2>4, <2>5, <2>6
<1> QED
  BY <1>3, <1>4

(* The queues hold structures. *)
LEMMA QueueTypes ==
  ASSUME TypeOK
  PROVE  Tasks \subseteq Struct /\ Waiters \subseteq Struct /\ Zombies \subseteq Struct
BY DEF TypeOK, Tasks, Waiters, Zombies, Range

(* The client is on task_q under its pid; it is taken out and put in front *)
(* (pm()), or taken out for good.                                          *)
LEMMA AsksFacts ==
  ASSUME PInv, NEW c \in Pid, Asks(c), NEW s, s = PM_CLIENT(c)
  PROVE  /\ s \in Tasks /\ s \in Struct /\ pt[s].pid = c
         /\ c \notin unanswered /\ ktask[c] = "started"
         /\ ClientFirst(c) \in Seq(Struct) /\ IsInjective(ClientFirst(c))
         /\ Range(ClientFirst(c)) = Tasks
         /\ Tail(ClientFirst(c)) \in Seq(Struct) /\ IsInjective(Tail(ClientFirst(c)))
         /\ Range(Tail(ClientFirst(c))) = Tasks \ {s}
<1> DEFINE r == Q_REMV(task_q, s)
           q == Cons(s, r)
<1>1. TypeOK /\ task_q \in Seq(Struct) /\ IsInjective(task_q)
  BY DEF PInv, TypeOK
<1>2. s \in Tasks /\ pt[s].pid = c
  BY <1>1, FindFacts DEF Asks, PM_CLIENT
<1>3. s \in Struct /\ s \in Range(task_q)
  BY <1>1, <1>2, QueueTypes DEF Tasks
<1>4. r \in Seq(Struct) /\ Range(r) = Tasks \ {s} /\ IsInjective(r)
  BY <1>1, <1>3, RemvSet DEF Tasks
<1> HIDE DEF r
<1>5. q \in Seq(Struct) /\ Range(q) = Tasks /\ IsInjective(q)
  <2>1. s \notin Range(r) /\ Range(r) \cup {s} = Tasks
    BY <1>2, <1>4
  <2>2. /\ q \in Seq(Struct) /\ Range(q) = Range(r) \cup {s}
        /\ IsInjective(r) /\ s \notin Range(r) => IsInjective(q)
    BY <1>3, <1>4, ConsSet
  <2> QED
    BY <1>4, <2>1, <2>2
<1>6. Tail(q) \in Seq(Struct) /\ IsInjective(Tail(q)) /\ Range(Tail(q)) = Tasks \ {s}
  <2>1. q # <<>> /\ Head(q) = s
    BY <1>3, <1>4 DEF Cons
  <2> HIDE DEF q
  <2> QED
    BY <1>5, <2>1, TailSet
<1>7. ClientFirst(c) = q
  BY DEF ClientFirst, r
<1>8. c \notin unanswered /\ ktask[c] = "started"
  BY DEF Asks, Started
<1> QED
  BY <1>2, <1>3, <1>4, <1>5, <1>6, <1>7, <1>8

(* A request after which everybody is on the queue he was on. *)
LEMMA QuietQueues ==
  ASSUME PInv, NEW c \in Pid, Asks(c),
         task_q' = ClientFirst(c), UNCHANGED <<wait_q, zombie_q>>
  PROVE  /\ task_q' \in Seq(Struct) /\ wait_q' \in Seq(Struct) /\ zombie_q' \in Seq(Struct)
         /\ IsInjective(task_q') /\ IsInjective(wait_q') /\ IsInjective(zombie_q')
         /\ Tasks' = Tasks /\ Waiters' = Waiters /\ Zombies' = Zombies
         /\ Structs' = Structs
<1>1. ClientFirst(c) \in Seq(Struct) /\ IsInjective(ClientFirst(c)) /\ Range(ClientFirst(c)) = Tasks
  BY AsksFacts
<1>2. Tasks' = Tasks /\ Waiters' = Waiters /\ Zombies' = Zombies
  BY <1>1 DEF Tasks, Waiters, Zombies
<1> QED
  BY <1>1, <1>2 DEF PInv, TypeOK, Structs

(* The pids in C end, the others and the children left behind stay. *)
LEMMA VfsKept ==
  ASSUME VfsInStep, NEW C, Started' = Started \ C, vfs_tasks' = vfs_tasks \ C,
         \A x \in Tasks : \/ pt[x].pid \in Started \cup C
                          \/ x \in Tasks' /\ pt'[x].pid = pt[x].pid
  PROVE  VfsInStep'
<1>1. LeftBehind \ C \subseteq LeftBehind'
  BY DEF LeftBehind
<1> QED
  BY <1>1 DEF VfsInStep

-----------------------------------------------------------------------------
(* One lemma per request: it keeps the invariant.                          *)

LEMMA FailStep ==
  ASSUME PInv, NEW c \in Pid, Asks(c), task_q' = ClientFirst(c),
         UNCHANGED <<wait_q, zombie_q, pt, heap, vfs_tasks, status>>,
         unanswered \subseteq unanswered', unanswered' \subseteq Pid,
         answer' \in Answer \cup {NULL},
         ktask' \in [Pid -> {"free", "created", "started"}],
         \A p \in Pid : ktask[p] # "free" => ktask'[p] # "free",
         Started' = Started
  PROVE  PInv'
<1>1. /\ task_q' \in Seq(Struct) /\ wait_q' \in Seq(Struct) /\ zombie_q' \in Seq(Struct)
      /\ IsInjective(task_q') /\ IsInjective(wait_q') /\ IsInjective(zombie_q')
      /\ Tasks' = Tasks /\ Waiters' = Waiters /\ Zombies' = Zombies
      /\ Structs' = Structs
  BY QuietQueues
<1>2. TypeOK'
  BY <1>1 DEF PInv, TypeOK
<1>3. Family(Tasks, Waiters, Zombies, pt, ktask', unanswered')
  <2>1. Family(Tasks, Waiters, Zombies, pt, ktask, unanswered)
    BY DEF PInv
  <2> QED
    BY <2>1, FamilyQuiet
<1>4. VfsInStep'
  <2>1. VfsInStep /\ vfs_tasks' = vfs_tasks \ {} /\ Started' = Started \ {}
    BY DEF PInv
  <2> QED
    BY <1>1, <2>1, VfsKept
<1>5. Owned(Structs, pt, heap) /\ Tidy(Structs, pt)
  BY DEF PInv
<1>6. \A z \in Zombies : pt[z].chunks = {} /\ pt[z].word = status[z] /\ status[z] \in Code
  BY DEF PInv
<1> QED
  BY <1>1, <1>2, <1>3, <1>4, <1>5, <1>6 DEF PInv

(* A structure gives back the blocks D and gets the free blocks N. *)
LEMMA ClientChange ==
  ASSUME PInv, NEW s \in Structs, NEW g, \A x \in Structs \ {s} : g[x] = pt[x],
         NEW D, NEW N, D \subseteq Mem(pt[s]), N \cap heap = {},
         Mem(g[s]) = (Mem(pt[s]) \ D) \cup N,
         g[s].args \notin ChunkMem(g[s]),
         \A k, l \in g[s].chunks : k # l => {k[1], k[2]} \cap {l[1], l[2]} = {}
  PROVE  Owned(Structs, g, (heap \ D) \cup N) /\ Tidy(Structs, g)
<1>1. Owned(Structs, pt, heap) /\ Tidy(Structs, pt)
  BY DEF PInv
<1>2. Structs \cup {s} = Structs
  OBVIOUS
<1>3. Mem(pt[s]) = IF s \in Structs THEN Mem(pt[s]) ELSE {}
  OBVIOUS
<1>4. \A x \in Structs \ {s} : Mem(g[x]) = Mem(pt[x])
  OBVIOUS
<1>5. Tidy(Structs \cup {s}, g)
  BY <1>1, TidyChange
<1>6. Owned(Structs \cup {s}, g, (heap \ D) \cup N)
  BY <1>1, <1>3, <1>4, OwnedChange
<1> QED
  BY <1>2, <1>5, <1>6

(* The requests that change only the client's structure: it gives back the *)
(* blocks D and gets the free blocks N.                                    *)
LEMMA OwnStep ==
  ASSUME PInv, NEW c \in Pid, Asks(c), task_q' = ClientFirst(c), NEW s, s = PM_CLIENT(c),
         UNCHANGED <<wait_q, zombie_q, outside, unanswered, status>>,
         answer' \in Answer \cup {NULL},
         pt' \in [Struct -> PmTask], \A x \in Struct \ {s} : pt'[x] = pt[x],
         pt'[s].pid = pt[s].pid, pt'[s].parent = pt[s].parent,
         NEW D, NEW N, D \subseteq Mem(pt[s]), N \subseteq Block \ heap,
         heap' = (heap \ D) \cup N,
         Mem(pt'[s]) = (Mem(pt[s]) \ D) \cup N,
         pt'[s].args \notin ChunkMem(pt'[s]),
         \A k, l \in pt'[s].chunks : k # l => {k[1], k[2]} \cap {l[1], l[2]} = {}
  PROVE  PInv'
<1>1. /\ task_q' \in Seq(Struct) /\ wait_q' \in Seq(Struct) /\ zombie_q' \in Seq(Struct)
      /\ IsInjective(task_q') /\ IsInjective(wait_q') /\ IsInjective(zombie_q')
      /\ Tasks' = Tasks /\ Waiters' = Waiters /\ Zombies' = Zombies
      /\ Structs' = Structs
  BY QuietQueues
<1>2. s \in Tasks /\ s \in Struct
  BY AsksFacts
<1>3. heap' \subseteq Block
  BY DEF PInv, TypeOK
<1>4. TypeOK'
  BY <1>1, <1>3 DEF PInv, TypeOK, outside
<1>5. Tasks \subseteq Struct /\ Waiters \subseteq Struct /\ Zombies \subseteq Struct
  BY QueueTypes DEF PInv
<1>6. Tasks \cap Waiters = {} /\ Tasks \cap Zombies = {}
  BY DEF PInv, Family
<1>7. /\ \A x \in Tasks \cup Waiters \cup Zombies :
            pt'[x].pid = pt[x].pid /\ pt'[x].parent = pt[x].parent
      /\ \A x \in Waiters \cup Zombies : pt'[x] = pt[x]
  BY <1>2, <1>5, <1>6
<1>8. Family(Tasks, Waiters, Zombies, pt', ktask, unanswered)
  <2>1. Family(Tasks, Waiters, Zombies, pt, ktask, unanswered)
    BY DEF PInv
  <2>2. \A x \in Waiters : pt'[x].word = pt[x].word
    BY <1>7
  <2>3. \A p \in Pid : ktask[p] # "free" => ktask[p] # "free"
    OBVIOUS
  <2>4. unanswered \subseteq unanswered
    OBVIOUS
  <2>5. \A x \in Tasks \cup Waiters \cup Zombies :
            pt'[x].pid = pt[x].pid /\ pt'[x].parent = pt[x].parent
    BY <1>7
  <2> QED
    BY <2>1, <2>2, <2>3, <2>4, <2>5, FamilyQuiet
<1>9. VfsInStep'
  <2>1. VfsInStep /\ vfs_tasks' = vfs_tasks \ {} /\ Started' = Started \ {}
    BY DEF PInv, Started, outside
  <2> QED
    BY <1>1, <1>7, <2>1, VfsKept
<1>10. \A z \in Zombies : pt'[z].chunks = {} /\ pt'[z].word = status[z] /\ status[z] \in Code
  BY <1>7 DEF PInv
<1>11. s \in Structs /\ \A x \in Structs \ {s} : pt'[x] = pt[x]
  BY <1>2, <1>5 DEF Structs
<1>12. N \cap heap = {}
  OBVIOUS
<1>13. Owned(Structs, pt', heap') /\ Tidy(Structs, pt')
  BY <1>11, <1>12, ClientChange, ZenonT(60)
<1> QED
  BY <1>1, <1>4, <1>8, <1>9, <1>10, <1>13 DEF PInv, outside

(* The client's memory is part of the heap and tidy. *)
LEMMA ClientMemory ==
  ASSUME PInv, NEW s \in Structs
  PROVE  /\ s \in Struct /\ pt[s] \in PmTask
         /\ pt[s].chunks \subseteq Block \X Block
         /\ ChunkMem(pt[s]) \subseteq heap /\ ChunkMem(pt[s]) \subseteq Block
         /\ ChunkBlocks(s) = ChunkMem(pt[s])
         /\ ArgsBlock(s) = {pt[s].args} \ {NULL}
         /\ Mem(pt[s]) \subseteq heap /\ Mem(pt[s]) \subseteq Block
<1>1. s \in Struct /\ pt[s] \in PmTask
  BY QueueTypes DEF PInv, TypeOK, Structs
<1>2. ChunkBlocks(s) = ChunkMem(pt[s]) /\ ArgsBlock(s) = {pt[s].args} \ {NULL}
  BY DEF ChunkBlocks, ChunkMem, ArgsBlock
<1>3. Mem(pt[s]) \subseteq heap
  BY DEF PInv, Owned
<1>4. ChunkMem(pt[s]) \subseteq heap /\ heap \subseteq Block
  BY <1>3 DEF Mem, PInv, TypeOK
<1>5. pt[s].chunks \subseteq Block \X Block
  BY <1>1 DEF PmTask
<1> QED
  BY <1>1, <1>2, <1>3, <1>4, <1>5

(* PM_EXEC *)
LEMMA ExecStep ==
  ASSUME PInv, NEW c \in Pid, Exec(c) PROVE PInv'
<1> DEFINE s == PM_CLIENT(c)
<1>1. /\ Asks(c) /\ task_q' = ClientFirst(c) /\ answer' = NULL
      /\ UNCHANGED <<wait_q, zombie_q, outside, status>>
  BY DEF Exec, NoAnswer
<1>2. s \in Tasks /\ s \in Struct /\ s \in Structs /\ pt[s].pid = c
  BY <1>1, AsksFacts DEF Structs
<1> HIDE DEF s
<1>3. CASE UNCHANGED <<pt, heap>> /\ unanswered' \in {unanswered, unanswered \cup {c}}
  <2>1. unanswered \subseteq unanswered' /\ unanswered' \subseteq Pid
    BY <1>3 DEF PInv, TypeOK
  <2>2. /\ ktask' \in [Pid -> {"free", "created", "started"}] /\ ktask' = ktask
        /\ vfs_tasks' = vfs_tasks /\ Started' = Started
    BY <1>1 DEF PInv, TypeOK, outside, Started
  <2> QED
    BY <1>1, <1>3, <2>1, <2>2, FailStep
<1>4. ASSUME NEW a \in Block \ heap,
             heap' = (heap \ (ChunkBlocks(s) \cup ArgsBlock(s))) \cup {a},
             pt' = [pt EXCEPT ![s].args = a, ![s].chunks = {}],
             UNCHANGED unanswered
      PROVE  PInv'
  <2> DEFINE r == [pt[s] EXCEPT !.args = a, !.chunks = {}]
  <2>1. /\ pt[s] \in PmTask
        /\ ChunkBlocks(s) = ChunkMem(pt[s])
        /\ ArgsBlock(s) = {pt[s].args} \ {NULL}
        /\ heap \subseteq Block
    BY <1>2, ClientMemory DEF PInv, TypeOK
  <2>2. /\ r \in PmTask /\ r.pid = pt[s].pid /\ r.parent = pt[s].parent
        /\ r.args = a /\ r.chunks = {}
    BY <2>1 DEF PmTask
  <2>3. pt' = [pt EXCEPT ![s] = r]
    BY <1>4
  <2> HIDE DEF r
  <2>4. /\ pt'[s] = r /\ \A x \in Struct \ {s} : pt'[x] = pt[x]
        /\ pt' \in [Struct -> PmTask]
    BY <1>2, <2>2, <2>3 DEF PInv, TypeOK
  <2>5. heap' = (heap \ Mem(pt[s])) \cup {a}
    BY <1>4, <2>1 DEF Mem
  <2>6. ChunkMem(r) = {} /\ Mem(r) = {a}
    BY <2>2, PmAssumption DEF ChunkMem, Mem
  <2> DEFINE M == Mem(pt[s])
             N == {a}
  <2>7. /\ M \subseteq Mem(pt[s]) /\ N \subseteq Block \ heap
        /\ heap' = (heap \ M) \cup N /\ Mem(pt'[s]) = (Mem(pt[s]) \ M) \cup N
    BY <2>4, <2>5, <2>6
  <2>8. /\ pt'[s].args \notin ChunkMem(pt'[s])
        /\ \A k, l \in pt'[s].chunks : k # l => {k[1], k[2]} \cap {l[1], l[2]} = {}
    BY <2>2, <2>4, <2>6
  <2> HIDE DEF M, N
  <2> QED
    BY <1>1, <1>4, <2>2, <2>4, <2>7, <2>8, OwnStep DEF s
<1> QED
  BY <1>3, <1>4 DEF Exec, s

(* PM_MALLOC *)
LEMMA MallocStep ==
  ASSUME PInv, NEW c \in Pid, Malloc(c) PROVE PInv'
<1> DEFINE s == PM_CLIENT(c)
<1>1. /\ Asks(c) /\ task_q' = ClientFirst(c) /\ answer' = NULL
      /\ UNCHANGED <<wait_q, zombie_q, outside, unanswered, status>>
  BY DEF Malloc, NoAnswer
<1>2. s \in Tasks /\ s \in Struct /\ s \in Structs /\ pt[s].pid = c
  BY <1>1, AsksFacts DEF Structs
<1> HIDE DEF s
<1>3. CASE UNCHANGED <<pt, heap>>
  <2>1. /\ ktask' \in [Pid -> {"free", "created", "started"}] /\ ktask' = ktask
        /\ vfs_tasks' = vfs_tasks /\ unanswered' \subseteq Pid /\ Started' = Started
    BY <1>1 DEF PInv, TypeOK, outside, Started
  <2> QED
    BY <1>1, <1>3, <2>1, FailStep
<1>4. ASSUME NEW k \in (Block \ heap) \X (Block \ heap), k[1] # k[2],
             pt' = [pt EXCEPT ![s].chunks = @ \cup {k}],
             heap' = heap \cup {k[1], k[2]}
      PROVE  PInv'
  <2> DEFINE ch == pt[s].chunks \cup {k}
             r == [pt[s] EXCEPT !.chunks = ch]
             N == {k[1], k[2]}
             D == {}
  <2>1. /\ pt[s] \in PmTask
        /\ pt[s].chunks \subseteq Block \X Block
        /\ Mem(pt[s]) \subseteq heap
    BY <1>2, ClientMemory
  <2>2. ch \subseteq Block \X Block
    BY <2>1
  <2>3. pt' = [pt EXCEPT ![s] = r]
    BY <1>4
  <2> HIDE DEF ch
  <2>4. /\ r \in PmTask /\ r.pid = pt[s].pid /\ r.parent = pt[s].parent
        /\ r.args = pt[s].args /\ r.chunks = ch
    BY <2>1, <2>2 DEF PmTask
  <2> HIDE DEF r
  <2>5. /\ pt'[s] = r /\ \A x \in Struct \ {s} : pt'[x] = pt[x]
        /\ pt' \in [Struct -> PmTask]
    BY <1>2, <2>3, <2>4 DEF PInv, TypeOK
  <2>6. ChunkMem(r) = ChunkMem(pt[s]) \cup N
    BY <2>4 DEF ChunkMem, ch
  <2>7. N \cap heap = {} /\ N \subseteq Block \ heap
    OBVIOUS
  <2>8. /\ D \subseteq Mem(pt[s]) /\ heap' = (heap \ D) \cup N
        /\ Mem(pt'[s]) = (Mem(pt[s]) \ D) \cup N
    BY <1>4, <2>4, <2>5, <2>6 DEF Mem
  <2>9. Tidy(Structs, pt)
    BY DEF PInv
  <2>10. pt'[s].args \notin ChunkMem(pt'[s])
    <3>1. pt[s].args \notin ChunkMem(pt[s])
      BY <1>2, <2>9 DEF Tidy
    <3>2. pt[s].args \notin N
      BY <2>1, <2>7, PmAssumption DEF Mem
    <3> QED
      BY <2>4, <2>5, <2>6, <3>1, <3>2
  <2>11. \A l \in pt[s].chunks : {l[1], l[2]} \cap {k[1], k[2]} = {}
    <3>1. \A l \in pt[s].chunks : l[1] \in Mem(pt[s]) /\ l[2] \in Mem(pt[s])
      BY DEF Mem, ChunkMem
    <3> QED
      BY <2>1, <2>7, <3>1
  <2>12. \A l, m \in pt'[s].chunks : l # m => {l[1], l[2]} \cap {m[1], m[2]} = {}
    <3>1. \A l, m \in pt[s].chunks : l # m => {l[1], l[2]} \cap {m[1], m[2]} = {}
      BY <1>2, <2>9 DEF Tidy
    <3> QED
      BY <2>4, <2>5, <2>11, <3>1 DEF ch
  <2> HIDE DEF N, D
  <2> QED
    BY <1>1, <2>4, <2>5, <2>7, <2>8, <2>10, <2>12, OwnStep DEF s
<1> QED
  BY <1>1, <1>3, <1>4 DEF Malloc, s

(* PM_FREE *)
LEMMA FreeStep ==
  ASSUME PInv, NEW c \in Pid, NEW ptr, Free(c, ptr) PROVE PInv'
<1> DEFINE s == PM_CLIENT(c)
           found == {k \in pt[s].chunks : k[2] = ptr}
           D == UNION {{k[1], k[2]} : k \in found}
           N == {}
           ch == pt[s].chunks \ found
           r == [pt[s] EXCEPT !.chunks = ch]
<1>1. /\ Asks(c) /\ task_q' = ClientFirst(c) /\ answer' = NULL
      /\ UNCHANGED <<wait_q, zombie_q, outside, unanswered, status>>
      /\ pt' = [pt EXCEPT ![s] = r] /\ heap' = heap \ D
  BY DEF Free, NoAnswer
<1>2. s \in Tasks /\ s \in Struct /\ s \in Structs /\ pt[s].pid = c
  BY <1>1, AsksFacts DEF Structs
<1> HIDE DEF s
<1>3. pt[s] \in PmTask /\ pt[s].chunks \subseteq Block \X Block
  BY <1>2, ClientMemory
<1>4. found \subseteq pt[s].chunks /\ ch \subseteq pt[s].chunks
  OBVIOUS
<1> HIDE DEF found
<1>5. ch \subseteq Block \X Block
  BY <1>3
<1>6. Tidy(Structs, pt)
  BY DEF PInv
<1>7. /\ pt[s].args \notin ChunkMem(pt[s])
      /\ \A k, l \in pt[s].chunks : k # l => {k[1], k[2]} \cap {l[1], l[2]} = {}
  BY <1>2, <1>6 DEF Tidy
<1>8. \A k \in ch, l \in found : {k[1], k[2]} \cap {l[1], l[2]} = {}
  BY <1>4, <1>7
<1>9. D \subseteq ChunkMem(pt[s])
  BY <1>4 DEF ChunkMem
<1>10. UNION {{k[1], k[2]} : k \in ch} = ChunkMem(pt[s]) \ D
  <2>1. \A b : b \in ChunkMem(pt[s]) <=> \E k \in pt[s].chunks : b \in {k[1], k[2]}
    BY DEF ChunkMem
  <2>2. \A b : b \in D <=> \E k \in found : b \in {k[1], k[2]}
    OBVIOUS
  <2> DEFINE U == UNION {{k[1], k[2]} : k \in ch}
  <2>3. \A b : b \in U <=> \E k \in ch : b \in {k[1], k[2]}
    OBVIOUS
  <2>4. \A k : k \in pt[s].chunks <=> k \in ch \/ k \in found
    BY <1>4
  <2>5. \A k \in ch, l \in found : \A b : b \in {k[1], k[2]} => b \notin {l[1], l[2]}
    BY <1>8
  <2> HIDE DEF ch, D, U
  <2>6. \A b : b \in U => b \in ChunkMem(pt[s]) /\ b \notin D
    <3> SUFFICES ASSUME NEW b, b \in U PROVE b \in ChunkMem(pt[s]) /\ b \notin D
      OBVIOUS
    <3>1. PICK k \in ch : b \in {k[1], k[2]}
      BY <2>3
    <3>2. k \in pt[s].chunks
      BY <2>4, Zenon
    <3>3. b \in ChunkMem(pt[s])
      BY <2>1, <3>1, <3>2, Zenon
    <3>4. \A l \in found : b \notin {l[1], l[2]}
      BY <2>5, <3>1, Zenon
    <3> QED
      BY <2>2, <3>3, <3>4, Zenon
  <2>7. \A b : b \in ChunkMem(pt[s]) /\ b \notin D => b \in U
    BY <2>1, <2>2, <2>3, <2>4, Zenon
  <2>8. U = ChunkMem(pt[s]) \ D
    BY <2>6, <2>7
  <2> QED
    BY <2>8 DEF U
<1> HIDE DEF ch, D
<1>11. /\ r \in PmTask /\ r.pid = pt[s].pid /\ r.parent = pt[s].parent
       /\ r.args = pt[s].args /\ r.chunks = ch
  BY <1>3, <1>5 DEF PmTask
<1> HIDE DEF r
<1>12. /\ pt'[s] = r /\ \A x \in Struct \ {s} : pt'[x] = pt[x]
       /\ pt' \in [Struct -> PmTask]
  BY <1>1, <1>2, <1>11 DEF PInv, TypeOK
<1>13. ChunkMem(r) = ChunkMem(pt[s]) \ D
  BY <1>10, <1>11 DEF ChunkMem
<1>14. /\ D \subseteq Mem(pt[s]) /\ heap' = (heap \ D) \cup N /\ N \subseteq Block \ heap
       /\ Mem(pt'[s]) = (Mem(pt[s]) \ D) \cup N
  BY <1>1, <1>7, <1>9, <1>11, <1>12, <1>13 DEF Mem
<1>15. pt'[s].args \notin ChunkMem(pt'[s])
  BY <1>7, <1>11, <1>12, <1>13
<1>16. \A k, l \in pt'[s].chunks : k # l => {k[1], k[2]} \cap {l[1], l[2]} = {}
  BY <1>4, <1>7, <1>11, <1>12 DEF ch
<1> HIDE DEF N
<1> QED
  BY <1>1, <1>11, <1>12, <1>14, <1>15, <1>16, OwnStep DEF s

(* PM_WAIT with no child *)
LEMMA WaitFailsStep ==
  ASSUME PInv, NEW c \in Pid, NEW w \in Pid \cup {TASK_ANY}, WaitFails(c, w) PROVE PInv'
<1> DEFINE s == PM_CLIENT(c)
           N == {}
           r == [pt[s] EXCEPT !.word = w]
<1>1. /\ Asks(c) /\ task_q' = ClientFirst(c)
      /\ answer' = [to |-> c, pid |-> NULL, code |-> NULL]
      /\ UNCHANGED <<wait_q, zombie_q, outside, unanswered, status>>
      /\ pt' = [pt EXCEPT ![s] = r] /\ heap' = heap
  BY DEF WaitFails
<1>2. s \in Tasks /\ s \in Struct /\ s \in Structs /\ pt[s].pid = c
  BY <1>1, AsksFacts DEF Structs
<1> HIDE DEF s
<1>3. answer' \in Answer
  BY <1>1 DEF Answer
<1>4. pt[s] \in PmTask
  BY <1>2, ClientMemory
<1>5. /\ r \in PmTask /\ r.pid = pt[s].pid /\ r.parent = pt[s].parent
      /\ r.args = pt[s].args /\ r.chunks = pt[s].chunks
  BY <1>4 DEF PmTask
<1> HIDE DEF r
<1>6. /\ pt'[s] = r /\ \A x \in Struct \ {s} : pt'[x] = pt[x]
      /\ pt' \in [Struct -> PmTask]
  BY <1>1, <1>2, <1>5 DEF PInv, TypeOK
<1>7. ChunkMem(r) = ChunkMem(pt[s]) /\ Mem(r) = Mem(pt[s])
  BY <1>5 DEF ChunkMem, Mem
<1>8. /\ N \subseteq Mem(pt[s]) /\ heap' = (heap \ N) \cup N /\ N \subseteq Block \ heap
      /\ Mem(pt'[s]) = (Mem(pt[s]) \ N) \cup N
  BY <1>1, <1>6, <1>7
<1>9. Tidy(Structs, pt)
  BY DEF PInv
<1>10. /\ pt'[s].args \notin ChunkMem(pt'[s])
       /\ \A k, l \in pt'[s].chunks : k # l => {k[1], k[2]} \cap {l[1], l[2]} = {}
  BY <1>2, <1>5, <1>6, <1>7, <1>9 DEF Tidy
<1> HIDE DEF N
<1> QED
  BY <1>1, <1>3, <1>5, <1>6, <1>8, <1>10, OwnStep DEF s

(* A new structure comes with the free blocks N. *)
LEMMA NewMemory ==
  ASSUME PInv, NEW n, n \notin Structs, NEW g, \A x \in Structs : g[x] = pt[x],
         Mem(g[n]) \cap heap = {}, ChunkMem(g[n]) = {}, g[n].chunks = {}
  PROVE  Owned(Structs \cup {n}, g, heap \cup Mem(g[n])) /\ Tidy(Structs \cup {n}, g)
<1>1. Owned(Structs, pt, heap) /\ Tidy(Structs, pt)
  BY DEF PInv
<1>2. \A x \in Structs : Mem(g[x]) = Mem(pt[x]) /\ ChunkMem(g[x]) = ChunkMem(pt[x])
  OBVIOUS
<1>3. \A b \in heap : \E x \in Structs : b \in Mem(g[x])
  BY <1>1, <1>2 DEF Owned
<1>4. /\ \A x \in Structs : Mem(g[x]) \subseteq heap /\ Mem(g[x]) \cap Mem(g[n]) = {}
      /\ \A x, y \in Structs : x # y => Mem(g[x]) \cap Mem(g[y]) = {}
  BY <1>1, <1>2 DEF Owned
<1>5. Owned(Structs \cup {n}, g, heap \cup Mem(g[n]))
  BY <1>3, <1>4 DEF Owned
<1>6. Tidy(Structs \cup {n}, g)
  BY <1>1, <1>2 DEF Tidy
<1> QED
  BY <1>5, <1>6

(* A child is put on task_q, started or not: p is its pid, n its structure *)
(* and N the block of its arguments, if it got that far.                   *)
LEMMA BornStep ==
  ASSUME PInv, NEW c \in Pid, Asks(c), NEW p \in Pid, ktask[p] = "free",
         NEW n \in Struct \ Structs,
         pt' \in [Struct -> PmTask], \A x \in Struct \ {n} : pt'[x] = pt[x],
         pt'[n].pid = p, pt'[n].parent = PM_CLIENT(c), pt'[n].chunks = {},
         NEW N, N \subseteq Block \ heap, N = {pt'[n].args} \ {NULL},
         ktask' \in [Pid -> {"free", "created", "started"}],
         ktask'[p] # "free", \A q \in Pid \ {p} : ktask'[q] = ktask[q],
         vfs_tasks' = vfs_tasks \cup {p} \/ (ktask'[p] = "created" /\ vfs_tasks' = vfs_tasks),
         task_q' = Append(ClientFirst(c), n),
         heap' = heap \cup N,
         answer' = NULL, UNCHANGED <<wait_q, zombie_q, unanswered, status>>
  PROVE  PInv'
<1> DEFINE s == PM_CLIENT(c)
           cf == ClientFirst(c)
<1>1. s \in Tasks /\ cf \in Seq(Struct) /\ IsInjective(cf) /\ Range(cf) = Tasks
  BY AsksFacts
<1> HIDE DEF s, cf
<1>2. n \in Struct /\ n \notin Tasks /\ n \notin Waiters /\ n \notin Zombies /\ n # NULL
  BY PmAssumption DEF Structs
<1>3. task_q' \in Seq(Struct) /\ Tasks' = Tasks \cup {n} /\ IsInjective(task_q')
  BY <1>1, <1>2, AppendSet DEF Tasks, cf
<1>4. Waiters' = Waiters /\ Zombies' = Zombies /\ Structs' = Structs \cup {n}
  BY <1>3 DEF Waiters, Zombies, Structs
<1>5. Tasks \subseteq Struct /\ Waiters \subseteq Struct /\ Zombies \subseteq Struct
  BY QueueTypes DEF PInv
<1>8. TypeOK'
  BY <1>3 DEF PInv, TypeOK
<1>9. /\ \A x \in Tasks \cup Waiters \cup Zombies : pt'[x] = pt[x]
      /\ \A x \in Structs : pt'[x] = pt[x]
  BY <1>2, <1>5 DEF Structs
<1>10. Family(Tasks \cup {n}, Waiters, Zombies, pt', ktask', unanswered)
  <2>1. Family(Tasks, Waiters, Zombies, pt, ktask, unanswered)
    BY DEF PInv
  <2>2. \A q \in Pid : ktask[q] # "free" => ktask'[q] # "free"
    OBVIOUS
  <2>3. pt'[n].pid = p /\ pt'[n].parent = s /\ ktask'[p] # "free"
    BY DEF s
  <2>4. n \notin Tasks \cup Waiters \cup Zombies
    BY <1>2
  <2> QED
    BY <1>1, <1>2, <1>9, <2>1, <2>2, <2>3, <2>4, FamilyBorn
<1>11. VfsInStep'
  <2>1. p \notin Started /\ Started \subseteq vfs_tasks /\ vfs_tasks \subseteq Started \cup LeftBehind
    BY DEF PInv, VfsInStep, Started
  <2>2. Started' = Started \/ Started' = Started \cup {p}
    BY DEF Started
  <2>3. Started' = Started => ktask'[p] = "created"
    BY <2>1 DEF Started
  <2>4. \A x \in Tasks : pt[x].pid # p
    BY DEF PInv, Family, Living
  <2>5. LeftBehind \subseteq LeftBehind'
    BY <1>3, <1>9, <2>2, <2>4 DEF LeftBehind
  <2>6. p \in Started' \/ p \in LeftBehind'
    BY <1>3 DEF LeftBehind
  <2>7. ktask'[p] = "created" => p \notin Started'
    BY DEF Started
  <2> QED
    BY <2>1, <2>2, <2>3, <2>5, <2>6, <2>7 DEF VfsInStep
<1>12. n \notin Structs /\ ChunkMem(pt'[n]) = {} /\ Mem(pt'[n]) = N /\ N \cap heap = {}
  BY DEF ChunkMem, Mem
<1>13. Owned(Structs \cup {n}, pt', heap') /\ Tidy(Structs \cup {n}, pt')
  BY <1>9, <1>12, NewMemory
<1>14. \A z \in Zombies : pt'[z].chunks = {} /\ pt'[z].word = status[z] /\ status[z] \in Code
  BY <1>9 DEF PInv
<1> QED
  BY <1>3, <1>4, <1>8, <1>10, <1>11, <1>13, <1>14 DEF PInv

(* PM_SPAWN *)
LEMMA SpawnStep ==
  ASSUME PInv, NEW c \in Pid, Spawn(c) PROVE PInv'
<1> DEFINE q == ClientFirst(c)
           s == PM_CLIENT(c)
<1>1. /\ Asks(c) /\ answer' = NULL
      /\ UNCHANGED <<wait_q, zombie_q, unanswered, status>>
  BY DEF Spawn, NoAnswer
<1>2. s \in Struct /\ s \in Tasks
  BY <1>1, AsksFacts
<1> HIDE DEF s
<1>3. unanswered \subseteq unanswered' /\ unanswered' \subseteq Pid
  BY <1>1 DEF PInv, TypeOK
<1>4. CASE task_q' = q /\ UNCHANGED <<pt, heap, outside>>
  <2>1. /\ ktask' \in [Pid -> {"free", "created", "started"}] /\ ktask' = ktask
        /\ vfs_tasks' = vfs_tasks /\ Started' = Started
    BY <1>4 DEF PInv, TypeOK, outside, Started
  <2> QED
    BY <1>1, <1>3, <1>4, <2>1, FailStep
<1>5. ASSUME NEW p \in Pid, ktask[p] = "free", Abandon(p, q) PROVE PInv'
  <2>1. /\ ktask' \in [Pid -> {"free", "created", "started"}]
        /\ ktask'[p] = "created" /\ \A x \in Pid \ {p} : ktask'[x] = ktask[x]
    BY <1>5 DEF Abandon, PInv, TypeOK
  <2>2. /\ \A x \in Pid : ktask[x] # "free" => ktask'[x] # "free"
        /\ Started' = Started
    BY <1>5, <2>1 DEF Started
  <2>3. task_q' = ClientFirst(c) /\ UNCHANGED <<pt, heap, vfs_tasks>>
    BY <1>5 DEF Abandon
  <2> QED
    BY <1>1, <1>3, <2>1, <2>2, <2>3, FailStep
<1>6. ASSUME NEW p \in Pid, ktask[p] = "free", NEW n \in Struct \ Structs,
             NEW known \in BOOLEAN, Embryo(p, n, s, q, known)
      PROVE  PInv'
  <2> DEFINE r == pm_newtask(p, s)
             N == {}
  <2>1. /\ r \in PmTask /\ r.pid = p /\ r.parent = s /\ r.chunks = {} /\ r.args = NULL
    BY <1>2 DEF PmTask, pm_newtask, Blank
  <2>2. pt' = [pt EXCEPT ![n] = r] /\ ktask' = [ktask EXCEPT ![p] = "created"]
    BY <1>6 DEF Embryo
  <2> HIDE DEF r
  <2>3. pt' \in [Struct -> PmTask] /\ pt'[n] = r /\ \A x \in Struct \ {n} : pt'[x] = pt[x]
    BY <2>1, <2>2 DEF PInv, TypeOK
  <2>4. /\ ktask' \in [Pid -> {"free", "created", "started"}]
        /\ ktask'[p] = "created" /\ \A x \in Pid \ {p} : ktask'[x] = ktask[x]
    BY <2>2 DEF PInv, TypeOK
  <2>5. N \subseteq Block \ heap /\ N = {pt'[n].args} \ {NULL} /\ heap' = heap \cup N
    BY <1>6, <2>1, <2>3, PmAssumption DEF Embryo
  <2>6. vfs_tasks' = vfs_tasks \cup {p} \/ (ktask'[p] = "created" /\ vfs_tasks' = vfs_tasks)
    BY <1>6, <2>4, Zenon DEF Embryo
  <2>8. task_q' = Append(ClientFirst(c), n)
    BY <1>6 DEF Embryo
  <2>7. /\ pt'[n].pid = p /\ pt'[n].parent = PM_CLIENT(c) /\ pt'[n].chunks = {}
        /\ ktask'[p] # "free"
    BY <2>1, <2>3, <2>4 DEF s
  <2> HIDE DEF N
  <2> QED
    BY <1>1, <1>6, <2>3, <2>4, <2>5, <2>6, <2>7, <2>8, BornStep
<1>7. ASSUME NEW p \in Pid, ktask[p] = "free", NEW n \in Struct \ Structs,
             NEW a \in Block \ heap, Offspring(p, n, s, q, a)
      PROVE  PInv'
  <2> DEFINE r == [pm_newtask(p, s) EXCEPT !.args = a]
             N == {a}
  <2>1. /\ r \in PmTask /\ r.pid = p /\ r.parent = s /\ r.chunks = {} /\ r.args = a
    BY <1>2 DEF PmTask, pm_newtask, Blank
  <2>2. pt' = [pt EXCEPT ![n] = r] /\ ktask' = [ktask EXCEPT ![p] = "started"]
    BY <1>7 DEF Offspring
  <2> HIDE DEF r
  <2>3. pt' \in [Struct -> PmTask] /\ pt'[n] = r /\ \A x \in Struct \ {n} : pt'[x] = pt[x]
    BY <2>1, <2>2 DEF PInv, TypeOK
  <2>4. /\ ktask' \in [Pid -> {"free", "created", "started"}]
        /\ ktask'[p] = "started" /\ \A x \in Pid \ {p} : ktask'[x] = ktask[x]
    BY <2>2 DEF PInv, TypeOK
  <2>5. N \subseteq Block \ heap /\ N = {pt'[n].args} \ {NULL} /\ heap' = heap \cup N
    BY <1>7, <2>1, <2>3, PmAssumption DEF Offspring
  <2>6. vfs_tasks' = vfs_tasks \cup {p} \/ (ktask'[p] = "created" /\ vfs_tasks' = vfs_tasks)
    BY <1>7, <2>4, Zenon DEF Offspring
  <2>8. task_q' = Append(ClientFirst(c), n)
    BY <1>7 DEF Offspring
  <2>7. /\ pt'[n].pid = p /\ pt'[n].parent = PM_CLIENT(c) /\ pt'[n].chunks = {}
        /\ ktask'[p] # "free"
    BY <2>1, <2>3, <2>4 DEF s
  <2> HIDE DEF N
  <2> QED
    BY <1>1, <1>7, <2>3, <2>4, <2>5, <2>6, <2>7, <2>8, BornStep
<1> QED
  BY <1>4, <1>5, <1>6, <1>7 DEF Spawn, s

(* PM_WAIT with children, none to report *)
LEMMA WaitBlocksStep ==
  ASSUME PInv, NEW c \in Pid, NEW w \in Pid \cup {TASK_ANY}, WaitBlocks(c, w) PROVE PInv'
<1> DEFINE s == PM_CLIENT(c)
           r == [pt[s] EXCEPT !.word = w]
           cf == Tail(ClientFirst(c))
<1>1. /\ Asks(c) /\ task_q' = cf /\ wait_q' = Append(wait_q, s)
      /\ pt' = [pt EXCEPT ![s] = r] /\ unanswered' = unanswered \cup {c}
      /\ answer' = NULL
      /\ UNCHANGED <<zombie_q, heap, outside, status>>
      /\ Reapable(s, w) = 0 /\ Children(s) \cap (Tasks \cup Waiters) # {}
  BY DEF WaitBlocks, NoAnswer
<1>2. /\ s \in Tasks /\ s \in Struct /\ s \in Structs /\ pt[s].pid = c
      /\ cf \in Seq(Struct) /\ IsInjective(cf) /\ Range(cf) = Tasks \ {s}
  BY <1>1, AsksFacts DEF Structs
<1> HIDE DEF s, cf
<1>3. /\ TypeOK /\ wait_q \in Seq(Struct) /\ IsInjective(wait_q)
      /\ Tasks \cap Waiters = {} /\ Tasks \cap Zombies = {}
  BY DEF PInv, TypeOK, Family
<1>4. task_q' \in Seq(Struct) /\ IsInjective(task_q') /\ Tasks' = Tasks \ {s}
  BY <1>1, <1>2 DEF Tasks
<1>5. s \notin Waiters /\ s \notin Zombies
  BY <1>2, <1>3
<1>6. wait_q' \in Seq(Struct) /\ IsInjective(wait_q') /\ Waiters' = Waiters \cup {s}
  BY <1>1, <1>2, <1>3, <1>5, AppendSet DEF Waiters
<1>7. Zombies' = Zombies /\ Structs' = Structs
  <2>1. Zombies' = Zombies
    BY <1>1 DEF Zombies
  <2> QED
    BY <1>2, <1>4, <1>6, <2>1 DEF Structs
<1>8. Tasks \subseteq Struct /\ Waiters \subseteq Struct /\ Zombies \subseteq Struct
  BY <1>3, QueueTypes
<1>9. pt[s] \in PmTask
  BY <1>2, ClientMemory
<1>10. /\ r \in PmTask /\ r.pid = pt[s].pid /\ r.parent = pt[s].parent /\ r.word = w
       /\ r.args = pt[s].args /\ r.chunks = pt[s].chunks
  BY <1>9 DEF PmTask
<1> HIDE DEF r
<1>11. /\ pt'[s] = r /\ \A x \in Struct \ {s} : pt'[x] = pt[x]
       /\ pt' \in [Struct -> PmTask]
  BY <1>1, <1>2, <1>10 DEF PInv, TypeOK
<1>12. TypeOK'
  BY <1>1, <1>3, <1>4, <1>6, <1>11 DEF TypeOK, outside
<1>13. /\ \A x \in Tasks \cup Waiters \cup Zombies :
             pt'[x].pid = pt[x].pid /\ pt'[x].parent = pt[x].parent
       /\ \A x \in Waiters : pt'[x].word = pt[x].word
       /\ pt'[s].word = w
  BY <1>5, <1>8, <1>10, <1>11
<1>14. Family(Tasks \ {s}, Waiters \cup {s}, Zombies, pt', ktask, unanswered \cup {pt[s].pid})
  <2>1. Family(Tasks, Waiters, Zombies, pt, ktask, unanswered)
    BY DEF PInv
  <2>2. \A z \in Zombies : ~(pt[z].parent = s /\ w \in {pt[z].pid, TASK_ANY})
    BY <1>1, <1>3, ReapFacts
  <2>3. \E x \in Tasks \cup Waiters : pt[x].parent = s
    BY <1>1 DEF Children
  <2> QED
    BY <1>2, <1>13, <2>1, <2>2, <2>3, FamilyBlocks
<1>15. \A x \in Structs : pt'[x].args = pt[x].args /\ pt'[x].chunks = pt[x].chunks
  BY <1>8, <1>10, <1>11 DEF Structs
<1>16. Owned(Structs, pt', heap)
  <2>1. \A x \in Structs : Mem(pt'[x]) = Mem(pt[x])
    BY <1>15 DEF Mem, ChunkMem
  <2>2. Owned(Structs, pt, heap)
    BY DEF PInv
  <2> QED
    BY <2>1, <2>2, OwnedSame
<1>17. Tidy(Structs, pt')
  <2>1. \A x \in Structs : x \in Structs /\ pt'[x].chunks \subseteq pt[x].chunks
                           /\ pt'[x].args = pt[x].args
    BY <1>15
  <2>2. Tidy(Structs, pt)
    BY DEF PInv
  <2> QED
    BY <2>1, <2>2, TidySame
<1>18. VfsInStep'
  <2>1. VfsInStep /\ vfs_tasks' = vfs_tasks \ {} /\ Started' = Started \ {}
    BY <1>1 DEF PInv, Started, outside
  <2>2. pt[s].pid \in Started
    BY <1>1, <1>2 DEF Asks
  <2> QED
    BY <1>4, <1>13, <2>1, <2>2, VfsKept
<1>19. \A z \in Zombies : pt'[z].chunks = {} /\ pt'[z].word = status[z] /\ status[z] \in Code
  BY <1>5, <1>8, <1>11 DEF PInv
<1> QED
  BY <1>1, <1>2, <1>4, <1>6, <1>7, <1>12, <1>14, <1>16, <1>17, <1>18, <1>19 DEF PInv, outside

(* PM_WAIT with a zombie to report *)
LEMMA WaitReapsStep ==
  ASSUME PInv, NEW c \in Pid, NEW w \in Pid \cup {TASK_ANY}, WaitReaps(c, w) PROVE PInv'
<1> DEFINE s == PM_CLIENT(c)
           z == zombie_q[Reapable(s, w)]
           r == [pt[s] EXCEPT !.word = w]
           cf == ClientFirst(c)
<1>1. /\ Asks(c) /\ task_q' = cf /\ zombie_q' = Q_REMV(zombie_q, z)
      /\ pt' = [pt EXCEPT ![s].word = w, ![z] = Blank]
      /\ heap' = heap \ ArgsBlock(z)
      /\ answer' = [to |-> c, pid |-> pt[z].pid, code |-> pt[z].word]
      /\ status' = [status EXCEPT ![z] = NULL]
      /\ UNCHANGED <<wait_q, outside, unanswered>>
      /\ Reapable(s, w) # 0
  BY DEF WaitReaps
<1>2. /\ s \in Tasks /\ s \in Struct /\ s \in Structs /\ pt[s].pid = c
      /\ cf \in Seq(Struct) /\ IsInjective(cf) /\ Range(cf) = Tasks
  BY <1>1, AsksFacts DEF Structs
<1>3. /\ TypeOK /\ zombie_q \in Seq(Struct) /\ IsInjective(zombie_q)
      /\ Tasks \cap Waiters = {} /\ Tasks \cap Zombies = {} /\ Waiters \cap Zombies = {}
      /\ Tasks \subseteq Struct /\ Waiters \subseteq Struct /\ Zombies \subseteq Struct
  BY QueueTypes DEF PInv, TypeOK, Family
<1>4. z \in Zombies /\ pt[z].parent = s
  BY <1>1, <1>3, ReapFacts
<1> HIDE DEF s, z, cf
<1>5. z \in Struct /\ z \notin Tasks /\ z \notin Waiters /\ z # s /\ s \notin Zombies
      /\ z \in Structs
  BY <1>2, <1>3, <1>4 DEF Structs
<1>6. task_q' \in Seq(Struct) /\ IsInjective(task_q') /\ Tasks' = Tasks
  BY <1>1, <1>2 DEF Tasks
<1>7. zombie_q' \in Seq(Struct) /\ IsInjective(zombie_q') /\ Zombies' = Zombies \ {z}
  BY <1>1, <1>3, <1>4, RemvSet DEF Zombies
<1>8. /\ Waiters' = Waiters /\ wait_q' \in Seq(Struct) /\ IsInjective(wait_q')
      /\ Structs' = Structs \ {z}
  <2>1. Waiters' = Waiters /\ wait_q' \in Seq(Struct) /\ IsInjective(wait_q')
    BY <1>1 DEF Waiters, PInv, TypeOK
  <2> QED
    BY <1>5, <1>6, <1>7, <2>1 DEF Structs
<1>9. pt[s] \in PmTask
  BY <1>2, ClientMemory
<1>10. /\ r \in PmTask /\ r.pid = pt[s].pid /\ r.parent = pt[s].parent
       /\ r.args = pt[s].args /\ r.chunks = pt[s].chunks
  BY <1>9 DEF PmTask
<1>11. pt' = [[pt EXCEPT ![s] = r] EXCEPT ![z] = Blank] /\ Blank \in PmTask
  BY <1>1 DEF Blank, PmTask
<1> HIDE DEF r
<1>12. /\ pt' \in [Struct -> PmTask]
       /\ pt'[s] = r /\ \A x \in Struct \ {s, z} : pt'[x] = pt[x]
  BY <1>2, <1>3, <1>5, <1>10, <1>11 DEF TypeOK
<1>13. /\ \A x \in Tasks \cup Waiters \cup (Zombies \ {z}) :
             pt'[x].pid = pt[x].pid /\ pt'[x].parent = pt[x].parent
       /\ \A x \in Waiters : pt'[x].word = pt[x].word
       /\ \A x \in Zombies \ {z} : pt'[x] = pt[x]
       /\ \A x \in Structs \ {z} : pt'[x].args = pt[x].args /\ pt'[x].chunks = pt[x].chunks
  BY <1>2, <1>3, <1>5, <1>10, <1>12 DEF Structs
<1>14. /\ pt[z].chunks = {} /\ pt[z].word = status[z] /\ status[z] \in Code
       /\ \A x \in Zombies \ {z} : pt[x].chunks = {} /\ pt[x].word = status[x] /\ status[x] \in Code
       /\ pt[z] \in PmTask
  BY <1>3, <1>4, <1>5 DEF PInv, TypeOK
<1>15. answer' \in Answer
  <2>1. pt[z].pid \in Pid \cup {NULL} /\ pt[z].word \in Code
    BY <1>14 DEF PmTask
  <2> QED
    BY <1>1, <2>1 DEF Answer
<1>16. /\ status' \in [Struct -> Code \cup {NULL}]
       /\ \A x \in Zombies \ {z} : status'[x] = status[x]
  BY <1>1, <1>3, <1>5 DEF TypeOK
<1>17. TypeOK'
  BY <1>1, <1>3, <1>6, <1>7, <1>8, <1>12, <1>15, <1>16 DEF TypeOK, outside
<1>18. Family(Tasks, Waiters, Zombies \ {z}, pt', ktask', unanswered')
  <2>1. Family(Tasks, Waiters, Zombies, pt, ktask, unanswered)
    BY DEF PInv
  <2>2. Family(Tasks, Waiters, Zombies \ {z}, pt, ktask, unanswered)
    BY <2>1, FamilyReaped
  <2>3. ktask' = ktask /\ unanswered' = unanswered
    BY <1>1 DEF outside
  <2>4. /\ \A p \in Pid : ktask[p] # "free" => ktask'[p] # "free"
        /\ unanswered \subseteq unanswered'
    BY <2>3
  <2>5. \A x \in Tasks \cup Waiters \cup (Zombies \ {z}) :
          pt'[x].pid = pt[x].pid /\ pt'[x].parent = pt[x].parent
    BY <1>13
  <2>6. \A x \in Waiters : pt'[x].word = pt[x].word
    BY <1>13
  <2> QED
    BY <2>2, <2>4, <2>5, <2>6, FamilyQuiet
<1>19. Owned(Structs \ {z}, pt', heap')
  <2> DEFINE G == {z}
  <2>1. \A x \in Structs \ G : Mem(pt'[x]) = Mem(pt[x])
    BY <1>13 DEF Mem, ChunkMem
  <2>2. Owned(Structs, pt, heap) /\ G \subseteq Structs
    BY <1>5 DEF PInv
  <2>3. ArgsBlock(z) = UNION {Mem(pt[x]) : x \in G}
    BY <1>14 DEF Mem, ChunkMem, ArgsBlock
  <2> HIDE DEF G
  <2>4. Owned(Structs \ G, pt', heap \ UNION {Mem(pt[x]) : x \in G})
    BY <2>1, <2>2, OwnedFreed
  <2> QED
    BY <1>1, <2>3, <2>4 DEF G
<1>20. Tidy(Structs \ {z}, pt')
  <2>1. \A x \in Structs \ {z} : x \in Structs /\ pt'[x].chunks \subseteq pt[x].chunks
                                 /\ pt'[x].args = pt[x].args
    BY <1>13
  <2>2. Tidy(Structs, pt)
    BY DEF PInv
  <2> QED
    BY <2>1, <2>2, TidySame
<1>21. VfsInStep'
  <2>1. VfsInStep /\ vfs_tasks' = vfs_tasks \ {} /\ Started' = Started \ {}
    BY <1>1 DEF PInv, Started, outside
  <2> QED
    BY <1>6, <1>13, <2>1, VfsKept
<1>22. \A x \in Zombies \ {z} : pt'[x].chunks = {} /\ pt'[x].word = status'[x] /\ status'[x] \in Code
  BY <1>13, <1>14, <1>16
<1> QED
  BY <1>6, <1>7, <1>8, <1>17, <1>18, <1>19, <1>20, <1>21, <1>22 DEF PInv

-----------------------------------------------------------------------------
(* PM_EXIT.  The client s goes: its chunks, its pid, its zombie children.   *)

(* The zombies that stay (pm_removechild, pm.c). *)
LEMMA SurvivorFacts ==
  ASSUME PInv, NEW s
  PROVE  /\ Survivors(s) \in Seq(Struct) /\ IsInjective(Survivors(s))
         /\ Range(Survivors(s)) = Zombies \ Buried(s)
<1> DEFINE I == {i \in 1..Len(zombie_q) : zombie_q[i] \notin Buried(s)}
<1>1. /\ zombie_q \in Seq(Struct) /\ IsInjective(zombie_q)
      /\ Len(zombie_q) \in Nat /\ DOMAIN zombie_q = 1..Len(zombie_q)
  BY DEF PInv, TypeOK
<1>2. I \in SUBSET (1..Len(zombie_q))
  OBVIOUS
<1>3. {zombie_q[i] : i \in I} = Zombies \ Buried(s)
  BY <1>1 DEF Zombies, Range
<1> HIDE DEF I
<1>4. /\ Pick(zombie_q, I) \in Seq(Struct)
      /\ Range(Pick(zombie_q, I)) = {zombie_q[i] : i \in I}
      /\ IsInjective(zombie_q) => IsInjective(Pick(zombie_q, I))
  BY <1>1, <1>2, PickSet
<1>5. Survivors(s) = Pick(zombie_q, I)
  BY DEF Survivors, I
<1> QED
  BY <1>1, <1>3, <1>4, <1>5

(* What do_exit() leaves in the structures before it looks at the parent. *)
LEMMA BereavedFacts ==
  ASSUME PInv, NEW s \in Tasks, NEW g, g = Bereaved(s)
  PROVE  /\ g \in [Struct -> PmTask]
         /\ \A x \in (Tasks \cup Waiters) \ {s} :
              /\ g[x].pid = pt[x].pid /\ g[x].word = pt[x].word
              /\ g[x].args = pt[x].args /\ g[x].chunks = pt[x].chunks
              /\ g[x].parent = IF pt[x].parent = s THEN NULL ELSE pt[x].parent
         /\ g[s].pid = pt[s].pid /\ g[s].parent = pt[s].parent /\ g[s].args = pt[s].args
         /\ g[s].chunks = {}
         /\ \A z \in Zombies \ Buried(s) : g[z] = pt[z]
<1>1. /\ TypeOK
      /\ Tasks \cap Waiters = {} /\ Tasks \cap Zombies = {} /\ Waiters \cap Zombies = {}
      /\ Tasks \subseteq Struct /\ Waiters \subseteq Struct /\ Zombies \subseteq Struct
      /\ pt[s].parent # s /\ Buried(s) \subseteq Zombies
  BY QueueTypes DEF PInv, Family, Related, Buried
<1>2. pt \in [Struct -> PmTask] /\ \A x \in Struct : pt[x] \in PmTask
  BY <1>1 DEF TypeOK
<1>3. Blank \in PmTask
  BY DEF Blank, PmTask
<1>4. ASSUME NEW r \in PmTask
      PROVE  LET m == [r EXCEPT !.parent = NULL]
             IN /\ m \in PmTask /\ m.pid = r.pid /\ m.word = r.word
                /\ m.args = r.args /\ m.chunks = r.chunks /\ m.parent = NULL
  BY DEF PmTask
<1>5. ASSUME NEW r \in PmTask
      PROVE  LET m == [r EXCEPT !.chunks = {}]
             IN /\ m \in PmTask /\ m.pid = r.pid /\ m.word = r.word
                /\ m.args = r.args /\ m.parent = r.parent /\ m.chunks = {}
  BY DEF PmTask
<1>6. ASSUME NEW x \in Struct PROVE g[x] \in PmTask
  <2>1. g[x] = IF x \in Buried(s) THEN Blank
               ELSE IF x \in Tasks \cup Waiters /\ pt[x].parent = s THEN [pt[x] EXCEPT !.parent = NULL]
               ELSE IF x = s THEN [pt[x] EXCEPT !.chunks = {}]
               ELSE pt[x]
    BY DEF Bereaved
  <2> QED
    BY <1>2, <1>3, <1>4, <1>5, <2>1
<1>7. g \in [Struct -> PmTask]
  BY <1>6 DEF Bereaved
<1>8. ASSUME NEW x \in (Tasks \cup Waiters) \ {s}
      PROVE  /\ g[x].pid = pt[x].pid /\ g[x].word = pt[x].word
             /\ g[x].args = pt[x].args /\ g[x].chunks = pt[x].chunks
             /\ g[x].parent = IF pt[x].parent = s THEN NULL ELSE pt[x].parent
  <2>1. x \in Struct /\ x \notin Buried(s) /\ x # s
    BY <1>1
  <2>2. CASE pt[x].parent = s
    <3>1. g[x] = [pt[x] EXCEPT !.parent = NULL]
      BY <2>1, <2>2 DEF Bereaved
    <3> QED
      BY <1>2, <1>4, <2>1, <2>2, <3>1
  <2>3. CASE pt[x].parent # s
    <3>1. g[x] = pt[x]
      BY <2>1, <2>3 DEF Bereaved
    <3> QED
      BY <2>3, <3>1
  <2> QED
    BY <2>2, <2>3
<1>9. /\ g[s].pid = pt[s].pid /\ g[s].parent = pt[s].parent /\ g[s].args = pt[s].args
      /\ g[s].chunks = {}
  <2>1. s \in Struct /\ s \notin Buried(s)
    BY <1>1
  <2>2. g[s] = [pt[s] EXCEPT !.chunks = {}]
    BY <1>1, <2>1 DEF Bereaved
  <2> QED
    BY <1>2, <1>5, <2>1, <2>2
<1>10. ASSUME NEW z \in Zombies \ Buried(s) PROVE g[z] = pt[z]
  <2>1. z \in Struct /\ z # s /\ z \notin Tasks /\ z \notin Waiters
    BY <1>1
  <2> QED
    BY <2>1 DEF Bereaved
<1> QED
  BY <1>7, <1>8, <1>9, <1>10

(* ... and in the heap. *)
LEMMA KeptFacts ==
  ASSUME PInv, NEW s \in Tasks, NEW g, g = Bereaved(s)
  PROVE  Owned(Structs \ Buried(s), g, Kept(s)) /\ Tidy(Structs \ Buried(s), g)
<1> DEFINE B == Buried(s)
           D == ChunkMem(pt[s])
           f == [pt EXCEPT ![s].chunks = {}]
           E == {}
<1>1. /\ \A x \in (Tasks \cup Waiters) \ {s} : g[x].args = pt[x].args /\ g[x].chunks = pt[x].chunks
      /\ g[s].args = pt[s].args /\ g[s].chunks = {}
      /\ \A z \in Zombies \ B : g[z] = pt[z]
  BY BereavedFacts
<1>2. /\ s \in Structs /\ s \in Struct /\ s \notin B /\ B \subseteq Zombies /\ B \subseteq Structs
      /\ Structs \subseteq Struct
  BY QueueTypes DEF PInv, Family, Buried, Structs
<1>3. Owned(Structs, pt, heap) /\ Tidy(Structs, pt)
  BY DEF PInv
<1>4. /\ f[s].chunks = {} /\ f[s].args = pt[s].args
      /\ \A x \in Structs \ {s} : f[x] = pt[x]
  <2>1. pt[s] \in PmTask /\ pt \in [Struct -> PmTask]
    BY <1>2 DEF PInv, TypeOK
  <2> DEFINE r == [pt[s] EXCEPT !.chunks = {}]
  <2>2. r.chunks = {} /\ r.args = pt[s].args
    BY <2>1 DEF PmTask
  <2>3. f = [pt EXCEPT ![s] = r]
    OBVIOUS
  <2> HIDE DEF r
  <2> QED
    BY <1>2, <2>1, <2>2, <2>3
<1> HIDE DEF f, B
<1>5. ChunkMem(f[s]) = {} /\ Mem(f[s]) = {pt[s].args} \ {NULL}
  BY <1>4 DEF ChunkMem, Mem
<1>6. pt[s].args \notin D
  BY <1>2, <1>3 DEF Tidy
<1>7. /\ Mem(f[s]) = (Mem(pt[s]) \ D) \cup E /\ D \subseteq Mem(pt[s]) /\ E \cap heap = {}
  BY <1>5, <1>6 DEF Mem
<1>8. /\ f[s].args \notin ChunkMem(f[s])
      /\ \A k, l \in f[s].chunks : k # l => {k[1], k[2]} \cap {l[1], l[2]} = {}
  BY <1>4, <1>5
<1> HIDE DEF D, E
<1>9. Owned(Structs, f, (heap \ D) \cup E) /\ Tidy(Structs, f)
  BY <1>2, <1>4, <1>7, <1>8, ClientChange
<1>10. \A x \in Structs \ B : g[x].chunks = f[x].chunks /\ g[x].args = f[x].args
  BY <1>1, <1>4 DEF Structs
<1>11. \A x \in Structs \ B : Mem(g[x]) = Mem(f[x])
  BY <1>10 DEF Mem, ChunkMem
<1>12. Owned(Structs \ B, g, ((heap \ D) \cup E) \ UNION {Mem(f[x]) : x \in B})
  BY <1>2, <1>9, <1>11, OwnedFreed
<1>13. \A z \in B : Mem(f[z]) = ArgsBlock(z)
  <2> TAKE z \in B
  <2>1. pt[z].chunks = {} /\ f[z] = pt[z]
    BY <1>2, <1>4 DEF PInv
  <2> QED
    BY <2>1 DEF Mem, ChunkMem, ArgsBlock
<1>14. Kept(s) = ((heap \ D) \cup E) \ UNION {Mem(f[x]) : x \in B}
  <2>1. UNION {Mem(f[x]) : x \in B} = UNION {ArgsBlock(z) : z \in B}
    BY <1>13
  <2>2. ChunkBlocks(s) = D
    BY DEF ChunkBlocks, ChunkMem, D
  <2> QED
    BY <2>1, <2>2 DEF Kept, E, B
<1>15. Tidy(Structs \ B, g)
  <2>1. \A x \in Structs \ B : x \in Structs /\ g[x].chunks \subseteq f[x].chunks
                                 /\ g[x].args = f[x].args
    BY <1>10
  <2> QED
    BY <1>9, <2>1, TidySame
<1> QED
  BY <1>12, <1>14, <1>15 DEF B

(* deletetask() and vfs_deletetask() *)
LEMMA DepartFacts ==
  ASSUME PInv, NEW c \in Pid, Depart(c)
  PROVE  /\ Asks(c) /\ ktask' \in [Pid -> {"free", "created", "started"}]
         /\ \A p \in Pid \ {c} : ktask'[p] = ktask[p]
         /\ vfs_tasks' \subseteq Pid
         /\ vfs_tasks' = vfs_tasks \ {c} /\ Started' = Started \ {c}
<1>1. /\ ktask' \in [Pid -> {"free", "created", "started"}] /\ ktask'[c] = "free"
      /\ \A p \in Pid \ {c} : ktask'[p] = ktask[p]
      /\ vfs_tasks' = vfs_tasks \ {c}
  BY DEF Depart, PInv, TypeOK
<1>2. Started' = Started \ {c}
  BY <1>1 DEF Started
<1> QED
  BY <1>1, <1>2 DEF Depart, PInv, TypeOK

(* The codes of the zombies that stay are kept. *)
LEMMA ForgetFacts ==
  ASSUME PInv, NEW s \in Tasks, NEW code \in Code \cup {NULL}
  PROVE  /\ Forget(s, code) \in [Struct -> Code \cup {NULL}]
         /\ Forget(s, code)[s] = code
         /\ \A z \in Zombies \ Buried(s) : Forget(s, code)[z] = status[z]
<1>1. s \in Struct /\ s \notin Zombies /\ Zombies \subseteq Struct /\ Buried(s) \subseteq Zombies
  BY QueueTypes DEF PInv, Family, Buried
<1> QED
  BY <1>1 DEF Forget, PInv, TypeOK

(* The relations after an exit nobody waits for, as do_exit() leaves the   *)
(* structures before it looks at the parent: T and W are task_q and wait_q *)
(* after the parent was woken, if it waited.                               *)
LEMMA ExitFamily ==
  ASSUME PInv, NEW c \in Pid, Depart(c), NEW s \in Tasks, pt[s].pid = c, NEW g,
         \A x \in (Tasks \cup Waiters) \ {s} :
           /\ g[x].pid = pt[x].pid /\ g[x].word = pt[x].word
           /\ g[x].parent = IF pt[x].parent = s THEN NULL ELSE pt[x].parent,
         g[s].pid = pt[s].pid, g[s].parent = pt[s].parent,
         \A z \in Zombies \ Buried(s) : g[z] = pt[z],
         NEW T, NEW W, NEW un, T \cup W \subseteq Tasks \cup Waiters, s \in T,
         Family(T, W, Zombies, pt, ktask, un),
         pt[s].parent \in W => pt[pt[s].parent].word \notin {c, TASK_ANY}
  PROVE  /\ Family(T \ {s}, W, Zombies \ Buried(s), g, ktask', un)
         /\ pt[s].parent # NULL =>
              Family(T \ {s}, W, (Zombies \ Buried(s)) \cup {s}, g, ktask', un)
<1> DEFINE B == Buried(s)
<1>1. \A p \in Pid \ {c} : ktask'[p] = ktask[p]
  BY DepartFacts
<1>4. NULL \notin T \cup W
  BY QueueTypes, PmAssumption DEF PInv
<1>5. B \subseteq Zombies /\ \A z \in Zombies : z \in B <=> pt[z].parent = s
  BY DEF Buried
<1>6. s \notin W /\ W \subseteq T \cup W
  BY DEF Family
<1> HIDE DEF B
<1>7. \A x \in (T \cup W \cup Zombies) \ B : g[x].pid = pt[x].pid
  BY DEF B
<1>8. \A x \in (T \cup W) \ {s} : g[x].parent = IF pt[x].parent = s THEN NULL ELSE pt[x].parent
  OBVIOUS
<1>9. \A x \in (Zombies \ B) \cup {s} : g[x].parent = pt[x].parent
  BY DEF B
<1>10. \A x \in W : g[x].word = pt[x].word
  BY <1>6
<1>11. \A p \in Pid \ {c} : ktask[p] # "free" => ktask'[p] # "free"
  BY <1>1
<1>12. /\ s \in T /\ NULL \notin T \cup W /\ pt[s].pid = c /\ B \subseteq Zombies
       /\ Family(T, W, Zombies, pt, ktask, un)
       /\ pt[s].parent \in W => pt[pt[s].parent].word \notin {c, TASK_ANY}
  BY <1>4, <1>5
<1>13. Living(T \ {s}, W, g, ktask', un)
  <2>1. \A x \in (T \ {s}) \cup W : g[x].pid = pt[x].pid /\ pt[x].pid # c
    BY <1>7, <1>12 DEF Family, Living
  <2> QED
    BY <1>11, <1>12, <2>1 DEF Family, Living
<1>14. /\ Related(T \ {s}, W, Zombies \ B, g)
       /\ pt[s].parent # NULL => Related(T \ {s}, W, (Zombies \ B) \cup {s}, g)
  <2>1. \A x \in (T \ {s}) \cup W :
          g[x].parent \in (T \ {s}) \cup W \cup {NULL} /\ g[x].parent # x
    BY <1>8, <1>12 DEF Family, Related
  <2>2. \A z \in Zombies \ B : g[z].parent \in (T \ {s}) \cup W
    BY <1>5, <1>9, <1>12 DEF Family, Related
  <2>3. pt[s].parent # NULL => g[s].parent \in (T \ {s}) \cup W
    BY <1>5, <1>9, <1>12 DEF Family, Related
  <2> QED
    BY <2>1, <2>2, <2>3 DEF Related
<1>15. \A x \in W : x # s /\ \A z \in Zombies \ B : z # s
  BY DEF Family
<1>16. \A x \in W : pt[x].word = TASK_ANY => \E y \in (T \ {s}) \cup W : g[y].parent = x
  <2> SUFFICES ASSUME NEW x \in W, pt[x].word = TASK_ANY
               PROVE  \E y \in (T \ {s}) \cup W : g[y].parent = x
    OBVIOUS
  <2>1. PICK y \in T \cup W : pt[y].parent = x
    BY <1>12 DEF Family, Patient
  <2>2. y # s
    BY <1>12, <2>1
  <2> QED
    BY <1>8, <1>15, <2>1, <2>2
<1>17. \A x \in W, z \in Zombies \ B : ~(g[z].parent = x /\ g[x].word \in {g[z].pid, TASK_ANY})
  BY <1>5, <1>7, <1>9, <1>10, <1>12 DEF Family, Patient
<1>18. \A x \in W : ~(g[s].parent = x /\ g[x].word \in {g[s].pid, TASK_ANY})
  BY <1>9, <1>10, <1>12, <1>15
<1>19. /\ Patient(T \ {s}, W, Zombies \ B, g)
       /\ Patient(T \ {s}, W, (Zombies \ B) \cup {s}, g)
  BY <1>10, <1>16, <1>17, <1>18 DEF Patient
<1> QED
  <2>1. /\ T \cap W = {} /\ T \cap Zombies = {} /\ W \cap Zombies = {}
    BY <1>12 DEF Family
  <2>2. (T \ {s}) \cap W = {} /\ (T \ {s}) \cap (Zombies \ B) = {} /\ W \cap (Zombies \ B) = {}
    BY <2>1
  <2>3. (T \ {s}) \cap ((Zombies \ B) \cup {s}) = {} /\ W \cap ((Zombies \ B) \cup {s}) = {}
    BY <1>15, <2>1
  <2>4. Family(T \ {s}, W, Zombies \ B, g, ktask', un)
    BY <1>13, <1>14, <1>19, <2>2 DEF Family
  <2>5. pt[s].parent # NULL => Family(T \ {s}, W, (Zombies \ B) \cup {s}, g, ktask', un)
    BY <1>13, <1>14, <1>19, <2>2, <2>3 DEF Family
  <2> QED
    BY <2>4, <2>5 DEF B

(* What the three ends of do_exit() have in common: only the structure of  *)
(* the client s still changes, and s does not wait.                        *)
LEMMA ExitEnds ==
  ASSUME PInv, NEW c \in Pid, Depart(c), NEW s, NEW g,
         task_q' \in Seq(Struct), wait_q' \in Seq(Struct), zombie_q' \in Seq(Struct),
         IsInjective(task_q'), IsInjective(wait_q'), IsInjective(zombie_q'),
         Family(Tasks', Waiters', Zombies', g, ktask', unanswered'),
         pt' \in [Struct -> PmTask],
         \A x \in Structs' \ {s} : pt'[x] = g[x],
         s \in Structs' => pt'[s].pid = g[s].pid /\ pt'[s].parent = g[s].parent,
         s \notin Waiters', VfsInStep',
         unanswered' \subseteq Pid, answer' \in Answer \cup {NULL},
         status' \in [Struct -> Code \cup {NULL}], heap' \subseteq Block,
         Owned(Structs', pt', heap'), Tidy(Structs', pt'),
         \A z \in Zombies' : pt'[z].chunks = {} /\ pt'[z].word = status'[z] /\ status'[z] \in Code
  PROVE  PInv'
<1>1. /\ ktask' \in [Pid -> {"free", "created", "started"}] /\ vfs_tasks' \subseteq Pid
  BY DepartFacts
<1>2. TypeOK'
  BY <1>1 DEF TypeOK
<1>3. Family(Tasks', Waiters', Zombies', pt', ktask', unanswered')
  <2>1. \A x \in Tasks' \cup Waiters' \cup Zombies' :
          pt'[x].pid = g[x].pid /\ pt'[x].parent = g[x].parent
    BY DEF Structs
  <2>2. \A x \in Waiters' : pt'[x].word = g[x].word
    BY DEF Structs
  <2>3. /\ \A p \in Pid : ktask'[p] # "free" => ktask'[p] # "free"
        /\ unanswered' \subseteq unanswered'
    OBVIOUS
  <2> QED
    BY <2>1, <2>2, <2>3, FamilyQuiet
<1> QED
  BY <1>1, <1>2, <1>3 DEF PInv

(* The heap when the client is removed at once. *)
LEMMA RemovedMemory ==
  ASSUME PInv, NEW s \in Tasks, NEW g, g = Bereaved(s), NEW h,
         \A x \in Struct \ {s} : h[x] = g[x]
  PROVE  /\ Owned((Structs \ Buried(s)) \ {s}, h, Kept(s) \ ArgsBlock(s))
         /\ Tidy((Structs \ Buried(s)) \ {s}, h)
<1> DEFINE S == Structs \ Buried(s)
           G == {s}
<1>1. Owned(S, g, Kept(s)) /\ Tidy(S, g)
  BY KeptFacts
<1>2. g[s].args = pt[s].args /\ g[s].chunks = {}
  BY BereavedFacts
<1>3. s \in S /\ S \subseteq Struct /\ G \subseteq S
  BY QueueTypes DEF PInv, Family, Buried, Structs
<1>4. UNION {Mem(g[x]) : x \in G} = ArgsBlock(s)
  BY <1>2 DEF Mem, ChunkMem, ArgsBlock
<1>5. \A x \in S \ G : h[x] = g[x]
  BY <1>3
<1>6. \A x \in S \ G : Mem(h[x]) = Mem(g[x])
  BY <1>5
<1>7. \A x \in S \ G : x \in S /\ h[x].chunks \subseteq g[x].chunks /\ h[x].args = g[x].args
  BY <1>5
<1> HIDE DEF S, G
<1>8. Owned(S \ G, h, Kept(s) \ UNION {Mem(g[x]) : x \in G})
  BY <1>1, <1>3, <1>6, OwnedFreed
<1>9. Tidy(S \ G, h)
  BY <1>1, <1>7, TidySame
<1> QED
  BY <1>4, <1>8, <1>9 DEF S, G

(* An orphan is removed. *)
LEMMA ExitOrphanStep ==
  ASSUME PInv, NEW c \in Pid, ExitOrphan(c) PROVE PInv'
<1> DEFINE s == PM_CLIENT(c)
           B == Buried(s)
           g == Bereaved(s)
           cf == Tail(ClientFirst(c))
<1>1. /\ Depart(c) /\ pt[s].parent = NULL
      /\ task_q' = cf /\ zombie_q' = Survivors(s)
      /\ pt' = [g EXCEPT ![s] = Blank]
      /\ heap' = Kept(s) \ ArgsBlock(s)
      /\ answer' = NULL /\ status' = Forget(s, NULL)
      /\ UNCHANGED <<wait_q, unanswered>>
  BY DEF ExitOrphan
<1>2. Asks(c)
  BY <1>1 DEF Depart
<1>3. /\ s \in Tasks /\ s \in Struct /\ s \in Structs /\ pt[s].pid = c
      /\ cf \in Seq(Struct) /\ IsInjective(cf) /\ Range(cf) = Tasks \ {s}
  BY <1>2, AsksFacts DEF Structs
<1> HIDE DEF s, cf, g
<1>4. /\ TypeOK /\ Family(Tasks, Waiters, Zombies, pt, ktask, unanswered)
      /\ Tasks \cap Waiters = {} /\ Tasks \cap Zombies = {} /\ Waiters \cap Zombies = {}
      /\ Tasks \subseteq Struct /\ Waiters \subseteq Struct /\ Zombies \subseteq Struct
      /\ B \subseteq Zombies /\ wait_q \in Seq(Struct) /\ IsInjective(wait_q)
  BY QueueTypes DEF PInv, TypeOK, Family, Buried
<1> HIDE DEF B
<1>5. /\ Survivors(s) \in Seq(Struct) /\ IsInjective(Survivors(s))
      /\ Range(Survivors(s)) = Zombies \ B
  BY SurvivorFacts DEF B
<1>6. /\ task_q' \in Seq(Struct) /\ wait_q' \in Seq(Struct) /\ zombie_q' \in Seq(Struct)
      /\ IsInjective(task_q') /\ IsInjective(wait_q') /\ IsInjective(zombie_q')
      /\ Tasks' = Tasks \ {s} /\ Waiters' = Waiters /\ Zombies' = Zombies \ B
  BY <1>1, <1>3, <1>4, <1>5 DEF Tasks, Waiters, Zombies
<1>7. Structs' = (Structs \ B) \ {s}
  BY <1>3, <1>4, <1>6 DEF Structs
<1>8. /\ g \in [Struct -> PmTask]
      /\ \A x \in (Tasks \cup Waiters) \ {s} :
           /\ g[x].pid = pt[x].pid /\ g[x].word = pt[x].word
           /\ g[x].parent = IF pt[x].parent = s THEN NULL ELSE pt[x].parent
      /\ g[s].pid = pt[s].pid /\ g[s].parent = pt[s].parent
      /\ \A z \in Zombies \ B : g[z] = pt[z]
  BY <1>3, BereavedFacts DEF g, B
<1>9. Blank \in PmTask
  BY DEF Blank, PmTask
<1>10. pt' \in [Struct -> PmTask] /\ \A x \in Struct \ {s} : pt'[x] = g[x]
  BY <1>1, <1>3, <1>8, <1>9
<1>11. Family(Tasks \ {s}, Waiters, Zombies \ B, g, ktask', unanswered')
  <2>1. s \in Tasks /\ pt[s].parent \notin Waiters /\ unanswered' = unanswered
    BY <1>1, <1>3, <1>4, PmAssumption
  <2>2. Family(Tasks \ {s}, Waiters, Zombies \ B, g, ktask', unanswered)
    BY <1>1, <1>3, <1>4, <1>8, <2>1, ExitFamily DEF B
  <2> QED
    BY <2>1, <2>2
<1>12. Owned(Structs', pt', heap') /\ Tidy(Structs', pt')
  BY <1>1, <1>3, <1>7, <1>10, RemovedMemory DEF g, B
<1>13. /\ status' \in [Struct -> Code \cup {NULL}]
       /\ \A z \in Zombies \ B : status'[z] = status[z]
  BY <1>1, <1>3, ForgetFacts DEF B
<1>14. \A z \in Zombies \ B : pt'[z].chunks = {} /\ pt'[z].word = status'[z] /\ status'[z] \in Code
  <2>1. \A z \in Zombies \ B : pt'[z] = pt[z]
    BY <1>3, <1>4, <1>8, <1>10
  <2> QED
    BY <1>13, <2>1 DEF PInv
<1>15. /\ s \notin Waiters' /\ s \notin Structs' /\ Structs' \subseteq Struct
       /\ heap' \subseteq Block /\ unanswered' \subseteq Pid
  BY <1>1, <1>3, <1>4, <1>6, <1>7 DEF Kept, TypeOK, Structs
<1>16. Family(Tasks', Waiters', Zombies', g, ktask', unanswered')
  BY <1>6, <1>11
<1>17. \A x \in Structs' \ {s} : pt'[x] = g[x]
  BY <1>10, <1>15
<1>18. \A z \in Zombies' : pt'[z].chunks = {} /\ pt'[z].word = status'[z] /\ status'[z] \in Code
  BY <1>6, <1>14
<1>19. answer' \in Answer \cup {NULL}
  BY <1>1
<1>20. VfsInStep'
  <2>1. VfsInStep /\ vfs_tasks' = vfs_tasks \ {c} /\ Started' = Started \ {c}
    BY <1>1, DepartFacts DEF PInv
  <2>2. \A x \in Tasks \ {s} : x \in Tasks' /\ pt'[x].pid = pt[x].pid
    BY <1>4, <1>6, <1>8, <1>10
  <2> QED
    BY <1>3, <2>1, <2>2, VfsKept
<1> QED
  BY <1>1, <1>6, <1>10, <1>12, <1>13, <1>15, <1>16, <1>17, <1>18, <1>19, <1>20, ExitEnds

(* The client becomes a zombie. *)
LEMMA ExitZombieStep ==
  ASSUME PInv, NEW c \in Pid, NEW code \in Code, ExitZombie(c, code) PROVE PInv'
<1> DEFINE s == PM_CLIENT(c)
           B == Buried(s)
           g == Bereaved(s)
           cf == Tail(ClientFirst(c))
<1>1. /\ Depart(c) /\ pt[s].parent # NULL
      /\ pt[s].parent \in Waiters => pt[pt[s].parent].word \notin {c, TASK_ANY}
      /\ task_q' = cf /\ zombie_q' = Append(Survivors(s), s)
      /\ pt' = [g EXCEPT ![s].word = code]
      /\ heap' = Kept(s)
      /\ answer' = NULL /\ status' = Forget(s, code)
      /\ UNCHANGED <<wait_q, unanswered>>
  BY DEF ExitZombie, ParentWaits
<1>2. Asks(c)
  BY <1>1 DEF Depart
<1>3. /\ s \in Tasks /\ s \in Struct /\ s \in Structs /\ pt[s].pid = c
      /\ cf \in Seq(Struct) /\ IsInjective(cf) /\ Range(cf) = Tasks \ {s}
  BY <1>2, AsksFacts DEF Structs
<1> HIDE DEF s, cf, g
<1>4. /\ TypeOK /\ Family(Tasks, Waiters, Zombies, pt, ktask, unanswered)
      /\ Tasks \cap Waiters = {} /\ Tasks \cap Zombies = {} /\ Waiters \cap Zombies = {}
      /\ Tasks \subseteq Struct /\ Waiters \subseteq Struct /\ Zombies \subseteq Struct
      /\ B \subseteq Zombies /\ wait_q \in Seq(Struct) /\ IsInjective(wait_q)
  BY QueueTypes DEF PInv, TypeOK, Family, Buried
<1> HIDE DEF B
<1>5. /\ Survivors(s) \in Seq(Struct) /\ IsInjective(Survivors(s))
      /\ Range(Survivors(s)) = Zombies \ B
  BY SurvivorFacts DEF B
<1>6. /\ task_q' \in Seq(Struct) /\ wait_q' \in Seq(Struct) /\ zombie_q' \in Seq(Struct)
      /\ IsInjective(task_q') /\ IsInjective(wait_q') /\ IsInjective(zombie_q')
      /\ Tasks' = Tasks \ {s} /\ Waiters' = Waiters /\ Zombies' = (Zombies \ B) \cup {s}
  BY <1>1, <1>3, <1>4, <1>5, AppendSet DEF Tasks, Waiters, Zombies
<1>7. Structs' = Structs \ B
  BY <1>3, <1>4, <1>6 DEF Structs
<1>8. /\ g \in [Struct -> PmTask]
      /\ \A x \in (Tasks \cup Waiters) \ {s} :
           /\ g[x].pid = pt[x].pid /\ g[x].word = pt[x].word
           /\ g[x].parent = IF pt[x].parent = s THEN NULL ELSE pt[x].parent
      /\ g[s].pid = pt[s].pid /\ g[s].parent = pt[s].parent
      /\ g[s].chunks = {} /\ g[s].args = pt[s].args
      /\ \A z \in Zombies \ B : g[z] = pt[z]
  BY <1>3, BereavedFacts DEF g, B
<1>9. /\ pt' \in [Struct -> PmTask] /\ \A x \in Struct \ {s} : pt'[x] = g[x]
      /\ pt'[s].pid = g[s].pid /\ pt'[s].parent = g[s].parent /\ pt'[s].word = code
      /\ pt'[s].chunks = g[s].chunks /\ pt'[s].args = g[s].args
  <2> DEFINE r == [g[s] EXCEPT !.word = code]
  <2>1. g[s] \in PmTask /\ pt' = [g EXCEPT ![s] = r]
    BY <1>1, <1>3, <1>8
  <2>2. /\ r \in PmTask /\ r.pid = g[s].pid /\ r.parent = g[s].parent /\ r.word = code
        /\ r.chunks = g[s].chunks /\ r.args = g[s].args
    BY <2>1 DEF PmTask
  <2> HIDE DEF r
  <2> QED
    BY <1>3, <1>8, <2>1, <2>2
<1>10. Family(Tasks \ {s}, Waiters, (Zombies \ B) \cup {s}, g, ktask', unanswered')
  <2>1. s \in Tasks /\ unanswered' = unanswered
    BY <1>1, <1>3
  <2>2. Family(Tasks \ {s}, Waiters, (Zombies \ B) \cup {s}, g, ktask', unanswered)
    BY <1>1, <1>3, <1>4, <1>8, <2>1, ExitFamily DEF B
  <2> QED
    BY <2>1, <2>2
<1>11. \A x \in Struct : pt'[x].chunks = g[x].chunks /\ pt'[x].args = g[x].args
  BY <1>3, <1>9
<1>12. Owned(Structs', pt', heap') /\ Tidy(Structs', pt')
  <2> DEFINE S == Structs \ B
  <2>1. Owned(S, g, Kept(s)) /\ Tidy(S, g)
    BY <1>3, KeptFacts DEF g, B
  <2>2. S \subseteq Struct
    BY <1>4 DEF Structs
  <2>3. \A x \in S : Mem(pt'[x]) = Mem(g[x])
    BY <1>11, <2>2 DEF Mem, ChunkMem
  <2>4. \A x \in S : x \in S /\ pt'[x].chunks \subseteq g[x].chunks /\ pt'[x].args = g[x].args
    BY <1>11, <2>2
  <2> HIDE DEF S
  <2>5. Owned(S, pt', Kept(s))
    BY <2>1, <2>3, OwnedSame
  <2>6. Tidy(S, pt')
    BY <2>1, <2>4, TidySame
  <2> QED
    BY <1>1, <1>7, <2>5, <2>6 DEF S
<1>13. /\ status' \in [Struct -> Code \cup {NULL}] /\ status'[s] = code
       /\ \A z \in Zombies \ B : status'[z] = status[z]
  BY <1>1, <1>3, ForgetFacts DEF B
<1>14. \A z \in (Zombies \ B) \cup {s} :
         pt'[z].chunks = {} /\ pt'[z].word = status'[z] /\ status'[z] \in Code
  <2>1. \A z \in Zombies \ B : pt'[z] = pt[z]
    BY <1>3, <1>4, <1>8, <1>9
  <2>2. \A z \in Zombies \ B :
         pt'[z].chunks = {} /\ pt'[z].word = status'[z] /\ status'[z] \in Code
    BY <1>13, <2>1 DEF PInv
  <2> QED
    BY <1>8, <1>9, <1>13, <2>2
<1>15. /\ s \notin Waiters' /\ Structs' \subseteq Struct
       /\ heap' \subseteq Block /\ unanswered' \subseteq Pid
  BY <1>1, <1>3, <1>4, <1>6, <1>7 DEF Kept, TypeOK, Structs
<1>16. Family(Tasks', Waiters', Zombies', g, ktask', unanswered')
  BY <1>6, <1>10
<1>17. \A x \in Structs' \ {s} : pt'[x] = g[x]
  BY <1>9, <1>15
<1>18. \A z \in Zombies' : pt'[z].chunks = {} /\ pt'[z].word = status'[z] /\ status'[z] \in Code
  BY <1>6, <1>14
<1>19. answer' \in Answer \cup {NULL}
  BY <1>1
<1>20. VfsInStep'
  <2>1. VfsInStep /\ vfs_tasks' = vfs_tasks \ {c} /\ Started' = Started \ {c}
    BY <1>1, DepartFacts DEF PInv
  <2>2. \A x \in Tasks \ {s} : x \in Tasks' /\ pt'[x].pid = pt[x].pid
    BY <1>4, <1>6, <1>8, <1>9
  <2> QED
    BY <1>3, <2>1, <2>2, VfsKept
<1> QED
  BY <1>1, <1>6, <1>9, <1>12, <1>13, <1>15, <1>16, <1>17, <1>18, <1>19, <1>20, ExitEnds

(* The parent waits: it is answered, and the client is removed. *)
LEMMA ExitToParentStep ==
  ASSUME PInv, NEW c \in Pid, NEW code \in Code, ExitToParent(c, code) PROVE PInv'
<1> DEFINE s == PM_CLIENT(c)
           B == Buried(s)
           g == Bereaved(s)
           cf == Tail(ClientFirst(c))
           par == pt[s].parent
           un == unanswered \ {pt[par].pid}
<1>1. /\ Depart(c) /\ par \in Waiters
      /\ task_q' = Append(cf, par) /\ wait_q' = Q_REMV(wait_q, par) /\ zombie_q' = Survivors(s)
      /\ pt' = [g EXCEPT ![s] = Blank]
      /\ heap' = Kept(s) \ ArgsBlock(s)
      /\ answer' = [to |-> pt[par].pid, pid |-> c, code |-> code]
      /\ status' = Forget(s, code) /\ unanswered' = un
  BY DEF ExitToParent, ParentWaits
<1>2. Asks(c)
  BY <1>1 DEF Depart
<1>3. /\ s \in Tasks /\ s \in Struct /\ s \in Structs /\ pt[s].pid = c
      /\ cf \in Seq(Struct) /\ IsInjective(cf) /\ Range(cf) = Tasks \ {s}
  BY <1>2, AsksFacts DEF Structs
<1> HIDE DEF s, cf, g
<1>4. /\ TypeOK /\ Family(Tasks, Waiters, Zombies, pt, ktask, unanswered)
      /\ Tasks \cap Waiters = {} /\ Tasks \cap Zombies = {} /\ Waiters \cap Zombies = {}
      /\ Tasks \subseteq Struct /\ Waiters \subseteq Struct /\ Zombies \subseteq Struct
      /\ B \subseteq Zombies /\ wait_q \in Seq(Struct) /\ IsInjective(wait_q)
  BY QueueTypes DEF PInv, TypeOK, Family, Buried
<1> HIDE DEF B
<1>5. /\ Survivors(s) \in Seq(Struct) /\ IsInjective(Survivors(s))
      /\ Range(Survivors(s)) = Zombies \ B
  BY SurvivorFacts DEF B
<1>6. /\ task_q' \in Seq(Struct) /\ wait_q' \in Seq(Struct) /\ zombie_q' \in Seq(Struct)
      /\ IsInjective(task_q') /\ IsInjective(wait_q') /\ IsInjective(zombie_q')
      /\ Tasks' = (Tasks \cup {par}) \ {s} /\ Waiters' = Waiters \ {par}
      /\ Zombies' = Zombies \ B
  <2>1. par \in Waiters /\ par \notin Tasks /\ par # s /\ par \in Struct
    BY <1>1, <1>3, <1>4
  <2> HIDE DEF par
  <2>2. /\ Append(cf, par) \in Seq(Struct) /\ IsInjective(Append(cf, par))
        /\ Range(Append(cf, par)) = (Tasks \ {s}) \cup {par}
    BY <1>3, <2>1, AppendSet
  <2>3. /\ Q_REMV(wait_q, par) \in Seq(Struct) /\ IsInjective(Q_REMV(wait_q, par))
        /\ Range(Q_REMV(wait_q, par)) = Waiters \ {par}
    BY <1>4, <2>1, RemvSet DEF Waiters
  <2>4. (Tasks \ {s}) \cup {par} = (Tasks \cup {par}) \ {s}
    BY <2>1
  <2> QED
    BY <1>1, <1>5, <2>2, <2>3, <2>4 DEF Tasks, Waiters, Zombies
<1>7. Structs' = (Structs \ B) \ {s}
  <2>1. par \in Waiters /\ par # s
    BY <1>1, <1>3, <1>4
  <2> QED
    BY <1>3, <1>4, <1>6, <2>1 DEF Structs
<1>8. /\ g \in [Struct -> PmTask]
      /\ \A x \in (Tasks \cup Waiters) \ {s} :
           /\ g[x].pid = pt[x].pid /\ g[x].word = pt[x].word
           /\ g[x].parent = IF pt[x].parent = s THEN NULL ELSE pt[x].parent
      /\ g[s].pid = pt[s].pid /\ g[s].parent = pt[s].parent
      /\ \A z \in Zombies \ B : g[z] = pt[z]
  BY <1>3, BereavedFacts DEF g, B
<1>9. Blank \in PmTask
  BY DEF Blank, PmTask
<1>10. pt' \in [Struct -> PmTask] /\ \A x \in Struct \ {s} : pt'[x] = g[x]
  BY <1>1, <1>3, <1>8, <1>9
<1>11. Family((Tasks \cup {par}) \ {s}, Waiters \ {par}, Zombies \ B, g, ktask', un)
  <2> DEFINE T == Tasks \cup {par}
             W == Waiters \ {par}
  <2>1. Family(T, W, Zombies, pt, ktask, un)
    BY <1>1, <1>4, FamilyWakes
  <2>2. s \in T /\ pt[s].parent \notin W /\ T \cup W \subseteq Tasks \cup Waiters
    BY <1>1, <1>3
  <2> HIDE DEF T, W, un, par
  <2>3. Family(T \ {s}, W, Zombies \ B, g, ktask', un)
    BY <1>1, <1>3, <1>8, <2>1, <2>2, ExitFamily DEF B
  <2> QED
    BY <2>3 DEF T, W
<1>12. Owned(Structs', pt', heap') /\ Tidy(Structs', pt')
  BY <1>1, <1>3, <1>7, <1>10, RemovedMemory DEF g, B
<1>13. /\ status' \in [Struct -> Code \cup {NULL}]
       /\ \A z \in Zombies \ B : status'[z] = status[z]
  BY <1>1, <1>3, ForgetFacts DEF B
<1>14. \A z \in Zombies \ B : pt'[z].chunks = {} /\ pt'[z].word = status'[z] /\ status'[z] \in Code
  <2>1. \A z \in Zombies \ B : pt'[z] = pt[z]
    BY <1>3, <1>4, <1>8, <1>10
  <2> QED
    BY <1>13, <2>1 DEF PInv
<1>15. /\ s \notin Waiters' /\ s \notin Structs' /\ Structs' \subseteq Struct
       /\ heap' \subseteq Block /\ unanswered' \subseteq Pid
  BY <1>1, <1>3, <1>4, <1>6, <1>7 DEF Kept, TypeOK, Structs
<1>16. Family(Tasks', Waiters', Zombies', g, ktask', unanswered')
  BY <1>1, <1>6, <1>11
<1>17. \A x \in Structs' \ {s} : pt'[x] = g[x]
  BY <1>10, <1>15
<1>18. \A z \in Zombies' : pt'[z].chunks = {} /\ pt'[z].word = status'[z] /\ status'[z] \in Code
  BY <1>6, <1>14
<1>19. answer' \in Answer \cup {NULL}
  <2>1. pt[par].pid \in Pid
    BY <1>1, <1>4 DEF Family, Living
  <2> QED
    BY <1>1, <2>1 DEF Answer
<1>20. VfsInStep'
  <2>1. VfsInStep /\ vfs_tasks' = vfs_tasks \ {c} /\ Started' = Started \ {c}
    BY <1>1, DepartFacts DEF PInv
  <2>2. \A x \in Tasks \ {s} : x \in Tasks' /\ pt'[x].pid = pt[x].pid
    BY <1>4, <1>6, <1>8, <1>10
  <2> QED
    BY <1>3, <2>1, <2>2, VfsKept
<1> QED
  BY <1>1, <1>6, <1>10, <1>12, <1>13, <1>15, <1>16, <1>17, <1>18, <1>19, <1>20, ExitEnds

-----------------------------------------------------------------------------
(* The theorems.                                                           *)

(* init is the only process, an orphan that owns its arguments. *)
LEMMA InitInv ==
  ASSUME Init PROVE PInv
<1>1. PICK p \in Pid, n \in Struct, a \in Block :
       /\ task_q = <<n>>
       /\ pt = [s \in Struct |-> IF s = n THEN [pm_newtask(p, NULL) EXCEPT !.args = a]
                                 ELSE Blank]
       /\ heap = {a}
       /\ ktask = [x \in Pid |-> IF x = p THEN "started" ELSE "free"]
       /\ vfs_tasks = {p}
  BY DEF Init
<1>2. /\ wait_q = <<>> /\ zombie_q = <<>> /\ unanswered = {} /\ answer = NULL
      /\ status = [s \in Struct |-> NULL]
  BY DEF Init
<1> DEFINE r == [pm_newtask(p, NULL) EXCEPT !.args = a]
<1>3. r \in PmTask /\ r.pid = p /\ r.parent = NULL /\ r.chunks = {} /\ r.args = a
  BY DEF PmTask, pm_newtask, Blank
<1>4. Blank \in PmTask
  BY DEF PmTask, Blank
<1> HIDE DEF r
<1>5. pt \in [Struct -> PmTask] /\ pt[n] = r
  BY <1>1, <1>3, <1>4 DEF r
<1>6. /\ task_q \in Seq(Struct) /\ wait_q \in Seq(Struct) /\ zombie_q \in Seq(Struct)
      /\ Tasks = {n} /\ Waiters = {} /\ Zombies = {} /\ Structs = {n}
      /\ IsInjective(task_q) /\ IsInjective(wait_q) /\ IsInjective(zombie_q)
  BY <1>1, <1>2 DEF Tasks, Waiters, Zombies, Structs, Range, IsInjective
<1>7. TypeOK
  BY <1>1, <1>2, <1>5, <1>6 DEF TypeOK
<1>8. Family({n}, {}, {}, pt, ktask, unanswered)
  <2>1. ktask[p] = "started" /\ n # NULL
    BY <1>1, PmAssumption
  <2> QED
    BY <1>3, <1>5, <2>1 DEF Family, Living, Related, Patient
<1>9. ChunkMem(r) = {} /\ Mem(r) = {a}
  BY <1>3, PmAssumption DEF ChunkMem, Mem
<1>10. Owned({n}, pt, heap) /\ Tidy({n}, pt)
  BY <1>1, <1>3, <1>5, <1>9 DEF Owned, Tidy
<1>11. VfsInStep
  BY <1>1 DEF VfsInStep, Started, LeftBehind
<1> QED
  BY <1>6, <1>7, <1>8, <1>10, <1>11 DEF PInv

LEMMA NextInv ==
  ASSUME PInv, Next PROVE PInv'
<1>1. PICK c \in Pid :
        \/ Spawn(c) \/ Exec(c) \/ Malloc(c)
        \/ \E ptr \in Block \cup {NULL} : Free(c, ptr)
        \/ ExitOrphan(c)
        \/ \E code \in Code : ExitToParent(c, code) \/ ExitZombie(c, code)
        \/ \E w \in Pid \cup {TASK_ANY} : WaitReaps(c, w) \/ WaitFails(c, w) \/ WaitBlocks(c, w)
  BY DEF Next
<1> QED
  BY <1>1, SpawnStep, ExecStep, MallocStep, FreeStep, ExitOrphanStep, ExitToParentStep,
     ExitZombieStep, WaitReapsStep, WaitFailsStep, WaitBlocksStep

LEMMA StutterInv ==
  ASSUME PInv, UNCHANGED vars PROVE PInv'
<1>1. /\ task_q' = task_q /\ wait_q' = wait_q /\ zombie_q' = zombie_q /\ pt' = pt
      /\ heap' = heap /\ ktask' = ktask /\ vfs_tasks' = vfs_tasks
      /\ unanswered' = unanswered /\ answer' = answer /\ status' = status
  BY DEF vars
<1> QED
  BY <1>1 DEF PInv, TypeOK, Tasks, Waiters, Zombies, Structs, VfsInStep, LeftBehind, Started

(* The inductive invariant of the process manager: every request of every  *)
(* client keeps it (the switch of pm(), servers/pm.c).                     *)
THEOREM PmInvariant == Spec => []PInv
<1>1. Init => PInv
  BY InitInv
<1>2. PInv /\ [Next]_vars => PInv'
  BY NextInv, StutterInv
<1> QED
  BY <1>1, <1>2, PTL DEF Spec

(* A structure is on one queue, once, and a live process has its pid for   *)
(* itself: what pm_findbypid() and do_wait() rely on.                      *)
THEOREM AlwaysOneQueue == Spec => []OneQueue
<1>1. PInv => OneQueue
  <2> SUFFICES ASSUME PInv PROVE OneQueue
    OBVIOUS
  <2>1. /\ TypeOK
        /\ task_q \in Seq(Struct) /\ wait_q \in Seq(Struct) /\ zombie_q \in Seq(Struct)
        /\ IsInjective(task_q) /\ IsInjective(wait_q) /\ IsInjective(zombie_q)
        /\ Range(task_q) \cap Range(wait_q) = {} /\ Range(task_q) \cap Range(zombie_q) = {}
        /\ Range(wait_q) \cap Range(zombie_q) = {}
    BY DEF PInv, TypeOK, Family, Tasks, Waiters, Zombies
  <2>2. IsInjective(task_q \o wait_q \o zombie_q)
    BY <2>1, JoinedInjective
  <2> QED
    BY <2>1, <2>2 DEF OneQueue, PInv, Family, Living
<1> QED
  BY <1>1, PmInvariant, PTL

(* parent never points to a process that has exited or to freed memory:    *)
(* do_exit() reads it without looking it up.                               *)
THEOREM AlwaysParentAlive == Spec => []ParentAlive
<1>1. PInv => ParentAlive
  BY DEF PInv, Family, Related, ParentAlive
<1> QED
  BY <1>1, PmInvariant, PTL

(* No process is left in wait_q for an exit that has already happened, and *)
(* wait() for any child never blocks without a child.                      *)
THEOREM AlwaysNoMissedExit == Spec => []NoMissedExit
<1>1. PInv => NoMissedExit
  <2> SUFFICES ASSUME PInv, NEW s \in Waiters
               PROVE  /\ Reapable(s, pt[s].word) = 0
                      /\ pt[s].word = TASK_ANY => Children(s) \cap (Tasks \cup Waiters) # {}
    BY DEF NoMissedExit
  <2>1. TypeOK /\ Patient(Tasks, Waiters, Zombies, pt)
    BY DEF PInv, Family
  <2>2. Reapable(s, pt[s].word) = 0
    <3>1. \A z \in Zombies : ~(pt[z].parent = s /\ pt[s].word \in {pt[z].pid, TASK_ANY})
      BY <2>1 DEF Patient
    <3> QED
      BY <2>1, <3>1, ReapFacts
  <2>3. ASSUME pt[s].word = TASK_ANY PROVE Children(s) \cap (Tasks \cup Waiters) # {}
    <3>1. PICK x \in Tasks \cup Waiters : pt[x].parent = s
      BY <2>1, <2>3 DEF Patient
    <3> QED
      BY <3>1 DEF Children, Structs
  <2> QED
    BY <2>2, <2>3
<1> QED
  BY <1>1, PmInvariant, PTL

(* Each block in use has one owner and no process refers to a freed block: *)
(* nothing leaks in do_pmalloc(), do_pmfree(), do_exec(), do_exit() and    *)
(* do_wait(), in whatever order they come.                                 *)
THEOREM AlwaysMemoryOwned == Spec => []MemoryOwned
<1>1. PInv => MemoryOwned
  <2> SUFFICES ASSUME PInv PROVE MemoryOwned
    OBVIOUS
  <2>1. \A s \in Structs : ChunkBlocks(s) \cup ArgsBlock(s) = Mem(pt[s])
    BY DEF ChunkBlocks, ArgsBlock, Mem, ChunkMem
  <2>2. Owned(Structs, pt, heap)
    BY DEF PInv
  <2>3. heap = UNION {Mem(pt[s]) : s \in Structs}
    BY <2>2 DEF Owned
  <2>4. UNION {Mem(pt[s]) : s \in Structs} = UNION {ChunkBlocks(s) \cup ArgsBlock(s) : s \in Structs}
    BY <2>1
  <2>5. \A s, x \in Structs : s # x => (ChunkBlocks(s) \cup ArgsBlock(s))
                                     \cap (ChunkBlocks(x) \cup ArgsBlock(x)) = {}
    <3> SUFFICES ASSUME NEW s \in Structs, NEW x \in Structs, s # x
                 PROVE  (ChunkBlocks(s) \cup ArgsBlock(s)) \cap (ChunkBlocks(x) \cup ArgsBlock(x)) = {}
      OBVIOUS
    <3>1. Mem(pt[s]) \cap Mem(pt[x]) = {}
      BY <2>2 DEF Owned
    <3> QED
      BY <2>1, <3>1
  <2>6. \A z \in Zombies : pt[z].chunks = {}
    BY DEF PInv
  <2> QED
    BY <2>3, <2>4, <2>5, <2>6 DEF MemoryOwned
<1> QED
  BY <1>1, PmInvariant, PTL

(* The file server has descriptors for every started pid, and besides them *)
(* only for children do_spawn() left behind on task_q after                *)
(* vfs_createtask(): a pid that is given out again starts with none.       *)
THEOREM AlwaysVfsInStep == Spec => []VfsInStep
<1>1. PInv => VfsInStep
  BY DEF PInv
<1> QED
  BY <1>1, PmInvariant, PTL

-----------------------------------------------------------------------------
(* Who is told of an exit.                                                 *)

(* A request after which everybody is still known tells of no exit. *)
LEMMA QuietReports ==
  ASSUME Structs \subseteq Structs',
         answer' = NULL \/ (/\ answer'.pid = NULL
                            /\ answer'.to \notin unanswered')
  PROVE  Reports
BY DEF Reports, Gone

LEMMA SpawnReports ==
  ASSUME PInv, NEW c \in Pid, Spawn(c) PROVE Reports
<1> DEFINE q == ClientFirst(c)
<1>1. q \in Seq(Struct) /\ Range(q) = Tasks
  BY AsksFacts DEF Spawn
<1> HIDE DEF q
<1>2. /\ answer' = NULL /\ UNCHANGED <<wait_q, zombie_q>>
      /\ (task_q' = q \/ \E n \in Struct : task_q' = Append(q, n))
  BY DEF Spawn, NoAnswer, Abandon, Embryo, Offspring, q
<1>3. Tasks \subseteq Tasks'
  <2>1. \A n \in Struct : Range(Append(q, n)) = Range(q) \cup {n}
    BY <1>1, AppendSet
  <2>2. Tasks' = Range(task_q')
    BY DEF Tasks
  <2> QED
    BY <1>1, <1>2, <2>1, <2>2
<1>4. Structs \subseteq Structs'
  BY <1>2, <1>3 DEF Structs, Waiters, Zombies
<1> QED
  BY <1>2, <1>4, QuietReports

(* The requests that leave everybody on his queue. *)
LEMMA StayReports ==
  ASSUME PInv, NEW c \in Pid, Asks(c), task_q' = ClientFirst(c),
         UNCHANGED <<wait_q, zombie_q, unanswered>>,
         answer' = NULL \/ answer' = [to |-> c, pid |-> NULL, code |-> NULL]
  PROVE  Reports
<1>1. Structs' = Structs
  BY QuietQueues
<1>2. c \notin unanswered'
  BY AsksFacts
<1> QED
  BY <1>1, <1>2, QuietReports

LEMMA ExecReports ==
  ASSUME PInv, NEW c \in Pid, Exec(c) PROVE Reports
<1>1. Structs' = Structs
  BY QuietQueues DEF Exec
<1> QED
  BY <1>1, QuietReports DEF Exec, NoAnswer

LEMMA WaitBlocksReports ==
  ASSUME PInv, NEW c \in Pid, NEW w, WaitBlocks(c, w) PROVE Reports
<1> DEFINE s == PM_CLIENT(c)
           cf == Tail(ClientFirst(c))
<1>1. /\ Asks(c) /\ task_q' = cf /\ wait_q' = Append(wait_q, s)
      /\ answer' = NULL /\ zombie_q' = zombie_q
  BY DEF WaitBlocks, NoAnswer
<1>2. s \in Struct /\ Range(cf) = Tasks \ {s}
  BY <1>1, AsksFacts
<1> HIDE DEF s, cf
<1>3. Waiters' = Waiters \cup {s}
  BY <1>1, <1>2, AppendSet DEF Waiters, PInv, TypeOK
<1>4. Tasks' = Tasks \ {s} /\ Zombies' = Zombies
  BY <1>1, <1>2 DEF Tasks, Zombies
<1>5. Structs \subseteq Structs'
  BY <1>3, <1>4 DEF Structs
<1> QED
  BY <1>1, <1>5, QuietReports

(* wait() takes the code from the zombie. *)
LEMMA WaitReapsReports ==
  ASSUME PInv, NEW c \in Pid, NEW w, WaitReaps(c, w) PROVE Reports
<1> DEFINE s == PM_CLIENT(c)
           z == zombie_q[Reapable(s, w)]
           cf == ClientFirst(c)
<1>1. /\ Asks(c) /\ task_q' = cf /\ zombie_q' = Q_REMV(zombie_q, z)
      /\ answer' = [to |-> c, pid |-> pt[z].pid, code |-> pt[z].word]
      /\ UNCHANGED <<wait_q, unanswered>>
      /\ Reapable(s, w) # 0
  BY DEF WaitReaps
<1>2. /\ s \in Tasks /\ pt[s].pid = c /\ c \notin unanswered
      /\ Range(cf) = Tasks
  BY <1>1, AsksFacts
<1>3. /\ TypeOK /\ zombie_q \in Seq(Struct) /\ IsInjective(zombie_q)
      /\ Tasks \cap Waiters = {} /\ Tasks \cap Zombies = {} /\ Waiters \cap Zombies = {}
  BY DEF PInv, TypeOK, Family
<1>4. z \in Zombies /\ pt[z].parent = s
  BY <1>1, <1>3, ReapFacts
<1>5. pt[z].word = status[z] /\ status[z] \in Code
  BY <1>4 DEF PInv
<1> HIDE DEF s, z, cf
<1>6. Tasks' = Tasks /\ Waiters' = Waiters
  BY <1>1, <1>2 DEF Tasks, Waiters
<1>7. Zombies' = Zombies \ {z}
  BY <1>1, <1>3, <1>4, RemvSet DEF Zombies
<1>8. z \in Structs /\ \A x : Gone(x) <=> x = z
  BY <1>3, <1>4, <1>6, <1>7 DEF Gone, Structs
<1>9. Report(z) = [to |-> c, pid |-> pt[z].pid, code |-> pt[z].word] /\ c \notin unanswered'
  BY <1>1, <1>2, <1>4, <1>5 DEF Report, GivenToMexit
<1>10. answer' = Report(z) /\ answer'.to = c
  BY <1>1, <1>9
<1> QED
  BY <1>8, <1>9, <1>10 DEF Reports

(* Those who go when s exits are s and its zombie children, who have no    *)
(* parent left to tell.                                                    *)
LEMMA ExitGone ==
  ASSUME PInv, NEW s \in Tasks, s \notin (Tasks \cup Waiters)',
         Zombies \ Buried(s) \subseteq Zombies', Tasks \ {s} \subseteq Tasks',
         Waiters \subseteq (Tasks \cup Waiters)'
  PROVE  \A x \in Structs :
           Gone(x) /\ pt[x].parent \in (Tasks \cup Waiters)' => x = s
BY DEF Gone, Structs, Buried

LEMMA ExitOrphanReports ==
  ASSUME PInv, NEW c \in Pid, ExitOrphan(c) PROVE Reports
<1> DEFINE s == PM_CLIENT(c)
           cf == Tail(ClientFirst(c))
<1>1. /\ Asks(c) /\ pt[s].parent = NULL
      /\ task_q' = cf /\ zombie_q' = Survivors(s) /\ wait_q' = wait_q /\ answer' = NULL
  BY DEF ExitOrphan, Depart
<1>2. s \in Tasks /\ Range(cf) = Tasks \ {s} /\ s \notin Waiters
  BY <1>1, AsksFacts DEF PInv, Family
<1> HIDE DEF s, cf
<1>3. Range(Survivors(s)) = Zombies \ Buried(s)
  BY SurvivorFacts
<1>4. Tasks' = Tasks \ {s} /\ Waiters' = Waiters /\ Zombies' = Zombies \ Buried(s)
  BY <1>1, <1>2, <1>3 DEF Tasks, Waiters, Zombies
<1>5. \A x \in Structs : Gone(x) /\ pt[x].parent \in (Tasks \cup Waiters)' => x = s
  BY <1>2, <1>4, ExitGone
<1>6. NULL \notin (Tasks \cup Waiters)'
  BY <1>4, QueueTypes, PmAssumption DEF PInv
<1> QED
  BY <1>1, <1>5, <1>6 DEF Reports

LEMMA ExitZombieReports ==
  ASSUME PInv, NEW c \in Pid, NEW code \in Code, ExitZombie(c, code) PROVE Reports
<1> DEFINE s == PM_CLIENT(c)
           cf == Tail(ClientFirst(c))
<1>1. /\ Asks(c) /\ task_q' = cf /\ zombie_q' = Append(Survivors(s), s)
      /\ wait_q' = wait_q /\ answer' = NULL
  BY DEF ExitZombie, Depart
<1>2. s \in Tasks /\ s \in Struct /\ Range(cf) = Tasks \ {s} /\ s \notin Waiters
  BY <1>1, AsksFacts DEF PInv, Family
<1> HIDE DEF s, cf
<1>3. Survivors(s) \in Seq(Struct) /\ Range(Survivors(s)) = Zombies \ Buried(s)
  BY SurvivorFacts
<1>4. Tasks' = Tasks \ {s} /\ Waiters' = Waiters
  BY <1>1, <1>2 DEF Tasks, Waiters
<1>5. Zombies' = (Zombies \ Buried(s)) \cup {s}
  BY <1>1, <1>2, <1>3, AppendSet DEF Zombies
<1>6. \A x \in Structs : Gone(x) /\ pt[x].parent \in (Tasks \cup Waiters)' => x = s
  BY <1>2, <1>4, <1>5, ExitGone
<1>7. ~Gone(s)
  BY <1>5 DEF Gone, Structs
<1> QED
  BY <1>1, <1>6, <1>7 DEF Reports

(* The exit code goes to the parent that waits. *)
LEMMA ExitToParentReports ==
  ASSUME PInv, NEW c \in Pid, NEW code \in Code, ExitToParent(c, code) PROVE Reports
<1> DEFINE s == PM_CLIENT(c)
           cf == Tail(ClientFirst(c))
           par == pt[s].parent
<1>1. /\ Asks(c) /\ par \in Waiters
      /\ task_q' = Append(cf, par) /\ wait_q' = Q_REMV(wait_q, par) /\ zombie_q' = Survivors(s)
      /\ answer' = [to |-> pt[par].pid, pid |-> c, code |-> code]
      /\ unanswered' = unanswered \ {pt[par].pid} /\ status' = Forget(s, code)
  BY DEF ExitToParent, Depart, ParentWaits
<1>2. /\ s \in Tasks /\ cf \in Seq(Struct) /\ Range(cf) = Tasks \ {s} /\ s \notin Waiters
      /\ s \notin Zombies /\ pt[s].pid = c
  BY <1>1, AsksFacts DEF PInv, Family
<1>3. /\ par \in Struct /\ par # s /\ wait_q \in Seq(Struct) /\ IsInjective(wait_q)
      /\ par \in Range(wait_q)
  BY <1>1, <1>2, QueueTypes DEF PInv, TypeOK, Waiters
<1> HIDE DEF s, cf
<1>4. Range(Survivors(s)) = Zombies \ Buried(s)
  BY SurvivorFacts
<1>5. Tasks' = (Tasks \ {s}) \cup {par} /\ Waiters' = Waiters \ {par} /\ Zombies' = Zombies \ Buried(s)
  <2> HIDE DEF par
  <2>1. Range(Append(cf, par)) = (Tasks \ {s}) \cup {par}
    BY <1>2, <1>3, AppendSet
  <2>2. Range(Q_REMV(wait_q, par)) = Waiters \ {par}
    BY <1>3, RemvSet DEF Waiters
  <2> QED
    BY <1>1, <1>4, <2>1, <2>2 DEF Tasks, Waiters, Zombies
<1>6. \A x \in Structs : Gone(x) /\ pt[x].parent \in (Tasks \cup Waiters)' => x = s
  BY <1>2, <1>3, <1>5, ExitGone
<1>7. Gone(s) /\ s \in Structs
  BY <1>2, <1>3, <1>5 DEF Gone, Structs
<1>8. answer' = Report(s) /\ answer'.to = pt[par].pid
  <2>1. status'[s] = code
    BY <1>1, <1>2, ForgetFacts
  <2> QED
    BY <1>1, <1>2, <2>1 DEF Report, GivenToMexit
<1> QED
  BY <1>1, <1>6, <1>7, <1>8 DEF Reports

(* A child whose parent lives is removed only in a step that answers the   *)
(* parent's wait() with the child's pid and the code it gave to mexit()    *)
(* (do_exit() and do_wait(), servers/pm.c).                                *)
THEOREM AlwaysExitReported == Spec => ExitReported
<1>1. PInv /\ Next => Reports
  <2> SUFFICES ASSUME PInv, Next PROVE Reports
    OBVIOUS
  <2>1. PICK c \in Pid :
        \/ Spawn(c) \/ Exec(c) \/ Malloc(c)
        \/ \E ptr \in Block \cup {NULL} : Free(c, ptr)
        \/ ExitOrphan(c)
        \/ \E code \in Code : ExitToParent(c, code) \/ ExitZombie(c, code)
        \/ \E w \in Pid \cup {TASK_ANY} : WaitReaps(c, w) \/ WaitFails(c, w) \/ WaitBlocks(c, w)
    BY DEF Next
  <2>2. CASE Malloc(c)
    BY <2>2, StayReports DEF Malloc, NoAnswer
  <2>3. ASSUME NEW ptr, Free(c, ptr) PROVE Reports
    BY <2>3, StayReports DEF Free, NoAnswer
  <2>4. ASSUME NEW w, WaitFails(c, w) PROVE Reports
    BY <2>4, StayReports DEF WaitFails
  <2> QED
    BY <2>1, <2>2, <2>3, <2>4, SpawnReports, ExecReports, ExitOrphanReports,
       ExitToParentReports, ExitZombieReports, WaitReapsReports, WaitBlocksReports
<1> QED
  BY <1>1, PmInvariant, PTL DEF ExitReported, Spec

=============================================================================

---------------------------- MODULE KernelProofs ----------------------------
(***************************************************************************)
(* The kernel's invariants, for any number of tasks, priorities and        *)
(* events.  The proofs about the queues work on the sets of tasks they     *)
(* hold (lemmas ConsSet, AppendSet, RemvSet, TailSet): every step of the   *)
(* kernel loop takes a task out of one place and puts it into another.     *)
(***************************************************************************)
EXTENDS KernelIpc, SeqLemmas

\* Placed, with the types of its arguments.
Sorted(q, c, b, pr, L) ==
  /\ q \in [Prio -> Seq(Task)]
  /\ c \in Task \cup {NULL}
  /\ b \in Seq(Task)
  /\ pr \in [Task -> Prio]
  /\ L \subseteq Task
  /\ Placed(q, c, b, pr, L)

(* Items of a sequence of tasks are tasks. *)
LEMMA RangeTask ==
  ASSUME NEW s \in Seq(Task) PROVE Range(s) \subseteq Task
BY DEF Range

(* Q_REMV(&current_q, CURRENT) takes CURRENT out of its only place. *)
LEMMA DetachCurrent ==
  ASSUME NEW q, NEW c \in Task, NEW b, NEW pr, NEW L, Sorted(q, c, b, pr, L)
  PROVE  Sorted(q, NULL, b, pr, L \ {c}) /\ c \in L
BY TaskAssumption DEF Sorted, Placed

(* Q_REMV(&blocked_q, t) takes a blocked task out of its only place. *)
LEMMA DetachBlocked ==
  ASSUME NEW q, NEW c, NEW b, NEW pr, NEW L, Sorted(q, c, b, pr, L), NEW t \in Range(b)
  PROVE  /\ Sorted(q, c, Q_REMV(b, t), pr, L \ {t})
         /\ Range(Q_REMV(b, t)) = Range(b) \ {t}
         /\ t \in L /\ t \in Task /\ t # c
<1>1. b \in Seq(Task) /\ IsInjective(b) /\ t \in Task
  BY RangeTask DEF Sorted, Placed
<1>2. /\ Q_REMV(b, t) \in Seq(Task) /\ Range(Q_REMV(b, t)) = Range(b) \ {t}
      /\ IsInjective(Q_REMV(b, t))
  BY <1>1, RemvSet
<1> QED
  BY <1>1, <1>2 DEF Sorted, Placed

(* Q_FRONT(&blocked_q, t) gives a task that is nowhere its place; a new    *)
(* task gets its priority at the same time (kernel.c:363-365).             *)
LEMMA AttachBlocked ==
  ASSUME NEW q, NEW c, NEW b, NEW pr, NEW L, Sorted(q, c, b, pr, L),
         NEW t \in Task, t \notin L, NEW p \in Prio
  PROVE  /\ Sorted(q, c, Cons(t, b), [pr EXCEPT ![t] = p], L \cup {t})
         /\ Range(Cons(t, b)) = Range(b) \cup {t}
<1> DEFINE f == [pr EXCEPT ![t] = p]
<1>1. b \in Seq(Task) /\ IsInjective(b) /\ t \notin Range(b) /\ t # c
  BY DEF Sorted, Placed
<1>2. /\ Cons(t, b) \in Seq(Task) /\ Range(Cons(t, b)) = Range(b) \cup {t}
      /\ IsInjective(Cons(t, b))
  BY <1>1, ConsSet
<1>3. f \in [Task -> Prio] /\ f[t] = p /\ \A u \in Task : u # t => f[u] = pr[u]
  BY DEF Sorted
<1> HIDE DEF f
<1>4. \A r \in Prio : t \notin Range(q[r])
  BY DEF Sorted, Placed
<1>5. \A r \in Prio : Range(q[r]) \subseteq Task
  BY RangeTask DEF Sorted
<1>6. Placed(q, c, Cons(t, b), f, L \cup {t})
  <2>1. \A r \in Prio : IsInjective(q[r]) /\ \A u \in Range(q[r]) : f[u] = r
    BY <1>3, <1>4, <1>5 DEF Sorted, Placed
  <2>2. ASSUME NEW u \in Task
        PROVE  /\ u \in L \cup {t} <=> (u = c \/ u \in Range(q[f[u]]) \/ u \in Range(Cons(t, b)))
               /\ ~(u = c /\ u \in Range(q[f[u]]))
               /\ ~(u = c /\ u \in Range(Cons(t, b)))
               /\ ~(u \in Range(q[f[u]]) /\ u \in Range(Cons(t, b)))
    <3>1. CASE u = t
      BY <1>1, <1>2, <1>3, <1>4, <3>1
    <3>2. CASE u # t
      BY <1>2, <1>3, <3>2 DEF Sorted, Placed
    <3> QED
      BY <3>1, <3>2
  <2> QED
    BY <1>2, <2>1, <2>2 DEF Placed
<1> QED
  BY <1>2, <1>3, <1>6 DEF Sorted, f

(* Putting a task that is nowhere into a ready queue, at its front or its  *)
(* end: s is that queue with the task.                                     *)
LEMMA AttachReady ==
  ASSUME NEW q, NEW c, NEW b, NEW pr, NEW L, Sorted(q, c, b, pr, L),
         NEW t \in Task, t \notin L,
         NEW s, s = Append(q[pr[t]], t) \/ s = Cons(t, q[pr[t]])
  PROVE  Sorted([q EXCEPT ![pr[t]] = s], c, b, pr, L \cup {t})
<1> DEFINE d == [q EXCEPT ![pr[t]] = s]
<1>1. /\ q \in [Prio -> Seq(Task)] /\ pr \in [Task -> Prio]
      /\ pr[t] \in Prio /\ q[pr[t]] \in Seq(Task)
      /\ IsInjective(q[pr[t]]) /\ t \notin Range(q[pr[t]]) /\ t # c /\ t \notin Range(b)
      /\ \A p \in Prio : \A u \in Range(q[p]) : pr[u] = p
  BY DEF Sorted, Placed
<1>2. s \in Seq(Task) /\ Range(s) = Range(q[pr[t]]) \cup {t} /\ IsInjective(s)
  <2>1. CASE s = Append(q[pr[t]], t)
    BY <1>1, <2>1, AppendSet
  <2>2. CASE s = Cons(t, q[pr[t]])
    BY <1>1, <2>2, ConsSet
  <2> QED
    BY <2>1, <2>2
<1>3. /\ d \in [Prio -> Seq(Task)] /\ d[pr[t]] = s
      /\ \A p \in Prio : p # pr[t] => d[p] = q[p]
  BY <1>1, <1>2
<1> HIDE DEF d
<1>4. \A p \in Prio : IsInjective(d[p])
  BY <1>2, <1>3 DEF Sorted, Placed
<1>5. ASSUME NEW p \in Prio, NEW u \in Range(d[p])
      PROVE  pr[u] = p
  BY <1>1, <1>2, <1>3, <1>5
<1>6. ASSUME NEW u \in Task
      PROVE  u \in Range(d[pr[u]]) <=> u = t \/ u \in Range(q[pr[u]])
  BY <1>1, <1>2, <1>3
<1>7. ASSUME NEW u \in Task
      PROVE  /\ u \in L \cup {t} <=> (u = c \/ u \in Range(d[pr[u]]) \/ u \in Range(b))
             /\ ~(u = c /\ u \in Range(d[pr[u]]))
             /\ ~(u = c /\ u \in Range(b))
             /\ ~(u \in Range(d[pr[u]]) /\ u \in Range(b))
  <2>1. CASE u = t
    BY <1>1, <1>6, <2>1
  <2>2. CASE u # t
    BY <1>6, <2>2 DEF Sorted, Placed
  <2> QED
    BY <2>1, <2>2
<1>8. Placed(d, c, b, pr, L \cup {t})
  BY <1>4, <1>5, <1>7 DEF Placed, Sorted
<1> QED
  BY <1>3, <1>8 DEF Sorted, d

(* A task that is nowhere becomes CURRENT (kernel.c:352). *)
LEMMA AttachCurrent ==
  ASSUME NEW q, NEW b, NEW pr, NEW L, Sorted(q, NULL, b, pr, L),
         NEW t \in Task, t \notin L
  PROVE  Sorted(q, t, b, pr, L \cup {t})
BY TaskAssumption DEF Sorted, Placed

(* scheduler() moves at most the head of a ready queue, to CURRENT; when a *)
(* task t is ready or running afterwards there is a CURRENT                *)
(* (kernel.c:280-295).                                                     *)
LEMMA SchedulerSorted ==
  ASSUME NEW q, NEW c, NEW b, NEW pr, NEW L, Sorted(q, c, b, pr, L), scheduler(q, c)
  PROVE  /\ Sorted(queue', current', b, pr, L)
         /\ \A t \in L : t \notin Range(b) => current' # NULL
<1>1. /\ q \in [Prio -> Seq(Task)] /\ c \in Task \cup {NULL} /\ pr \in [Task -> Prio]
      /\ L \subseteq Task
      /\ \A p \in Prio : IsInjective(q[p]) /\ \A u \in Range(q[p]) : pr[u] = p
  BY DEF Sorted, Placed
<1>2. CASE c # NULL \/ \A p \in Prio : q[p] = <<>>
  <2>1. queue' = q /\ current' = c
    BY <1>2 DEF scheduler
  <2>2. ASSUME NEW t \in L, t \notin Range(b), c = NULL
        PROVE  FALSE
    <3>1. t \in Range(q[pr[t]]) /\ q[pr[t]] = <<>>
      BY <1>1, <1>2, <2>2, TaskAssumption DEF Sorted, Placed
    <3> QED
      BY <3>1 DEF Range
  <2> QED
    BY <2>1, <2>2
<1>3. CASE c = NULL /\ \E p \in Prio : q[p] # <<>>
  <2> DEFINE T == {p \in Prio : q[p] # <<>>}
             P == TopPrio(q)
             t == Head(q[P])
  <2>1. \E p \in T : \A r \in T : p <= r
    <3>1. T \subseteq Nat /\ T # {}
      BY <1>3, PrioAssumption DEF Prio
    <3> QED
      BY <3>1, LeastNat
  <2>2. \E p \in Prio : q[p] # <<>> /\ \A r \in Prio : r < p => q[r] = <<>>
    BY <2>1, PrioAssumption DEF Prio
  <2>3. P \in Prio /\ q[P] # <<>>
    BY <2>2 DEF TopPrio
  <2>4. current' = t /\ queue' = [q EXCEPT ![P] = Tail(@)]
    BY <1>3, <2>3 DEF scheduler
  <2> HIDE DEF P
  <2>5. q[P] \in Seq(Task) /\ IsInjective(q[P])
    BY <1>1, <2>3
  <2>6. /\ Tail(q[P]) \in Seq(Task) /\ t \in Task /\ t \in Range(q[P])
        /\ Range(Tail(q[P])) = Range(q[P]) \ {t} /\ IsInjective(Tail(q[P]))
    BY <2>3, <2>5, TailSet
  <2> HIDE DEF t
  <2>7. pr[t] = P
    BY <1>1, <2>3, <2>6
  <2>8. /\ queue' \in [Prio -> Seq(Task)] /\ queue'[P] = Tail(q[P])
        /\ \A p \in Prio : p # P => queue'[p] = q[p]
    BY <1>1, <2>3, <2>4, <2>6
  <2>9. \A p \in Prio : IsInjective(queue'[p]) /\ \A u \in Range(queue'[p]) : pr[u] = p
    BY <1>1, <2>3, <2>6, <2>8
  <2>10. ASSUME NEW u \in Task
         PROVE  u \in Range(queue'[pr[u]]) <=> u \in Range(q[pr[u]]) /\ u # t
    BY <1>1, <2>6, <2>7, <2>8
  <2>11. ASSUME NEW u \in Task
         PROVE  /\ u \in L <=> (u = t \/ u \in Range(queue'[pr[u]]) \/ u \in Range(b))
                /\ ~(u = t /\ u \in Range(queue'[pr[u]]))
                /\ ~(u = t /\ u \in Range(b))
                /\ ~(u \in Range(queue'[pr[u]]) /\ u \in Range(b))
    <3>1. u # NULL
      BY TaskAssumption
    <3> QED
      BY <1>3, <2>6, <2>7, <2>10, <3>1 DEF Sorted, Placed
  <2>12. Placed(queue', t, b, pr, L)
    BY <2>9, <2>11 DEF Placed, Sorted
  <2>13. t # NULL
    BY <2>6, TaskAssumption
  <2> QED
    BY <2>4, <2>6, <2>8, <2>12, <2>13 DEF Sorted
<1> QED
  BY <1>2, <1>3

(* The scan of blocked_q returns a blocked task that satisfies the         *)
(* callback, and NULL only if there is none.                               *)
LEMMA FirstFacts ==
  ASSUME NEW S, blocked_q \in Seq(Task)
  PROVE  /\ First(S) = NULL => \A t \in Range(blocked_q) : t \notin S
         /\ First(S) # NULL => First(S) \in Range(blocked_q) /\ First(S) \in S
<1> DEFINE hits == {i \in 1..Len(blocked_q) : blocked_q[i] \in S}
<1>1. /\ Len(blocked_q) \in Nat /\ DOMAIN blocked_q = 1..Len(blocked_q)
      /\ \A i \in 1..Len(blocked_q) : blocked_q[i] \in Task
  OBVIOUS
<1>2. CASE hits = {}
  BY <1>1, <1>2 DEF First, Range
<1>3. CASE hits # {}
  <2> DEFINE k == CHOOSE i \in hits : \A j \in hits : i <= j
  <2>1. hits \subseteq Nat
    OBVIOUS
  <2>2. \E i \in hits : \A j \in hits : i <= j
    <3> HIDE DEF hits
    <3> QED
      BY <1>3, <2>1, LeastNat
  <2>3. k \in hits
    BY <2>2
  <2>4. First(S) = blocked_q[k]
    BY <1>3 DEF First
  <2> HIDE DEF k
  <2>5. blocked_q[k] \in S /\ blocked_q[k] \in Task /\ blocked_q[k] \in Range(blocked_q)
    BY <1>1, <2>3 DEF Range
  <2> QED
    BY <2>4, <2>5, TaskAssumption
<1> QED
  BY <1>2, <1>3

-----------------------------------------------------------------------------
\* Only a started task is off blocked_q.
StartedRun == \A t \in Task : Live(t) /\ ~Blocked(t) => stage[t] = "started"

\* The idle task is started and never blocked.
IdleReady == stage[IdleTask] = "started" /\ ~Blocked(IdleTask)

\* What the context of a task that is not started can show: nothing the
\* kernel looks for, or the receive() of a client its manager has stopped.
UnstartedInert ==
  \A t \in Task :
    /\ stage[t] \in {"created", "setup"} => kcall[t] = "OTHER"
    /\ stage[t] \in {"stopped", "stacked"} =>
         \/ kcall[t] = "OTHER"
         \/ kcall[t] = "RECEIVE" /\ p0[t] \in Task

\* The inductive invariant.
KInv ==
  /\ TypeOK
  /\ QueuesPartition
  /\ CurrentSet
  /\ StartedRun
  /\ IdleReady
  /\ UnstartedInert
  /\ NoMissedRendezvous

(* What the invariant says in the terms of the lemmas above. *)
LEMMA KInvFacts ==
  ASSUME KInv
  PROVE  /\ Sorted(queue, current, blocked_q, prio, LiveTasks)
         /\ current \in Task /\ current \in LiveTasks /\ current \notin Range(blocked_q)
         /\ stage[current] = "started"
         /\ Range(blocked_q) \subseteq LiveTasks
         /\ \A t \in LiveTasks : t \notin Range(blocked_q) => stage[t] = "started"
         /\ blocked_q \in Seq(Task)
<1>1. Sorted(queue, current, blocked_q, prio, LiveTasks)
  BY DEF KInv, Sorted, TypeOK, QueuesPartition, LiveTasks
<1>2. current \in Task
  BY DEF KInv, TypeOK, CurrentSet
<1>3. Range(blocked_q) \subseteq Task
  BY <1>1, RangeTask DEF Sorted
<1>4. /\ current \in LiveTasks /\ current \notin Range(blocked_q)
      /\ Range(blocked_q) \subseteq LiveTasks
  BY <1>1, <1>2, <1>3 DEF Sorted, Placed
<1>5. \A t \in LiveTasks : t \notin Range(blocked_q) => stage[t] = "started"
  BY DEF KInv, StartedRun, Blocked, LiveTasks
<1> QED
  BY <1>1, <1>2, <1>4, <1>5 DEF Sorted

(* What is left to show of a step once its effect on the queues is known:  *)
(* that the contexts on blocked_q are as they should be.                   *)
LEMMA KInvNext ==
  ASSUME Sorted(queue', current', blocked_q', prio', LiveTasks'), current' # NULL,
         irqdis' \in [Task -> BOOLEAN], stage' \in [Task -> Stage],
         kcall' \in [Task -> Code], p0' \in [Task -> Task \cup {TASK_ANY, NULL}],
         mask' \in [Task -> SUBSET (Event \cup {PREEMPT})],
         StartedRun', IdleReady', UnstartedInert', NoMissedRendezvous'
  PROVE  KInv'
BY DEF KInv, Sorted, TypeOK, QueuesPartition, CurrentSet

(* The state kernel() starts the first task in satisfies the invariant. *)
LEMMA KernelInit == Init => KInv
<1> SUFFICES ASSUME Init PROVE KInv
  OBVIOUS
<1>1. /\ TASK_PRIO_IDLE \in Prio /\ BootPrio \in Prio /\ BootPrio # TASK_PRIO_IDLE
  BY PrioAssumption DEF Prio, TASK_PRIO_IDLE
<1>2. <<IdleTask>> \in Seq(Task) /\ <<>> \in Seq(Task)
  BY TaskAssumption
<1>3. /\ Range(<<>>) = {} /\ Range(<<IdleTask>>) = {IdleTask}
      /\ IsInjective(<<>>) /\ IsInjective(<<IdleTask>>)
  BY DEF Range, IsInjective
<1>4. TypeOK
  BY <1>1, <1>2, TaskAssumption DEF Init, TypeOK, Stage, Code
<1>5. /\ \A p \in Prio : queue[p] = IF p = TASK_PRIO_IDLE THEN <<IdleTask>> ELSE <<>>
      /\ current = BootTask /\ blocked_q = <<>>
      /\ \A t \in Task : prio[t] = IF t = BootTask THEN BootPrio ELSE TASK_PRIO_IDLE
      /\ \A t \in Task : t \in LiveTasks <=> t \in {IdleTask, BootTask}
  BY DEF Init, LiveTasks, Live
<1>6. QueuesPartition
  <2>1. \A p \in Prio : IsInjective(queue[p]) /\ \A t \in Range(queue[p]) : prio[t] = p
    BY <1>1, <1>3, <1>5, TaskAssumption
  <2>2. \A t \in Task : t \in Range(queue[prio[t]]) <=> t = IdleTask
    BY <1>1, <1>3, <1>5, TaskAssumption
  <2> QED
    BY <1>3, <1>5, <2>1, <2>2, TaskAssumption DEF QueuesPartition, Placed
<1>7. CurrentSet
  BY <1>5, TaskAssumption DEF CurrentSet
<1>8. StartedRun /\ IdleReady /\ UnstartedInert
  BY <1>3, <1>5, TaskAssumption DEF Init, StartedRun, IdleReady, UnstartedInert, Live, Blocked
<1>9. NoMissedRendezvous
  BY <1>3, <1>5 DEF NoMissedRendezvous
<1> QED
  BY <1>4, <1>6, <1>7, <1>8, <1>9 DEF KInv

(* A step after which every blocked task either was blocked before with    *)
(* the same context, or takes no part in messages, misses no rendez-vous.  *)
LEMMA QuietRendezvous ==
  ASSUME NoMissedRendezvous,
         \A u \in Range(blocked_q') :
            \/ u \in Range(blocked_q) /\ kcall'[u] = kcall[u] /\ p0'[u] = p0[u]
            \/ kcall'[u] \in {"OTHER", "WAITEVENT"}
  PROVE  NoMissedRendezvous'
BY DEF NoMissedRendezvous, Meet

(* Unwritten context bytes, when inert. *)
LEMMA UnwrittenFacts ==
  ASSUME ResidueInert, TypeOK, NEW t \in Task, Unwritten(t)
  PROVE  /\ kcall' \in [Task -> Code] /\ p0' \in [Task -> Task \cup {TASK_ANY, NULL}]
         /\ mask' \in [Task -> SUBSET (Event \cup {PREEMPT})]
         /\ kcall'[t] = "OTHER"
         /\ \A u \in Task : u # t => kcall'[u] = kcall[u] /\ p0'[u] = p0[u]
<1>1. PICK r \in Residue : /\ kcall' = [kcall EXCEPT ![t] = r.call]
                          /\ p0' = [p0 EXCEPT ![t] = r.pid]
                          /\ mask' = [mask EXCEPT ![t] = r.bits]
  BY DEF Unwritten
<1>2. r \in Context /\ r.call = "OTHER"
  BY ResidueAssumption DEF ResidueInert
<1>3. /\ r.call \in Code /\ r.pid \in Task \cup {TASK_ANY, NULL}
      /\ r.bits \in SUBSET (Event \cup {PREEMPT})
  BY <1>2 DEF Context
<1> QED
  BY <1>1, <1>2, <1>3 DEF TypeOK

(* KCALL_CREATETASK. *)
LEMMA CreateTaskInv ==
  ASSUME ResidueInert, KInv, NEW t \in Task, NEW pr \in Prio, CreateTask(t, pr)
  PROVE  KInv'
<1>1. TypeOK /\ NoMissedRendezvous /\ StartedRun /\ IdleReady /\ UnstartedInert
  BY DEF KInv
<1>2. Sorted(queue, current, blocked_q, prio, LiveTasks) /\ current \in Task
  BY KInvFacts
<1>3. /\ blocked_q' = Cons(t, blocked_q) /\ prio' = [prio EXCEPT ![t] = pr]
      /\ irqdis' = [irqdis EXCEPT ![t] = FALSE] /\ queue' = queue /\ current' = current
      /\ stage' = [stage EXCEPT ![t] = "created"] /\ stage[t] = "free" /\ Unwritten(t)
  BY DEF CreateTask, Live
<1>4. /\ stage' \in [Task -> Stage] /\ stage'[t] = "created"
      /\ \A u \in Task : u # t => stage'[u] = stage[u]
  BY <1>1, <1>3 DEF TypeOK, Stage
<1>5. t \notin LiveTasks /\ LiveTasks' = LiveTasks \cup {t}
  BY <1>3, <1>4 DEF LiveTasks, Live
<1>6. /\ Sorted(queue', current', blocked_q', prio', LiveTasks')
      /\ Range(blocked_q') = Range(blocked_q) \cup {t}
  <2>1. /\ Sorted(queue, current, Cons(t, blocked_q), [prio EXCEPT ![t] = pr], LiveTasks \cup {t})
        /\ Range(Cons(t, blocked_q)) = Range(blocked_q) \cup {t}
    BY <1>2, <1>5, AttachBlocked
  <2> QED
    BY <1>3, <1>5, <2>1
<1>7. /\ kcall' \in [Task -> Code] /\ p0' \in [Task -> Task \cup {TASK_ANY, NULL}]
      /\ mask' \in [Task -> SUBSET (Event \cup {PREEMPT})]
      /\ kcall'[t] = "OTHER"
      /\ \A u \in Task : u # t => kcall'[u] = kcall[u] /\ p0'[u] = p0[u]
  BY <1>1, <1>3, UnwrittenFacts
<1>8. Range(blocked_q) \subseteq Task
  BY <1>2, RangeTask DEF Sorted
<1>9. NoMissedRendezvous'
  BY <1>1, <1>6, <1>7, <1>8, QuietRendezvous
<1>10. StartedRun' /\ IdleReady' /\ UnstartedInert'
  <2>1. t # IdleTask
    BY <1>1, <1>3 DEF IdleReady
  <2> QED
    BY <1>1, <1>4, <1>6, <1>7, <2>1, TaskAssumption
    DEF StartedRun, IdleReady, UnstartedInert, Blocked, Live
<1>11. irqdis' \in [Task -> BOOLEAN] /\ current' # NULL
  BY <1>1, <1>2, <1>3, TaskAssumption DEF TypeOK
<1> QED
  BY <1>4, <1>6, <1>7, <1>9, <1>10, <1>11, KInvNext

(* KCALL_ALLOCATESTACK, KCALL_SETUPTASK and KCALL_STOPTASK move no task;   *)
(* the task they work on is blocked and not (or no longer) started.        *)
LEMMA PrepareInv ==
  ASSUME ResidueInert, KInv, NEW t \in Task,
         AllocateStack(t) \/ SetupTask(t) \/ StopTask(t)
  PROVE  KInv'
<1>1. TypeOK /\ NoMissedRendezvous /\ StartedRun /\ IdleReady /\ UnstartedInert
  BY DEF KInv
<1>2. /\ Sorted(queue, current, blocked_q, prio, LiveTasks) /\ current \in Task
      /\ Range(blocked_q) \subseteq LiveTasks
  BY KInvFacts
<1>3. /\ blocked_q' = blocked_q /\ prio' = prio /\ irqdis' = irqdis
      /\ queue' = queue /\ current' = current
  BY DEF AllocateStack, SetupTask, StopTask
<1>4. /\ t \in Range(blocked_q)
      /\ \/ Unwritten(t)
         \/ /\ kcall' = kcall /\ p0' = p0 /\ mask' = mask
            /\ stage'[t] \in {"stopped", "stacked"}
            /\ kcall[t] = "OTHER" \/ (kcall[t] = "RECEIVE" /\ p0[t] \in Task)
  <2>1. CASE AllocateStack(t)
    <3>1. kcall[t] = "OTHER" \/ (kcall[t] = "RECEIVE" /\ p0[t] \in Task)
      BY <1>1, <2>1 DEF UnstartedInert, AllocateStack
    <3>2. t \in Range(blocked_q)
      BY <1>1, <2>1 DEF AllocateStack, StartedRun, Live, Blocked
    <3> QED
      BY <1>1, <2>1, <3>1, <3>2 DEF AllocateStack, context, TypeOK
  <2>2. CASE SetupTask(t)
    BY <1>1, <2>2 DEF SetupTask, StartedRun, Live, Blocked
  <2>3. CASE StopTask(t)
    BY <1>1, <1>2, <2>3 DEF StopTask, context, TypeOK
  <2> QED
    BY <2>1, <2>2, <2>3
<1>5. PICK v \in {"stacked", "setup", "stopped"} : stage' = [stage EXCEPT ![t] = v]
  BY DEF AllocateStack, SetupTask, StopTask
<1>6. /\ stage' \in [Task -> Stage] /\ stage'[t] = v
      /\ \A u \in Task : u # t => stage'[u] = stage[u]
  BY <1>1, <1>5 DEF TypeOK, Stage
<1>7. LiveTasks' = LiveTasks
  BY <1>2, <1>4, <1>6 DEF LiveTasks, Live
<1>8. Sorted(queue', current', blocked_q', prio', LiveTasks') /\ Range(blocked_q') = Range(blocked_q)
  BY <1>2, <1>3, <1>7
<1>9. /\ kcall' \in [Task -> Code] /\ p0' \in [Task -> Task \cup {TASK_ANY, NULL}]
      /\ mask' \in [Task -> SUBSET (Event \cup {PREEMPT})]
      /\ \A u \in Task : u # t => kcall'[u] = kcall[u] /\ p0'[u] = p0[u]
      /\ \/ kcall'[t] = "OTHER"
         \/ stage'[t] \in {"stopped", "stacked"} /\ kcall'[t] = "RECEIVE" /\ p0'[t] \in Task
      /\ kcall'[t] = "OTHER" \/ (kcall'[t] = kcall[t] /\ p0'[t] = p0[t])
  <2>1. CASE Unwritten(t)
    BY <1>1, <2>1, UnwrittenFacts
  <2>2. CASE /\ kcall' = kcall /\ p0' = p0 /\ mask' = mask
             /\ stage'[t] \in {"stopped", "stacked"}
             /\ kcall[t] = "OTHER" \/ (kcall[t] = "RECEIVE" /\ p0[t] \in Task)
    BY <1>1, <2>2 DEF TypeOK
  <2> QED
    BY <1>4, <2>1, <2>2
<1>10. Range(blocked_q) \subseteq Task
  BY <1>2, RangeTask DEF Sorted
<1>11. NoMissedRendezvous'
  BY <1>1, <1>8, <1>9, <1>10, QuietRendezvous
<1>12. StartedRun' /\ IdleReady' /\ UnstartedInert'
  <2>1. t # IdleTask
    BY <1>1, <1>4 DEF IdleReady, Blocked
  <2>2. StartedRun'
    BY <1>1, <1>4, <1>6, <1>8 DEF StartedRun, Blocked, Live
  <2>3. IdleReady'
    BY <1>1, <1>6, <1>8, <2>1, TaskAssumption DEF IdleReady, Blocked
  <2>4. UnstartedInert'
    <3> SUFFICES ASSUME NEW u \in Task
                 PROVE  /\ stage'[u] \in {"created", "setup"} => kcall'[u] = "OTHER"
                        /\ stage'[u] \in {"stopped", "stacked"} =>
                             \/ kcall'[u] = "OTHER"
                             \/ kcall'[u] = "RECEIVE" /\ p0'[u] \in Task
      BY DEF UnstartedInert
    <3>1. CASE u = t
      <4>1. \/ kcall'[t] = "OTHER"
            \/ stage'[t] \in {"stopped", "stacked"} /\ kcall'[t] = "RECEIVE" /\ p0'[t] \in Task
        BY <1>9
      <4> QED
        BY <3>1, <4>1
    <3>2. CASE u # t
      BY <1>1, <1>6, <1>9, <3>2 DEF UnstartedInert
    <3> QED
      BY <3>1, <3>2
  <2> QED
    BY <2>2, <2>3, <2>4
<1>13. irqdis' \in [Task -> BOOLEAN] /\ current' # NULL
  BY <1>1, <1>2, <1>3, TaskAssumption DEF TypeOK
<1> QED
  BY <1>6, <1>8, <1>9, <1>11, <1>12, <1>13, KInvNext

(* A step in which a started task t leaves blocked_q for its ready queue,  *)
(* the contexts of the others staying as they are: common to KCALL_SEND    *)
(* and KCALL_RECEIVE.                                                      *)
LEMMA WakeSorted ==
  ASSUME KInv, NEW t \in Range(blocked_q)
  PROVE  /\ Sorted(ReadyEnd(t), current, Q_REMV(blocked_q, t), prio, LiveTasks)
         /\ Range(Q_REMV(blocked_q, t)) = Range(blocked_q) \ {t}
         /\ t \in Task /\ t # current /\ t # IdleTask
<1>1. Sorted(queue, current, blocked_q, prio, LiveTasks)
  BY KInvFacts
<1>2. /\ Sorted(queue, current, Q_REMV(blocked_q, t), prio, LiveTasks \ {t})
      /\ Range(Q_REMV(blocked_q, t)) = Range(blocked_q) \ {t}
      /\ t \in LiveTasks /\ t \in Task /\ t # current
  BY <1>1, DetachBlocked
<1>3. Sorted(ReadyEnd(t), current, Q_REMV(blocked_q, t), prio, (LiveTasks \ {t}) \cup {t})
  BY <1>2, AttachReady DEF ReadyEnd
<1>4. (LiveTasks \ {t}) \cup {t} = LiveTasks
  BY <1>2
<1>5. t # IdleTask
  BY DEF KInv, IdleReady, Blocked
<1> QED
  BY <1>2, <1>3, <1>4, <1>5

(* KCALL_STARTTASK. *)
LEMMA StartTaskInv ==
  ASSUME KInv, NEW t \in Task, StartTask(t)
  PROVE  KInv'
<1>1. TypeOK /\ NoMissedRendezvous /\ StartedRun /\ IdleReady /\ UnstartedInert
  BY DEF KInv
<1>2. /\ current \in Task /\ current \in LiveTasks /\ current \notin Range(blocked_q)
      /\ blocked_q \in Seq(Task)
  BY KInvFacts
<1>3. /\ stage[t] = "setup" /\ stage' = [stage EXCEPT ![t] = "started"]
      /\ blocked_q' = Q_REMV(blocked_q, t) /\ scheduler(ReadyEnd(t), current)
      /\ prio' = prio /\ irqdis' = irqdis /\ kcall' = kcall /\ p0' = p0 /\ mask' = mask
  BY DEF StartTask, context
<1>4. t \in Range(blocked_q)
  BY <1>1, <1>3 DEF StartedRun, Live, Blocked
<1>5. /\ Sorted(ReadyEnd(t), current, blocked_q', prio', LiveTasks)
      /\ Range(blocked_q') = Range(blocked_q) \ {t} /\ t # IdleTask
  BY <1>3, <1>4, WakeSorted
<1>6. /\ Sorted(queue', current', blocked_q', prio', LiveTasks)
      /\ current' # NULL
  BY <1>2, <1>3, <1>5, SchedulerSorted
<1>7. /\ stage' \in [Task -> Stage] /\ stage'[t] = "started"
      /\ \A u \in Task : u # t => stage'[u] = stage[u]
  BY <1>1, <1>3 DEF TypeOK, Stage
<1>8. LiveTasks' = LiveTasks
  BY <1>3, <1>7 DEF LiveTasks, Live
<1>9. NoMissedRendezvous'
  BY <1>1, <1>3, <1>5, QuietRendezvous
<1>10. StartedRun' /\ IdleReady' /\ UnstartedInert'
  BY <1>1, <1>3, <1>5, <1>7, TaskAssumption
  DEF StartedRun, IdleReady, UnstartedInert, Blocked, Live
<1> QED
  BY <1>1, <1>3, <1>6, <1>7, <1>8, <1>9, <1>10, KInvNext DEF TypeOK

(* KCALL_DELETETASK. *)
LEMMA DeleteTaskInv ==
  ASSUME KInv, NEW t \in Task, DeleteTask(t)
  PROVE  KInv'
<1>1. /\ TypeOK /\ NoMissedRendezvous /\ StartedRun /\ IdleReady /\ UnstartedInert
      /\ CurrentSet
  BY DEF KInv
<1>2. Sorted(queue, current, blocked_q, prio, LiveTasks)
  BY KInvFacts
<1>3. /\ stage[t] = "stopped" /\ stage' = [stage EXCEPT ![t] = "free"]
      /\ blocked_q' = Q_REMV(blocked_q, t) /\ queue' = queue /\ current' = current
      /\ prio' = prio /\ irqdis' = irqdis /\ kcall' = kcall /\ p0' = p0 /\ mask' = mask
  BY DEF DeleteTask, context
<1>4. t \in Range(blocked_q) /\ t # IdleTask
  BY <1>1, <1>3 DEF StartedRun, Live, Blocked, IdleReady
<1>5. /\ stage' \in [Task -> Stage] /\ stage'[t] = "free"
      /\ \A u \in Task : u # t => stage'[u] = stage[u]
  BY <1>1, <1>3 DEF TypeOK, Stage
<1>6. LiveTasks' = LiveTasks \ {t}
  BY <1>5 DEF LiveTasks, Live
<1>7. /\ Sorted(queue', current', blocked_q', prio', LiveTasks')
      /\ Range(blocked_q') = Range(blocked_q) \ {t}
  BY <1>2, <1>3, <1>4, <1>6, DetachBlocked
<1>8. NoMissedRendezvous'
  BY <1>1, <1>3, <1>7, QuietRendezvous
<1>9. StartedRun' /\ IdleReady' /\ UnstartedInert'
  BY <1>1, <1>3, <1>4, <1>5, <1>7, TaskAssumption
  DEF StartedRun, IdleReady, UnstartedInert, Blocked, Live
<1> QED
  BY <1>1, <1>3, <1>5, <1>7, <1>8, <1>9, KInvNext DEF TypeOK, CurrentSet

(* KCALL_EXITTASK: the idle task is left to run. *)
LEMMA ExitTaskInv ==
  ASSUME KInv, ExitTask
  PROVE  KInv'
<1>1. TypeOK /\ NoMissedRendezvous /\ StartedRun /\ IdleReady /\ UnstartedInert
  BY DEF KInv
<1>2. Sorted(queue, current, blocked_q, prio, LiveTasks) /\ current \in Task
  BY KInvFacts
<1>3. /\ stage' = [stage EXCEPT ![current] = "free"] /\ blocked_q' = blocked_q
      /\ scheduler(queue, NULL) /\ current # IdleTask
      /\ prio' = prio /\ irqdis' = irqdis /\ kcall' = kcall /\ p0' = p0 /\ mask' = mask
  BY DEF ExitTask, Calls, context
<1>4. /\ stage' \in [Task -> Stage] /\ stage'[current] = "free"
      /\ \A u \in Task : u # current => stage'[u] = stage[u]
  BY <1>1, <1>2, <1>3 DEF TypeOK, Stage
<1>5. LiveTasks' = LiveTasks \ {current}
  BY <1>2, <1>4 DEF LiveTasks, Live
<1>6. Sorted(queue, NULL, blocked_q, prio, LiveTasks')
  BY <1>2, <1>5, DetachCurrent
<1>7. IdleTask \in LiveTasks' /\ IdleTask \notin Range(blocked_q)
  BY <1>1, <1>3, <1>4, TaskAssumption DEF IdleReady, LiveTasks, Live, Blocked
<1>8. Sorted(queue', current', blocked_q', prio', LiveTasks') /\ current' # NULL
  BY <1>3, <1>6, <1>7, SchedulerSorted
<1>9. NoMissedRendezvous'
  BY <1>1, <1>3, QuietRendezvous
<1>10. StartedRun' /\ IdleReady' /\ UnstartedInert'
  BY <1>1, <1>3, <1>4, TaskAssumption
  DEF StartedRun, IdleReady, UnstartedInert, Blocked, Live
<1> QED
  BY <1>1, <1>3, <1>4, <1>8, <1>9, <1>10, KInvNext DEF TypeOK

(* The calls that move no task: KCALL_IRQEN, KCALL_IRQDIS, KCALL_GETPID    *)
(* and a KCALL_CREATETASK that finds no memory.                            *)
LEMMA StayInv ==
  ASSUME KInv,
         \/ CreateTaskFails \/ GetPid
         \/ \E flag \in BOOLEAN : SetIrqDis(flag)
  PROVE  KInv'
<1>1. /\ TypeOK /\ NoMissedRendezvous /\ StartedRun /\ IdleReady /\ UnstartedInert
      /\ CurrentSet
  BY DEF KInv
<1>2. /\ Sorted(queue, current, blocked_q, prio, LiveTasks) /\ current \in Task
      /\ current \notin Range(blocked_q) /\ stage[current] = "started"
      /\ Range(blocked_q) \subseteq LiveTasks
  BY KInvFacts
<1>3. /\ blocked_q' = blocked_q /\ queue' = queue /\ current' = current
      /\ prio' = prio /\ stage' = stage /\ kcall' = kcall /\ mask' = mask
  BY DEF CreateTaskFails, GetPid, SetIrqDis, attributes, context
<1>4. /\ irqdis' \in [Task -> BOOLEAN] /\ p0' \in [Task -> Task \cup {TASK_ANY, NULL}]
      /\ \A u \in Task : u # current => p0'[u] = p0[u]
  BY <1>1, <1>2 DEF CreateTaskFails, GetPid, SetIrqDis, attributes, context, TypeOK
<1>5. LiveTasks' = LiveTasks
  BY <1>3 DEF LiveTasks, Live
<1>6. NoMissedRendezvous'
  <2>1. \A u \in Range(blocked_q) : u # current /\ u \in Task
    BY <1>2 DEF LiveTasks
  <2> QED
    BY <1>1, <1>3, <1>4, <2>1, QuietRendezvous
<1>7. StartedRun' /\ IdleReady' /\ UnstartedInert'
  BY <1>1, <1>2, <1>3, <1>4 DEF StartedRun, IdleReady, UnstartedInert, Blocked, Live
<1> QED
  BY <1>1, <1>2, <1>3, <1>4, <1>5, <1>6, <1>7, KInvNext DEF TypeOK, CurrentSet

(* KCALL_YIELD. *)
LEMMA YieldInv ==
  ASSUME KInv, Yield
  PROVE  KInv'
<1>1. TypeOK /\ NoMissedRendezvous /\ StartedRun /\ IdleReady /\ UnstartedInert
  BY DEF KInv
<1>2. /\ Sorted(queue, current, blocked_q, prio, LiveTasks) /\ current \in Task
      /\ current \in LiveTasks /\ current \notin Range(blocked_q)
  BY KInvFacts
<1>3. /\ blocked_q' = blocked_q /\ scheduler(ReadyEnd(current), NULL)
      /\ prio' = prio /\ irqdis' = irqdis /\ stage' = stage
      /\ kcall' = kcall /\ p0' = p0 /\ mask' = mask
  BY DEF Yield, attributes, context
<1>4. Sorted(queue, NULL, blocked_q, prio, LiveTasks \ {current})
  BY <1>2, DetachCurrent
<1>5. Sorted(ReadyEnd(current), NULL, blocked_q, prio, (LiveTasks \ {current}) \cup {current})
  BY <1>2, <1>4, AttachReady DEF ReadyEnd
<1>6. (LiveTasks \ {current}) \cup {current} = LiveTasks
  BY <1>2
<1>7. Sorted(queue', current', blocked_q', prio', LiveTasks) /\ current' # NULL
  BY <1>2, <1>3, <1>5, <1>6, SchedulerSorted
<1>8. LiveTasks' = LiveTasks
  BY <1>3 DEF LiveTasks, Live
<1>9. NoMissedRendezvous'
  BY <1>1, <1>3, QuietRendezvous
<1>10. StartedRun' /\ IdleReady' /\ UnstartedInert'
  BY <1>1, <1>3 DEF StartedRun, IdleReady, UnstartedInert, Blocked, Live
<1> QED
  BY <1>1, <1>3, <1>7, <1>8, <1>9, <1>10, KInvNext DEF TypeOK

(* CURRENT blocks, with a context in which it misses no rendez-vous: what  *)
(* KCALL_WAITEVENT, and KCALL_SEND, KCALL_SENDREC and KCALL_RECEIVE that   *)
(* find nobody, have in common.  q and b are the queues CURRENT leaves.    *)
LEMMA BlockInv ==
  ASSUME KInv, current # IdleTask,
         NEW q, NEW b, Sorted(q, current, b, prio, LiveTasks),
         Range(b) \subseteq Range(blocked_q),
         \A t \in Range(blocked_q) \ Range(b) : stage[t] = "started",
         blocked_q' = Cons(current, b) \/ blocked_q' = Append(b, current),
         scheduler(q, NULL), UNCHANGED attributes,
         kcall' \in [Task -> Code], p0' \in [Task -> Task \cup {TASK_ANY, NULL}],
         mask' \in [Task -> SUBSET (Event \cup {PREEMPT})],
         \A u \in Range(b) : kcall'[u] = kcall[u] /\ p0'[u] = p0[u],
         \A r \in Range(b) : ~Meet(r, kcall[r], p0[r], current, kcall'[current], p0'[current]),
         \A s \in Range(b) : ~Meet(current, kcall'[current], p0'[current], s, kcall[s], p0[s]),
         ~Meet(current, kcall'[current], p0'[current], current, kcall'[current], p0'[current])
  PROVE  KInv' /\ Range(blocked_q') = Range(b) \cup {current}
<1>1. TypeOK /\ NoMissedRendezvous /\ StartedRun /\ IdleReady /\ UnstartedInert
  BY DEF KInv
<1>2. /\ current \in Task /\ current \in LiveTasks /\ current \notin Range(blocked_q)
      /\ stage[current] = "started" /\ Range(blocked_q) \subseteq LiveTasks
      /\ \A t \in LiveTasks : t \notin Range(blocked_q) => stage[t] = "started"
  BY KInvFacts
<1>3. prio' = prio /\ irqdis' = irqdis /\ stage' = stage /\ LiveTasks' = LiveTasks
  BY DEF attributes, LiveTasks, Live
<1>4. Sorted(q, NULL, b, prio, LiveTasks \ {current})
  BY <1>2, DetachCurrent
<1>5. /\ b \in Seq(Task) /\ IsInjective(b) /\ current \notin Range(b)
      /\ prio \in [Task -> Prio]
  BY <1>2 DEF Sorted, Placed
<1>6. Range(blocked_q') = Range(b) \cup {current} /\ blocked_q' \in Seq(Task) /\ IsInjective(blocked_q')
  <2>1. CASE blocked_q' = Cons(current, b)
    BY <1>2, <1>5, <2>1, ConsSet
  <2>2. CASE blocked_q' = Append(b, current)
    BY <1>2, <1>5, <2>2, AppendSet
  <2> QED
    BY <2>1, <2>2
<1>7. Sorted(q, NULL, blocked_q', prio, LiveTasks)
  <2>1. ASSUME NEW t \in Task
        PROVE  /\ t \in LiveTasks <=> (t = NULL \/ t \in Range(q[prio[t]]) \/ t \in Range(blocked_q'))
               /\ ~(t = NULL /\ t \in Range(q[prio[t]]))
               /\ ~(t = NULL /\ t \in Range(blocked_q'))
               /\ ~(t \in Range(q[prio[t]]) /\ t \in Range(blocked_q'))
    <3>1. t # NULL
      BY TaskAssumption
    <3> QED
      BY <1>2, <1>6, <3>1 DEF Sorted, Placed
  <2> QED
    BY <1>6, <2>1 DEF Sorted, Placed
<1>8. IdleTask \in LiveTasks /\ IdleTask \notin Range(blocked_q')
  BY <1>1, <1>6, TaskAssumption DEF IdleReady, LiveTasks, Live, Blocked
<1>9. Sorted(queue', current', blocked_q', prio', LiveTasks') /\ current' # NULL
  BY <1>3, <1>7, <1>8, SchedulerSorted
<1>10. NoMissedRendezvous'
  <2> SUFFICES ASSUME NEW r \in Range(b) \cup {current}, NEW s \in Range(b) \cup {current}
               PROVE  ~Meet(r, kcall'[r], p0'[r], s, kcall'[s], p0'[s])
    BY <1>6 DEF NoMissedRendezvous
  <2>1. CASE r \in Range(b) /\ s \in Range(b)
    BY <1>1, <2>1 DEF NoMissedRendezvous
  <2>2. CASE r = current /\ s \in Range(b)
    BY <2>2
  <2>3. CASE r \in Range(b) /\ s = current
    BY <2>3
  <2>4. CASE r = current /\ s = current
    BY <2>4
  <2> QED
    BY <2>1, <2>2, <2>3, <2>4
<1>11. StartedRun'
  BY <1>2, <1>3, <1>6 DEF StartedRun, LiveTasks, Live, Blocked
<1>12. IdleReady'
  BY <1>1, <1>3, <1>8, TaskAssumption DEF IdleReady, Blocked
<1>13. UnstartedInert'
  <2> SUFFICES ASSUME NEW u \in Task, stage[u] \in {"created", "stacked", "setup", "stopped"}
               PROVE  kcall'[u] = kcall[u] /\ p0'[u] = p0[u]
    BY <1>1, <1>3 DEF UnstartedInert
  <2>1. u \in Range(b)
    BY <1>2 DEF LiveTasks, Live
  <2> QED
    BY <2>1
<1> QED
  BY <1>1, <1>3, <1>6, <1>9, <1>10, <1>11, <1>12, <1>13, KInvNext DEF TypeOK

(* KCALL_WAITEVENT. *)
LEMMA WaitEventInv ==
  ASSUME KInv, NEW bits \in MaskChoice, WaitEvent(bits)
  PROVE  KInv'
<1>1. /\ current \in Task /\ current \notin Range(blocked_q) /\ blocked_q \in Seq(Task)
      /\ Sorted(queue, current, blocked_q, prio, LiveTasks) /\ TypeOK
  BY KInvFacts DEF KInv
<1>2. /\ current # IdleTask /\ scheduler(queue, NULL) /\ UNCHANGED attributes
      /\ blocked_q' = Append(blocked_q, current)
      /\ kcall' = [kcall EXCEPT ![current] = "WAITEVENT"]
      /\ p0' = [p0 EXCEPT ![current] = p0[current]]
      /\ mask' = [mask EXCEPT ![current] = bits]
  BY DEF WaitEvent, Save, Calls
<1>3. /\ kcall' \in [Task -> Code] /\ p0' \in [Task -> Task \cup {TASK_ANY, NULL}]
      /\ mask' \in [Task -> SUBSET (Event \cup {PREEMPT})]
      /\ kcall'[current] = "WAITEVENT"
  BY <1>1, <1>2, EventAssumption DEF TypeOK, Code
<1>4. \A u \in Range(blocked_q) : u \in Task /\ kcall'[u] = kcall[u] /\ p0'[u] = p0[u]
  BY <1>1, <1>2, RangeTask DEF TypeOK
<1>5. /\ \A r \in Range(blocked_q) :
           ~Meet(r, kcall[r], p0[r], current, kcall'[current], p0'[current])
      /\ \A s \in Range(blocked_q) :
           ~Meet(current, kcall'[current], p0'[current], s, kcall[s], p0[s])
      /\ ~Meet(current, kcall'[current], p0'[current], current, kcall'[current], p0'[current])
  BY <1>3 DEF Meet
<1> QED
  BY <1>1, <1>2, <1>3, <1>4, <1>5, BlockInv

(* KCALL_SEND and KCALL_RECEIVE that find their partner: the contexts of   *)
(* the tasks left on blocked_q are as they were, the partner is ready.     *)
LEMMA WakeInv ==
  ASSUME KInv, NEW t \in Range(blocked_q), stage[t] = "started",
         blocked_q' = Q_REMV(blocked_q, t), scheduler(ReadyEnd(t), current),
         UNCHANGED <<attributes, kcall, mask>>,
         p0' \in [Task -> Task \cup {TASK_ANY, NULL}],
         \A u \in Range(blocked_q) \ {t} : p0'[u] = p0[u]
  PROVE  KInv'
<1>1. TypeOK /\ NoMissedRendezvous /\ StartedRun /\ IdleReady /\ UnstartedInert
  BY DEF KInv
<1>2. /\ current \in Task /\ current \in LiveTasks /\ current \notin Range(blocked_q)
      /\ \A u \in LiveTasks : u \notin Range(blocked_q) => stage[u] = "started"
  BY KInvFacts
<1>3. /\ prio' = prio /\ irqdis' = irqdis /\ stage' = stage /\ LiveTasks' = LiveTasks
      /\ kcall' = kcall /\ mask' = mask
  BY DEF attributes, LiveTasks, Live
<1>4. /\ Sorted(ReadyEnd(t), current, blocked_q', prio, LiveTasks)
      /\ Range(blocked_q') = Range(blocked_q) \ {t} /\ t \in Task /\ t # IdleTask
  BY WakeSorted
<1>5. Sorted(queue', current', blocked_q', prio', LiveTasks') /\ current' # NULL
  BY <1>2, <1>3, <1>4, SchedulerSorted
<1>6. NoMissedRendezvous'
  BY <1>1, <1>3, <1>4, QuietRendezvous
<1>7. StartedRun' /\ IdleReady'
  BY <1>1, <1>3, <1>4, TaskAssumption DEF StartedRun, IdleReady, Blocked, Live
<1>8. UnstartedInert'
  <2> SUFFICES ASSUME NEW u \in Task, stage[u] \in {"created", "stacked", "setup", "stopped"}
               PROVE  p0'[u] = p0[u]
    BY <1>1, <1>3 DEF UnstartedInert
  <2>1. u \in Range(blocked_q) /\ u # t
    BY <1>2 DEF LiveTasks, Live
  <2> QED
    BY <2>1
<1> QED
  BY <1>1, <1>3, <1>5, <1>6, <1>7, <1>8, KInvNext DEF TypeOK

(* The receiver that a sender finds is started: a task that is not has a   *)
(* context nobody meets, and a stopped client is not answered.             *)
LEMMA ReceiverStarted ==
  ASSUME KInv, NEW d \in Task, MaySendTo(d), NEW call, Receiver(call, d) # NULL
  PROVE  /\ Receiver(call, d) = d /\ d \in Range(blocked_q) /\ stage[d] = "started"
         /\ kcall[d] = "RECEIVE" /\ p0[d] \in {current, TASK_ANY}
<1> DEFINE r == Receiver(call, d)
<1>1. /\ blocked_q \in Seq(Task) /\ Range(blocked_q) \subseteq LiveTasks
      /\ TypeOK /\ UnstartedInert
  BY KInvFacts DEF KInv
<1>2. r \in Range(blocked_q) /\ r \in Task /\ Meet(r, kcall[r], p0[r], current, call, d)
  BY <1>1, FirstFacts DEF Receiver
<1> HIDE DEF r
<1>3. r = d /\ kcall[d] = "RECEIVE" /\ p0[d] \in {current, TASK_ANY}
  BY <1>2 DEF Meet
<1>4. stage[d] # "free"
  BY <1>1, <1>2, <1>3 DEF LiveTasks, Live
<1>5. stage[d] \notin {"stopped", "stacked"}
  <2> SUFFICES ASSUME stage[d] \in {"stopped", "stacked"} PROVE FALSE
    OBVIOUS
  <2>1. p0[d] \in Task
    BY <1>1, <1>3 DEF UnstartedInert
  <2> QED
    BY <1>3, <2>1, TaskAssumption DEF MaySendTo
<1>6. stage[d] \notin {"created", "setup"}
  BY <1>1, <1>3 DEF UnstartedInert
<1>7. stage[d] \in Stage
  BY <1>1 DEF TypeOK
<1> QED
  BY <1>2, <1>3, <1>4, <1>5, <1>6, <1>7 DEF Stage, r

(* CURRENT blocks in a message call that found nobody. *)
LEMMA BlockCallInv ==
  ASSUME KInv, Calls, NEW call \in Code, NEW pid \in Task \cup {TASK_ANY},
         Block(call, pid, blocked_q, queue),
         \A r \in Range(blocked_q) : ~Meet(r, kcall[r], p0[r], current, call, pid),
         \A s \in Range(blocked_q) : ~Meet(current, call, pid, s, kcall[s], p0[s])
  PROVE  KInv'
<1>1. /\ current \in Task /\ current \notin Range(blocked_q) /\ blocked_q \in Seq(Task)
      /\ Sorted(queue, current, blocked_q, prio, LiveTasks) /\ TypeOK
  BY KInvFacts DEF KInv
<1>2. /\ current # IdleTask /\ scheduler(queue, NULL) /\ UNCHANGED attributes
      /\ blocked_q' = Cons(current, blocked_q)
      /\ kcall' = [kcall EXCEPT ![current] = call]
      /\ p0' = [p0 EXCEPT ![current] = pid]
      /\ mask' = [mask EXCEPT ![current] = mask[current]]
  BY DEF Block, Save, Calls
<1>3. /\ kcall' \in [Task -> Code] /\ p0' \in [Task -> Task \cup {TASK_ANY, NULL}]
      /\ mask' \in [Task -> SUBSET (Event \cup {PREEMPT})]
      /\ kcall'[current] = call /\ p0'[current] = pid
  BY <1>1, <1>2 DEF TypeOK
<1>4. \A u \in Range(blocked_q) : u \in Task /\ kcall'[u] = kcall[u] /\ p0'[u] = p0[u]
  BY <1>1, <1>2, RangeTask DEF TypeOK
<1>5. /\ \A r \in Range(blocked_q) :
           ~Meet(r, kcall[r], p0[r], current, kcall'[current], p0'[current])
      /\ \A s \in Range(blocked_q) :
           ~Meet(current, kcall'[current], p0'[current], s, kcall[s], p0[s])
      /\ ~Meet(current, kcall'[current], p0'[current], current, kcall'[current], p0'[current])
  <2>1. ~Meet(current, call, pid, current, call, pid)
    BY DEF Meet
  <2> QED
    BY <1>3, <2>1
<1> QED
  BY <1>1, <1>2, <1>3, <1>4, <1>5, BlockInv

(* KCALL_SEND. *)
LEMMA SendInv ==
  ASSUME KInv, NEW d \in Task, Send(d)
  PROVE  KInv'
<1> DEFINE r == Receiver("SEND", d)
<1>1. /\ blocked_q \in Seq(Task) /\ TypeOK /\ current \in Task
      /\ current \notin Range(blocked_q)
  BY KInvFacts DEF KInv
<1>2. Calls /\ MaySendTo(d)
  BY DEF Send
<1>3. CASE r = NULL
  <2>1. Block("SEND", d, blocked_q, queue)
    BY <1>3 DEF Send
  <2>2. \A t \in Range(blocked_q) : ~Meet(t, kcall[t], p0[t], current, "SEND", d)
    BY <1>1, <1>3, FirstFacts, RangeTask DEF Receiver
  <2>3. \A s \in Range(blocked_q) : ~Meet(current, "SEND", d, s, kcall[s], p0[s])
    BY DEF Meet
  <2> QED
    BY <1>2, <2>1, <2>2, <2>3, BlockCallInv DEF Code
<1>4. CASE r # NULL
  <2>1. r = d /\ d \in Range(blocked_q) /\ stage[d] = "started"
    BY <1>2, <1>4, ReceiverStarted
  <2>2. /\ p0' = [p0 EXCEPT ![d] = current] /\ blocked_q' = Q_REMV(blocked_q, d)
        /\ scheduler(ReadyEnd(d), current) /\ UNCHANGED <<attributes, kcall, mask>>
    BY <1>4, <2>1 DEF Send
  <2>3. /\ p0' \in [Task -> Task \cup {TASK_ANY, NULL}]
        /\ \A u \in Range(blocked_q) \ {d} : p0'[u] = p0[u]
    BY <1>1, <2>2, RangeTask DEF TypeOK
  <2> QED
    BY <2>1, <2>2, <2>3, WakeInv
<1> QED
  BY <1>3, <1>4

(* KCALL_SENDREC. *)
LEMMA SendRecInv ==
  ASSUME KInv, NEW d \in Task, SendRec(d)
  PROVE  KInv'
<1> DEFINE r == Receiver("SENDREC", d)
<1>1. /\ blocked_q \in Seq(Task) /\ TypeOK /\ current \in Task
      /\ current \notin Range(blocked_q)
  BY KInvFacts DEF KInv
<1>2. Calls /\ MaySendTo(d)
  BY DEF SendRec
<1>3. CASE r = NULL
  <2>1. Block("SENDREC", d, blocked_q, queue)
    BY <1>3 DEF SendRec
  <2>2. \A t \in Range(blocked_q) : ~Meet(t, kcall[t], p0[t], current, "SENDREC", d)
    BY <1>1, <1>3, FirstFacts, RangeTask DEF Receiver
  <2>3. \A s \in Range(blocked_q) : ~Meet(current, "SENDREC", d, s, kcall[s], p0[s])
    BY DEF Meet
  <2> QED
    BY <1>2, <2>1, <2>2, <2>3, BlockCallInv DEF Code
<1>4. CASE r # NULL
  <2> DEFINE b == Q_REMV(blocked_q, d)
  <2>1. r = d /\ d \in Range(blocked_q) /\ stage[d] = "started" /\ kcall[d] = "RECEIVE"
    BY <1>2, <1>4, ReceiverStarted
  <2>2. /\ kcall' = [kcall EXCEPT ![current] = "RECEIVE"]
        /\ p0' = [p0 EXCEPT ![d] = current, ![current] = d]
        /\ blocked_q' = Cons(current, b) /\ scheduler(ReadyEnd(d), NULL)
        /\ UNCHANGED <<attributes, mask>>
    BY <1>4, <2>1 DEF SendRec
  <2>3. /\ Sorted(ReadyEnd(d), current, b, prio, LiveTasks)
        /\ Range(b) = Range(blocked_q) \ {d} /\ d # current
    BY <2>1, WakeSorted
  <2> HIDE DEF b, r
  <2>4. /\ kcall' \in [Task -> Code] /\ p0' \in [Task -> Task \cup {TASK_ANY, NULL}]
        /\ kcall'[current] = "RECEIVE" /\ p0'[current] = d
    BY <1>1, <2>2 DEF TypeOK, Code
  <2>5. \A u \in Range(b) : u \in Task /\ kcall'[u] = kcall[u] /\ p0'[u] = p0[u]
    BY <1>1, <2>2, <2>3, RangeTask DEF TypeOK
  <2>6. \A s \in Range(b) : ~Meet(current, "RECEIVE", d, s, kcall[s], p0[s])
    BY <2>3, TaskAssumption DEF Meet
  <2>7. \A u \in Range(b) : ~Meet(u, kcall[u], p0[u], current, "RECEIVE", d)
    BY DEF Meet
  <2>8. ~Meet(current, "RECEIVE", d, current, "RECEIVE", d)
    BY DEF Meet
  <2>9. mask' \in [Task -> SUBSET (Event \cup {PREEMPT})] /\ UNCHANGED attributes
    BY <1>1, <2>2 DEF TypeOK
  <2>10. \A u \in Range(blocked_q) \ Range(b) : stage[u] = "started"
    BY <2>1, <2>3
  <2>11. current # IdleTask
    BY <1>2 DEF Calls
  <2>12. /\ \A u \in Range(b) : ~Meet(u, kcall[u], p0[u], current, kcall'[current], p0'[current])
         /\ \A s \in Range(b) : ~Meet(current, kcall'[current], p0'[current], s, kcall[s], p0[s])
         /\ ~Meet(current, kcall'[current], p0'[current], current, kcall'[current], p0'[current])
    BY <2>4, <2>6, <2>7, <2>8
  <2>13. Range(b) \subseteq Range(blocked_q)
    BY <2>3
  <2> QED
    BY <2>2, <2>3, <2>4, <2>5, <2>9, <2>10, <2>11, <2>12, <2>13, BlockInv
<1> QED
  BY <1>3, <1>4

(* KCALL_RECEIVE. *)
LEMMA ReceiveInv ==
  ASSUME KInv, NEW src \in Task \cup {TASK_ANY}, Receive(src)
  PROVE  KInv'
<1> DEFINE s == Sender(src)
<1>1. /\ blocked_q \in Seq(Task) /\ current \in Task
      /\ current \notin Range(blocked_q) /\ Range(blocked_q) \subseteq LiveTasks
      /\ stage[current] = "started"
  BY KInvFacts
<1>2. /\ TypeOK /\ NoMissedRendezvous /\ StartedRun /\ IdleReady /\ UnstartedInert
      /\ CurrentSet /\ QueuesPartition
  BY DEF KInv
<1>3. Calls
  BY DEF Receive
<1>4. CASE s = NULL
  <2>1. Block("RECEIVE", src, blocked_q, queue)
    BY <1>4 DEF Receive
  <2>2. \A t \in Range(blocked_q) : ~Meet(current, "RECEIVE", src, t, kcall[t], p0[t])
    BY <1>1, <1>4, FirstFacts, RangeTask DEF Sender
  <2>3. \A t \in Range(blocked_q) : ~Meet(t, kcall[t], p0[t], current, "RECEIVE", src)
    BY DEF Meet
  <2> QED
    BY <1>3, <2>1, <2>2, <2>3, BlockCallInv DEF Code
<1>5. CASE s # NULL
  <2>1. /\ s \in Range(blocked_q) /\ s \in Task
        /\ Meet(current, "RECEIVE", src, s, kcall[s], p0[s])
    BY <1>1, <1>5, FirstFacts DEF Sender
  <2>2. /\ p0' = [p0 EXCEPT ![current] = s] /\ UNCHANGED <<attributes, mask>>
        /\ \/ /\ kcall[s] = "SENDREC" /\ kcall' = [kcall EXCEPT ![s] = "RECEIVE"]
              /\ UNCHANGED <<queue, current, blocked_q>>
           \/ /\ kcall[s] # "SENDREC" /\ blocked_q' = Q_REMV(blocked_q, s)
              /\ scheduler(ReadyEnd(s), current) /\ UNCHANGED kcall
    BY <1>5 DEF Receive
  <2> HIDE DEF s
  <2>3. kcall[s] \in {"SEND", "SENDREC"} /\ p0[s] = current /\ s # current
    BY <1>1, <2>1 DEF Meet
  <2>4. stage[s] = "started"
    <3>1. stage[s] \in Stage /\ stage[s] # "free"
      BY <1>1, <1>2, <2>1 DEF TypeOK, LiveTasks, Live
    <3>2. stage[s] \notin {"created", "stacked", "setup", "stopped"}
      BY <1>2, <2>1, <2>3 DEF UnstartedInert
    <3> QED
      BY <3>1, <3>2 DEF Stage
  <2>5. /\ p0' \in [Task -> Task \cup {TASK_ANY, NULL}]
        /\ \A u \in Range(blocked_q) : u \in Task /\ u # current /\ p0'[u] = p0[u]
        /\ \A u \in Task : u # current => p0'[u] = p0[u]
    BY <1>1, <1>2, <2>1, <2>2, RangeTask DEF TypeOK
  <2>6. CASE kcall[s] = "SENDREC"
    <3>1. /\ kcall' = [kcall EXCEPT ![s] = "RECEIVE"] /\ queue' = queue
          /\ current' = current /\ blocked_q' = blocked_q /\ mask' = mask
          /\ prio' = prio /\ irqdis' = irqdis /\ stage' = stage
      BY <2>2, <2>6 DEF attributes
    <3>2. /\ kcall' \in [Task -> Code] /\ kcall'[s] = "RECEIVE" /\ p0'[s] = current
          /\ \A u \in Task : u # s => kcall'[u] = kcall[u]
      BY <1>2, <2>1, <2>3, <2>5, <3>1 DEF TypeOK, Code
    <3>3. TypeOK'
      BY <1>2, <2>5, <3>1, <3>2 DEF TypeOK
    <3>4. QueuesPartition' /\ CurrentSet'
      BY <1>2, <3>1 DEF QueuesPartition, CurrentSet, LiveTasks, Live
    <3>5. StartedRun' /\ IdleReady'
      BY <1>2, <3>1 DEF StartedRun, IdleReady, Blocked, Live
    <3>6. UnstartedInert'
      <4> SUFFICES ASSUME NEW u \in Task, stage[u] \in {"created", "stacked", "setup", "stopped"}
                   PROVE  kcall'[u] = kcall[u] /\ p0'[u] = p0[u]
        BY <1>2, <3>1 DEF UnstartedInert
      <4>1. u # s /\ u # current
        BY <1>1, <2>4
      <4> QED
        BY <2>5, <3>2, <4>1
    <3>7. NoMissedRendezvous'
      <4> SUFFICES ASSUME NEW r \in Range(blocked_q), NEW u \in Range(blocked_q),
                          Meet(r, kcall'[r], p0'[r], u, kcall'[u], p0'[u])
                   PROVE  FALSE
        BY <3>1 DEF NoMissedRendezvous
      <4>1. kcall'[u] \in {"SEND", "SENDREC"} /\ p0'[u] = r /\ p0'[r] \in {u, TASK_ANY}
        BY DEF Meet
      <4>2. u # s /\ u # current /\ r # current
        BY <2>5, <3>2, <4>1
      <4>3. CASE r = s
        BY <2>5, <3>2, <4>1, <4>2, <4>3, TaskAssumption, <1>1
      <4>4. CASE r # s
        BY <1>2, <2>5, <3>2, <4>2, <4>4 DEF NoMissedRendezvous
      <4> QED
        BY <4>3, <4>4
    <3> QED
      BY <3>3, <3>4, <3>5, <3>6, <3>7 DEF KInv
  <2>7. CASE kcall[s] # "SENDREC"
    <3>1. /\ blocked_q' = Q_REMV(blocked_q, s) /\ scheduler(ReadyEnd(s), current)
          /\ UNCHANGED <<attributes, kcall, mask>>
      BY <2>2, <2>7
    <3> QED
      BY <2>1, <2>4, <2>5, <3>1, WakeInv
  <2> QED
    BY <2>6, <2>7
<1> QED
  BY <1>4, <1>5

(* An interrupt: CURRENT goes back to its ready queue, the waiter runs. *)
LEMMA InterruptInv ==
  ASSUME KInv, NEW e \in Event, Interrupt(e)
  PROVE  KInv'
<1> DEFINE w == Waiter(e)
<1>1. /\ blocked_q \in Seq(Task) /\ current \in Task /\ current \in LiveTasks
      /\ current \notin Range(blocked_q) /\ Range(blocked_q) \subseteq LiveTasks
      /\ Sorted(queue, current, blocked_q, prio, LiveTasks)
      /\ stage[current] = "started"
  BY KInvFacts
<1>2. TypeOK /\ NoMissedRendezvous /\ StartedRun /\ IdleReady /\ UnstartedInert
  BY DEF KInv
<1>3. /\ prio' = prio /\ irqdis' = irqdis /\ stage' = stage /\ kcall' = kcall /\ p0' = p0
      /\ LiveTasks' = LiveTasks
  BY DEF Interrupt, attributes, LiveTasks, Live
<1>4. UnstartedInert'
  BY <1>2, <1>3 DEF UnstartedInert
<1>5. CASE w = NULL
  <2>1. /\ queue' = queue /\ current' = current /\ blocked_q' = blocked_q /\ mask' = mask
    BY <1>5 DEF Interrupt
  <2> QED
    BY <1>3, <2>1 DEF KInv, TypeOK, QueuesPartition, CurrentSet, StartedRun, IdleReady,
                      UnstartedInert, NoMissedRendezvous, Live, Blocked
<1>6. CASE w # NULL
  <2>1. w \in Range(blocked_q) /\ w \in Task /\ kcall[w] = "WAITEVENT"
    BY <1>1, <1>6, FirstFacts DEF Waiter
  <2>2. /\ queue' = IF PREEMPT \in mask[w] THEN ReadyEnd(current) ELSE ReadyFront(current)
        /\ current' = w /\ blocked_q' = Q_REMV(blocked_q, w)
        /\ mask' = [mask EXCEPT ![w] = {e}]
    BY <1>6 DEF Interrupt
  <2> HIDE DEF w
  <2>3. Sorted(queue, NULL, blocked_q, prio, LiveTasks \ {current})
    BY <1>1, DetachCurrent
  <2>4. PICK s : /\ queue' = [queue EXCEPT ![prio[current]] = s]
                 /\ \/ s = Append(queue[prio[current]], current)
                    \/ s = Cons(current, queue[prio[current]])
    BY <2>2 DEF ReadyEnd, ReadyFront
  <2>5. Sorted(queue', NULL, blocked_q, prio, (LiveTasks \ {current}) \cup {current})
    <3>1. current \notin LiveTasks \ {current}
      OBVIOUS
    <3> QED
      BY <1>1, <2>3, <2>4, <3>1, AttachReady
  <2>6. (LiveTasks \ {current}) \cup {current} = LiveTasks
    BY <1>1
  <2>7. /\ Sorted(queue', NULL, blocked_q', prio, LiveTasks \ {w})
        /\ Range(blocked_q') = Range(blocked_q) \ {w} /\ w \in LiveTasks
    BY <2>1, <2>2, <2>5, <2>6, DetachBlocked
  <2>8. Sorted(queue', current', blocked_q', prio, (LiveTasks \ {w}) \cup {w})
    BY <2>1, <2>2, <2>7, AttachCurrent
  <2>9. (LiveTasks \ {w}) \cup {w} = LiveTasks /\ current' # NULL
    BY <2>1, <2>2, <2>7, TaskAssumption
  <2>10. stage[w] = "started"
    <3>1. stage[w] \in Stage /\ stage[w] # "free"
      BY <1>1, <1>2, <2>1 DEF TypeOK, LiveTasks, Live
    <3>2. stage[w] \notin {"created", "stacked", "setup", "stopped"}
      BY <1>2, <2>1 DEF UnstartedInert
    <3> QED
      BY <3>1, <3>2 DEF Stage
  <2>11. StartedRun' /\ IdleReady'
    BY <1>2, <1>3, <2>7, <2>10, TaskAssumption DEF StartedRun, IdleReady, Blocked, Live
  <2>12. NoMissedRendezvous'
    BY <1>2, <1>3, <2>7, QuietRendezvous
  <2>13. mask' \in [Task -> SUBSET (Event \cup {PREEMPT})]
    BY <1>2, <2>2 DEF TypeOK
  <2> QED
    BY <1>2, <1>3, <1>4, <2>8, <2>9, <2>11, <2>12, <2>13, KInvNext DEF TypeOK
<1> QED
  BY <1>5, <1>6

(* Every kernel call and every interrupt keeps the invariant, if           *)
(* unwritten context bytes hold none of the call codes.                    *)
LEMMA KernelNext ==
  ASSUME ResidueInert, KInv, [Next]_vars
  PROVE  KInv'
<1>1. CASE \E t \in Task : \E pr \in Prio \ {TASK_PRIO_IDLE} : CreateTask(t, pr)
  BY <1>1, CreateTaskInv
<1>2. CASE \E t \in Task : AllocateStack(t) \/ SetupTask(t) \/ StopTask(t)
  BY <1>2, PrepareInv
<1>3. CASE \E t \in Task : StartTask(t)
  BY <1>3, StartTaskInv
<1>4. CASE \E t \in Task : DeleteTask(t)
  BY <1>4, DeleteTaskInv
<1>5. CASE CreateTaskFails \/ GetPid \/ \E flag \in BOOLEAN : SetIrqDis(flag)
  BY <1>5, StayInv
<1>6. CASE ExitTask
  BY <1>6, ExitTaskInv
<1>7. CASE Yield
  BY <1>7, YieldInv
<1>8. CASE \E bits \in MaskChoice : WaitEvent(bits)
  BY <1>8, WaitEventInv
<1>9. CASE \E d \in Task \ {IdleTask} : Send(d)
  BY <1>9, SendInv
<1>10. CASE \E d \in Task \ {IdleTask} : SendRec(d)
  BY <1>10, SendRecInv
<1>11. CASE \E src \in Task \cup {TASK_ANY} : Receive(src)
  BY <1>11, ReceiveInv
<1>12. CASE \E e \in Event : Interrupt(e)
  BY <1>12, InterruptInv
<1>13. CASE UNCHANGED vars
  BY <1>13 DEF vars, KInv, TypeOK, QueuesPartition, CurrentSet, StartedRun, IdleReady,
               UnstartedInert, NoMissedRendezvous, Live, LiveTasks, Blocked
<1> QED
  BY <1>1, <1>2, <1>3, <1>4, <1>5, <1>6, <1>7, <1>8, <1>9, <1>10, <1>11, <1>12, <1>13
  DEF Next

(* The kernel's inductive invariant holds in every reachable state, for    *)
(* any set of tasks, number of priorities and set of interrupts, if        *)
(* unwritten context bytes hold none of the call codes.                    *)
THEOREM KernelInvariant == ASSUME ResidueInert PROVE Spec => []KInv
<1>1. KInv /\ [Next]_vars => KInv'
  BY KernelNext
<1> QED
  BY <1>1, KernelInit, PTL DEF Spec

(* Every task_t the kernel has is in exactly one queue, once               *)
(* (kernel.c:104-113, and every Q_REMV/Q_FRONT/Q_END of the kernel loop).  *)
THEOREM QueuesAlwaysPartition == ASSUME ResidueInert PROVE Spec => []QueuesPartition
<1>1. KInv => QueuesPartition
  BY DEF KInv
<1> QED
  BY <1>1, KernelInvariant, PTL

(* scheduler() always finds a task: "CURRENT must be set by here"          *)
(* (kernel.c:293).                                                         *)
THEOREM CurrentAlwaysSet == ASSUME ResidueInert PROVE Spec => []CurrentSet
<1>1. KInv => CurrentSet
  BY DEF KInv
<1> QED
  BY <1>1, KernelInvariant, PTL

(* No two blocked tasks are the two halves of a rendez-vous                *)
(* (kernel.c:229-256, 430-463).                                            *)
THEOREM RendezvousNeverMissed == ASSUME ResidueInert PROVE Spec => []NoMissedRendezvous
<1>1. KInv => NoMissedRendezvous
  BY DEF KInv
<1> QED
  BY <1>1, KernelInvariant, PTL

(* The types of the kernel's globals. *)
THEOREM KernelTypes == ASSUME ResidueInert PROVE Spec => []TypeOK
<1>1. KInv => TypeOK
  BY DEF KInv
<1> QED
  BY <1>1, KernelInvariant, PTL

-----------------------------------------------------------------------------
(* The kernel implements rendez-vous (module KernelIpc).  Each step of the *)
(* kernel changes what is seen of one task, or of two, as one step of Ipc  *)
(* does, or changes nothing that is seen.                                  *)

LEMMA StateOfFacts ==
  /\ \A bl, ca, pi : StateOf("free", bl, ca, pi) = [call |-> "ABSENT", peer |-> NULL]
  /\ \A st \in {"created", "stacked", "setup", "stopped"} : \A bl, ca, pi :
       StateOf(st, bl, ca, pi) = [call |-> "DORMANT", peer |-> NULL]
  /\ \A ca, pi : StateOf("started", FALSE, ca, pi) = [call |-> "RUNNING", peer |-> NULL]
  /\ \A ca, pi : StateOf("started", TRUE, ca, pi) =
       [call |-> ca, peer |-> IF ca = "WAITEVENT" THEN NULL ELSE pi]
BY DEF StateOf

(* What is seen of a task, before and after a step. *)
LEMMA SeenNow ==
  ASSUME NEW t
  PROVE  /\ stage[t] = "free" => TaskState(t) = Rendezvous!Absent
         /\ stage[t] \in {"created", "stacked", "setup", "stopped"} =>
              TaskState(t) = Rendezvous!Dormant
         /\ stage[t] = "started" /\ t \notin Range(blocked_q) => TaskState(t) = Rendezvous!Running
         /\ stage[t] = "started" /\ t \in Range(blocked_q) =>
              TaskState(t) = [call |-> kcall[t],
                              peer |-> IF kcall[t] = "WAITEVENT" THEN NULL ELSE p0[t]]
BY DEF TaskState, StateOf, Blocked, Rendezvous!Absent, Rendezvous!Dormant,
       Rendezvous!Running, Rendezvous!Is

LEMMA SeenNext ==
  ASSUME NEW t
  PROVE  /\ stage'[t] = "free" => TaskState(t)' = Rendezvous!Absent
         /\ stage'[t] \in {"created", "stacked", "setup", "stopped"} =>
              TaskState(t)' = Rendezvous!Dormant
         /\ stage'[t] = "started" /\ t \notin Range(blocked_q') =>
              TaskState(t)' = Rendezvous!Running
         /\ stage'[t] = "started" /\ t \in Range(blocked_q') =>
              TaskState(t)' = [call |-> kcall'[t],
                               peer |-> IF kcall'[t] = "WAITEVENT" THEN NULL ELSE p0'[t]]
BY DEF TaskState, StateOf, Blocked, Rendezvous!Absent, Rendezvous!Dormant,
       Rendezvous!Running, Rendezvous!Is

(* A step that changes what is seen of one task, and one that changes      *)
(* nothing that is seen.                                                   *)
LEMMA SeenFacts ==
  /\ Seen = [t \in Task |-> TaskState(t)]
  /\ Seen' = [t \in Task |-> TaskState(t)']
BY DEF Seen

LEMMA OneSeen ==
  ASSUME NEW t \in Task, NEW v, TaskState(t)' = v,
         \A u \in Task : u # t => TaskState(u)' = TaskState(u)
  PROVE  Seen' = [Seen EXCEPT ![t] = v]
BY SeenFacts

LEMMA NoneSeen ==
  ASSUME \A u \in Task : TaskState(u)' = TaskState(u)
  PROVE  Seen' = Seen
BY SeenFacts

(* Nothing is seen of a task whose stage and place are as before, whatever *)
(* its context shows while it runs or is not started.                      *)
LEMMA SameSeen ==
  ASSUME TypeOK, NEW u \in Task, stage'[u] = stage[u],
         u \in Range(blocked_q') <=> u \in Range(blocked_q),
         stage[u] = "started" /\ u \in Range(blocked_q) => kcall'[u] = kcall[u] /\ p0'[u] = p0[u]
  PROVE  TaskState(u)' = TaskState(u)
<1>1. stage[u] \in Stage
  BY DEF TypeOK
<1>2. CASE stage[u] = "started"
  BY <1>2, SeenNow, SeenNext
<1>3. CASE stage[u] # "started"
  BY <1>1, <1>3, SeenNow, SeenNext DEF Stage
<1> QED
  BY <1>2, <1>3

(* A step of a task is a step of Ipc, or changes nothing. *)
LEMMA StepSeen ==
  ASSUME NEW t \in Task, Rendezvous!Step(t)
  PROVE  [Rendezvous!Next]_Seen
BY DEF Rendezvous!Next

(* createtask(): the new task is seen, and does not run. *)
LEMMA CreateSeen ==
  ASSUME ResidueInert, KInv, NEW t \in Task, NEW pr \in Prio, CreateTask(t, pr)
  PROVE  [Rendezvous!Next]_Seen
<1>1. TypeOK /\ blocked_q \in Seq(Task) /\ Range(blocked_q) \subseteq LiveTasks
  BY KInvFacts DEF KInv
<1>2. /\ blocked_q' = Cons(t, blocked_q) /\ stage' = [stage EXCEPT ![t] = "created"]
      /\ stage[t] = "free" /\ Unwritten(t)
  BY DEF CreateTask, Live
<1>3. t \notin Range(blocked_q)
  BY <1>1, <1>2 DEF LiveTasks, Live
<1>4. Range(blocked_q') = Range(blocked_q) \cup {t}
  BY <1>1, <1>2, <1>3, ConsSet
<1>5. /\ stage'[t] = "created" /\ \A u \in Task : u # t => stage'[u] = stage[u]
  BY <1>1, <1>2 DEF TypeOK
<1>6. \A u \in Task : u # t => kcall'[u] = kcall[u] /\ p0'[u] = p0[u]
  BY <1>1, <1>2, UnwrittenFacts
<1>7. \A u \in Task : u # t => TaskState(u)' = TaskState(u)
  BY <1>1, <1>4, <1>5, <1>6, SameSeen
<1>8. Seen[t] = Rendezvous!Absent
  BY <1>2, SeenNow, SeenFacts
<1>9. TaskState(t)' = Rendezvous!Dormant
  BY <1>5, SeenNext
<1>10. Seen' = [Seen EXCEPT ![t] = Rendezvous!Dormant]
  BY <1>7, <1>9, OneSeen
<1> QED
  BY <1>8, <1>10, StepSeen DEF Rendezvous!Step, Rendezvous!Create

(* allocatestack() and setuptask() are not seen; stoptask() takes the task *)
(* out of its receive() from the caller.                                   *)
LEMMA PrepareSeen ==
  ASSUME ResidueInert, KInv, NEW t \in Task,
         AllocateStack(t) \/ SetupTask(t) \/ StopTask(t)
  PROVE  [Rendezvous!Next]_Seen
<1>1. TypeOK /\ current \in Task
  BY KInvFacts DEF KInv
<1>2. PICK st \in {"stacked", "setup", "stopped"} :
        /\ stage' = [stage EXCEPT ![t] = st] /\ blocked_q' = blocked_q
        /\ Unwritten(t) \/ UNCHANGED context
  BY DEF AllocateStack, SetupTask, StopTask
<1>3. /\ stage'[t] = st /\ \A u \in Task : u # t => stage'[u] = stage[u]
  BY <1>1, <1>2 DEF TypeOK
<1>4. \A u \in Task : u # t => kcall'[u] = kcall[u] /\ p0'[u] = p0[u]
  BY <1>1, <1>2, UnwrittenFacts DEF context
<1>5. \A u \in Task : u # t => TaskState(u)' = TaskState(u)
  BY <1>1, <1>2, <1>3, <1>4, SameSeen
<1>6. TaskState(t)' = Rendezvous!Dormant
  BY <1>3, SeenNext
<1>7. CASE AllocateStack(t) \/ SetupTask(t)
  <2>1. stage[t] \in {"created", "stacked", "stopped"}
    BY <1>7 DEF AllocateStack, SetupTask
  <2>2. TaskState(t) = Rendezvous!Dormant
    BY <2>1, SeenNow
  <2> QED
    BY <1>5, <1>6, <2>2, NoneSeen
<1>8. CASE StopTask(t)
  <2>1. /\ stage[t] = "started" /\ t \in Range(blocked_q)
        /\ kcall[t] = "RECEIVE" /\ p0[t] = current
    BY <1>8 DEF StopTask
  <2>2. Seen[t] = Rendezvous!Is("RECEIVE", current)
    BY <2>1, SeenNow, SeenFacts DEF Rendezvous!Is
  <2>3. Seen' = [Seen EXCEPT ![t] = Rendezvous!Dormant]
    BY <1>5, <1>6, OneSeen
  <2>4. Rendezvous!Stop(t, current)
    BY <2>2, <2>3 DEF Rendezvous!Stop
  <2> QED
    BY <1>1, <2>4, StepSeen DEF Rendezvous!Step
<1> QED
  BY <1>7, <1>8

(* starttask(): the task runs. *)
LEMMA StartSeen ==
  ASSUME KInv, NEW t \in Task, StartTask(t)
  PROVE  [Rendezvous!Next]_Seen
<1>1. /\ TypeOK /\ \A u \in LiveTasks : u \notin Range(blocked_q) => stage[u] = "started"
  BY KInvFacts DEF KInv
<1>2. /\ stage[t] = "setup" /\ stage' = [stage EXCEPT ![t] = "started"]
      /\ blocked_q' = Q_REMV(blocked_q, t) /\ kcall' = kcall /\ p0' = p0
  BY DEF StartTask, context
<1>3. t \in Range(blocked_q)
  BY <1>1, <1>2 DEF LiveTasks, Live
<1>4. Range(blocked_q') = Range(blocked_q) \ {t}
  BY <1>2, <1>3, WakeSorted
<1>5. /\ stage'[t] = "started" /\ \A u \in Task : u # t => stage'[u] = stage[u]
  BY <1>1, <1>2 DEF TypeOK
<1>6. \A u \in Task : u # t => TaskState(u)' = TaskState(u)
  BY <1>1, <1>2, <1>4, <1>5, SameSeen
<1>7. Seen[t] = Rendezvous!Dormant
  BY <1>2, SeenNow, SeenFacts
<1>8. TaskState(t)' = Rendezvous!Running
  BY <1>4, <1>5, SeenNext
<1>9. Seen' = [Seen EXCEPT ![t] = Rendezvous!Running]
  BY <1>6, <1>8, OneSeen
<1> QED
  BY <1>7, <1>9, StepSeen DEF Rendezvous!Step, Rendezvous!Start

(* deletetask() and exittask(): the task is gone. *)
LEMMA DeleteSeen ==
  ASSUME KInv, NEW t \in Task, DeleteTask(t)
  PROVE  [Rendezvous!Next]_Seen
<1>1. /\ TypeOK /\ \A u \in LiveTasks : u \notin Range(blocked_q) => stage[u] = "started"
  BY KInvFacts DEF KInv
<1>2. /\ stage[t] = "stopped" /\ stage' = [stage EXCEPT ![t] = "free"]
      /\ blocked_q' = Q_REMV(blocked_q, t) /\ kcall' = kcall /\ p0' = p0
  BY DEF DeleteTask, context
<1>3. t \in Range(blocked_q)
  BY <1>1, <1>2 DEF LiveTasks, Live
<1>4. Range(blocked_q') = Range(blocked_q) \ {t}
  BY <1>2, <1>3, WakeSorted
<1>5. /\ stage'[t] = "free" /\ \A u \in Task : u # t => stage'[u] = stage[u]
  BY <1>1, <1>2 DEF TypeOK
<1>6. \A u \in Task : u # t => TaskState(u)' = TaskState(u)
  BY <1>1, <1>2, <1>4, <1>5, SameSeen
<1>7. Seen[t] = Rendezvous!Dormant
  BY <1>2, SeenNow, SeenFacts
<1>8. TaskState(t)' = Rendezvous!Absent
  BY <1>5, SeenNext
<1>9. Seen' = [Seen EXCEPT ![t] = Rendezvous!Absent]
  BY <1>6, <1>8, OneSeen
<1> QED
  BY <1>7, <1>9, StepSeen DEF Rendezvous!Step, Rendezvous!Delete

LEMMA ExitSeen ==
  ASSUME KInv, NEW c \in Task, c = current, ExitTask
  PROVE  [Rendezvous!Next]_Seen
<1>1. TypeOK /\ stage[c] = "started" /\ c \notin Range(blocked_q)
  BY KInvFacts DEF KInv
<1>2. /\ stage' = [stage EXCEPT ![c] = "free"] /\ blocked_q' = blocked_q
      /\ kcall' = kcall /\ p0' = p0
  BY DEF ExitTask, context
<1>3. stage'[c] = "free" /\ \A u \in Task : u # c => stage'[u] = stage[u]
  BY <1>1, <1>2 DEF TypeOK
<1>4. \A u \in Task : u # c => TaskState(u)' = TaskState(u)
  BY <1>1, <1>2, <1>3, SameSeen
<1>5. Seen[c] = Rendezvous!Running
  BY <1>1, SeenNow, SeenFacts
<1>6. TaskState(c)' = Rendezvous!Absent
  BY <1>3, SeenNext
<1>7. Seen' = [Seen EXCEPT ![c] = Rendezvous!Absent]
  BY <1>4, <1>6, OneSeen
<1> QED
  BY <1>5, <1>7, StepSeen DEF Rendezvous!Step, Rendezvous!Exit

(* Calls that change no more than the caller's registers, its interrupt    *)
(* flag or its place among the ready tasks are not seen.                   *)
LEMMA StaySeen ==
  ASSUME KInv,
         \/ CreateTaskFails \/ GetPid \/ Yield
         \/ \E flag \in BOOLEAN : SetIrqDis(flag)
  PROVE  Seen' = Seen
<1>1. TypeOK /\ current \in Task /\ current \notin Range(blocked_q)
  BY KInvFacts DEF KInv
<1>2. /\ stage' = stage /\ blocked_q' = blocked_q /\ kcall' = kcall
      /\ \/ p0' = p0 \/ p0' = [p0 EXCEPT ![current] = NULL]
         \/ p0' = [p0 EXCEPT ![current] = current]
  BY DEF CreateTaskFails, GetPid, Yield, SetIrqDis, attributes, context
<1>3. \A u \in Task : u # current => p0'[u] = p0[u]
  BY <1>1, <1>2 DEF TypeOK
<1>4. \A u \in Task : TaskState(u)' = TaskState(u)
  BY <1>1, <1>2, <1>3, SameSeen
<1> QED
  BY <1>4, NoneSeen

(* waitevent() and the interrupt that ends it. *)
LEMMA WaitEventSeen ==
  ASSUME KInv, NEW c \in Task, c = current, NEW bits \in MaskChoice, WaitEvent(bits)
  PROVE  [Rendezvous!Next]_Seen
<1>1. /\ TypeOK /\ blocked_q \in Seq(Task) /\ stage[c] = "started" /\ c \notin Range(blocked_q)
      /\ IsInjective(blocked_q)
  BY KInvFacts DEF KInv, QueuesPartition, Placed
<1>2. /\ stage' = stage /\ blocked_q' = Append(blocked_q, c)
      /\ kcall' = [kcall EXCEPT ![c] = "WAITEVENT"] /\ p0' = [p0 EXCEPT ![c] = p0[c]]
  BY DEF WaitEvent, Save, attributes
<1>3. Range(blocked_q') = Range(blocked_q) \cup {c}
  BY <1>1, <1>2, AppendSet
<1>4. /\ kcall'[c] = "WAITEVENT"
      /\ \A u \in Task : u # c => kcall'[u] = kcall[u] /\ p0'[u] = p0[u]
  BY <1>1, <1>2 DEF TypeOK
<1>5. \A u \in Task : u # c => TaskState(u)' = TaskState(u)
  BY <1>1, <1>2, <1>3, <1>4, SameSeen
<1>6. Seen[c] = Rendezvous!Running
  BY <1>1, SeenNow, SeenFacts
<1>7. TaskState(c)' = Rendezvous!Waits
  BY <1>1, <1>2, <1>3, <1>4, SeenNext DEF Rendezvous!Waits, Rendezvous!Is
<1>8. Seen' = [Seen EXCEPT ![c] = Rendezvous!Waits]
  BY <1>5, <1>7, OneSeen
<1> QED
  BY <1>6, <1>8, StepSeen DEF Rendezvous!Step, Rendezvous!WaitEvent

LEMMA InterruptSeen ==
  ASSUME KInv, NEW e \in Event, Interrupt(e)
  PROVE  [Rendezvous!Next]_Seen
<1> DEFINE w == Waiter(e)
<1>1. /\ TypeOK /\ UnstartedInert /\ blocked_q \in Seq(Task)
      /\ Range(blocked_q) \subseteq LiveTasks
  BY KInvFacts DEF KInv
<1>2. stage' = stage /\ kcall' = kcall /\ p0' = p0
  BY DEF Interrupt, attributes
<1>3. CASE w = NULL
  <2>1. blocked_q' = blocked_q
    BY <1>3 DEF Interrupt
  <2>2. \A u \in Task : TaskState(u)' = TaskState(u)
    BY <1>1, <1>2, <2>1, SameSeen
  <2> QED
    BY <2>2, NoneSeen
<1>4. CASE w # NULL
  <2>1. PICK t \in Task : /\ t \in Range(blocked_q) /\ kcall[t] = "WAITEVENT"
                          /\ blocked_q' = Q_REMV(blocked_q, t)
    BY <1>1, <1>4, FirstFacts DEF Waiter, Interrupt
  <2>2. stage[t] = "started"
    <3>1. stage[t] \in Stage /\ stage[t] # "free"
      BY <1>1, <2>1 DEF TypeOK, LiveTasks, Live
    <3>2. stage[t] \notin {"created", "stacked", "setup", "stopped"}
      BY <1>1, <2>1 DEF UnstartedInert
    <3> QED
      BY <3>1, <3>2 DEF Stage
  <2>3. Range(blocked_q') = Range(blocked_q) \ {t}
    BY <2>1, WakeSorted
  <2>4. \A u \in Task : u # t => TaskState(u)' = TaskState(u)
    BY <1>1, <1>2, <2>3, SameSeen
  <2>5. Seen[t] = Rendezvous!Waits
    BY <2>1, <2>2, SeenNow, SeenFacts DEF Rendezvous!Waits, Rendezvous!Is
  <2>6. TaskState(t)' = Rendezvous!Running
    BY <1>2, <2>2, <2>3, SeenNext
  <2>7. Seen' = [Seen EXCEPT ![t] = Rendezvous!Running]
    BY <2>4, <2>6, OneSeen
  <2> QED
    BY <2>5, <2>7, StepSeen DEF Rendezvous!Step, Rendezvous!Wake
<1> QED
  BY <1>3, <1>4

(* A call that blocks: CURRENT is seen in it, and nobody else changes. *)
LEMMA BlockSeen ==
  ASSUME KInv, NEW c \in Task, c = current, NEW call \in {"SEND", "SENDREC", "RECEIVE"},
         NEW pid, Block(call, pid, blocked_q, queue)
  PROVE  /\ Seen' = [Seen EXCEPT ![c] = Rendezvous!Is(call, pid)]
         /\ Seen[c] = Rendezvous!Running
<1>1. /\ TypeOK /\ blocked_q \in Seq(Task) /\ stage[c] = "started" /\ c \notin Range(blocked_q)
      /\ IsInjective(blocked_q)
  BY KInvFacts DEF KInv, QueuesPartition, Placed
<1>2. /\ stage' = stage /\ blocked_q' = Cons(c, blocked_q)
      /\ kcall' = [kcall EXCEPT ![c] = call] /\ p0' = [p0 EXCEPT ![c] = pid]
  BY DEF Block, Save, attributes
<1>3. Range(blocked_q') = Range(blocked_q) \cup {c}
  BY <1>1, <1>2, ConsSet
<1>4. /\ kcall'[c] = call /\ p0'[c] = pid
      /\ \A u \in Task : u # c => kcall'[u] = kcall[u] /\ p0'[u] = p0[u]
  BY <1>1, <1>2 DEF TypeOK
<1>5. \A u \in Task : u # c => TaskState(u)' = TaskState(u)
  BY <1>1, <1>2, <1>3, <1>4, SameSeen
<1>6. Seen[c] = Rendezvous!Running
  BY <1>1, SeenNow, SeenFacts
<1>7. TaskState(c)' = Rendezvous!Is(call, pid)
  BY <1>1, <1>2, <1>3, <1>4, SeenNext DEF Rendezvous!Is
<1> QED
  BY <1>5, <1>6, <1>7, OneSeen

(* Who is seen to accept or to offer a message is a blocked task that      *)
(* satisfies the rendez-vous criteria of delivermsg().                     *)
LEMMA AcceptsSeen ==
  ASSUME KInv, NEW c, NEW d \in Task, NEW call \in {"SEND", "SENDREC"}
  PROVE  /\ Rendezvous!Accepts(d, c) =>
              d \in Range(blocked_q) /\ Meet(d, kcall[d], p0[d], c, call, d)
         /\ Rendezvous!Offers(d, c) =>
              /\ d \in Range(blocked_q) /\ kcall[d] \in {"SEND", "SENDREC"} /\ p0[d] = c
         /\ d \in Range(blocked_q) /\ stage[d] = "started" /\ kcall[d] # "WAITEVENT" =>
              Seen[d] = Rendezvous!Is(kcall[d], p0[d])
<1>1. stage[d] \in Stage
  BY DEF KInv, TypeOK
<1>2. Seen[d] = TaskState(d)
  BY SeenFacts
<1>3. CASE stage[d] = "started" /\ d \in Range(blocked_q)
  <2>1. Seen[d] = [call |-> kcall[d], peer |-> IF kcall[d] = "WAITEVENT" THEN NULL ELSE p0[d]]
    BY <1>2, <1>3, SeenNow
  <2> QED
    BY <1>3, <2>1 DEF Rendezvous!Accepts, Rendezvous!Offers, Meet, Rendezvous!Is
<1>4. CASE ~(stage[d] = "started" /\ d \in Range(blocked_q))
  <2>1. Seen[d] \in {Rendezvous!Absent, Rendezvous!Dormant, Rendezvous!Running}
    BY <1>1, <1>2, <1>4, SeenNow DEF Stage
  <2> QED
    BY <1>4, <2>1 DEF Rendezvous!Accepts, Rendezvous!Offers, Rendezvous!Is,
                      Rendezvous!Absent, Rendezvous!Dormant, Rendezvous!Running
<1> QED
  BY <1>3, <1>4

(* send(): the receiver runs, or the sender waits for it. *)
LEMMA SendSeen ==
  ASSUME KInv, NEW c \in Task, c = current, NEW d \in Task, Send(d)
  PROVE  [Rendezvous!Next]_Seen
<1> DEFINE r == Receiver("SEND", d)
<1>1. /\ TypeOK /\ blocked_q \in Seq(Task) /\ stage[c] = "started" /\ c \notin Range(blocked_q)
  BY KInvFacts DEF KInv
<1>2. Seen[c] = Rendezvous!Running
  BY <1>1, SeenNow, SeenFacts
<1>3. CASE r = NULL
  <2>1. Block("SEND", d, blocked_q, queue)
    BY <1>3 DEF Send
  <2>2. ~Rendezvous!Accepts(d, c)
    BY <1>1, <1>3, FirstFacts, AcceptsSeen DEF Receiver
  <2>3. Seen' = [Seen EXCEPT ![c] = Rendezvous!Is("SEND", d)]
    BY <2>1, BlockSeen
  <2>4. Rendezvous!Send(c, d)
    BY <1>2, <2>2, <2>3 DEF Rendezvous!Send
  <2> QED
    BY <1>2, <2>4, StepSeen DEF Rendezvous!Step
<1>4. CASE r # NULL
  <2>1. /\ r = d /\ d \in Range(blocked_q) /\ stage[d] = "started"
        /\ kcall[d] = "RECEIVE" /\ p0[d] \in {c, TASK_ANY}
    BY <1>4, ReceiverStarted DEF Send
  <2>2. /\ p0' = [p0 EXCEPT ![d] = c] /\ blocked_q' = Q_REMV(blocked_q, d)
        /\ stage' = stage /\ kcall' = kcall
    BY <1>4, <2>1 DEF Send, attributes
  <2> HIDE DEF r
  <2>3. Range(blocked_q') = Range(blocked_q) \ {d}
    BY <2>1, <2>2, WakeSorted
  <2>4. \A u \in Task : u # d => p0'[u] = p0[u]
    BY <1>1, <2>2 DEF TypeOK
  <2>5. \A u \in Task : u # d => TaskState(u)' = TaskState(u)
    BY <1>1, <2>2, <2>3, <2>4, SameSeen
  <2>6. Seen[d] = Rendezvous!Is("RECEIVE", p0[d])
    BY <2>1, AcceptsSeen
  <2>7. Rendezvous!Accepts(d, c)
    BY <2>1, <2>6 DEF Rendezvous!Accepts, Rendezvous!Is
  <2>8. TaskState(d)' = Rendezvous!Running
    BY <2>1, <2>2, <2>3, SeenNext
  <2>9. Seen' = [Seen EXCEPT ![d] = Rendezvous!Running]
    BY <2>5, <2>8, OneSeen
  <2>10. Rendezvous!Send(c, d)
    BY <1>2, <2>7, <2>9 DEF Rendezvous!Send
  <2> QED
    BY <1>2, <2>10, StepSeen DEF Rendezvous!Step
<1> QED
  BY <1>3, <1>4

(* sendrec(): the receiver runs and the sender waits for its answer, or    *)
(* the sender waits for it to receive.                                     *)
LEMMA SendRecSeen ==
  ASSUME KInv, NEW c \in Task, c = current, NEW d \in Task, SendRec(d)
  PROVE  [Rendezvous!Next]_Seen
<1> DEFINE r == Receiver("SENDREC", d)
<1>1. /\ TypeOK /\ blocked_q \in Seq(Task) /\ stage[c] = "started" /\ c \notin Range(blocked_q)
  BY KInvFacts DEF KInv
<1>2. Seen[c] = Rendezvous!Running
  BY <1>1, SeenNow, SeenFacts
<1>3. CASE r = NULL
  <2>1. Block("SENDREC", d, blocked_q, queue)
    BY <1>3 DEF SendRec
  <2>2. ~Rendezvous!Accepts(d, c)
    BY <1>1, <1>3, FirstFacts, AcceptsSeen DEF Receiver
  <2>3. Seen' = [Seen EXCEPT ![c] = Rendezvous!Is("SENDREC", d)]
    BY <2>1, BlockSeen
  <2>4. Rendezvous!SendRec(c, d)
    BY <1>2, <2>2, <2>3 DEF Rendezvous!SendRec
  <2> QED
    BY <1>2, <2>4, StepSeen DEF Rendezvous!Step
<1>4. CASE r # NULL
  <2> DEFINE b == Q_REMV(blocked_q, d)
  <2>1. /\ r = d /\ d \in Range(blocked_q) /\ stage[d] = "started"
        /\ kcall[d] = "RECEIVE" /\ p0[d] \in {c, TASK_ANY}
    BY <1>4, ReceiverStarted DEF SendRec
  <2>2. /\ kcall' = [kcall EXCEPT ![c] = "RECEIVE"]
        /\ p0' = [p0 EXCEPT ![d] = c, ![c] = d]
        /\ blocked_q' = Cons(c, b) /\ stage' = stage
    BY <1>4, <2>1 DEF SendRec, attributes
  <2>3. /\ Range(b) = Range(blocked_q) \ {d} /\ d # c /\ b \in Seq(Task) /\ IsInjective(b)
    BY <2>1, WakeSorted DEF Sorted, Placed
  <2> HIDE DEF r, b
  <2>4. Range(blocked_q') = Range(b) \cup {c}
    BY <1>1, <2>2, <2>3, ConsSet
  <2>5. /\ kcall'[c] = "RECEIVE" /\ p0'[c] = d
        /\ \A u \in Task : u # c /\ u # d => kcall'[u] = kcall[u] /\ p0'[u] = p0[u]
    BY <1>1, <2>2 DEF TypeOK
  <2>6. \A u \in Task : u # c /\ u # d => TaskState(u)' = TaskState(u)
    BY <1>1, <2>2, <2>3, <2>4, <2>5, SameSeen
  <2>7. Seen[d] = Rendezvous!Is("RECEIVE", p0[d])
    BY <2>1, AcceptsSeen
  <2>8. Rendezvous!Accepts(d, c)
    BY <2>1, <2>7 DEF Rendezvous!Accepts, Rendezvous!Is
  <2>9. TaskState(d)' = Rendezvous!Running
    BY <2>1, <2>2, <2>3, <2>4, SeenNext
  <2>10. TaskState(c)' = Rendezvous!Is("RECEIVE", d)
    <3>1. stage'[c] = "started" /\ c \in Range(blocked_q')
      BY <1>1, <2>2, <2>4
    <3>2. TaskState(c)' = [call |-> kcall'[c],
                           peer |-> IF kcall'[c] = "WAITEVENT" THEN NULL ELSE p0'[c]]
      BY <3>1, SeenNext
    <3> QED
      BY <2>5, <3>2 DEF Rendezvous!Is
  <2>11. Seen' = [Seen EXCEPT ![d] = Rendezvous!Running, ![c] = Rendezvous!Is("RECEIVE", d)]
    BY <2>3, <2>6, <2>9, <2>10, SeenFacts
  <2>12. Rendezvous!SendRec(c, d)
    BY <1>2, <2>8, <2>11 DEF Rendezvous!SendRec
  <2> QED
    BY <1>2, <2>12, StepSeen DEF Rendezvous!Step
<1> QED
  BY <1>3, <1>4

(* receive(): takes the message of a task that offers one, or waits. *)
LEMMA ReceiveSeen ==
  ASSUME KInv, NEW c \in Task, c = current, NEW src \in Task \cup {TASK_ANY}, Receive(src)
  PROVE  [Rendezvous!Next]_Seen
<1> DEFINE senders == {t \in Task : Rendezvous!Offers(t, c) /\ src \in {t, TASK_ANY}}
<1>1. /\ TypeOK /\ UnstartedInert /\ blocked_q \in Seq(Task) /\ Range(blocked_q) \subseteq LiveTasks
      /\ stage[c] = "started" /\ c \notin Range(blocked_q)
  BY KInvFacts DEF KInv
<1>2. Seen[c] = Rendezvous!Running
  BY <1>1, SeenNow, SeenFacts
<1>3. CASE Sender(src) = NULL
  <2>1. Block("RECEIVE", src, blocked_q, queue)
    BY <1>3 DEF Receive
  <2>2. ASSUME NEW t \in senders PROVE FALSE
    <3>1. t \in Range(blocked_q) /\ kcall[t] \in {"SEND", "SENDREC"} /\ p0[t] = c
      BY AcceptsSeen
    <3>2. Meet(current, "RECEIVE", src, t, kcall[t], p0[t])
      BY <3>1 DEF Meet
    <3> QED
      BY <1>1, <1>3, <3>1, <3>2, FirstFacts DEF Sender
  <2>3. Seen' = [Seen EXCEPT ![c] = Rendezvous!Is("RECEIVE", src)]
    BY <2>1, BlockSeen
  <2>4. Rendezvous!Receive(c, src)
    BY <1>2, <2>2, <2>3 DEF Rendezvous!Receive
  <2> QED
    BY <1>2, <2>4, StepSeen DEF Rendezvous!Step
<1>4. CASE Sender(src) # NULL
  <2>1. PICK s \in Task :
          /\ s = Sender(src) /\ s \in Range(blocked_q)
          /\ Meet(current, "RECEIVE", src, s, kcall[s], p0[s])
    BY <1>1, <1>4, FirstFacts DEF Sender
  <2>2. /\ p0' = [p0 EXCEPT ![c] = s] /\ stage' = stage
        /\ \/ /\ kcall[s] = "SENDREC" /\ kcall' = [kcall EXCEPT ![s] = "RECEIVE"]
              /\ blocked_q' = blocked_q
           \/ /\ kcall[s] # "SENDREC" /\ blocked_q' = Q_REMV(blocked_q, s)
              /\ kcall' = kcall
    BY <1>4, <2>1 DEF Receive, attributes
  <2>3. kcall[s] \in {"SEND", "SENDREC"} /\ p0[s] = c /\ s # c /\ src \in {s, TASK_ANY}
    BY <1>1, <2>1 DEF Meet
  <2>4. stage[s] = "started"
    <3>1. stage[s] \in Stage /\ stage[s] # "free"
      BY <1>1, <2>1 DEF TypeOK, LiveTasks, Live
    <3>2. stage[s] \notin {"created", "stacked", "setup", "stopped"}
      BY <1>1, <2>3 DEF UnstartedInert
    <3> QED
      BY <3>1, <3>2 DEF Stage
  <2>5. Seen[s] = Rendezvous!Is(kcall[s], c)
    BY <2>1, <2>3, <2>4, AcceptsSeen
  <2>6. s \in senders
    BY <2>3, <2>5 DEF Rendezvous!Offers, Rendezvous!Is
  <2>7. p0'[s] = c /\ \A u \in Task : u # c => p0'[u] = p0[u]
    BY <1>1, <2>2, <2>3 DEF TypeOK
  <2>8. ASSUME NEW v, TaskState(s)' = v,
               v = IF kcall[s] = "SENDREC" THEN Rendezvous!Is("RECEIVE", c) ELSE Rendezvous!Running,
               \A u \in Task : u # s => TaskState(u)' = TaskState(u)
        PROVE  [Rendezvous!Next]_Seen
    <3>1. Seen' = [Seen EXCEPT ![s] = v]
      BY <2>8, OneSeen
    <3>2. Seen[s].call = kcall[s]
      BY <2>5 DEF Rendezvous!Is
    <3>3. Seen' = [Seen EXCEPT ![s] = IF @.call = "SENDREC" THEN Rendezvous!Is("RECEIVE", c)
                                      ELSE Rendezvous!Running]
      BY <2>8, <3>1, <3>2, SeenFacts
    <3>4. Rendezvous!Receive(c, src)
      BY <1>2, <2>6, <3>3 DEF Rendezvous!Receive
    <3> QED
      BY <1>2, <3>4, StepSeen DEF Rendezvous!Step
  <2>9. CASE kcall[s] = "SENDREC"
    <3>1. /\ blocked_q' = blocked_q /\ kcall'[s] = "RECEIVE"
          /\ \A u \in Task : u # s => kcall'[u] = kcall[u]
      BY <1>1, <2>2, <2>9 DEF TypeOK
    <3>2. \A u \in Task : u # s => TaskState(u)' = TaskState(u)
      BY <1>1, <2>2, <2>7, <3>1, SameSeen
    <3>3. TaskState(s)' = Rendezvous!Is("RECEIVE", c)
      BY <2>1, <2>2, <2>4, <2>7, <3>1, SeenNext DEF Rendezvous!Is
    <3> QED
      BY <2>8, <2>9, <3>2, <3>3
  <2>10. CASE kcall[s] # "SENDREC"
    <3>1. blocked_q' = Q_REMV(blocked_q, s) /\ kcall' = kcall
      BY <2>2, <2>10
    <3>2. Range(blocked_q') = Range(blocked_q) \ {s}
      BY <2>1, <3>1, WakeSorted
    <3>3. \A u \in Task : u # s => TaskState(u)' = TaskState(u)
      BY <1>1, <2>2, <2>7, <3>1, <3>2, SameSeen
    <3>4. TaskState(s)' = Rendezvous!Running
      BY <2>2, <2>4, <3>2, SeenNext
    <3> QED
      BY <2>8, <2>10, <3>3, <3>4
  <2> QED
    BY <2>9, <2>10
<1> QED
  BY <1>3, <1>4

(* A step that leaves the kernel as it is leaves what is seen. *)
LEMMA IdleSeen ==
  ASSUME UNCHANGED vars PROVE Seen' = Seen
BY DEF vars, Seen, TaskState, Blocked

(* Every step of the kernel is a step of the abstract rendez-vous, or is   *)
(* not seen.                                                               *)
LEMMA NextSeen ==
  ASSUME ResidueInert, KInv, [Next]_vars
  PROVE  [Rendezvous!Next]_Seen
<1>0. PICK c \in Task : c = current
  BY KInvFacts
<1>1. CASE \E t \in Task : \E pr \in Prio \ {TASK_PRIO_IDLE} : CreateTask(t, pr)
  BY <1>1, CreateSeen
<1>2. CASE \E t \in Task : AllocateStack(t) \/ SetupTask(t) \/ StopTask(t)
  BY <1>2, PrepareSeen
<1>3. CASE \E t \in Task : StartTask(t)
  BY <1>3, StartSeen
<1>4. CASE \E t \in Task : DeleteTask(t)
  BY <1>4, DeleteSeen
<1>5. CASE CreateTaskFails \/ GetPid \/ Yield \/ \E flag \in BOOLEAN : SetIrqDis(flag)
  BY <1>5, StaySeen
<1>6. CASE ExitTask
  BY <1>0, <1>6, ExitSeen
<1>7. CASE \E bits \in MaskChoice : WaitEvent(bits)
  BY <1>0, <1>7, WaitEventSeen
<1>8. CASE \E d \in Task \ {IdleTask} : Send(d)
  BY <1>0, <1>8, SendSeen
<1>9. CASE \E d \in Task \ {IdleTask} : SendRec(d)
  BY <1>0, <1>9, SendRecSeen
<1>10. CASE \E src \in Task \cup {TASK_ANY} : Receive(src)
  BY <1>0, <1>10, ReceiveSeen
<1>11. CASE \E e \in Event : Interrupt(e)
  BY <1>11, InterruptSeen
<1>12. CASE UNCHANGED vars
  BY <1>12, IdleSeen
<1> QED
  BY <1>1, <1>2, <1>3, <1>4, <1>5, <1>6, <1>7, <1>8, <1>9, <1>10, <1>11, <1>12
  DEF Next

(* At the start the idle task and the boot task run and there is no other. *)
LEMMA InitSeen == Init => Rendezvous!Init
<1> SUFFICES ASSUME Init PROVE Seen = [t \in Task |-> IF t \in {IdleTask, BootTask}
                                                     THEN Rendezvous!Running
                                                     ELSE Rendezvous!Absent]
  BY DEF Rendezvous!Init
<1>1. /\ \A t \in Task : stage[t] = IF t \in {IdleTask, BootTask} THEN "started" ELSE "free"
      /\ blocked_q = <<>>
  BY DEF Init
<1>2. Range(blocked_q) = {}
  BY <1>1 DEF Range
<1>3. \A t \in Task : TaskState(t) = IF t \in {IdleTask, BootTask} THEN Rendezvous!Running
                                     ELSE Rendezvous!Absent
  BY <1>1, <1>2, SeenNow
<1> QED
  BY <1>3, SeenFacts

(* The kernel, with its queues, priorities and saved registers, implements *)
(* the synchronous rendez-vous that kernel.h promises, for any number of   *)
(* tasks, priorities and interrupts: every turn of the kernel loop is one  *)
(* step of Ipc or is not seen (kernel.c:335-474).                          *)
THEOREM KernelImplementsIpc == ASSUME ResidueInert PROVE Spec => Implements
<1>1. KInv /\ [Next]_vars => [Rendezvous!Next]_Seen
  BY NextSeen
<1> QED
  BY <1>1, InitSeen, KernelInvariant, PTL DEF Spec, Implements, Rendezvous!Spec
=============================================================================

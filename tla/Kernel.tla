------------------------------- MODULE Kernel -------------------------------
(***************************************************************************)
(* kernel/kernel.c: the microkernel.  Tasks, the ready queues, rendez-vous *)
(* message passing and event (interrupt) dispatch.                         *)
(*                                                                         *)
(* The kernel runs with interrupts off, so each kernel call and each       *)
(* interrupt is one action: the whole turn of the kernel loop, from the    *)
(* re-entry point (kernel.c:335) to the switch back to the task that       *)
(* scheduler() leaves in CURRENT.  Queues are sequences (module Queue      *)
(* shows why); a pid is the address of a task_t, and addresses are used    *)
(* again after free().                                                     *)
(*                                                                         *)
(* The kernel reads the registers of a task from its saved context: r16,   *)
(* the call code, and P0 (r24:r25), a pid in the message calls and a bit   *)
(* mask in waitevent().  It looks at them only while the task is on        *)
(* blocked_q, so kcall, p0 and mask are kept for blocked tasks; for a      *)
(* woken task p0 or mask then holds the result of its call.                *)
(***************************************************************************)
EXTENDS SeqOps

CONSTANTS Task,         \* addresses malloc() may give to a task_t
          NULL,
          TASK_ANY,     \* receive(): from anybody
          IdleTask,     \* the two tasks kernel() creates
          BootTask,
          PrioMax,      \* TASK_PRIO_QUEUE_MAX
          BootPrio,
          Event,        \* the interrupt sources
          PREEMPT,      \* PREEMPT_ON_EVENT
          MaskChoice,   \* arguments given to waitevent()
          Residue       \* what unwritten context bytes may read as

ASSUME TaskAssumption ==
  /\ {NULL, TASK_ANY} \cap Task = {}
  /\ NULL # TASK_ANY
  /\ IdleTask \in Task /\ BootTask \in Task /\ IdleTask # BootTask

ASSUME PrioAssumption == PrioMax \in Nat /\ BootPrio \in 0..(PrioMax - 2)

ASSUME EventAssumption ==
  /\ PREEMPT \notin Event
  /\ MaskChoice \subseteq SUBSET (Event \cup {PREEMPT})

Prio == 0..(PrioMax - 1)
TASK_PRIO_IDLE == PrioMax - 1

\* Call codes a saved context can show; "OTHER" is any code that
\* dispatchevent() and delivermsg() do not look for.
Code == {"SEND", "SENDREC", "RECEIVE", "WAITEVENT", "OTHER"}

Context == [call : Code, pid : Task \cup {TASK_ANY, NULL},
            bits : SUBSET (Event \cup {PREEMPT})]

ASSUME ResidueAssumption == Residue \subseteq Context /\ Residue # {}

\* Life of a task_t: CREATETASK, ALLOCATESTACK, SETUPTASK, STARTTASK, and
\* STOPTASK of a blocked client before it is set up again or deleted.
Stage == {"free", "created", "stacked", "setup", "started", "stopped"}

VARIABLES queue,      \* the ready queues, by priority
          current,    \* the one task of current_q, or NULL
          blocked_q,
          prio,
          irqdis,     \* TASK_FLAG_IRQDIS
          stage,
          kcall, p0, mask

vars == <<queue, current, blocked_q, prio, irqdis, stage, kcall, p0, mask>>

context == <<kcall, p0, mask>>
attributes == <<prio, irqdis, stage>>

Live(t) == stage[t] # "free"
LiveTasks == {t \in Task : Live(t)}

\* Bytes nobody wrote hold none of the call codes the kernel looks for.
\* The code does nothing to ensure it: see EventWakesWaiter.
ResidueInert == \A r \in Residue : r.call = "OTHER"

-----------------------------------------------------------------------------
(* scheduler(): with nothing in current_q, the first task of the first     *)
(* ready queue that has one.  q and c are queue and current so far.        *)

TopPrio(q) == CHOOSE p \in Prio : q[p] # <<>> /\ \A r \in Prio : r < p => q[r] = <<>>

\* Mutation: the scan stops before the last queue.
scheduler_short(q, c) ==
  IF c # NULL \/ \A p \in Prio \ {TASK_PRIO_IDLE} : q[p] = <<>>
  THEN queue' = q /\ current' = c
  ELSE /\ current' = Head(q[TopPrio(q)])
       /\ queue' = [q EXCEPT ![TopPrio(q)] = Tail(@)]

scheduler(q, c) ==
  IF c # NULL \/ \A p \in Prio : q[p] = <<>>
  THEN queue' = q /\ current' = c
  ELSE /\ current' = Head(q[TopPrio(q)])
       /\ queue' = [q EXCEPT ![TopPrio(q)] = Tail(@)]

\* Q_END(&queue[t->prio], t) and Q_FRONT(&queue[t->prio], t).
ReadyEnd(t) == [queue EXCEPT ![prio[t]] = Append(@, t)]
ReadyFront(t) == [queue EXCEPT ![prio[t]] = Cons(t, @)]

-----------------------------------------------------------------------------
(* delivermsg(): the rendez-vous criteria.  The receiver's side and the    *)
(* sender's side are given as call code and pid.                           *)

Meet(rcvr, rcall, rpid, sndr, scall, spid) ==
  /\ scall \in {"SEND", "SENDREC"}
  /\ rcall = "RECEIVE"
  /\ spid = rcvr
  /\ rpid \in {sndr, TASK_ANY}

\* Mutation: only the first task of blocked_q is looked at.
First_only(S) == IF blocked_q # <<>> /\ blocked_q[1] \in S THEN blocked_q[1] ELSE NULL

\* q_forall over blocked_q with sendmsg, receivemsg or dispatchevent: the
\* first task that satisfies the callback, or NULL.
First(S) ==
  LET hits == {i \in 1..Len(blocked_q) : blocked_q[i] \in S}
  IN IF hits = {} THEN NULL
     ELSE blocked_q[CHOOSE i \in hits : \A j \in hits : i <= j]

\* sendmsg, receivemsg: the task CURRENT meets when it sends to d, or
\* receives from s.
Receiver(call, d) == First({t \in Task : Meet(t, kcall[t], p0[t], current, call, d)})
Sender(s) == First({t \in Task : Meet(current, "RECEIVE", s, t, kcall[t], p0[t])})

\* dispatchevent: the task that waits for event e.
Waiter(e) == First({t \in Task : kcall[t] = "WAITEVENT" /\ e \in mask[t]})

-----------------------------------------------------------------------------
\* State on the first switch_from_kernel(): both inittask() calls made.
Init ==
  /\ queue = [p \in Prio |-> IF p = TASK_PRIO_IDLE THEN <<IdleTask>> ELSE <<>>]
  /\ current = BootTask
  /\ blocked_q = <<>>
  /\ prio = [t \in Task |-> IF t = BootTask THEN BootPrio ELSE TASK_PRIO_IDLE]
  /\ irqdis = [t \in Task |-> FALSE]
  /\ stage = [t \in Task |-> IF t \in {IdleTask, BootTask} THEN "started" ELSE "free"]
  /\ kcall = [t \in Task |-> "OTHER"]
  /\ p0 = [t \in Task |-> NULL]
  /\ mask = [t \in Task |-> {}]

-----------------------------------------------------------------------------
(* Kernel calls of CURRENT.  The idle task makes none.  Each action ends   *)
(* with the scheduler() call at the top of the kernel loop.                *)

Calls == current # NULL /\ current # IdleTask

\* The saved context of t is bytes nobody has written.
Unwritten(t) ==
  \E r \in Residue : /\ kcall' = [kcall EXCEPT ![t] = r.call]
                     /\ p0' = [p0 EXCEPT ![t] = r.pid]
                     /\ mask' = [mask EXCEPT ![t] = r.bits]

\* The context t is blocked with.
Save(t, call, pid, bits) ==
  /\ kcall' = [kcall EXCEPT ![t] = call]
  /\ p0' = [p0 EXCEPT ![t] = pid]
  /\ mask' = [mask EXCEPT ![t] = bits]

\* KCALL_CREATETASK: the new task is on blocked_q with sp = NULL, so its
\* context is read from the first bytes of data memory.
CreateTask(t, pr) ==
  /\ Calls
  /\ ~Live(t)
  /\ blocked_q' = Cons(t, blocked_q)
  /\ prio' = [prio EXCEPT ![t] = pr]
  /\ irqdis' = [irqdis EXCEPT ![t] = FALSE]
  /\ stage' = [stage EXCEPT ![t] = "created"]
  /\ Unwritten(t)
  /\ UNCHANGED <<queue, current>>

\* KCALL_CREATETASK when newtask() fails: Q_FRONT(&blocked_q, NULL) does
\* nothing and the caller gets NULL.
CreateTaskFails ==
  /\ Calls
  /\ p0' = [p0 EXCEPT ![current] = NULL]
  /\ UNCHANGED <<queue, current, blocked_q, attributes, kcall, mask>>

\* KCALL_ALLOCATESTACK for a task with none: sp is the last byte of the new
\* stack, so its context is read from the heap behind it.  When malloc()
\* fails sp stays what it was, NULL or the stack that stoptask() freed, and
\* may still show the old context.  No caller looks at the result
\* (pm.c:359, main.c), so the task is set up and started all the same.
AllocateStack(t) ==
  /\ Calls
  /\ stage[t] \in {"created", "stopped"}
  /\ stage' = [stage EXCEPT ![t] = "stacked"]
  /\ Unwritten(t) \/ UNCHANGED context
  /\ UNCHANGED <<queue, current, blocked_q, prio, irqdis>>

\* KCALL_SETUPTASK: do_setuptask() makes room for a context on the stack and
\* writes the entry point, its argument and r1; r16 is what malloc() left.
SetupTask(t) ==
  /\ Calls
  /\ stage[t] = "stacked"
  /\ stage' = [stage EXCEPT ![t] = "setup"]
  /\ Unwritten(t)
  /\ UNCHANGED <<queue, current, blocked_q, prio, irqdis>>

\* Mutation: the task is made ready and stays on blocked_q.
StartTask_keeps(t) ==
  /\ Calls
  /\ stage[t] = "setup"
  /\ stage' = [stage EXCEPT ![t] = "started"]
  /\ scheduler(ReadyEnd(t), current)
  /\ UNCHANGED <<blocked_q, prio, irqdis, context>>

\* KCALL_STARTTASK.
StartTask(t) ==
  /\ Calls
  /\ stage[t] = "setup"
  /\ stage' = [stage EXCEPT ![t] = "started"]
  /\ blocked_q' = Q_REMV(blocked_q, t)
  /\ scheduler(ReadyEnd(t), current)
  /\ UNCHANGED <<prio, irqdis, context>>

\* KCALL_STOPTASK, as the process manager uses it in exec and exit: t is a
\* client that waits for the caller's answer.  The freed stack may be
\* written by others from now on, or still show the old context.
StopTask(t) ==
  /\ Calls
  /\ stage[t] = "started" /\ t \in Range(blocked_q)
  /\ kcall[t] = "RECEIVE" /\ p0[t] = current
  /\ stage' = [stage EXCEPT ![t] = "stopped"]
  /\ Unwritten(t) \/ UNCHANGED context
  /\ UNCHANGED <<queue, current, blocked_q, prio, irqdis>>

\* KCALL_DELETETASK, after STOPTASK.
DeleteTask(t) ==
  /\ Calls
  /\ stage[t] = "stopped"
  /\ stage' = [stage EXCEPT ![t] = "free"]
  /\ blocked_q' = Q_REMV(blocked_q, t)
  /\ UNCHANGED <<queue, current, prio, irqdis, context>>

\* KCALL_EXITTASK.
ExitTask ==
  /\ Calls
  /\ stage' = [stage EXCEPT ![current] = "free"]
  /\ scheduler(queue, NULL)
  /\ UNCHANGED <<blocked_q, prio, irqdis, context>>

\* KCALL_IRQEN, KCALL_IRQDIS.
SetIrqDis(flag) ==
  /\ Calls
  /\ irqdis' = [irqdis EXCEPT ![current] = flag]
  /\ UNCHANGED <<queue, current, blocked_q, prio, stage, context>>

\* KCALL_GETPID.
GetPid ==
  /\ Calls
  /\ p0' = [p0 EXCEPT ![current] = current]
  /\ UNCHANGED <<queue, current, blocked_q, attributes, kcall, mask>>

\* KCALL_YIELD.
Yield ==
  /\ Calls
  /\ scheduler(ReadyEnd(current), NULL)
  /\ UNCHANGED <<blocked_q, attributes, context>>

\* KCALL_WAITEVENT: to the end of blocked_q.
WaitEvent(bits) ==
  /\ Calls
  /\ Save(current, "WAITEVENT", p0[current], bits)
  /\ blocked_q' = Append(blocked_q, current)
  /\ scheduler(queue, NULL)
  /\ UNCHANGED attributes

\* CURRENT blocks with this context, at the front of blocked_q as b leaves
\* it; q is queue so far.
Block(call, pid, b, q) ==
  /\ Save(current, call, pid, mask[current])
  /\ blocked_q' = Cons(current, b)
  /\ scheduler(q, NULL)
  /\ UNCHANGED attributes

\* The process manager sends nothing to a client between its stoptask() and
\* its starttask() or deletetask() of it (pm_setuptask(), do_exit()).  What
\* the client's context may still show then is its wait for the answer.
MaySendTo(d) == ~(stage[d] \in {"stopped", "stacked"} /\ p0[d] = current)

\* KCALL_SEND.
Send(d) ==
  LET r == Receiver("SEND", d)
  IN /\ Calls
     /\ MaySendTo(d)
     /\ \/ /\ r = NULL
           /\ Block("SEND", d, blocked_q, queue)
        \/ /\ r # NULL
           /\ p0' = [p0 EXCEPT ![r] = current]
           /\ blocked_q' = Q_REMV(blocked_q, r)
           /\ scheduler(ReadyEnd(r), current)
           /\ UNCHANGED <<attributes, kcall, mask>>

\* KCALL_SENDREC: once the message is delivered, CURRENT is a receiver that
\* waits for d.
SendRec(d) ==
  LET r == Receiver("SENDREC", d)
  IN /\ Calls
     /\ MaySendTo(d)
     /\ \/ r = NULL /\ Block("SENDREC", d, blocked_q, queue)
        \/ /\ r # NULL
           /\ kcall' = [kcall EXCEPT ![current] = "RECEIVE"]
           /\ p0' = [p0 EXCEPT ![r] = current, ![current] = d]
           /\ blocked_q' = Cons(current, Q_REMV(blocked_q, r))
           /\ scheduler(ReadyEnd(r), NULL)
           /\ UNCHANGED <<attributes, mask>>

\* Mutation: a sendrec() client is woken when its request is taken.
Receive_wakes_client(src) ==
  LET s == Sender(src)
  IN /\ Calls
     /\ \/ s = NULL /\ Block("RECEIVE", src, blocked_q, queue)
        \/ /\ s # NULL
           /\ p0' = [p0 EXCEPT ![current] = s]
           /\ blocked_q' = Q_REMV(blocked_q, s)
           /\ scheduler(ReadyEnd(s), current)
           /\ UNCHANGED <<attributes, kcall, mask>>

\* KCALL_RECEIVE: a SEND sender becomes ready, a SENDREC sender stays where
\* it is and becomes a receiver.
Receive(src) ==
  LET s == Sender(src)
  IN /\ Calls
     /\ \/ s = NULL /\ Block("RECEIVE", src, blocked_q, queue)
        \/ /\ s # NULL
           /\ p0' = [p0 EXCEPT ![current] = s]
           /\ \/ /\ kcall[s] = "SENDREC"
                 /\ kcall' = [kcall EXCEPT ![s] = "RECEIVE"]
                 /\ UNCHANGED <<queue, current, blocked_q>>
              \/ /\ kcall[s] # "SENDREC"
                 /\ blocked_q' = Q_REMV(blocked_q, s)
                 /\ scheduler(ReadyEnd(s), current)
                 /\ UNCHANGED kcall
           /\ UNCHANGED <<attributes, mask>>

\* An interrupt while CURRENT runs with interrupts enabled.  The waiter is
\* CURRENT next, whatever the priorities; with no waiter the event is gone.
Interrupt(e) ==
  LET w == Waiter(e)
  IN /\ current # NULL
     /\ ~irqdis[current]
     /\ \/ w = NULL /\ UNCHANGED <<queue, current, blocked_q, mask>>
        \/ /\ w # NULL
           /\ queue' = IF PREEMPT \in mask[w] THEN ReadyEnd(current)
                       ELSE ReadyFront(current)
           /\ current' = w
           /\ blocked_q' = Q_REMV(blocked_q, w)
           /\ mask' = [mask EXCEPT ![w] = {e}]
     /\ UNCHANGED <<attributes, kcall, p0>>

Next ==
  \/ \E t \in Task : \/ \E pr \in Prio \ {TASK_PRIO_IDLE} : CreateTask(t, pr)
                     \/ AllocateStack(t) \/ SetupTask(t) \/ StartTask(t)
                     \/ StopTask(t) \/ DeleteTask(t)
  \/ CreateTaskFails \/ ExitTask \/ GetPid \/ Yield
  \/ \E flag \in BOOLEAN : SetIrqDis(flag)
  \/ \E bits \in MaskChoice : WaitEvent(bits)
  \/ \E d \in Task \ {IdleTask} : Send(d) \/ SendRec(d)
  \/ \E src \in Task \cup {TASK_ANY} : Receive(src)
  \/ \E e \in Event : Interrupt(e)

Spec == Init /\ [][Next]_vars

-----------------------------------------------------------------------------
(* Types of the kernel's globals, of the task_t fields and of the saved    *)
(* contexts.                                                               *)
TypeOK ==
  /\ queue \in [Prio -> Seq(Task)]
  /\ current \in Task \cup {NULL}
  /\ blocked_q \in Seq(Task)
  /\ prio \in [Task -> Prio]
  /\ irqdis \in [Task -> BOOLEAN]
  /\ stage \in [Task -> Stage]
  /\ kcall \in [Task -> Code]
  /\ p0 \in [Task -> Task \cup {TASK_ANY, NULL}]
  /\ mask \in [Task -> SUBSET (Event \cup {PREEMPT})]

Blocked(t) == t \in Range(blocked_q)

\* Every task of L is in one place: c, the ready queue q[its priority] or b;
\* any other is in none.
Placed(q, c, b, pr, L) ==
  /\ IsInjective(b)
  /\ \A p \in Prio : /\ IsInjective(q[p])
                     /\ \A t \in Range(q[p]) : pr[t] = p
  /\ \A t \in Task :
       /\ t \in L <=> (t = c \/ t \in Range(q[pr[t]]) \/ t \in Range(b))
       /\ ~(t = c /\ t \in Range(q[pr[t]]))
       /\ ~(t = c /\ t \in Range(b))
       /\ ~(t \in Range(q[pr[t]]) /\ t \in Range(b))

(* Every task_t is in exactly one place, once: CURRENT, the ready queue of *)
(* its own priority, or blocked_q; a freed task_t is in none.  One wrong   *)
(* Q_REMV in the kernel loop and two queues share links.                   *)
QueuesPartition == Placed(queue, current, blocked_q, prio, LiveTasks)

(* kernel.c:293, "CURRENT must be set by here": scheduler() always finds a *)
(* task, because the idle task never leaves the ready queues.              *)
CurrentSet == current # NULL

(* No task waits to send to a task that waits to receive from it: neither  *)
(* half of a rendez-vous is ever missed, in whichever order the two calls, *)
(* interrupts and a SENDREC's change to RECEIVE happen.                    *)
NoMissedRendezvous ==
  \A r, s \in Range(blocked_q) : ~Meet(r, kcall[r], p0[r], s, kcall[s], p0[s])

(* kernel.c:342, "Check whether any task waits for this event": whoever an *)
(* interrupt makes CURRENT is a started task blocked in waitevent().       *)
EventWakesWaiter ==
  [][\A t \in Task : Blocked(t) /\ current' = t => stage[t] = "started"]_vars
=============================================================================

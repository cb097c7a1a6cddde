------------------------------ MODULE KernelIpc ------------------------------
(***************************************************************************)
(* The kernel implements rendez-vous: module Kernel, with its queues,      *)
(* priorities and saved registers, refines module Ipc.                     *)
(***************************************************************************)
EXTENDS Kernel

\* What clients see of a task in stage st, on blocked_q or not, whose saved
\* context shows call and pid.
StateOf(st, blocked, call, pid) ==
  CASE st = "free" -> [call |-> "ABSENT", peer |-> NULL]
    [] st = "started" /\ blocked ->
         [call |-> call, peer |-> IF call = "WAITEVENT" THEN NULL ELSE pid]
    [] st = "started" /\ ~blocked -> [call |-> "RUNNING", peer |-> NULL]
    [] OTHER -> [call |-> "DORMANT", peer |-> NULL]

TaskState(t) == StateOf(stage[t], Blocked(t), kcall[t], p0[t])

Seen == [t \in Task |-> TaskState(t)]

Rendezvous == INSTANCE Ipc WITH Booted <- {IdleTask, BootTask}, task <- Seen

(* Every turn of the kernel loop does what the call promises to the tasks  *)
(* that take part, and nothing to any other: a message meets the partner   *)
(* it may meet, a sendrec() turns into a receive() from the same task, and *)
(* scheduling changes nothing anybody can see.                             *)
Implements == Rendezvous!Spec
=============================================================================

------------------------------ MODULE MCKernel ------------------------------
(* Four task addresses: the idle task, the boot task and two more, which   *)
(* are enough for a client, a server and a third task that interferes, and *)
(* for an address that is freed and used again.  Two event sources, with   *)
(* and without preemption.                                                 *)
EXTENDS KernelIpc, TLC

CONSTANTS idle, boot, t1, t2, timer, usart

MCTask == {idle, boot, t1, t2}
MCEvent == {timer, usart}
MCMaskChoice == {{timer, PREEMPT}, {usart}}

\* Unwritten context bytes that happen to hold none of the call codes the
\* kernel searches blocked_q for.
InertResidue == {[call |-> "OTHER", pid |-> NULL, bits |-> {}]}

\* Context bytes that read as waitevent(EVENT_TIMER1OVF).
WaitingResidue == InertResidue \cup
  {[call |-> "WAITEVENT", pid |-> NULL, bits |-> {timer}]}

Symm == Permutations({t1, t2})

\* The kernel reads the context of blocked tasks only and the task_t fields
\* of existing ones, so states that differ elsewhere behave alike.
LiveState ==
  <<queue, current, blocked_q, stage,
    [t \in {u \in Task : Live(u)} |-> <<prio[t], irqdis[t]>>],
    [t \in Range(blocked_q) |-> <<kcall[t], p0[t],
                                  IF kcall[t] = "WAITEVENT" THEN mask[t] ELSE {}>>]>>
=============================================================================

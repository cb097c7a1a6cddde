------------------------------- MODULE MCBoot -------------------------------
(* The real set of tasks, the five priorities, and three of the fifteen    *)
(* programs.  A tick comes about every 30 ms, the time of many thousand    *)
(* kernel calls, so one tick falls somewhere into the boot.                *)
EXTENDS Boot

CONSTANTS idle, start

MCTask == {idle, start, ts, tickd, vfs, pipedev, memfile, tty, usart0_event, ex, pm,
           init, getty}
MCEvent == {timer, usart}
MCMaskChoice == {{timer, PREEMPT}, {usart}}
MCResidue == {[call |-> "OTHER", pid |-> NULL, bits |-> {}]}
MCProgram == <<"getty", "sh", "init">>
=============================================================================

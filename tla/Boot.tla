-------------------------------- MODULE Boot --------------------------------
(***************************************************************************)
(* main.c and servers/ex.c: how the system comes up.  The first task       *)
(* starts the servers one after the other, registers the programs, starts  *)
(* the process manager, which starts init, and exits.                      *)
(*                                                                         *)
(* Composed with the kernel: every step of a task is a kernel call of      *)
(* module Kernel or something the task does between two calls, and a timer *)
(* tick may come after any of them.  todo holds what each task still has   *)
(* to do; a server's last two entries are its loop, receive() and the      *)
(* switch on the message.  Of the file server, the time server, the        *)
(* drivers and the process manager only what runs at this time is here;    *)
(* the rest of them have modules of their own.                             *)
(***************************************************************************)
EXTENDS Kernel

CONSTANTS ts, tickd, vfs, pipedev, memfile, tty, usart0_event, ex, pm, init,
          getty,       \* the child of init
          timer, usart,
          Program,     \* names registered, in this order
          MaxTicks,    \* bound: timer ticks while the system comes up
          NoMemory     \* may kmalloc() fail in ex?

Servers == {ts, vfs, ex, pm}
Drivers == {pipedev, memfile, tty}

ASSUME BootAssumption ==
  /\ Servers \cup Drivers \cup {tickd, usart0_event, init, getty} \subseteq Task
  /\ Event = {timer, usart}
  /\ MaxTicks \in Nat /\ NoMemory \in BOOLEAN

\* kernel.h: the priorities in use, and the one init's children get.
TASK_PRIO_RT == 0
TASK_PRIO_HIGH == 1
TASK_PRIO_DFLT == 2

VARIABLES todo,     \* what each task does next
          server,   \* tstask, vfstask, extask, pmtask
          req,      \* the message each task last sent with sendrec()
          reply,    \* ex's answer in it
          ex_prg,   \* ex_prg_head: the registered programs
          ticks,    \* timer interrupts so far
          late      \* the task the last one interrupted, until it goes on

bvars == <<vars, todo, server, req, reply, ex_prg, ticks, late>>
others == <<server, req, reply, ex_prg, ticks>>

-----------------------------------------------------------------------------
(* The programs, as the steps they take.                                   *)

Step(op, arg) == [op |-> op, arg |-> arg]
Ask(s, cmd, arg) == [op |-> "ask", to |-> s, msg |-> [cmd |-> cmd, arg |-> arg]]
Create(t, pr) == [op |-> "create", arg |-> t, prio |-> pr]

\* createtask(), allocatestack(), setuptask(), starttask().
Fill(t) == <<Step("stack", t), Step("setup", t), Step("start", t)>>
Launch(t, pr) == <<Create(t, pr)>> \o Fill(t)

Loop == <<Step("receive", NULL), Step("switch", NULL)>>

\* startup().
startup ==
  Launch(ts, TASK_PRIO_RT) \o <<Step("set", ts)>>
  \o Launch(vfs, TASK_PRIO_HIGH) \o <<Step("set", vfs)>>
  \o <<Ask(vfs, "MKDEV", memfile), Ask(vfs, "MKDEV", tty)>>
  \o Launch(ex, TASK_PRIO_HIGH) \o <<Step("set", ex)>>
  \o [i \in 1..Len(Program) |-> Ask(ex, "REGPRG", Program[i])]
  \o Launch(pm, TASK_PRIO_HIGH) \o <<Step("set", pm)>>
  \o <<Step("exit", NULL)>>

\* do_spawnexec() in pm(): "if" gives up when ex does not know the program.
do_spawnexec ==
  <<Create(init, TASK_PRIO_DFLT), Ask(vfs, "ADDTASK", init), Ask(ex, "GETPRG", "init"),
    Step("if", NULL)>> \o Fill(init)

\* do_spawn() for init's child.
do_spawn == <<Create(getty, TASK_PRIO_DFLT), Ask(vfs, "ADDTASK", getty)>> \o Fill(getty)

\* Mutation: a driver has less priority than a user program.
setup_dev_low(d) == Launch(d, TASK_PRIO_DFLT + 1)

\* setup_dev().
setup_dev(d) == Launch(d, TASK_PRIO_HIGH)

\* What a task does from its entry point on.
ts_main == <<Step("irqdis", NULL)>> \o Launch(tickd, TASK_PRIO_RT)
           \o <<Step("send", tickd)>> \o Loop

tickd_main == <<Step("receive", NULL), Step("irqdis", NULL), Step("tick", ts)>>

vfs_main == <<Step("irqdis", NULL)>> \o setup_dev(pipedev) \o Loop

tty_main == <<Step("irqdis", NULL)>> \o Launch(usart0_event, TASK_PRIO_RT)
            \o <<Step("sendrec", usart0_event)>> \o Loop

usart0_event_main == <<Step("receive", NULL), Step("send", tty), Step("irqdis", NULL),
                       Step("waitevent", {usart})>>

init_main == <<Ask(pm, "SPAWN", getty), Ask(pm, "WAIT", NULL)>>

Entry(t) ==
  CASE t = ts -> ts_main
    [] t = tickd -> tickd_main
    [] t = vfs -> vfs_main
    [] t \in {pipedev, memfile} -> <<Step("irqdis", NULL)>> \o Loop
    [] t = tty -> tty_main
    [] t = usart0_event -> usart0_event_main
    [] t = ex -> Loop
    [] t = pm -> do_spawnexec \o Loop
    [] t = init -> init_main
    [] OTHER -> <<>>

-----------------------------------------------------------------------------
BInit ==
  /\ Init
  /\ todo = [t \in Task |-> IF t = BootTask THEN startup ELSE <<>>]
  /\ server = [s \in Servers |-> NULL]
  /\ req = [t \in Task |-> [cmd |-> "NONE", arg |-> NULL]]
  /\ reply = [t \in Task |-> NULL]
  /\ ex_prg = <<>>
  /\ ticks = 0 /\ late = NULL

Does(op) == todo[current] # <<>> /\ Head(todo[current]).op = op
Now == Head(todo[current])
Then == Tail(todo[current])
Goes == todo' = [todo EXCEPT ![current] = Then]

\* The kernel calls that start a task; setuptask() gives it its entry point.
Launches ==
  /\ \/ Does("create") /\ CreateTask(Now.arg, Now.prio) /\ Goes
     \/ Does("stack") /\ AllocateStack(Now.arg) /\ Goes
     \/ /\ Does("setup") /\ SetupTask(Now.arg)
        /\ todo' = [todo EXCEPT ![current] = Then, ![Now.arg] = Entry(Now.arg)]
     \/ Does("start") /\ StartTask(Now.arg) /\ Goes
  /\ UNCHANGED others

\* settspid(), setvfspid(), setexpid(), setpmpid().
Sets ==
  /\ Does("set")
  /\ server' = [server EXCEPT ![Now.arg] = Now.arg]
  /\ Goes
  /\ UNCHANGED <<vars, req, reply, ex_prg, ticks>>

\* mkdev(), vfs_createtask(), ex_regprg(), ex_getprg(), spawntask(), wait():
\* sendrec() to the server, wherever its pid variable points to now.
Asks ==
  /\ Does("ask")
  /\ IF server[Now.to] = NULL THEN Calls /\ Block("SENDREC", NULL, blocked_q, queue)
     ELSE SendRec(server[Now.to])
  /\ req' = [req EXCEPT ![current] = Now.msg]
  /\ Goes
  /\ UNCHANGED <<server, reply, ex_prg, ticks>>

\* The other kernel calls.  tickd() waits for the timer, tells the time
\* server and waits again.
Others ==
  /\ \/ Does("send") /\ Send(Now.arg) /\ Goes
     \/ Does("sendrec") /\ SendRec(Now.arg) /\ Goes
     \/ Does("receive") /\ Receive(TASK_ANY) /\ Goes
     \/ Does("irqdis") /\ SetIrqDis(TRUE) /\ Goes
     \/ Does("waitevent") /\ WaitEvent(Now.arg) /\ Goes
     \/ Does("exit") /\ ExitTask /\ Goes
  /\ UNCHANGED others

Ticks ==
  /\ Does("tick")
  /\ WaitEvent({timer, PREEMPT})
  /\ todo' = [todo EXCEPT ![current] = <<Step("told", ts)>>]
  /\ UNCHANGED others

Tells ==
  /\ Does("told")
  /\ SendRec(ts)
  /\ req' = [req EXCEPT ![current] = [cmd |-> "TICK", arg |-> NULL]]
  /\ todo' = [todo EXCEPT ![current] = <<Step("tick", ts)>>]
  /\ UNCHANGED <<server, reply, ex_prg, ticks>>

\* do_spawnexec(): return if (!ptr).
Found ==
  /\ Does("if")
  /\ todo' = [todo EXCEPT ![current] = IF reply[current] = NULL THEN Loop ELSE Then]
  /\ UNCHANGED <<vars, others>>

\* Mutation: only the first program is compared.
ex_get_prg_head(name) == IF ex_prg # <<>> /\ name = Head(ex_prg) THEN name ELSE NULL

\* ex_get_prg(): a registered program, or NULL.
ex_get_prg(name) == IF name \in Range(ex_prg) THEN name ELSE NULL

\* The switch of a server's loop, p0 holding its client, and the answer.
Answers(steps) ==
  todo' = [todo EXCEPT ![current] = steps \o <<Step("send", p0[current])>> \o Loop]

Switch ==
  LET m == req[p0[current]]
  IN /\ Does("switch")
     /\ \/ m.cmd = "MKDEV" /\ Answers(setup_dev(m.arg)) /\ UNCHANGED <<reply, ex_prg>>
        \/ m.cmd \in {"ADDTASK", "TICK"} /\ Answers(<<>>) /\ UNCHANGED <<reply, ex_prg>>
        \/ m.cmd = "SPAWN" /\ Answers(do_spawn) /\ UNCHANGED <<reply, ex_prg>>
        \/ /\ m.cmd = "GETPRG" /\ Answers(<<>>)
           /\ reply' = [reply EXCEPT ![p0[current]] = ex_get_prg(m.arg)]
           /\ UNCHANGED ex_prg
        \/ /\ m.cmd = "REGPRG" /\ Answers(<<>>)
           /\ ex_prg' = Append(ex_prg, m.arg)
           /\ UNCHANGED reply
     /\ UNCHANGED <<vars, server, req, ticks>>

\* No answer: pm to a wait() with the child alive, and ex without memory.
Unanswered == IF NoMemory THEN {"WAIT", "REGPRG"} ELSE {"WAIT"}

NoReply ==
  /\ Does("switch")
  /\ req[p0[current]].cmd \in Unanswered
  /\ todo' = [todo EXCEPT ![current] = Loop]
  /\ UNCHANGED <<vars, others>>

\* TIMER1_OVF_vect: enabled while tickd waits for it.  Its period is much
\* longer than anything done here: what it interrupted gets one step further
\* before it comes again.  (The USART's transmit interrupt, which usart0_event
\* enables with its first newline, is in module Tty and not taken here.)
Tick ==
  /\ ticks < MaxTicks /\ late = NULL
  /\ Waiter(timer) = tickd
  /\ Interrupt(timer)
  /\ ticks' = ticks + 1 /\ late' = current
  /\ UNCHANGED <<todo, server, req, reply, ex_prg>>

\* idle_task() sleeps; getty's own steps are not part of this module.
Rests ==
  /\ current \in {IdleTask, getty}
  /\ UNCHANGED <<vars, todo, others>>

GoesOn == late' = IF late = current THEN NULL ELSE late

Runs ==
  /\ Launches \/ Sets \/ Asks \/ Others \/ Ticks \/ Tells \/ Found \/ Switch \/ NoReply
  /\ GoesOn

BNext == Runs \/ Tick \/ (Rests /\ GoesOn)

\* The processor goes on with the task the kernel switched to.
BSpec == BInit /\ [][BNext]_bvars /\ WF_bvars(Runs)

-----------------------------------------------------------------------------
(* Types: what is registered are programs, and every pid variable holds    *)
(* nothing or its server.                                                  *)
BTypeOK ==
  /\ TypeOK
  /\ \A s \in Servers : server[s] \in {s, NULL}
  /\ Range(ex_prg) \subseteq Range(Program)
  /\ ticks \in 0..MaxTicks

\* In receive() or waitevent() with nothing left to set up.
Settled(t) == Blocked(t) /\ kcall[t] \in {"RECEIVE", "WAITEVENT"}

(* When a user program first runs, every server, driver and event task has *)
(* finished its own set-up and waits for requests: mkdev() and starttask() *)
(* do not wait for that, the priorities do it (servers/vfs.c:127).         *)
SystemFirst ==
  /\ BTypeOK
  /\ current \in {init, getty} =>
       \A t \in Drivers \cup Servers \cup {tickd, usart0_event} : Settled(t)

(* The system comes up whenever the tick comes: startup() "exits at the    *)
(* end" (main.c:16) and init's first child runs.  startup() sets a server's*)
(* pid variable after starttask() (main.c:74-75); whoever asked one that   *)
(* is still NULL would never come back.                                    *)
Booted == <>(stage[BootTask] = "free") /\ <>(current = getty)

(* main.c:16: startup() "exits at the end".                                *)
StartupExits == <>(stage[BootTask] = "free")
=============================================================================

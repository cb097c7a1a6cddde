# avros: specifications, model checking and proofs

avros is a small UNIX-like microkernel operating system for Atmel AVR CPUs
(16 kB of RAM, no memory protection). This directory holds TLA+ specifications
of its kernel and servers, the TLC configurations that check them on small
instances, and proofs checked by TLAPS.

Contents: [inventory](#inventory), [modules](#modules), [runs](#runs),
[disagreements](#disagreements), [fairness](#fairness), [proofs](#proofs), [what is not modelled](#what-is-not-modelled),
[plan](#plan).

## Inventory

Everything in avros is a *task* that talks to others through the kernel's
synchronous messages. The kernel runs with interrupts off, and so do vfs, its
drivers, ts and their event tasks (`kirqdis()`); pm, ex and user tasks can be
interrupted. Each server is a loop around `receive(TASK_ANY)`; a client stays
blocked in `sendrec()` until it is answered. So the unit of interleaving is a
kernel call, an interrupt, or the handling of one message; what interleaves is
which client asks next, what it asks, and when an interrupt comes. Two modules go
below that: `Hal`, where an interrupt may come at every instruction of a kernel
call, and `Tty`, where it may come between the tasks that handle the one before.

| part | state | operations | talks to |
|---|---|---|---|
| `lib/queue` | head, tail, next, prev | `q_init`, `q_front`, `q_end`, `q_remv`, `q_forall` | used by all the others |
| `kernel` | ready queues, `current_q`, `blocked_q`, task_t, saved contexts, `eventcode` | 17 kernel calls, interrupts | every task |
| `servers/pm` | `task_q`, `wait_q`, `zombie_q`, parents, exit codes, argument and chunk memory | spawn, exec, exit, wait, malloc, free | kernel (create, stop, delete tasks), vfs (add, delete tasks), ex |
| `servers/vfs` | device table, filp table, descriptors of each task | open, close, dup, pipe, readc, writec, mkdev, mknod, stat, add and delete task | drivers, by `sendrec()` |
| `drivers/pipe` | node table, references, requests on hold | make, grab, release node, read, write | answers vfs, which answers clients |
| `drivers/tty` | line buffer, read and write requests on hold | read, write, receive and transmit interrupts | vfs; its event task |
| `drivers/ramdisk` (memfile) | nodes, links, references, file contents | make, link, grab, release, read, write | answers vfs |
| `servers/ts` | clocks, list of delays | tick, delay, get and set time | tickd, its event task |
| `servers/ex` | list of programs | register, look up | pm |
| `servers/sema` | semaphores with their waiting clients | create, delete, wait, signal, get | not part of the build |
| `hal` | registers, stacks, saved contexts, interrupt flag | interrupt, kernel call, switch, set-up of a task | kernel and tasks |
| `main` (boot) | pids of the servers | startup: create, set up and start servers and drivers, register programs | all |
| `usr/sh` | the line, its arguments, descriptors 0 to 7, the job's child | read and cut a line, run its jobs | pm, vfs |
| `usr/init` | table of sessions with their pids | start a session, wait | pm |

What is hard in it, and what would make each part correct:

- **queue**. Items carry their own links and are not cleaned when they leave a
  queue; memory is used again at once; `q_forall` lets its callback free the
  item it stands on. Correct: the pointers always represent the sequence the
  calls built; `q_forall` sees each item once, in order.
- **kernel**. A task is on exactly one queue; neither half of a rendez-vous is
  missed; an answer comes from the task it was asked of; there is always a task
  to switch to.
- **pm**. A pid is an address and is used again before the zombie that had it is
  gone; `waitfor` and `exitcode` share a word, request and answer share a message;
  children point to their parent's structure, which is freed before them.
  Correct: an exit is reported once, to the parent, with its code; no parent
  sleeps beside a zombie it waits for; no pointer to a freed parent; every block
  has one owner; vfs knows the started tasks, and no others but children that a
  failed spawn left behind.
- **vfs and pipe**. Descriptors are shared through inheritance and `dup`; the node
  outlives them by a second count in the driver; tables are small and fill up in
  the middle of `pipe()`. Correct: counts agree with descriptors, nobody waits on
  a pipe with one end, bytes arrive in order.
- **ts**. Timers that expire in the same tick are removed while the list is
  scanned; counters carry and wrap. Correct: a delay takes the ticks it asked for.
- **memfile and files**. The word of a message that holds a file's position holds
  block numbers for other devices; filps are used again. Correct: a position is
  the number of bytes moved through it; a node counts the files open on it.
- **tty**. Interrupts are enabled again before the driver has handled the last one;
  requests and interrupts wait in the same queues. Correct: output in order,
  input as a line editor makes it, no interrupt lost or taken twice.
- **hal**. Save, restore and context structure are three lists that must agree; an
  interrupt may come inside a kernel call. Correct: a task does not notice.
- **boot**. Servers start one another by priority, without waiting. Correct: all of
  them wait for requests when the first user program runs, and it does run.
- **shell**. Descriptors are assumed by number, and children inherit ends of pipes.
  Correct: what a line prints is what its jobs make of it, every job ends, and the
  shell has its own descriptors back.
- **init**. Correct: a session that ends is started again.
- **sema**. Correct: as many get in as the value and the signals allow; nobody
  waits at an open semaphore; nobody is passed over for ever.

PROJECT.json lists these hazards at their lines with the properties that cover
them.

## Modules

| module | models | |
|---|---|---|
| `SeqOps`, `SeqLemmas` | queues as sequences | removal of one item, or of several by `q_forall`; facts about them, proved |
| `Queue` | lib/queue.c | links as functions `head`, `tail`, `next`, `prev`; `contents` is the abstract value, the sequence the calls have built; `iter` is the loop of `q_forall`, one action per turn |
| `Kernel` | kernel/kernel.c | one action per kernel call, one for an interrupt; each is a whole turn of the kernel loop with `scheduler()` at its end |
| `PM` | servers/pm.c | one action per request, exit and wait split by their outcome |
| `TS` | servers/ts.c | timer, tickd, and one action per message of ts |
| `Pipedev` | drivers/pipe.c | operators: each operation as a function of the node table |
| `Ipc` | what kernel.h promises of message calls | abstract: a task runs, waits in a call for somebody, or is not there |
| `KernelIpc` | `Kernel` with `Ipc` | the refinement mapping from queues and contexts to what a task is waiting for |
| `Boot` | main.c, ex.c and the first steps of all servers and drivers, on `Kernel` | a script of calls per task; each call is an action of `Kernel` |
| `Hal` | kernel/hal.h, hal.c, `switchtokernel`, `do_setuptask` | one action per instruction that matters; registers and stacks hold symbolic bytes |
| `VFS` | servers/vfs.c with `Pipedev` | one action per request, including the answers of the pipe device and those vfs passes on |
| `Memfile` | drivers/ramdisk.c | operators: each operation as a function of the node table |
| `Files` | servers/vfs.c with `Memfile` | devices, paths, mknod, stat, open, positions; the pipe and the tty only as devices that hold a request or not |
| `Tty` | drivers/tty.c, vfs's interrupt messages, the USART, what pm and ex do to the schedule | a user's request is one action, the way of an interrupt is four; so are pm's calls to ex and vfs |
| `Shell` | usr/sh.c on `VFS` | the shell as a script of calls, each a step of `VFS`; launchers and jobs as tasks |
| `Parse` | usr/sh.c | `getcmd()`, the copy of the line into the job's buffer, `parse_args()`; one action per character |
| `Session` | usr/init.c with what pm does for it | one action per turn of init's two loops, exits and jobs around it |
| `Sema` | servers/sema.c | a client's call, and one action per message of the server |
| `KernelProofs`, `PMProofs`, `TSProofs`, `VFSProofs`, `ParseProofs` | | theorems about the module of that name, see [proofs](#proofs) |
| `MachineProofs`, `ServerProofs` | | theorems about `Queue`, `Hal`, `Tty`, and about `Sema`, `Files` |
| `MC*` | | instances for TLC |

The modules other than `Queue` have queues as sequences, which `Queue!Linked`
justifies: as long as items are on one queue at a time, the pointers represent
them. That the kernel does keep each task on one queue is
`Kernel!QueuesPartition`, and pm each process, `PM!OneQueue`.

How the state corresponds to the code:

- **Kernel.** `queue`, `blocked_q` are the queues, `current` the one task in
  `current_q` (NULL when empty). `kcall`, `p0`, `mask` are registers r16 and r24:r25
  in the saved context, which the kernel reads for blocked tasks only. `stage` is
  how far `createtask`, `allocatestack`, `setuptask`, `starttask` have got with a
  task_t; the calls are made in that order everywhere in the source, and that
  order is in the guards. `stoptask` and `deletetask` appear as pm uses them: of
  a client that waits for pm's answer, and pm sends to no client between those calls
  and the next `starttask` or `deletetask` (`MaySendTo`; that is how `do_exec()` and
  `do_exit()` go, the kernel does not test it). `allocatestack` may fail: the stack
  pointer stays NULL or that of the freed stack, no caller looks, and the task is set
  up and started all the same; its run is not followed further. A task between `createtask` and `starttask`
  is on `blocked_q` with a context nobody wrote: after `createtask` its stack
  pointer is NULL, after `allocatestack` the context would lie behind the new
  stack, and `setuptask` leaves r16 alone. What those bytes read as is the constant
  `Residue`. `MALLOC` and `FREE` change nothing the model has.
- **PM.** `pt` are the pm_task_t structures by address, `word` the union of
  `waitfor` and `exitcode`, `ktask` and `vfs_tasks` the pids the kernel and vfs
  know. Allocation may fail wherever pm tests for it. `answer` is the reply to a
  `wait()` in the last step and `status` the code each process gave to `mexit()`;
  both are there for the properties only.
- **TS.** `client` and `request` are the clients' side; `elapsed` and `slept` count
  served ticks for the properties.
- **VFS.** `fd`, `filp`, `nodes` are the tables. `held` are the clients whose
  request is on hold in the pipe device. `wild` becomes true when the driver
  writes outside its node table; the model stops there. Descriptors are those inside
  `fd[]`, and a filp's count, a char in the code, is a number. `unread` is the history
  of each pipe: bytes written and not read. Paths and file positions, which no
  descriptor depends on, are in `Files`.
- **Sema.** `credit` is the history of a semaphore: its first value and its
  signals, less the clients let in.

- **Ipc, KernelIpc.** `task` says for each task what call it is in and with whom. A
  task that lies on `blocked_q` without having been started is `DORMANT`, whatever
  its context reads as; one on a ready queue is `RUNNING` like the current one.
- **Hal.** Every register holds a symbolic byte, `Own(t, r)` while task t runs, and
  `stack` are the bytes pushed, the last one first. `pc` is the place in the code of
  the kernel call, of a task's beginning or of its end. An interrupt (`Isr`) may come
  wherever the flag in SREG allows it. The flags of a new task are any, as
  `do_setuptask()` leaves them.
- **Boot.** `todo` is what each task still has to do before its loop. The timer may
  tick at each step, with one assumption about time: the interrupted task makes a
  step before the next tick (`late`), for a tick takes some 30 ms. Without it two
  ticks in a row could keep startup() between `starttask()` and the setting of the
  pid (main.c:74-75) while init already asks for pm. The transmit interrupt of
  the USART, which its event task enables with its first newline, is left to `Tty`.
- **Files.** `moved` counts the bytes that went through a filp. `stuck` is true when vfs has asked a device
  without a driver; the model stops there.
- **Tty.** `cur` and `high` are the running task and the ready queue of priority HIGH;
  user tasks run when it is empty. `rxcie`, `txcie`, `txc`, `rx`, `udr`, `busy` are the
  USART's registers, external to the code. `taken`, `got`, `asked`, `out` are histories
  of bytes; `stale` and `hit` record that an RX message found no character, and that
  pm or ex was interrupted before vfs was done. Those two are the tasks of priority HIGH
  that leave interrupts enabled (`Open`), so they can be interrupted and preempted;
  `pm` says whom pm is waiting for, ex is ready while it is in `high` or runs. Of their
  requests only the order of calls matters: pm asks ex for a program and vfs for a task's
  descriptors.
- **Shell.** `todo` are the calls the shell will make; `nextin`, `pip`, `fin` its
  variables of that name, `kid` the child it waits for. When its script
  cannot be opened the shell returns, that is, it exits (`ShOpenFails`). Programs are echo, cat, one
  that writes without end and one that reads one byte.
- **Parse.** `cmdline` is the buffer of the line, `cmd` that of the job, which is smaller;
  both begin with what `pmmalloc()` left there (JUNK). Positions stand for pointers into
  `cmd`. In the phase "overrun" the program has written or read behind `cmd` or `args`,
  which it does not test, and the model stops. `keys` and `closed` are histories.
- **Session.** `line` says which entry a running session belongs to, `zombies` are the
  sessions init has not been told of, `taken` the pids of other processes.

Definitions named `..._something` below a comment "Mutation:" are faulty versions
of the definition that follows them. They are not used by the specifications:
each is there to show, by putting it in place of the right one, that a property
does detect that fault. PROJECT.json says which property each must break.

## Runs

| run | instance | checks |
|---|---|---|
| `queue` | 2 queues, 3 items | `Linked`, `ForallInOrder`: an item can be first, last, in the middle, alone, and arrive with the links it had elsewhere |
| `kernel` | idle and boot task and 2 more, 3 priorities, 2 events | `QueuesPartition`, `CurrentSet`, `NoMissedRendezvous`, and `Implements`: each step is one of `Ipc`. A client, a server, a third task that interferes, an address used again |
| `pm` | 3 pids, 4 structures, 4 blocks, 2 codes | `OneQueue`, `ParentAlive`, `NoMissedExit`, `MemoryOwned`, `VfsInStep`, `ExitReported` |
| `pm_waitpid` | the same with 3 structures | `WaitpidDead` is **violated** |
| `ts` | 2 clients, a day of 16 ticks, ints of 3 bits | `UptimeExact`, `DelayExact`, `DelayEnds` |
| `vfs` | 3 tasks with 2 descriptors, 2 filps, 2 pipe nodes, 2 byte values | `FilpCounted`, `NodeHeld`, `HeldOnce`, `NoWaitAtOneEnd`, `BytesInOrder` |
| `sema` | 3 clients, 2 semaphores, 2 client_t | `Balance`, `NoIdleWaiter`, `NoStarvation` |
| `files` | 2 tasks with 2 descriptors, 2 filps, 4 device numbers (3 drivers), 2 nodes with 2 entries | `PosExact`, `NodeCounted` |
| `tty` | a user, pm and ex, 2 characters written and 2 typed (a letter, newline, backspace, Ctrl-C, Ctrl-D or 0xFF), a line buffer of 2 | `Served`, `OnlyThroughOpen`, `WriteEnds` |
| `boot` | all 13 tasks of the system, 3 ticks at any time | `SystemFirst`, `Booted` |
| `hal` | 3 tasks, one of them with an exit function | `RegistersKept`, `TrapOnly`, `IrqFlag`, `StartsRight` |
| `userland` | 6 command lines with up to 4 pipes and 5 other processes; every line of up to 9 characters with at most two redirections, in a line buffer of 10, a job buffer of 8 and 2 arguments; 4 pids for init | `PromptRestored`, `OutputComplete`, `JobsEnd`; `LineParsed`; `Restarted` |

The type invariant of each module is a conjunct of its first property, or, in
`Kernel` and `Queue`, of the inductive invariant; it is proved wherever that is.

Deadlock is checked in the queue, kernel, ts, boot and hal runs. The other models
may stop (every process exits, a table overruns, every client waits, the bounded
input has been typed), so there it is not an error.

The `userland` run holds three models that share no state; a behaviour follows one
of them (`part` in `MCUser`).

What the less obvious ones say:

- `Implements`. `Ipc` has no queues and no priorities. That `Kernel` refines it means
  that however tasks are queued, woken and rescheduled, a message only ever goes
  between two tasks that named each other (or TASK_ANY), a `sendrec()` becomes a
  `receive()` from the same task in one step, and nobody else is touched. It
  subsumes what was stated before as two properties of steps, that an answer comes
  from the task asked and that a sender is not let go early.
- `VfsInStep`. The one way to keep descriptors without running is a `spawn()` whose
  `exec` part fails after `vfs_createtask()`: the child stays in `task_q` for good
  (`LeftBehind`). That it does is also the subject of `MCPMExec.cfg`.
- `ExitReported`. The code in the answer is compared with the one given to `mexit()`, also
  when the parent is already waiting and the answer goes out in the same step.
- `LineParsed`. Names what the program gets for every line, redirections anywhere in it
  included, and which lines go beyond an array: those of `MAX_JOBLEN` characters or more,
  or with more than `MAX_ARGS` arguments, and no others. The bounds of the run let both happen.
- `OnlyThroughOpen`. Of a transmission there is always exactly one trace: the busy
  transmitter, its TXC flag, a message on its way, or one on hold. A trace is lost,
  or a character read twice, only after an interrupt came while pm or ex ran and vfs
  was not back in `receive()`.
- `PosExact` and `NodeCounted` hold as far as the model goes, which stops when vfs
  is stuck or the node table was left (see below).
- `JobsEnd`. Every line ends, also those with a program that writes without end once
  its reader is gone; this takes every copy of every pipe end to be closed by the
  shell, by launchers and by the jobs.

Bounds. Most state spaces are finite by themselves. Cut off are `Sema!MaxValue` (2;
the code has an unsigned int and no test), `Tty!MaxTyped` and `MaxAsked`,
`Parse!MaxTyped` and `MaxRedirects`, `Shell!MaxLines` and `Boot!MaxTicks`. Tables are smaller than in the code so that
each can be full before the others: PD_MAX_NODES 2 for 8, MAX_FILP 2 for 16, and so
on; in `Shell` they are as large as a line needs, for there the order of calls is
the question. Three tasks are needed in `vfs` for two that wait at one end of a pipe
and one at the other, four structures in `pm` for a parent, a zombie, a child with
its pid, and a grandchild. In `tty` two characters suffice for a line that is
edited and flushed, and for one too long when a character is taken twice; one user
is enough to have several requests in one queue, for the driver queues its own echo
with the user's writes. In
`boot` three ticks let the timer interrupt three different steps of the start-up.

Symmetry and views. Pids, addresses, blocks and byte values are interchangeable,
no expression orders them; runs with temporal properties other than of single
steps use no symmetry. The views of `MCKernel`, `MCPM` and `MCVFS` leave out
what no action can read again: the context of a task that is not blocked, a
`word` while its process runs, the fields of a free filp, the answer that was
just sent. Properties of steps are evaluated on every step all the same.

## Disagreements

Places where the code does other than it says. `pm_waitpid` is a run; the others
have a configuration, and TLC finds the named property violated (with
`-continue` both, where a configuration names two).

| configuration | what the code says | what happens |
|---|---|---|
| `MCPMWaitpid.cfg` | `WaitpidDead`: "Waits for this pid to die" (pm.c:12) | a running child with the pid of an older zombie brother is reported dead |
| `MCPMExec.cfg` | `ExecFailureRemoves`: "task should be removed completely" (pm.c:411) | it is neither removed nor answered |
| `MCKernelResidue.cfg` | `EventWakesWaiter`: "Check whether any task waits for this event" (kernel.c:342) | a task being set up may be taken for one that waits. The kernel run and theorems therefore assume `ResidueInert`: bytes nobody wrote do not read as one of the call codes the kernel looks for |
| `MCVFSFull.cfg` | `NodeTableBounded`: "Cannot create node" (vfs.c:301) | the driver has already written to `nodes[-1]` |
| `MCSemaDelete.cfg` | `DeleteReturns`: "No reply needed" (sema.c:152) | `deletesema()` waits for one, and with a client waiting at the semaphore there is none |
| `MCTtyLost.cfg` | `ReadFresh`: "Clear RX interrupt flag" (tty.c:175) | the interrupt is enabled again before UDR0 is read; when pm or ex was interrupted it continues first, the interrupt comes again, and one character is read twice |
| `MCTtyLost.cfg` | `TxRemembered`: "Executing the interrupt handler clears TXC flag" (tty.c:45) | while the event task is blocked in `send()` the handler clears the flag and finds nobody waiting; nothing is sent from then on |
| `MCFilesDevice.cfg` | `OpenReturns`: "Node not found on dev" (vfs.c:390) | with a device number no driver has, vfs does `sendrec()` to NULL and never comes back |
| `MCFilesDevice.cfg` | `NodesInTable`: the same comment | the device does not test that the node number is inside its table (ramdisk.c:129) |
| `MCBootMemory.cfg` | `StartupExits`: "It exits at the end" (main.c:16) | ex does not answer a registration it has no memory for (ex.c:107) |
| `MCUserArgs.cfg` | `NoMoreArgs`: "no more args" (sh.c:43) | in `a<b c` the word c becomes an argument |
| `MCUserSessions.cfg` | `OneEach`: "multiple sessions can be spawned upon init" (src/README.md:15) | with a second entry in the table, a pid used again makes init clear the wrong entry and start a second session on a line that has one |

## Fairness

- `TS`: the timer keeps running, tickd and ts have the highest priority and run
  until they block, so a pending overflow is taken and a pending tick is served.
- `Sema`: the server receives as long as there is a message. Nothing is assumed of
  clients; `NoStarvation` has the signals as its premise.
- `Tty`: the ready task of the highest priority runs, and a character that is being
  sent gets out (weak fairness). TXC stays set, so its interrupt is taken if tasks that
  leave interrupts enabled run again and again, even if others run between; and pm, ex
  and vfs at work for them get to their next `receive()` or answer however often the timer
  preempts them, for they go to the end of their own queue and each handles a request in
  finitely many steps (strong fairness). Users need not do anything, and nothing
  need be typed.
- `Shell`: user tasks have one priority and the timer preempts them, so each that
  can make a step does (weak fairness for each task); the servers below are always
  faster.
- `Boot`: the processor goes on with the task the kernel switched to; the timer need
  not tick.
- `Session`: init is scheduled with the other user tasks. Sessions need not end.

The kernel itself promises no fairness (it serves blocked senders youngest first,
and priorities are strict), and no liveness property is claimed of it.

## Proofs

`tlapm` checks eight modules and leaves no step open. All theorems hold for every
value of the constants that satisfies the named assumptions of the modules; TLC
evaluates those on the runs. Each inductive invariant was checked by TLC on the
run's instance before it was proved.

| module | proved | inductive invariant |
|---|---|---|
| `SeqLemmas` | facts about queues as sequences and about counting | |
| `KernelProofs` | `QueuesPartition`, `CurrentSet`, `NoMissedRendezvous`, `TypeOK`, the refinement `Implements` | `KInv`, from `ResidueInert` |
| `PMProofs` | `OneQueue`, `ParentAlive`, `NoMissedExit`, `MemoryOwned`, `VfsInStep`, `ExitReported` | `PInv` |
| `TSProofs` | `UptimeExact`, `DelayExact` | `TInv` |
| `VFSProofs` | `FilpCounted`, `NodeHeld`, `NoWaitAtOneEnd`, `HeldOnce`, `BytesInOrder` | `VInv` |
| `MachineProofs` | of `Queue`: `Linked`, `ForallInOrder` | `IInv` |
| | of `Hal`: `RegistersKept`, `TrapOnly`, `IrqFlag`, `StartsRight` | `HalInv` |
| | of `Tty`: `Served`, `OnlyThroughOpen` | `TtyInv` |
| `ServerProofs` | of `Sema`: `Balance`, `NoIdleWaiter`, `Addressed` | `SemaInv` |
| | of `Files`: `PosExact`, `NodeCounted` | `FInv` |
| `ParseProofs` | `LineParsed` | `ParseInv` |

**SeqLemmas.** Removal from a sequence keeps what else is in it and its order;
`Pick` is what `q_forall` leaves when its callback removes some items; `Entries`
are the places of a table of tables that hold a value, and `PointCount` and
`RowCount` say how their number changes when one place, or a whole row, is
written. The other proof modules rest on these.

**Queue** (`LinkedAlways`, `ForallAlways`). `Linked` says that head, tail, next and
prev of each queue follow its `contents`. It is not inductive: `q_remv` on
one queue writes to the neighbours of the item, which could be on another.
The invariant `IInv` adds that no item is on two queues or twice on one
(`Sound`), and `ForallInOrder`: `it` is the head of what is left of the sequence
`q_forall` began with. One lemma per operation shows what it does to the links of
its own queue and that it leaves all others alone; the freed item's links
may become anything.

**Kernel** (`KernelInvariant` and its corollaries, from `ResidueInert`). The
inductive invariant `KInv` is the conjunction of `TypeOK`, `QueuesPartition`,
`CurrentSet`, `NoMissedRendezvous` and three facts they need:

- `IdleReady`: the idle task is started and never blocked, so it is current or on
  the last ready queue and the scheduler never comes up empty;
- `StartedRun`: a task that is off `blocked_q` is started;
- `UnstartedInert`: the context of a task that is not started shows no call the
  kernel looks for, or the `receive()` of a client its manager has stopped and
  does not send to until it is started again (`MaySendTo`). Without it `send()` could
  deliver to a task under construction and make it ready.

The last of these is where the theorems lean on what the kernel does not ensure:
`ResidueInert` is a hypothesis of each of them, spelled out in its statement, and
`MCKernelResidue.cfg` shows what an interrupt does without it. No theorem is about the
case the hypothesis excludes.

`scheduler()`, removal from `blocked_q` and the search for a partner have lemmas of
their own; the step theorem has one case per action.

*Refinement* (`KernelImplementsIpc`, from `ResidueInert`). Under the mapping `Seen`
the first state is one of `Ipc`, and each action of `Kernel` is the step of `Ipc` of the
same name or a stutter. What a task is seen to do depends only on its stage, on
whether it is on `blocked_q` and on its saved call and pid (`StateOf`); lemmas about
removal from and arrival at `blocked_q` reduce each action to the one or two tasks
it names. `KInv` provides that the partner the kernel finds has been started, so
that its context is what it called with.

**PM** (`PmInvariant`). `PInv` is stated on the sets of structures that the three
queues hold: they are disjoint and without repetition; live processes have pids of
their own, which the kernel knows (`Living`); parents are alive (`Related`); nobody in
`wait_q` waits beside a zombie of its own or without a child (`Patient`); blocks have
one owner (`Owned`) and one place in it (`Tidy`); vfs is in step (`VfsInStep`); a zombie's
word is the code it gave to `mexit()`. `ExitReported` is a property of steps and is proved
from `PInv` action by action. Exit codes may be
any words, pids and NULL included: nothing in the proofs takes them apart.

**TS** (`TSInvariant`). `Clock` says that the ticks since boot are the number the
counters spell, in their mixed radix, and `step_timer` has a lemma for each carry.
`Timers`: no client has two timers, its owner sleeps, and what it has slept plus what
is left is what it asked for; `managedelay` is `Pick` of the timers that are not at 1.
Assumed are more than one tick to a second (30 in the code) and delays that fit
an int.

**VFS** (`VfsInvariant`). `VInv` is a predicate of the tables, so that it can be stated of
the intermediate tables of a request that changes several in turn: each filp counts
its descriptors, each node has a reference for every filp on it, a node with one
reference has nobody on hold, requests on hold are one per client and of one kind, and
the bytes of a pipe are those of its waiting writers. `vfs_removetask()` closes the
descriptors of a task in a loop (`Closing`); that the parts of `VInv` survive every
turn is shown with a least counterexample, for there is no induction rule the
provers can use. The answers to clients on hold when the other end goes away are
removed from the queue with the lemmas about `Pick`.

**Sema** (`SemaInvariant`). `Balance` and `NoIdleWaiter` are inductive with two facts about
messages on their way: the semaphore a message names exists (`Addressed`), and a
`deletesema()` is the only call under way on its semaphore (`DeleteAlone`), which is
what the model asks of callers, since the server follows the address unchecked.

**Files** (`FilesInvariant`). `NodeCounted` and `PosExact` need that a filp counts its
descriptors (`Counted`: else a close could release a node twice, or a dup revive a
free filp), and that a filp in use on memfile is on a node of the table
(`Positions`). What memfile answers to a read or a write is summed up in `Answered`:
the same references, and one byte or none. Assumed are `EOF` that is no byte, and
three places for devices in the table.

**Hal** (`HalInvariant` and its four corollaries), for any number of tasks, with or
without exit functions. What a task sees when it runs depends on a context that was
written long before, so `HalInv` says of every task that has not ended and does not
run what lies on its stack: a context that `RESTORE_CONTEXT` reads as the
registers it left, over the address it goes on at, over its frame and its exit functions
(`Suspended`, from `Holds` and `GoesOn`). The running task has those registers
(`Runs`), between the pops and RET or RETI its address is still on the stack
(`Resumes`), in the kernel the task that was left is either where an interrupt met it or
just behind its trap (`InKernel`), and outside it the kernel's own context waits
(`KernelSaved`). `IrqFlag` needs that only the first context of a task has the I flag
saved as set, and then for a task that never called `kirqdis()`. The lists of pushes and
pops are written out, so that what is saved and restored is shown register by
register once, in lemmas, and the cases of the actions use these alone.

**Tty** (`TtyInvariant`), for any clients, any characters and any length of `tbuf`;
assumed is that NONE is no client (`TtyAssumption`).
`Lines` states what `Served` does with the line itself and not only its length: what
readers got and what waits in `rd_q` is the text, and `tbuf` the line, that the reference
editor `Edited` makes of the characters read from UDR0. Both `tty_flush()` and the editor
are recursive functions. That there is a function with those equations (`Turns`), and that
the loop of `tty_flush()` appends the line (`Flushed`), is shown with a least
counterexample; a character typed adds one turn to the editor, so its equation is
unrolled once. `Scheduled` says that vfs, the driver and pm are ready exactly when they have
something to do, and `Fresh` that a receive message has a character behind it and the event
task is not kept waiting unless an interrupt came to pm or ex first (`hit`). That is what makes
`OnlyThroughOpen` inductive, with `Tokens`: the end of a transmission is in one place, never
in two.

**Parse** (`LineAlwaysParsed`), for every line and any sizes of the three arrays, the line's
from 2 on and the job's from 1 (`ParseAssumption`; sh.c has 128, 32 and 8). While
`parse_args()` is at `t`, `ParseInv` says that `cmd` holds the letters of the words and zeros
before `t` and the rest of the line behind it (`Buffer`), what the state remembers of the last
character that is no blank (`State`), and that files and arguments are those of the words
that begin before `t` (`Files`, `Args`): arguments are counted as sets of positions (`Upto`,
`Begun`), so no recursion over the line is needed, and none is added once a '<' or '>' has stood
apart (`Ended`). The lines that overrun an array are not excluded: the theorem says which they are.

Only model-checked:

- liveness (`DelayEnds`, `NoStarvation`, `WriteEnds`, `Booted`, `JobsEnd`, `Restarted`):
  fairness and ENABLED are out of the prover's reach;
- `SystemFirst`: `Boot` is the script of the thirteen tasks of main.c, without a parameter
  but the memory; a proof would go through the positions of that one script, which is what
  TLC does;
- `PromptRestored` and `OutputComplete`: they speak of what the shell's script has done at
  each of its positions on top of the tables of `VFS`. An invariant would need one
  part for each position, and what `VFS` answers there; `VfsInvariant`, which
  covers the tables underneath, is proved.

## What is not modelled

- The contents of messages in the kernel and the copying in `delivermsg()`.
- What a task does that was started on a stack it does not have (`allocatestack()`
  failed), and what follows when `kmalloc()` in the drivers and for the driver tables
  fails: the code does not test these and goes on with NULL or freed memory.
- Descriptors beyond `fd[]`: vfs.c:410 and 451 test only for negative ones, and
  8 and more read what lies behind the array. No program of the repository passes one.
  `filp.refcnt` is a char and modelled as a number: to wrap, it takes 128 descriptors on
  one filp, all eight of sixteen tasks.
- What the shell does after a job that is too long or has too many words has left its
  buffer or `args`; only that it does is in `Parse`. Its builtin commands, comments and
  escapes, among them the comparison of a NULL name in `builtin()` for an empty line;
  spawns and pipes that fail, whose results it uses untested; a file that
  `exec_job()` cannot open, after which the job ends without running its program.
- VFS_UNLINK of the memory device, which vfs never sends; VFS_LINK only counts, for
  file names are not implemented (src/README.md:12). Raw mode of the tty, which
  nothing sets. VFS_DEBUG, which returns a counter nobody increments.
- The applications other than echo and cat: straight-line programs over the same
  calls and formatted output. `getopt()`.
- `misc/`: an allocator that is not part of the build, and vendored headers.
- External memory pages and the second USART of hal.

## Plan

Done, in this order: Queue and its proofs, Kernel and its proofs, PM, TS, VFS with
Pipedev, Sema; then Tty, Memfile and Files, Ipc and the refinement, Shell, Parse,
Session, Boot, Hal.

Then the proofs: the refinement of `Ipc`, Sema, PM, TS, VFS, Files, Hal, Tty, Parse.

Left are proofs of `Shell!PromptRestored` and `OutputComplete`, on top of
`VfsInvariant`, and of `Session!TypeOK`.

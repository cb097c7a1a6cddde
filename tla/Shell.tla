-------------------------------- MODULE Shell --------------------------------
(***************************************************************************)
(* usr/sh.c on top of vfs and pm: the job tree of a command line.          *)
(*                                                                         *)
(* The shell moves its own descriptors 0, 1 and 5 about with close(),      *)
(* dup() and pipe(), spawns a task that inherits them, and waits for it.   *)
(* A job that ends in ';' or the line is spawned directly, one that ends   *)
(* in '|' or '&' by a launcher that exits at once.  Every call to vfs is   *)
(* one step of module VFS, so that all tasks interleave between any two    *)
(* calls.  Of pm the model has what the shell sees: spawned tasks inherit  *)
(* the descriptors, exit closes them, wait() returns when the only child   *)
(* has exited.                                                             *)
(*                                                                         *)
(* A line is a sequence of jobs, a program and what ends it.  The programs *)
(* are those of usr/apps.c as far as a pipe sees them: echo writes some    *)
(* bytes, cat copies until end of file, "yes" writes without end (repeat), *)
(* "head" reads one byte, "" is the empty job.                             *)
(***************************************************************************)
EXTENDS VFS

CONSTANTS SH,           \* the shell's pid
          Lines,        \* command lines typed
          MaxLines,     \* bound: how many of them
          Bytes         \* how many bytes echo writes

ASSUME ShellAssumption == SH \in Pid /\ MAX_FD = 8 /\ Data = 1..Bytes

TTY == 2
STDMAX == 3

VARIABLES todo,     \* the calls the shell still has to make for this line
          nextin,   \* where the next job reads from
          pip,      \* the last pipe's descriptors
          fin,      \* where the shell reads its lines from
          kid,      \* the shell's child, or NONE
          proc,     \* the other tasks: where they are in their program
          typed,    \* history: the lines so far
          out       \* history: what was written to the terminal

shell == <<todo, nextin, pip, fin, kid>>
allvars == <<vars, shell, proc, typed, out>>

Idle == [at |-> "none", prog |-> "", byte |-> 1]

-----------------------------------------------------------------------------
(* The calls.  NEXTIN and PIP1 stand for the values of nextin and pip[1].  *)

NEXTIN == -1
PIP1 == -2

Op(name, arg) == [op |-> name, arg |-> arg, prog |-> ""]

JOB_INIT == <<Op("close", 0), Op("dup", 3), Op("close", 1), Op("dup", 4), Op("nextin", 3)>>

\* Mutation: standard output is not closed first.
JOB_PIPE_beside == <<Op("close", 0), Op("dup", NEXTIN), Op("close", 5), Op("pipe", 0),
                     Op("dup", PIP1), Op("close", PIP1)>>

JOB_PIPE == <<Op("close", 0), Op("dup", NEXTIN), Op("close", 5), Op("pipe", 0),
              Op("close", 1), Op("dup", PIP1), Op("close", PIP1)>>

\* Mutation: the read end stays open beside standard input.
JOB_NOPIPE_keeps == <<Op("close", 0), Op("dup", NEXTIN), Op("close", 1), Op("dup", 4)>>

JOB_NOPIPE == <<Op("close", 0), Op("dup", NEXTIN), Op("close", 5), Op("close", 1), Op("dup", 4)>>

\* execute(): spawn exec_job or launch_job, send the command, wait.
execute(direct, prog) ==
  <<[op |-> IF direct THEN "spawn" ELSE "launch", arg |-> 0, prog |-> prog],
    Op("send", 0), Op("wait", 0)>>

JobCalls(j) ==
  IF j.sep = "|" THEN JOB_PIPE \o execute(FALSE, j.prog)
  ELSE JOB_NOPIPE \o execute(j.sep # "&", j.prog) \o JOB_INIT

\* sh(): what is done before the first prompt.
Startup(script) ==
  <<Op("dup", 0), Op("dup", 1)>> \o JOB_INIT \o <<Op("dup", 0)>>
    \o (IF script THEN <<Op("open", 0)>> ELSE <<>>) \o <<Op("close", 5)>>

ShellInit ==
  /\ known = {SH}
  /\ fd = [p \in Pid |-> [i \in Fd |-> IF p = SH /\ i < STDMAX THEN i ELSE -1]]
  /\ filp = [f \in Filp |-> IF f < STDMAX THEN [dev |-> TTY, ino |-> 0, refcnt |-> 1]
                            ELSE FreeFilp]
  /\ nodes = [i \in Ino |-> NONE] /\ held = {} /\ answers = NoAnswers
  /\ wild = FALSE /\ unread = [i \in Ino |-> <<>>]
  /\ \E script \in BOOLEAN : todo = Startup(script)
  /\ nextin = 3 /\ pip = <<5, 6>> /\ fin = 0 /\ kid = NONE
  /\ proc = [p \in Pid |-> Idle]
  /\ typed = <<>> /\ out = <<>>

-----------------------------------------------------------------------------
(* Tasks.                                                                  *)

\* What a program does first, and next when its readc() or writec() returns
\* d.  EOF from writec() ends it: mfputc() "behaves like SIGPIPE".
Begin(prog) ==
  [at |-> IF prog \in {"echo", "yes"} THEN "write" ELSE IF prog = "" THEN "exit" ELSE "read",
   prog |-> prog, byte |-> 1]

Continue(s, d) ==
  CASE d = EOF -> [s EXCEPT !.at = "exit"]
    [] d # EOF /\ s.prog = "cat" /\ s.at = "read" -> [s EXCEPT !.at = "write", !.byte = d]
    [] d # EOF /\ s.prog = "cat" /\ s.at = "write" -> [s EXCEPT !.at = "read"]
    [] d # EOF /\ s.prog = "head" -> [s EXCEPT !.at = "exit"]
    [] d # EOF /\ s.prog = "echo" -> IF s.byte = Bytes THEN [s EXCEPT !.at = "exit"]
                                     ELSE [s EXCEPT !.byte = @ + 1]
    [] d # EOF /\ s.prog = "yes" -> s

\* The tasks after a step of vfs: those that got an answer go on.
Answered(procs) ==
  [p \in Pid |-> IF p \in DOMAIN answers' THEN Continue(procs[p], answers'[p]) ELSE procs[p]]

Arg(k) == IF k = NEXTIN THEN nextin ELSE IF k = PIP1 THEN pip[2] ELSE k

\* The shell's next call is this one.
Calls(name) == todo # <<>> /\ Head(todo).op = name /\ todo' = Tail(todo)

ShClose ==
  /\ Calls("close")
  /\ Close(SH, Arg(Head(todo).arg))
  /\ proc' = Answered(proc)
  /\ UNCHANGED <<nextin, pip, fin, kid, typed, out>>

ShDup ==
  /\ Calls("dup")
  /\ Dup(SH, Arg(Head(todo).arg))
  /\ UNCHANGED <<nextin, pip, fin, kid, proc, typed, out>>

\* pipe(), and nextin = pip[0], which is not used before.
ShPipe ==
  /\ Calls("pipe")
  /\ Pipe(SH)
  /\ pip' = LET new == {i \in Fd : fd[SH][i] = -1 /\ fd'[SH][i] # -1}
            IN <<Min(new), Max(new)>>
  /\ nextin' = pip'[1]
  /\ UNCHANGED <<fin, kid, proc, typed, out>>

ShNextin ==
  /\ Calls("nextin")
  /\ nextin' = Head(todo).arg
  /\ UNCHANGED <<vars, pip, fin, kid, proc, typed, out>>

\* sh with a file name: the file is some node of another device.
ShOpen ==
  /\ Calls("open")
  /\ fin' = find_empty_fd(fd[SH])
  /\ Open(SH, 1, 0)
  /\ UNCHANGED <<nextin, pip, kid, proc, typed, out>>

\* There is no such file: sh() returns, that is, the shell exits.
ShOpenFails ==
  /\ todo # <<>> /\ Head(todo).op = "open" /\ todo' = <<Op("none", 0)>>
  /\ DelTask(SH)
  /\ UNCHANGED <<nextin, pip, fin, kid, proc, typed, out>>

\* Mutation: exec_job() keeps what it inherits.
Born_keeps(launcher, prog) ==
  [at |-> IF launcher THEN "receive" ELSE "ready", prog |-> prog, byte |-> STDMAX]

\* A spawned task: a launcher receives its command; exec_job() first closes
\* what it inherits beyond standard error, byte being the next descriptor.
Born(launcher, prog) ==
  [at |-> IF launcher THEN "receive" ELSE "close", prog |-> prog, byte |-> STDMAX]

ShSpawn ==
  \E p \in Pid \ known :
    /\ Calls("spawn") \/ Calls("launch")
    /\ AddTask(p, SH)
    /\ kid' = p
    /\ proc' = [proc EXCEPT ![p] = Born(Head(todo).op = "launch", Head(todo).prog)]
    /\ UNCHANGED <<nextin, pip, fin, typed, out>>

\* The command goes to the child when that calls receive().
ShSend ==
  /\ Calls("send")
  /\ proc[kid].at \in {"receive", "ready"}
  /\ proc' = [proc EXCEPT ![kid] = IF @.at = "receive" THEN [@ EXCEPT !.at = "spawn"]
                                   ELSE Begin(@.prog)]
  /\ UNCHANGED <<vars, nextin, pip, fin, kid, typed, out>>

ShWait ==
  /\ Calls("wait")
  /\ kid = NONE
  /\ UNCHANGED <<vars, nextin, pip, fin, kid, proc, typed, out>>

\* At the prompt: getcmd(), and the walk along the line.
AtPrompt == todo = <<>>

Command(l) ==
  /\ AtPrompt /\ Len(typed) < MaxLines
  /\ typed' = Append(typed, l)
  /\ todo' = FlattenSeq([k \in DOMAIN l |-> JobCalls(l[k])])
  /\ UNCHANGED <<vars, nextin, pip, fin, kid, proc, out>>

-----------------------------------------------------------------------------
\* launch_job(): spawns exec_job, sends it the command and exits.  byte is
\* not used by a launcher.
Launch(p) ==
  \E q \in Pid \ known :
    /\ proc[p].at = "spawn"
    /\ AddTask(q, p)
    /\ proc' = [proc EXCEPT ![p].at = "send", ![q] = Born(FALSE, proc[p].prog)]
    /\ UNCHANGED <<shell, typed, out>>

LaunchSend(p, q) ==
  /\ proc[p].at = "send" /\ q # kid /\ proc[q].at = "ready" /\ proc[q].prog = proc[p].prog
  /\ proc' = [proc EXCEPT ![p].at = "exit", ![q] = Begin(@.prog)]
  /\ UNCHANGED <<vars, shell, typed, out>>

\* exec_job(): close(3) to close(MAX_FD - 1).
JobCloses(p) ==
  LET i == proc[p].byte
  IN /\ proc[p].at = "close"
     /\ Close(p, i)
     /\ proc' = Answered([proc EXCEPT ![p] =
                  IF i = MAX_FD - 1 THEN [@ EXCEPT !.at = "ready"] ELSE [@ EXCEPT !.byte = @ + 1]])
     /\ UNCHANGED <<shell, typed, out>>

\* readc(STDIN) and writec(STDOUT) on a pipe, and output on the terminal.
JobReads(p) ==
  /\ proc[p].at = "read"
  /\ RwPipe(p, 0, "READC", EOF)
  /\ proc' = Answered(proc)
  /\ UNCHANGED <<shell, typed, out>>

JobWrites(p) ==
  /\ proc[p].at = "write"
  /\ RwPipe(p, 1, "WRITEC", proc[p].byte)
  /\ proc' = Answered(proc)
  /\ UNCHANGED <<shell, typed, out>>

JobPrints(p) ==
  /\ proc[p].at = "write" /\ fd[p][1] >= 0 /\ filp[fd[p][1]].dev = TTY
  /\ out' = Append(out, proc[p].byte)
  /\ proc' = [proc EXCEPT ![p] = Continue(@, @.byte)]
  /\ UNCHANGED <<vars, shell, typed>>

\* mexit(): pm has vfs remove the task; the shell's wait() can return.
Exit(p) ==
  /\ proc[p].at = "exit"
  /\ DelTask(p)
  /\ proc' = Answered([proc EXCEPT ![p] = Idle])
  /\ kid' = IF p = kid THEN NONE ELSE kid
  /\ UNCHANGED <<todo, nextin, pip, fin, typed, out>>

ShStep ==
  \/ ShClose \/ ShDup \/ ShPipe \/ ShNextin \/ ShOpen \/ ShOpenFails
  \/ ShSpawn \/ ShSend \/ ShWait

TaskStep(p) ==
  \/ Launch(p) \/ JobCloses(p) \/ JobReads(p) \/ JobWrites(p) \/ JobPrints(p) \/ Exit(p)
  \/ \E q \in Pid : LaunchSend(p, q)

ShellNext ==
  \/ ShStep
  \/ \E l \in Lines : Command(l)
  \/ \E p \in Pid : TaskStep(p)

\* All these tasks have one priority, and the timer preempts them.
ShellSpec ==
  /\ ShellInit /\ [][ShellNext]_allvars
  /\ WF_allvars(ShStep) /\ \A p \in Pid : WF_allvars(TaskStep(p))

-----------------------------------------------------------------------------
(* Properties.                                                             *)

(* Types of the shell's variables and of the tasks.                        *)
ShellTypeOK ==
  /\ \A k \in DOMAIN todo : todo[k].arg \in Fd \cup {NEXTIN, PIP1}
  /\ nextin \in Fd /\ fin \in Fd /\ {pip[1], pip[2]} \subseteq Fd
  /\ kid \in known \cup {NONE}
  /\ \A p \in Pid : p \in known \ {SH} <=> proc[p].at # "none"
  /\ out \in Seq(Data)

(* At the prompt the shell has the descriptors it started with: 0 and 3    *)
(* the terminal's input, 1 and 4 its output, 2, the script if there is one *)
(* and no end of any pipe, whatever the line was; "ASSERT(fin == 6)"       *)
(* (sh.c:279) holds.                                                       *)
PromptRestored ==
  /\ ShellTypeOK
  /\ AtPrompt =>
       /\ fin \in {0, 6} /\ nextin = 3
       /\ \A k \in Fd : fd[SH][k] = CASE k \in {0, 3} -> 0
                                      [] k \in {1, 4} -> 1
                                      [] k = 2 -> 2
                                      [] k \in {5, 7} -> -1
                                      [] k = 6 -> IF fin = 6 THEN 3 ELSE -1

\* Reference: what a line prints.  A job that ends in '|' feeds the next.
Printed(l) ==
  LET Text(k) == IF l[k].prog = "echo" THEN [i \in 1..Bytes |-> i] ELSE <<>>
      f[k \in 0..Len(l)] ==
        IF k = 0 THEN [pipe |-> <<>>, out |-> <<>>]
        ELSE LET made == IF l[k].prog = "cat" THEN f[k - 1].pipe ELSE Text(k)
             IN IF l[k].sep = "|" THEN [f[k - 1] EXCEPT !.pipe = made]
                ELSE [pipe |-> <<>>, out |-> f[k - 1].out \o made]
  IN f[Len(l)].out

Ended == AtPrompt /\ known = {SH}

Foreground(l) == \A k \in DOMAIN l : l[k].sep # "&"

(* When lines without '&' have ended, the terminal shows what they print,  *)
(* each byte once and in order, through however many pipes: no job is      *)
(* taken for at its end before it has read everything.                     *)
OutputComplete ==
  Ended /\ (\A k \in DOMAIN typed : Foreground(typed[k])) =>
    out = FlattenSeq([k \in DOMAIN typed |-> Printed(typed[k])])

(* Every line ends and its jobs with it, the one that writes without end   *)
(* too once nobody reads: no task is left waiting at a pipe whose other    *)
(* end the shell, a launcher or a sister keeps open.                       *)
JobsEnd == []<>(Ended \/ Len(typed) = 0)
=============================================================================

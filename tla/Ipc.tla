--------------------------------- MODULE Ipc ---------------------------------
(***************************************************************************)
(* What the message calls of kernel/kernel.h promise: synchronous          *)
(* rendez-vous between tasks, without queues, priorities, or saved         *)
(* registers.  A task runs, waits in a call, or has no program to run; any *)
(* task that runs may make a call; where several partners are possible any *)
(* may be chosen.  KernelIpc shows that module Kernel implements it.       *)
(***************************************************************************)
CONSTANTS Task, NULL, TASK_ANY,
          Booted        \* the tasks that run at the start

VARIABLE task           \* the call each task is in, and the other party

Is(call, peer) == [call |-> call, peer |-> peer]
Absent == Is("ABSENT", NULL)      \* there is no such task
Dormant == Is("DORMANT", NULL)    \* it exists and was not started, or stopped
Running == Is("RUNNING", NULL)
Waits == Is("WAITEVENT", NULL)

TypeOK ==
  task \in [Task -> [call : {"ABSENT", "DORMANT", "RUNNING", "WAITEVENT",
                             "SEND", "SENDREC", "RECEIVE"},
                     peer : Task \cup {NULL, TASK_ANY}]]

Init == task = [t \in Task |-> IF t \in Booted THEN Running ELSE Absent]

\* r would take a message of s.
Accepts(r, s) == task[r].call = "RECEIVE" /\ task[r].peer \in {s, TASK_ANY}

\* s offers a message to r.
Offers(s, r) == task[s].call \in {"SEND", "SENDREC"} /\ task[s].peer = r

\* createtask(), starttask(), stoptask() and deletetask(), and exit.
Create(t) == task[t] = Absent /\ task' = [task EXCEPT ![t] = Dormant]
Start(t) == task[t] = Dormant /\ task' = [task EXCEPT ![t] = Running]
Stop(t, m) == task[t] = Is("RECEIVE", m) /\ task' = [task EXCEPT ![t] = Dormant]
Delete(t) == task[t] = Dormant /\ task' = [task EXCEPT ![t] = Absent]
Exit(t) == task[t] = Running /\ task' = [task EXCEPT ![t] = Absent]

\* waitevent(), and the event.
WaitEvent(t) == task[t] = Running /\ task' = [task EXCEPT ![t] = Waits]
Wake(t) == task[t] = Waits /\ task' = [task EXCEPT ![t] = Running]

\* send(): returns at once if d is ready to receive.
Send(t, d) ==
  /\ task[t] = Running
  /\ \/ Accepts(d, t) /\ task' = [task EXCEPT ![d] = Running]
     \/ ~Accepts(d, t) /\ task' = [task EXCEPT ![t] = Is("SEND", d)]

\* sendrec(): waits for the answer, whether d was ready or not.
SendRec(t, d) ==
  /\ task[t] = Running
  /\ \/ Accepts(d, t) /\ task' = [task EXCEPT ![d] = Running, ![t] = Is("RECEIVE", d)]
     \/ ~Accepts(d, t) /\ task' = [task EXCEPT ![t] = Is("SENDREC", d)]

\* receive(): takes the message of one of the tasks that offer one.
Receive(t, src) ==
  LET senders == {s \in Task : Offers(s, t) /\ src \in {s, TASK_ANY}}
  IN /\ task[t] = Running
     /\ \/ senders = {} /\ task' = [task EXCEPT ![t] = Is("RECEIVE", src)]
        \/ \E s \in senders :
             task' = [task EXCEPT ![s] = IF @.call = "SENDREC" THEN Is("RECEIVE", t)
                                         ELSE Running]

\* What one task does.
Step(t) ==
  \/ Create(t) \/ Start(t) \/ Delete(t) \/ Wake(t)
  \/ \E m \in Task : Stop(t, m)
  \/ /\ task[t] = Running
     /\ \/ Exit(t) \/ WaitEvent(t)
        \/ \E d \in Task : Send(t, d) \/ SendRec(t, d)
        \/ \E src \in Task \cup {TASK_ANY} : Receive(t, src)

\* A call that does nothing is no step.
Next == task' # task /\ \E t \in Task : Step(t)

Spec == Init /\ [][Next]_task
=============================================================================

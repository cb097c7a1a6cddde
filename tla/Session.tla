------------------------------- MODULE Session -------------------------------
(***************************************************************************)
(* usr/init.c: init() keeps one process running for every line of its      *)
(* session table, which holds the pid spawntask() returned for it.         *)
(*                                                                         *)
(* A session is one process from launchsession() through getty, login and  *)
(* sh: execv() keeps its pid.  What the process manager does for init is   *)
(* taken from servers/pm.c (module PM has all of it): a process that exits *)
(* gives its pid back at once, also when it stays behind as a zombie until *)
(* init asks for it.                                                       *)
(***************************************************************************)
EXTENDS Naturals, Sequences, FiniteSets

CONSTANTS Pid,         \* pids for processes other than init
          Sessions,    \* entries of the session table
          NULL,
          Entry,       \* address of launchsession(), no pid
          SpawnFails   \* may do_spawn() fail?

VARIABLES session,   \* session[i].pid
          at,        \* entry of the first loop, past it, or in wait()
          line,      \* entry a running session was started for, 0 for none
          zombies,   \* pids of init's zombie children, oldest first
          taken      \* pids of processes that are not children of init

vars == <<session, at, line, zombies, taken>>

Entries == 1..Sessions
Running == {p \in Pid : line[p] # 0}

\* Addresses createtask() may return.
Free == Pid \ (Running \cup taken)

\* Before the first turn of init's loop.
Init ==
  /\ session = [i \in Entries |-> NULL]
  /\ at = 1
  /\ line = [p \in Pid |-> 0]
  /\ zombies = <<>>
  /\ taken = {}

-----------------------------------------------------------------------------
\* The first loop of init(): an entry with no pid gets a new process.  When
\* do_spawn() gives up it leaves the message as it came, and the pid of the
\* answer is the entry point of the request.
Spawns ==
  /\ at \in Entries /\ session[at] = NULL
  /\ \/ \E p \in Free : /\ session' = [session EXCEPT ![at] = p]
                        /\ line' = [line EXCEPT ![p] = at]
     \/ SpawnFails /\ session' = [session EXCEPT ![at] = Entry] /\ UNCHANGED line
  /\ at' = at + 1
  /\ UNCHANGED <<zombies, taken>>

Skips ==
  /\ at \in Entries /\ session[at] # NULL
  /\ at' = at + 1
  /\ UNCHANGED <<session, line, zombies, taken>>

\* The second loop, after wait() returned p: the first entry that has this
\* pid is cleared, and the first loop starts again.
Told(p) ==
  LET hits == {i \in Entries : session[i] = p}
  IN /\ session' = [i \in Entries |->
                      IF i \in hits /\ \A j \in hits : i <= j THEN NULL ELSE session[i]]
     /\ at' = 1

\* wait(NULL): a zombie is reported at once, nobody when there is no child,
\* and otherwise init blocks.
Reaps ==
  /\ at = Sessions + 1
  /\ zombies # <<>>
  /\ Told(Head(zombies))
  /\ zombies' = Tail(zombies)
  /\ UNCHANGED <<line, taken>>

NoChild ==
  /\ at = Sessions + 1
  /\ zombies = <<>> /\ Running = {}
  /\ Told(NULL)
  /\ UNCHANGED <<line, zombies, taken>>

Waits ==
  /\ at = Sessions + 1
  /\ zombies = <<>> /\ Running # {}
  /\ at' = Sessions + 2
  /\ UNCHANGED <<session, line, zombies, taken>>

-----------------------------------------------------------------------------
\* Mutation: the parent that waits is not found.
Exits_zombie(p) ==
  /\ p \in Running
  /\ line' = [line EXCEPT ![p] = 0]
  /\ zombies' = Append(zombies, p)
  /\ UNCHANGED <<session, at, taken>>

\* do_exit() of a session: init is told if it waits.
Exits(p) ==
  /\ p \in Running
  /\ line' = [line EXCEPT ![p] = 0]
  /\ \/ at = Sessions + 2 /\ Told(p) /\ UNCHANGED zombies
     \/ at # Sessions + 2 /\ zombies' = Append(zombies, p) /\ UNCHANGED <<session, at>>
  /\ UNCHANGED taken

\* Jobs of the shells come and go; they leave init a pid.
JobStarts(p) ==
  /\ p \in Free /\ Cardinality(Free) > 1
  /\ taken' = taken \cup {p}
  /\ UNCHANGED <<session, at, line, zombies>>

JobEnds(p) ==
  /\ p \in taken
  /\ taken' = taken \ {p}
  /\ UNCHANGED <<session, at, line, zombies>>

InitSteps == Spawns \/ Skips \/ Reaps \/ NoChild \/ Waits

Next ==
  \/ InitSteps
  \/ \E p \in Pid : Exits(p) \/ JobStarts(p) \/ JobEnds(p)

\* init is scheduled round robin with the other user processes.
Spec == Init /\ [][Next]_vars /\ WF_vars(InitSteps)

-----------------------------------------------------------------------------
(* Types: the table holds pids, the zombies are no more than the table.    *)
TypeOK ==
  /\ session \in [Entries -> Pid \cup {NULL, Entry}]
  /\ at \in 1..(Sessions + 2)
  /\ line \in [Pid -> 0..Sessions]
  /\ Len(zombies) <= Sessions
  /\ taken \subseteq Pid \ Running

(* A session that ended is started again, wherever its exit met init in    *)
(* its loop and whoever has its pid by then; only a spawntask() that fails *)
(* ends that: its result is taken for a pid (usr/init.c:45).               *)
Restarted ==
  /\ []TypeOK
  /\ \A i \in Entries :
       (\A p \in Pid : line[p] # i) ~> (session[i] = Entry \/ \E p \in Pid : line[p] = i)

(* README.md:15, "multiple sessions can be spawned upon init": a terminal  *)
(* never has two sessions.                                                 *)
OneEach == \A p, r \in Running : line[p] = line[r] => p = r
=============================================================================

-------------------------------- MODULE MCPM --------------------------------
(* Three pids and four structures: a parent, a child and a grandchild; or  *)
(* a parent, a zombie child and a new child that has the zombie's pid.     *)
(* Four blocks: arguments for all, or for two and a chunk of memory.       *)
EXTENDS PM, TLC

Symm == Permutations(Pid) \cup Permutations(Struct) \cup Permutations(Block)

\* answer says what the last step sent and is never read; waitfor is read
\* while its process is in wait_q, exitcode and status while it is a zombie.
State ==
  <<task_q, wait_q, zombie_q, heap, ktask, vfs_tasks, unanswered,
    [s \in Struct |-> IF s \in Zombies THEN status[s] ELSE NULL],
    [s \in Struct |-> IF s \in Tasks THEN [pt[s] EXCEPT !.word = NULL] ELSE pt[s]]>>
=============================================================================

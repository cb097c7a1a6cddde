-------------------------------- MODULE MCVFS --------------------------------
(* Three tasks (two wait at one end of a pipe, one at the other) with two  *)
(* descriptors each, two filps and two pipe nodes: each of the tables can  *)
(* fill up before the others, in the middle of pipe() too, and a node that *)
(* pipe() left behind can be opened again beside another one.              *)
EXTENDS VFS, TLC

Symm == Permutations(Pid) \cup Permutations(Data)

\* answers says what the last step sent and is never read; the fields of a
\* filp that is free are written before they are read.
State == <<known, fd, [f \in Filp |-> IF filp[f].refcnt = 0 THEN FreeFilp ELSE filp[f]],
           nodes, held, wild, unread>>
==============================================================================

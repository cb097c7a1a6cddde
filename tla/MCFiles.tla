------------------------------- MODULE MCFiles -------------------------------
(* Two tasks with two descriptors, two filps, a file or directory of three *)
(* bytes: positions reach the end of a file, files are shared, and two     *)
(* positions differ.  Device 3 has no driver at first.                     *)
EXTENDS Files, TLC

P(dirs, base) == [dirs |-> dirs, base |-> base]
Paths == {NONE, P(<<>>, 97), P(<<Dot>>, Dot), P(<<97>>, 0)}

Symm == Permutations(Pid)
=============================================================================

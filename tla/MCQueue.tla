------------------------------ MODULE MCQueue ------------------------------
(* Two queues and three items: an item can be first, last, in the middle   *)
(* or alone, and can come to a queue with the links it had on another.     *)
EXTENDS Queue, TLC

CONSTANTS q1, q2, a1, a2, a3

MCQueueId == {q1, q2}
MCItem == {a1, a2, a3}

\* The operations treat all items, and all queues, alike.
Symm == Permutations(MCItem) \cup Permutations(MCQueueId)
=============================================================================

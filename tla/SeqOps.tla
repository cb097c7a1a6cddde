------------------------------ MODULE SeqOps ------------------------------
(* The queues of lib/queue.c seen as sequences: what q_remv does to the    *)
(* sequence that the links of a queue spell.  q_front is Cons and q_end is *)
(* Append.  Module Queue shows that the links do spell these sequences.    *)
EXTENDS Integers, Sequences, SequencesExt, FiniteSets

\* The sequence s without its i-th element.
Without(s, i) == [j \in 1..(Len(s) - 1) |-> IF j < i THEN s[j] ELSE s[j + 1]]

\* Where x stands in s.
IndexOf(s, x) == CHOOSE i \in 1..Len(s) : s[i] = x

\* Q_REMV: the sequence s without x, which is on it.
Q_REMV(s, x) == Without(s, IndexOf(s, x))

\* What q_forall leaves of s when its callback removes the items that are
\* not at a place in I: the others, in their order.
Place(I, k) == CHOOSE i \in I : Cardinality({j \in I : j <= i}) = k
Pick(s, I) == [k \in 1..Cardinality(I) |-> s[Place(I, k)]]
=============================================================================

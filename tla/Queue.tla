------------------------------- MODULE Queue -------------------------------
(***************************************************************************)
(* lib/queue.c: the intrusive doubly linked list under every queue of      *)
(* avros (the kernel's ready and blocked queues, the process manager's     *)
(* task lists, the drivers' request lists).                                *)
(*                                                                         *)
(* `mem' holds the C fields: head and tail of every q_head_t, next and     *)
(* prev of every q_item_t.  `contents' is a history variable: the sequence *)
(* a caller believes each queue to hold.  The other modules of the project *)
(* use sequences for queues; Linked below is what justifies it.            *)
(*                                                                         *)
(* An item that is on no queue belongs to the heap (or to a caller that    *)
(* has just allocated it), so its link fields may hold anything.           *)
(***************************************************************************)
EXTENDS SeqOps

CONSTANTS QueueId,  \* the q_head_t objects
          Item,     \* the q_item_t objects
          NULL      \* the null pointer

ASSUME NullAssumption == NULL \notin Item

VARIABLES mem,      \* the fields head, tail, next, prev
          contents, \* history: what each queue holds, front first
          iter      \* a q_forall in progress, or Idle

vars == <<mem, contents, iter>>

Ptr == Item \cup {NULL}

\* No q_forall is running.
Idle == [que |-> NULL, it |-> NULL, n |-> 0, start |-> <<>>]

-----------------------------------------------------------------------------
(* The four operations on the fields.  The NULL tests on the item are the  *)
(* early returns of the code: callers do pass NULL (a failed newtask(), a  *)
(* pm_findbypid() that found nothing).                                     *)

q_init(m, q) ==
  [head |-> [m.head EXCEPT ![q] = NULL], tail |-> [m.tail EXCEPT ![q] = NULL],
   next |-> m.next, prev |-> m.prev]

q_front(m, q, x) ==
  LET h == m.head[q]
  IN IF x = NULL THEN m
     ELSE IF h # NULL
     THEN   [head |-> [m.head EXCEPT ![q] = x],
             tail |-> m.tail,
             next |-> [m.next EXCEPT ![x] = h],
             prev |-> [m.prev EXCEPT ![x] = m.prev[h], ![h] = x]]
     ELSE   [head |-> [m.head EXCEPT ![q] = x],
             tail |-> [m.tail EXCEPT ![q] = x],
             next |-> [m.next EXCEPT ![x] = m.tail[q]],
             prev |-> [m.prev EXCEPT ![x] = h]]

q_end(m, q, x) ==
  LET t == m.tail[q]
  IN IF x = NULL THEN m
     ELSE IF t # NULL
     THEN   [head |-> m.head,
             tail |-> [m.tail EXCEPT ![q] = x],
             next |-> [m.next EXCEPT ![x] = m.next[t], ![t] = x],
             prev |-> [m.prev EXCEPT ![x] = t]]
     ELSE   [head |-> [m.head EXCEPT ![q] = x],
             tail |-> [m.tail EXCEPT ![q] = x],
             next |-> [m.next EXCEPT ![x] = t],
             prev |-> [m.prev EXCEPT ![x] = m.head[q]]]

\* Mutation: q_remv that forgets the tail when the last item goes.
q_remv_keeps_tail(m, q, x) ==
  IF x = NULL THEN m
  ELSE LET p  == m.prev[x]
           nx == m.next[x]
       IN [head |-> IF p = NULL THEN [m.head EXCEPT ![q] = nx] ELSE m.head,
           tail |-> m.tail,
           next |-> IF p = NULL THEN m.next ELSE [m.next EXCEPT ![p] = nx],
           prev |-> IF nx = NULL THEN m.prev ELSE [m.prev EXCEPT ![nx] = p]]

q_remv(m, q, x) ==
  IF x = NULL THEN m
  ELSE LET p  == m.prev[x]
           nx == m.next[x]
       IN [head |-> IF p = NULL THEN [m.head EXCEPT ![q] = nx] ELSE m.head,
           tail |-> IF nx = NULL THEN [m.tail EXCEPT ![q] = p] ELSE m.tail,
           next |-> IF p = NULL THEN m.next ELSE [m.next EXCEPT ![p] = nx],
           prev |-> IF nx = NULL THEN m.prev ELSE [m.prev EXCEPT ![nx] = p]]

\* The item's memory is back on the heap: anybody may have written there.
Scribble(m, x, a, b) ==
  [head |-> m.head, tail |-> m.tail,
   next |-> [m.next EXCEPT ![x] = a], prev |-> [m.prev EXCEPT ![x] = b]]

-----------------------------------------------------------------------------
OnSome(x) == \E q \in QueueId : x \in Range(contents[q])

Init ==
  /\ \E n, p \in [Item -> Ptr] :
       mem = [head |-> [q \in QueueId |-> NULL],
              tail |-> [q \in QueueId |-> NULL],
              next |-> n, prev |-> p]
  /\ contents = [q \in QueueId |-> <<>>]
  /\ iter = Idle

\* q_init of a queue that holds nothing (pm_newtask, the pipe nodes).
Create(q) ==
  /\ iter = Idle
  /\ contents[q] = <<>>
  /\ mem' = q_init(mem, q)
  /\ UNCHANGED <<contents, iter>>

PutFront(q, x) ==
  /\ iter = Idle
  /\ ~OnSome(x)
  /\ mem' = q_front(mem, q, x)
  /\ contents' = IF x = NULL THEN contents
                 ELSE [contents EXCEPT ![q] = Cons(x, @)]
  /\ UNCHANGED iter

PutEnd(q, x) ==
  /\ iter = Idle
  /\ ~OnSome(x)
  /\ mem' = q_end(mem, q, x)
  /\ contents' = IF x = NULL THEN contents
                 ELSE [contents EXCEPT ![q] = Append(@, x)]
  /\ UNCHANGED iter

Take(q, x) ==
  /\ iter = Idle
  /\ mem' = q_remv(mem, q, x)
  /\ \/ x = NULL /\ contents' = contents
     \/ \E i \in 1..Len(contents[q]) :
          /\ contents[q][i] = x
          /\ contents' = [contents EXCEPT ![q] = Without(@, i)]
  /\ UNCHANGED iter

\* Memory of an item that is on no queue changes hands.
Recycle(x, a, b) ==
  /\ iter = Idle
  /\ ~OnSome(x)
  /\ mem' = Scribble(mem, x, a, b)
  /\ UNCHANGED <<contents, iter>>

(* q_forall, one action per turn of its loop: `it' is the loop variable,   *)
(* `start' the queue when the loop began and `n' the turns made.           *)

ForallBegin(q) ==
  /\ iter = Idle
  /\ iter' = [que |-> q, it |-> mem.head[q], n |-> 0, start |-> contents[q]]
  /\ UNCHANGED <<mem, contents>>

\* Loop exit, on it = NULL.
ForallEnd ==
  /\ iter # Idle
  /\ iter.it = NULL
  /\ iter' = Idle
  /\ UNCHANGED <<mem, contents>>

\* One more turn made, with nx the item for the next.
Turn(nx) == [que |-> iter.que, it |-> nx, n |-> iter.n + 1, start |-> iter.start]

\* The callback only looks at the item and returns NULL.
ForallKeep ==
  /\ iter.it # NULL
  /\ iter' = Turn(mem.next[iter.it])
  /\ UNCHANGED <<mem, contents>>

\* The callback returns the item: break.
ForallFound ==
  /\ iter.it # NULL
  /\ iter' = Idle
  /\ UNCHANGED <<mem, contents>>

\* Mutation: next read after the callback.
ForallDrop_late(i, a, b) ==
  /\ iter.it # NULL
  /\ contents[iter.que][i] = iter.it
  /\ mem' = Scribble(q_remv(mem, iter.que, iter.it), iter.it, a, b)
  /\ contents' = [contents EXCEPT ![iter.que] = Without(@, i)]
  /\ iter' = Turn(mem'.next[iter.it])

\* The callback removes the item it is called with and frees it
\* (pm_removechild, pm_delchunks, ts_managedelay): `next' was read before.
ForallDrop(i, a, b) ==
  /\ iter.it # NULL
  /\ contents[iter.que][i] = iter.it
  /\ mem' = Scribble(q_remv(mem, iter.que, iter.it), iter.it, a, b)
  /\ contents' = [contents EXCEPT ![iter.que] = Without(@, i)]
  /\ iter' = Turn(mem.next[iter.it])

Next ==
  \/ \E q \in QueueId :
       \/ Create(q)
       \/ ForallBegin(q)
       \/ \E x \in Ptr : PutFront(q, x) \/ PutEnd(q, x) \/ Take(q, x)
  \/ \E x \in Item, a, b \in Ptr : Recycle(x, a, b)
  \/ ForallEnd \/ ForallKeep \/ ForallFound
  \/ /\ iter # Idle
     /\ \E i \in 1..Len(contents[iter.que]), a, b \in Ptr : ForallDrop(i, a, b)

Spec == Init /\ [][Next]_vars

-----------------------------------------------------------------------------
Fields == [head : [QueueId -> Ptr], tail : [QueueId -> Ptr],
           next : [Item -> Ptr], prev : [Item -> Ptr]]

(* Types of the fields and of the history variables. *)
TypeOK ==
  /\ mem \in Fields
  /\ contents \in [QueueId -> Seq(Item)]
  /\ iter \in [que : QueueId, it : Ptr, n : Nat, start : Seq(Item)] \cup {Idle}

\* The fields of queue q, read in both directions, are the sequence s.
Represents(m, q, s) ==
  /\ m.head[q] = IF s = <<>> THEN NULL ELSE s[1]
  /\ m.tail[q] = IF s = <<>> THEN NULL ELSE s[Len(s)]
  /\ \A i \in 1..Len(s) :
       /\ m.next[s[i]] = IF i = Len(s) THEN NULL ELSE s[i + 1]
       /\ m.prev[s[i]] = IF i = 1 THEN NULL ELSE s[i - 1]

AllRepresent(m, c) == \A q \in QueueId : Represents(m, q, c[q])

\* No item is on two queues, or twice on one.
Separate(c) ==
  \A q, r \in QueueId :
    \A i \in 1..Len(c[q]), j \in 1..Len(c[r]) :
      c[q][i] = c[r][j] => q = r /\ i = j

(* Whatever the operations did before, and whatever was left in the link   *)
(* fields of an item when it was put on a queue, the links of every queue  *)
(* spell exactly the sequence its callers put together (q_front, q_end and *)
(* q_remv of lib/queue.c).                                                 *)
Linked == AllRepresent(mem, contents)

\* After n turns of a loop over a queue that held s and now holds c, `it'
\* is the next item of s and the rest of s is still there.
Scan(c, s, n, it) ==
  /\ n <= Len(s)
  /\ it = IF n = Len(s) THEN NULL ELSE s[n + 1]
  /\ Len(s) - n <= Len(c)
  /\ \A k \in 0..(Len(s) - n - 1) : s[Len(s) - k] = c[Len(c) - k]

(* What is still to be visited is what was there when q_forall started:    *)
(* its loop hands every item of the queue to the callback once, in order,  *)
(* though the callback may remove and free the item it is given            *)
(* (lib/queue.c:90-91, "this operation is safe").                          *)
ForallInOrder ==
  iter # Idle => Scan(contents[iter.que], iter.start, iter.n, iter.it)
=============================================================================

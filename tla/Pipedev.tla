------------------------------- MODULE Pipedev -------------------------------
(***************************************************************************)
(* drivers/pipe.c: the pipe device.  A node has no buffer: a read or write *)
(* request is kept (VFS_HOLD) until one of the other kind meets it, or     *)
(* until only one end of the pipe is left.                                 *)
(*                                                                         *)
(* The device answers vfs and nobody else, and vfs waits for it, so each   *)
(* operation is a function of the node table; module VFS composes them.    *)
(* vfs never links or unlinks a pipe node: links is always 0.              *)
(***************************************************************************)
EXTENDS Integers, Sequences, SequencesExt

CONSTANTS PD_MAX_NODES, EOF, NONE

Ino == 0..(PD_MAX_NODES - 1)

\* What an operation leaves: the node table, and the clients vfs is told to
\* answer, each with the data of its answer.
Outcome(nodes, answers) == [nodes |-> nodes, answers |-> answers]

Answer1(c, d) == [x \in {c} |-> d]
NoAnswers == [x \in {} |-> EOF]

\* pd_find_empty_node().
pd_find_empty_node(nodes) ==
  IF \A i \in Ino : nodes[i] # NONE THEN -1
  ELSE CHOOSE i \in Ino : nodes[i] = NONE /\ \A j \in Ino : nodes[j] = NONE => i <= j

\* VFS_MKNOD into slot i.
pd_mknod(nodes, i) == [nodes EXCEPT ![i] = [refcnt |-> 0, msgs |-> <<>>]]

\* VFS_INODE_GRAB of a node there is.
pd_grab(nodes, i) == [nodes EXCEPT ![i].refcnt = @ + 1]

\* Mutation: a request that waits when the other end goes is left there.
pd_release_quiet(nodes, i) ==
  LET n == [nodes[i] EXCEPT !.refcnt = @ - 1]
  IN IF n.refcnt >= 1 THEN Outcome([nodes EXCEPT ![i] = n], NoAnswers)
     ELSE Outcome([nodes EXCEPT ![i] = NONE], NoAnswers)

\* VFS_INODE_RELEASE: with one reference left every waiting request is
\* answered with EOF, with none the node is freed.
pd_release(nodes, i) ==
  LET n == [nodes[i] EXCEPT !.refcnt = @ - 1]
  IN IF nodes[i] = NONE THEN Outcome(nodes, NoAnswers)
     ELSE IF n.refcnt = 1
     THEN Outcome([nodes EXCEPT ![i] = [n EXCEPT !.msgs = <<>>]],
                  [c \in {n.msgs[k].client : k \in 1..Len(n.msgs)} |-> EOF])
     ELSE IF n.refcnt > 1 THEN Outcome([nodes EXCEPT ![i] = n], NoAnswers)
     ELSE Outcome([nodes EXCEPT ![i] = NONE], NoAnswers)

\* Mutation: the request is put in front of the others.
Saved_front(msgs, r) == <<r>> \o msgs

\* The request is kept: a copy of it is put with Q_END().
Saved(msgs, r) == Append(msgs, r)

\* Mutation: the request that was met stays in the queue.
Met_stays(msgs) == msgs

\* Q_REMV() of the request that was met, the first.
Met(msgs) == Tail(msgs)

\* The other end is detached.
OneEnd(n) == n.refcnt <= 1

\* VFS_READC, VFS_WRITEC: request r of a client.
pd_rw(nodes, i, r) ==
  LET n == nodes[i]
      w == Head(n.msgs)
      data == IF r.cmd = "READC" THEN w.data ELSE r.data
  IN IF n.msgs = <<>> /\ OneEnd(n)
     THEN Outcome(nodes, Answer1(r.client, EOF))
     ELSE IF n.msgs = <<>> \/ w.cmd = r.cmd
     THEN Outcome([nodes EXCEPT ![i].msgs = Saved(@, r)], NoAnswers)
     ELSE Outcome([nodes EXCEPT ![i].msgs = Met(@)],
                  [c \in {w.client, r.client} |-> data])
==============================================================================

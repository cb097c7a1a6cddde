------------------------------- MODULE Memfile -------------------------------
(***************************************************************************)
(* drivers/ramdisk.c: the memory file device.  Its operations as functions *)
(* of the node table; module Files composes them with vfs.                 *)
(*                                                                         *)
(* The bytes of a file and the entries of a directory are one array (a     *)
(* union): entry i is its words 2i, the name, and 2i + 1, the node number. *)
(***************************************************************************)
EXTENDS Integers, Sequences, SequencesExt, FiniteSets, FiniteSetsExt

CONSTANTS MF_MAX_NODES, MF_MAX_ENTRIES, EOF, NONE

\* A name is one character, given by its code; 0 ends a string.
Dot == 46

MfIno == 0..(MF_MAX_NODES - 1)
Entry == 0..(MF_MAX_ENTRIES - 1)

\* The last byte of the array is not used: 127 in the code.
LIMIT == 2 * MF_MAX_ENTRIES - 1

Blank(dir) ==
  [refcnt |-> 0, links |-> 0, dir |-> dir, size |-> 0,
   file |-> [k \in 0..LIMIT |-> IF dir /\ k % 2 = 1 THEN -1 ELSE 0]]

\* mf_create_node(): the number of the first free node, or -1.
mf_free(nodes) ==
  IF \A i \in MfIno : nodes[i] # NONE THEN -1 ELSE Min({i \in MfIno : nodes[i] = NONE})
mf_create_node(nodes, dir) == [nodes EXCEPT ![mf_free(nodes)] = Blank(dir)]

\* A node with another content.
Filled(n, size, file) ==
  [refcnt |-> n.refcnt, links |-> n.links, dir |-> n.dir, size |-> size, file |-> file]

\* mf_link(): the first free entry.  entries is another name of size.
mf_link(n, name, ino) ==
  LET i == Min({e \in Entry : n.file[2 * e + 1] = -1})
  IN Filled(n, n.size + 1, [[n.file EXCEPT ![2 * i] = name] EXCEPT ![2 * i + 1] = ino])

\* mf_get_direntry(), on any node: VFS_GET_DIRENTRY.
mf_get_direntry(n, name) ==
  LET hits == {e \in Entry : n.file[2 * e + 1] # -1 /\ n.file[2 * e] = name}
  IN IF ~n.dir \/ hits = {} THEN -1 ELSE n.file[2 * Min(hits) + 1]

\* The root directory as memfile() makes it.
RootNode == [mf_link(Blank(TRUE), Dot, 0) EXCEPT !.links = 1]

\* VFS_LINK: only the count, nothing is entered into the directory.
mf_count_link(nodes, i) == [nodes EXCEPT ![i].links = @ + 1]

\* VFS_INODE_GRAB and VFS_INODE_RELEASE of a node there is.
mf_grab(nodes, i) == [nodes EXCEPT ![i].refcnt = @ + 1]

mf_release(nodes, i) ==
  LET n == [nodes[i] EXCEPT !.refcnt = @ - 1]
  IN [nodes EXCEPT ![i] = IF n.refcnt # 0 \/ n.links # 0 THEN n ELSE NONE]

\* VFS_WRITEC, VFS_READC at pos: the node, the data and bnum of the answer.
\* A write cuts the file off behind the byte it writes.
mf_writec(n, pos, c) ==
  IF pos >= LIMIT THEN [node |-> n, data |-> EOF, bnum |-> 0]
  ELSE [node |-> Filled(n, pos + 1, [n.file EXCEPT ![pos] = c]), data |-> c, bnum |-> 1]

\* Mutation: bnum, which holds pos in the request, is not written at the end.
mf_readc_keeps(n, pos) ==
  IF pos >= LIMIT \/ pos >= n.size THEN [node |-> n, data |-> EOF, bnum |-> pos]
  ELSE [node |-> n, data |-> n.file[pos], bnum |-> 1]

mf_readc(n, pos) ==
  IF pos >= LIMIT \/ pos >= n.size THEN [node |-> n, data |-> EOF, bnum |-> 0]
  ELSE [node |-> n, data |-> n.file[pos], bnum |-> 1]
=============================================================================

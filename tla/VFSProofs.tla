----------------------------- MODULE VFSProofs -----------------------------
(***************************************************************************)
(* The counts and the requests of vfs and the pipe device, for any number  *)
(* of tasks, descriptors, filps and nodes.                                 *)
(***************************************************************************)
EXTENDS VFS, SeqLemmas

(* vfs_removetask() closes the descriptors one after the other             *)
(* (vfs.c:515-533).                                                        *)
LEMMA ClosingSteps ==
  ASSUME NEW p
  PROVE  /\ Closing(p)[0] = Before
         /\ \A i \in 1..MAX_FD : Closing(p)[i] = do_close(Closing(p)[i - 1], p, i - 1)
<1> DEFINE Step(s, i) == CHOOSE t \in {do_close(r, p, i - 1) : r \in {s}} : TRUE
           Trace(f, n) == /\ f[0] = Before
                          /\ \A i \in 1..n : f[i] = Step(f[i - 1], i)
           T == {n \in Nat : ~\E f : Trace(f, n)}
<1>1. ASSUME NEW s, NEW i PROVE Step(s, i) = do_close(s, p, i - 1)
  <2>1. {do_close(r, p, i - 1) : r \in {s}} = {do_close(s, p, i - 1)}
    OBVIOUS
  <2>2. \A x : (CHOOSE t \in {x} : TRUE) = x
    OBVIOUS
  <2> QED
    BY <2>1, <2>2
<1> HIDE DEF Step
<1>2. ASSUME NEW n \in T, \A m \in T : n <= m PROVE FALSE
  <2>1. n \in Nat /\ ~\E f : Trace(f, n)
    OBVIOUS
  <2>2. CASE n = 0
    <3> DEFINE f == [i \in {0} |-> Before]
    <3>1. Trace(f, n)
      BY <2>2
    <3> QED
      BY <2>1, <3>1
  <2>3. CASE n # 0
    <3>1. n - 1 \in Nat /\ n - 1 \notin T
      BY <1>2, <2>1, <2>3
    <3>2. PICK f : Trace(f, n - 1)
      BY <3>1
    <3> DEFINE g == [i \in 0..n |-> IF i = n THEN Step(f[n - 1], n) ELSE f[i]]
    <3>3. /\ g[n] = Step(f[n - 1], n) /\ \A i \in 0..(n - 1) : g[i] = f[i]
      BY <2>1, <3>1
    <3> HIDE DEF g
    <3>4. \A i \in 1..n : g[i] = Step(g[i - 1], i)
      <4> SUFFICES ASSUME NEW i \in 1..n PROVE g[i] = Step(g[i - 1], i)
        OBVIOUS
      <4>1. CASE i = n
        BY <2>1, <3>1, <3>3, <4>1
      <4>2. CASE i # n
        <5>1. i \in 1..(n - 1) /\ i \in 0..(n - 1) /\ i - 1 \in 0..(n - 1)
          BY <2>1, <4>2
        <5> QED
          BY <3>2, <3>3, <5>1
      <4> QED
        BY <4>1, <4>2
    <3>5. g[0] = Before
      BY <3>1, <3>2, <3>3
    <3> QED
      BY <2>1, <3>4, <3>5
  <2> QED
    BY <2>2, <2>3
<1>3. MAX_FD \in Nat
  BY VfsAssumption
<1>4. PICK f : Trace(f, MAX_FD)
  <2>1. T \subseteq Nat
    OBVIOUS
  <2> HIDE DEF T
  <2>2. T = {}
    BY <1>2, <2>1, LeastNat
  <2> QED
    BY <1>3, <2>2 DEF T
<1> DEFINE c == [i \in 0..MAX_FD |-> f[i]]
<1>5. \A i \in 0..MAX_FD : c[i] = IF i = 0 THEN Before ELSE Step(c[i - 1], i)
  <2>1. \A i \in 0..MAX_FD : i = 0 \/ (i \in 1..MAX_FD /\ i - 1 \in 0..MAX_FD)
    BY <1>3
  <2> QED
    BY <1>3, <1>4, <2>1
<1>6. \E h : h = [i \in 0..MAX_FD |-> IF i = 0 THEN Before ELSE Step(h[i - 1], i)]
  <2>1. c = [i \in 0..MAX_FD |-> c[i]]
    OBVIOUS
  <2> HIDE DEF c
  <2>2. [i \in 0..MAX_FD |-> c[i]] = [i \in 0..MAX_FD |-> IF i = 0 THEN Before ELSE Step(c[i - 1], i)]
    BY <1>5
  <2>3. c = [i \in 0..MAX_FD |-> IF i = 0 THEN Before ELSE Step(c[i - 1], i)]
    BY <2>1, <2>2
  <2> QED
    BY <2>3
<1>7. Closing(p) = CHOOSE h : h = [i \in 0..MAX_FD |-> IF i = 0 THEN Before ELSE Step(h[i - 1], i)]
  BY Zenon DEF Closing, Step
<1> DEFINE d == Closing(p)
<1>8. d = [i \in 0..MAX_FD |-> IF i = 0 THEN Before ELSE Step(d[i - 1], i)]
  BY <1>6, <1>7, Zenon
<1> HIDE DEF d
<1>9. \A i \in 0..MAX_FD : d[i] = IF i = 0 THEN Before ELSE Step(d[i - 1], i)
  BY <1>8, Zenon
<1>10. /\ d[0] = Before /\ \A i \in 1..MAX_FD : d[i] = Step(d[i - 1], i)
  BY <1>3, <1>9
<1> QED
  BY <1>1, <1>10 DEF d

-----------------------------------------------------------------------------
(* The invariant's parts, of any tables F, P and N of descriptors, filps   *)
(* and nodes: they are also needed in the middle of vfs_removetask().      *)

FilpType == [dev : {PIPE, 1}, ino : Ino, refcnt : Nat]
FilpsOf(P, i) == {f \in Filp : P[f].refcnt > 0 /\ P[f].dev = PIPE /\ P[f].ino = i}
MsgsOf(N, i) == IF N[i] = NONE THEN <<>> ELSE N[i].msgs

Typed(F, P, N) ==
  /\ F \in [Pid -> [Fd -> Filp \cup {-1}]]
  /\ P \in [Filp -> FilpType]
  /\ N \in [Ino -> Node \cup {NONE}]

Counted(F, P) == \A f \in Filp : P[f].refcnt = Cardinality(Entries(F, Pid, Fd, f))

Covered(P, N) ==
  \A i \in Ino : FilpsOf(P, i) # {} => N[i] # NONE /\ N[i].refcnt >= Cardinality(FilpsOf(P, i))

Ends(N) == \A i \in Ino : N[i] # NONE /\ N[i].refcnt <= 1 => N[i].msgs = <<>>

Sound(F, P, N) == Typed(F, P, N) /\ Counted(F, P) /\ Covered(P, N) /\ Ends(N)

LEMMA Sizes ==
  /\ Fd \subseteq Nat /\ Filp \subseteq Nat /\ Ino \subseteq Nat /\ 0 \in Ino
  /\ IsFiniteSet(Fd) /\ IsFiniteSet(Filp) /\ IsFiniteSet(Pid) /\ MAX_FD \in Nat
  /\ NONE \notin Node
<1>1. MAX_FD \in Nat /\ MAX_FILP \in Nat /\ PD_MAX_NODES \in Nat \ {0}
  BY VfsAssumption
<1>2. IsFiniteSet(Fd) /\ IsFiniteSet(Filp)
  BY <1>1, FS_Interval DEF Fd, Filp
<1> QED
  BY <1>1, <1>2, VfsAssumption DEF Fd, Filp, Ino

LEMMA LowestFacts ==
  ASSUME NEW S, S \subseteq Nat
  PROVE  Lowest(S) \in S \/ Lowest(S) = -1
<1>1. CASE S = {}
  BY <1>1 DEF Lowest
<1>2. CASE S # {}
  <2>1. \E x \in S : \A y \in S : x <= y
    BY <1>2, LeastNat
  <2> QED
    BY <1>2, <2>1 DEF Lowest, Min
<1> QED
  BY <1>1, <1>2

(* find_empty_fd() and find_empty_filp() return what is free. *)
LEMMA FindEmpty ==
  ASSUME NEW fds \in [Fd -> Filp \cup {-1}], NEW P
  PROVE  /\ ~(find_empty_fd(fds) < 0) => /\ find_empty_fd(fds) \in Fd
                                         /\ fds[find_empty_fd(fds)] = -1
         /\ ~(find_empty_filp(P) < 0) => /\ find_empty_filp(P) \in Filp
                                         /\ P[find_empty_filp(P)].refcnt = 0
<1> DEFINE S == {i \in Fd : fds[i] < 0}
           T == {f \in Filp : P[f].refcnt = 0}
<1>1. S \subseteq Nat /\ T \subseteq Nat
  BY Sizes
<1>2. /\ Lowest(S) \in S \/ Lowest(S) = -1
      /\ Lowest(T) \in T \/ Lowest(T) = -1
  <2> HIDE DEF S, T
  <2> QED
    BY <1>1, LowestFacts
<1>3. \A i \in S : i \in Fd /\ fds[i] = -1
  <2> SUFFICES ASSUME NEW i \in S PROVE i \in Fd /\ fds[i] = -1
    OBVIOUS
  <2>1. i \in Fd /\ fds[i] \in Filp \cup {-1} /\ fds[i] < 0
    OBVIOUS
  <2>2. fds[i] \in Nat \/ fds[i] = -1
    BY <2>1, Sizes
  <2> HIDE DEF S
  <2> QED
    BY <2>1, <2>2
<1>4. \A f \in T : f \in Filp /\ P[f].refcnt = 0
  OBVIOUS
<1>5. find_empty_fd(fds) = Lowest(S) /\ find_empty_filp(P) = Lowest(T)
  BY DEF find_empty_fd, find_empty_filp
<1> HIDE DEF S, T
<1> QED
  BY <1>2, <1>3, <1>4, <1>5

(* One descriptor changes: how many descriptors use filp g then. *)
LEMMA CountOne ==
  ASSUME NEW F, NEW G, NEW a \in Pid, NEW b \in Fd, NEW g,
         \A x \in Pid : \A y \in Fd : x # a \/ y # b => G[x][y] = F[x][y]
  PROVE  /\ (F[a][b] = g <=> G[a][b] = g) => Entries(G, Pid, Fd, g) = Entries(F, Pid, Fd, g)
         /\ F[a][b] # g /\ G[a][b] = g =>
              Cardinality(Entries(G, Pid, Fd, g)) = Cardinality(Entries(F, Pid, Fd, g)) + 1
         /\ F[a][b] = g /\ G[a][b] # g =>
              /\ Cardinality(Entries(G, Pid, Fd, g)) = Cardinality(Entries(F, Pid, Fd, g)) - 1
              /\ Cardinality(Entries(F, Pid, Fd, g)) # 0
<1>1. IsFiniteSet(Pid) /\ IsFiniteSet(Fd)
  BY Sizes
<1> QED
  BY <1>1, PointCount

(* A free descriptor gets a filp, which counts one more. *)
LEMMA CountAttach ==
  ASSUME NEW F, NEW G, NEW P, NEW R, Counted(F, P),
         NEW a \in Pid, NEW b \in Fd, NEW f \in Filp, F[a][b] \notin Filp, G[a][b] = f,
         \A x \in Pid : \A y \in Fd : x # a \/ y # b => G[x][y] = F[x][y],
         R[f].refcnt = P[f].refcnt + 1, \A g \in Filp : g # f => R[g].refcnt = P[g].refcnt
  PROVE  Counted(G, R)
<1>1. ASSUME NEW g \in Filp
      PROVE  /\ g # f => Entries(G, Pid, Fd, g) = Entries(F, Pid, Fd, g)
             /\ g = f => Cardinality(Entries(G, Pid, Fd, g)) = Cardinality(Entries(F, Pid, Fd, g)) + 1
  <2> DEFINE n == F[a][b]
             m == G[a][b]
  <2>1. /\ (n = g <=> m = g) => Entries(G, Pid, Fd, g) = Entries(F, Pid, Fd, g)
        /\ n # g /\ m = g =>
              Cardinality(Entries(G, Pid, Fd, g)) = Cardinality(Entries(F, Pid, Fd, g)) + 1
    BY CountOne
  <2>2. n # g /\ m = f
    OBVIOUS
  <2> HIDE DEF n, m
  <2> QED
    BY <2>1, <2>2
<1>2. \A g \in Filp : P[g].refcnt = Cardinality(Entries(F, Pid, Fd, g))
  BY DEF Counted
<1> QED
  BY <1>1, <1>2 DEF Counted

(* A descriptor is closed, and its filp counts one less: refcnt was not 0  *)
(* ("Refcnt already zero, this is a serious error", vfs.c:419).            *)
LEMMA CountDetach ==
  ASSUME NEW F, NEW G, NEW P, NEW R, Counted(F, P),
         NEW a \in Pid, NEW b \in Fd, NEW f \in Filp, F[a][b] = f, G[a][b] = -1,
         \A x \in Pid : \A y \in Fd : x # a \/ y # b => G[x][y] = F[x][y],
         R[f].refcnt = P[f].refcnt - 1, \A g \in Filp : g # f => R[g].refcnt = P[g].refcnt
  PROVE  Counted(G, R) /\ P[f].refcnt # 0
<1>1. -1 \notin Filp
  BY Sizes
<1>2. \A g \in Filp : P[g].refcnt = Cardinality(Entries(F, Pid, Fd, g))
  BY DEF Counted
<1>3. /\ Cardinality(Entries(G, Pid, Fd, f)) = Cardinality(Entries(F, Pid, Fd, f)) - 1
      /\ Cardinality(Entries(F, Pid, Fd, f)) # 0
  <2>1. F[a][b] = f /\ G[a][b] # f
    BY <1>1
  <2> QED
    BY <2>1, CountOne
<1>4. ASSUME NEW g \in Filp, g # f PROVE Entries(G, Pid, Fd, g) = Entries(F, Pid, Fd, g)
  <2>1. F[a][b] # g /\ G[a][b] # g
    BY <1>1, <1>4
  <2> QED
    BY <2>1, CountOne
<1> QED
  BY <1>2, <1>3, <1>4 DEF Counted

(* A filp that some descriptor uses is counted. *)
LEMMA UsedCounted ==
  ASSUME NEW F, NEW P, Counted(F, P), NEW a \in Pid, NEW b \in Fd, NEW f \in Filp, F[a][b] = f
  PROVE  P[f].refcnt > 0 /\ P[f].refcnt \in Nat
<1> DEFINE E == Entries(F, Pid, Fd, f)
<1>1. IsFiniteSet(E) /\ Cardinality(E) \in Nat
  BY Sizes, PointCount
<1>2. <<a, b>> \in E
  BY DEF Entries
<1> HIDE DEF E
<1>3. Cardinality(E) # 0
  BY <1>1, <1>2, FS_EmptySet
<1> QED
  BY <1>1, <1>3 DEF Counted, E

(* FilpsOf is finite; it depends only on the counted filps. *)
LEMMA FilpsFacts ==
  ASSUME NEW P, NEW i
  PROVE  IsFiniteSet(FilpsOf(P, i)) /\ Cardinality(FilpsOf(P, i)) \in Nat
<1>1. FilpsOf(P, i) \in SUBSET Filp /\ IsFiniteSet(Filp)
  BY Sizes DEF FilpsOf
<1> QED
  BY <1>1, FS_Subset, FS_CardinalityType

(* Filps come and go on the nodes. *)
LEMMA FilpSame ==
  ASSUME NEW P, NEW R, NEW i,
         \A g \in Filp : /\ P[g].dev = PIPE => (R[g].refcnt > 0 <=> P[g].refcnt > 0)
                         /\ R[g].dev = P[g].dev /\ R[g].ino = P[g].ino
  PROVE  FilpsOf(R, i) = FilpsOf(P, i)
<1>1. \A g \in Filp : g \in FilpsOf(R, i) <=> g \in FilpsOf(P, i)
  BY DEF FilpsOf
<1>2. FilpsOf(R, i) \subseteq Filp /\ FilpsOf(P, i) \subseteq Filp
  BY DEF FilpsOf
<1> QED
  BY <1>1, <1>2

LEMMA FilpGone ==
  ASSUME NEW P, NEW R, NEW f \in Filp, P[f].refcnt > 0, P[f].dev = PIPE, ~(R[f].refcnt > 0),
         \A g \in Filp : g # f => R[g] = P[g]
  PROVE  /\ f \in FilpsOf(P, P[f].ino)
         /\ Cardinality(FilpsOf(P, P[f].ino)) # 0
         /\ Cardinality(FilpsOf(R, P[f].ino)) = Cardinality(FilpsOf(P, P[f].ino)) - 1
         /\ \A j : j # P[f].ino => FilpsOf(R, j) = FilpsOf(P, j)
<1> DEFINE i == P[f].ino
           A == FilpsOf(P, i)
           B == FilpsOf(R, i)
<1>1. f \in A /\ f \notin B /\ \A g : g # f => (g \in B <=> g \in A)
  BY DEF FilpsOf
<1>2. IsFiniteSet(A)
  BY FilpsFacts
<1>3. ASSUME NEW j, j # i PROVE FilpsOf(R, j) = FilpsOf(P, j)
  <2>1. \A g : g \in FilpsOf(R, j) <=> g \in FilpsOf(P, j)
    BY <1>3 DEF FilpsOf
  <2> QED
    BY <2>1
<1> HIDE DEF A, B
<1>4. B = A \ {f}
  BY <1>1
<1>5. Cardinality(B) = Cardinality(A) - 1
  BY <1>1, <1>2, <1>4, FS_RemoveElement
<1>6. Cardinality(A) # 0
  BY <1>1, <1>2, FS_EmptySet
<1> QED
  BY <1>1, <1>3, <1>5, <1>6 DEF A, B

LEMMA FilpNew ==
  ASSUME NEW P, NEW R, NEW f \in Filp, ~(P[f].refcnt > 0),
         \A g \in Filp : g # f => R[g] = P[g]
  PROVE  /\ R[f].refcnt > 0 /\ R[f].dev = PIPE =>
              Cardinality(FilpsOf(R, R[f].ino)) = Cardinality(FilpsOf(P, R[f].ino)) + 1
         /\ \A j : j # R[f].ino \/ R[f].dev # PIPE => FilpsOf(R, j) = FilpsOf(P, j)
<1> DEFINE i == R[f].ino
           A == FilpsOf(P, i)
           B == FilpsOf(R, i)
<1>1. ASSUME R[f].refcnt > 0, R[f].dev = PIPE
      PROVE  Cardinality(B) = Cardinality(A) + 1
  <2>1. f \in B /\ f \notin A /\ \A g : g # f => (g \in B <=> g \in A)
    BY <1>1 DEF FilpsOf
  <2>2. IsFiniteSet(A)
    BY FilpsFacts
  <2> HIDE DEF A, B
  <2>3. B = A \cup {f}
    BY <2>1
  <2> QED
    BY <2>1, <2>2, <2>3, FS_AddElement
<1>2. ASSUME NEW j, j # i \/ R[f].dev # PIPE PROVE FilpsOf(R, j) = FilpsOf(P, j)
  <2>1. \A g : g \in FilpsOf(R, j) <=> g \in FilpsOf(P, j)
    BY <1>2 DEF FilpsOf
  <2> QED
    BY <2>1
<1> QED
  BY <1>1, <1>2

-----------------------------------------------------------------------------
(* VFS_INODE_RELEASE (pipe.c) of a node with references: who waits there   *)
(* is answered when one reference is left, and only then.                  *)
LEMMA Release ==
  ASSUME NEW N \in [Ino -> Node \cup {NONE}], Ends(N), NEW i \in Ino,
         N[i] # NONE, N[i].refcnt >= 1
  PROVE  LET M == pd_release(N, i).nodes
             A == DOMAIN pd_release(N, i).answers
         IN /\ M \in [Ino -> Node \cup {NONE}]
            /\ \A j \in Ino : j # i => M[j] = N[j]
            /\ N[i].refcnt > 1 => M[i] # NONE /\ M[i].refcnt = N[i].refcnt - 1
            /\ M[i] # NONE /\ M[i].refcnt <= 1 => M[i].msgs = <<>>
            /\ \/ MsgsOf(M, i) = MsgsOf(N, i) /\ A = {}
               \/ /\ MsgsOf(M, i) = <<>>
                  /\ A = {MsgsOf(N, i)[k].client : k \in 1..Len(MsgsOf(N, i))}
<1> DEFINE q == N[i].msgs
           r == N[i].refcnt
           M == pd_release(N, i).nodes
           A == DOMAIN pd_release(N, i).answers
<1>1. /\ N[i] \in Node /\ q \in Seq(Request) /\ r \in Nat /\ r >= 1 /\ NONE \notin Node
      /\ MsgsOf(N, i) = q /\ (r <= 1 => q = <<>>)
  BY Sizes DEF Node, MsgsOf, Ends
<1> DEFINE n == [N[i] EXCEPT !.refcnt = @ - 1]
           z == [n EXCEPT !.msgs = <<>>]
<1>2. n = [refcnt |-> r - 1, msgs |-> q]
  BY <1>1 DEF Node
<1>3. n.refcnt = r - 1 /\ n.msgs = q
  BY <1>2
<1>4. z = [refcnt |-> r - 1, msgs |-> <<>>]
  <2>1. \A x, y : [[refcnt |-> x, msgs |-> y] EXCEPT !.msgs = <<>>] = [refcnt |-> x, msgs |-> <<>>]
    OBVIOUS
  <2> HIDE DEF n
  <2> QED
    BY <1>2, <2>1
<1>5. /\ n.refcnt = 1 => /\ pd_release(N, i).nodes = [N EXCEPT ![i] = z]
                         /\ DOMAIN pd_release(N, i).answers = {n.msgs[k].client : k \in 1..Len(n.msgs)}
      /\ n.refcnt # 1 /\ n.refcnt > 1 => /\ pd_release(N, i).nodes = [N EXCEPT ![i] = n]
                                         /\ DOMAIN pd_release(N, i).answers = {}
      /\ n.refcnt # 1 /\ ~(n.refcnt > 1) => /\ pd_release(N, i).nodes = [N EXCEPT ![i] = NONE]
                                            /\ DOMAIN pd_release(N, i).answers = {}
  BY DEF pd_release, Outcome, NoAnswers
<1> HIDE DEF n, z
<1>6. CASE r = 2
  <2> DEFINE m == [refcnt |-> 1, msgs |-> <<>>]
  <2>1. /\ pd_release(N, i).nodes = [N EXCEPT ![i] = m]
        /\ DOMAIN pd_release(N, i).answers = {q[k].client : k \in 1..Len(q)}
    <3>1. m = z
      BY <1>6, <1>4
    <3> HIDE DEF m
    <3> QED
      BY <1>1, <1>6, <1>3, <1>5, <3>1
  <2>2. m \in Node /\ m.msgs = <<>> /\ m.refcnt = 1
    BY DEF Node
  <2> HIDE DEF m
  <2>3. m # NONE /\ M[i] = m /\ M \in [Ino -> Node \cup {NONE}] /\ \A j \in Ino : j # i => M[j] = N[j]
    BY <1>1, <2>1, <2>2
  <2>4. A = {q[k].client : k \in 1..Len(q)}
    BY <2>1
  <2> HIDE DEF M, A
  <2>5. MsgsOf(M, i) = <<>>
    BY <2>2, <2>3 DEF MsgsOf
  <2> QED
    BY <1>1, <1>6, <2>2, <2>3, <2>4, <2>5 DEF M, A
<1>7. CASE r > 2
  <2> DEFINE m == [refcnt |-> r - 1, msgs |-> q]
  <2>1. /\ pd_release(N, i).nodes = [N EXCEPT ![i] = m]
        /\ DOMAIN pd_release(N, i).answers = {}
    <3>1. m = n
      BY <1>2
    <3> HIDE DEF m
    <3> QED
      BY <1>1, <1>7, <1>3, <1>5, <3>1
  <2>2. m \in Node /\ m.msgs = q /\ m.refcnt = r - 1
    BY <1>1, <1>7 DEF Node
  <2> HIDE DEF m
  <2>3. m # NONE /\ M[i] = m /\ M \in [Ino -> Node \cup {NONE}] /\ \A j \in Ino : j # i => M[j] = N[j]
    BY <1>1, <2>1, <2>2
  <2>4. A = {}
    BY <2>1
  <2> HIDE DEF M, A
  <2>5. MsgsOf(M, i) = q
    BY <2>2, <2>3 DEF MsgsOf
  <2> QED
    BY <1>1, <1>7, <2>2, <2>3, <2>4, <2>5 DEF M, A
<1>8. CASE r = 1
  <2>1. /\ pd_release(N, i).nodes = [N EXCEPT ![i] = NONE]
        /\ DOMAIN pd_release(N, i).answers = {}
    BY <1>1, <1>8, <1>3, <1>5
  <2>2. M[i] = NONE /\ M \in [Ino -> Node \cup {NONE}] /\ \A j \in Ino : j # i => M[j] = N[j]
    BY <1>1, <2>1
  <2>3. A = {}
    BY <2>1
  <2> HIDE DEF M, A
  <2>4. MsgsOf(M, i) = <<>>
    BY <2>2 DEF MsgsOf
  <2> QED
    BY <1>1, <1>8, <2>2, <2>3, <2>4 DEF M, A
<1> QED
  BY <1>1, <1>6, <1>7, <1>8

(* What do_close() of descriptor i of p makes of the tables: t after,      *)
(* F, P, N and E before.                                                   *)
Closed(F, P, N, E, p, i, t) ==
  /\ t = [fd |-> t.fd, filp |-> t.filp, nodes |-> t.nodes, eof |-> t.eof]
  /\ Sound(t.fd, t.filp, t.nodes)
  /\ t.fd[p][i] = -1
  /\ \A x \in Pid : \A y \in Fd : x # p \/ y # i => t.fd[x][y] = F[x][y]
  /\ \A f \in Filp : t.filp[f].dev = P[f].dev /\ t.filp[f].ino = P[f].ino
  /\ \A n \in Ino : MsgsOf(t.nodes, n) = MsgsOf(N, n) \/ MsgsOf(t.nodes, n) = <<>>
  /\ \A c : c \in t.eof <=>
       \/ c \in E
       \/ \E n \in Ino : /\ MsgsOf(t.nodes, n) = <<>>
                        /\ \E k \in 1..Len(MsgsOf(N, n)) : c = MsgsOf(N, n)[k].client

LEMMA CloseOne ==
  ASSUME NEW F, NEW P, NEW N, NEW E, Sound(F, P, N), NEW p \in Pid, NEW i \in Fd
  PROVE  Closed(F, P, N, E, p, i, do_close([fd |-> F, filp |-> P, nodes |-> N, eof |-> E], p, i))
<1> DEFINE s == [fd |-> F, filp |-> P, nodes |-> N, eof |-> E]
           t == do_close(s, p, i)
           f == F[p][i]
           G == [F EXCEPT ![p][i] = -1]
           R == [P EXCEPT ![f].refcnt = @ - 1]
           n == P[f].ino
           r == pd_release(N, n)
<1>1. /\ F \in [Pid -> [Fd -> Filp \cup {-1}]] /\ P \in [Filp -> FilpType]
      /\ N \in [Ino -> Node \cup {NONE}] /\ Counted(F, P) /\ Covered(P, N) /\ Ends(N)
      /\ f \in Filp \cup {-1} /\ Filp \subseteq Nat
  BY Sizes DEF Sound, Typed
<1>2. CASE f \notin Filp
  <2>1. f = -1
    BY <1>1, <1>2
  <2>2. t = s
    BY <2>1 DEF do_close
  <2>3. \A c : ~\E m \in Ino : MsgsOf(N, m) = <<>> /\ \E k \in 1..Len(MsgsOf(N, m)) : c = MsgsOf(N, m)[k].client
    <3> SUFFICES ASSUME NEW m \in Ino, MsgsOf(N, m) = <<>>, NEW k \in 1..Len(MsgsOf(N, m)) PROVE FALSE
      OBVIOUS
    <3> QED
      OBVIOUS
  <2>4. Closed(F, P, N, E, p, i, s)
    BY <2>1, <2>3 DEF Closed
  <2> QED
    BY <2>2, <2>4
<1>3. CASE f \in Filp
  <2>1. /\ G \in [Pid -> [Fd -> Filp \cup {-1}]] /\ G[p][i] = -1
        /\ \A x \in Pid : \A y \in Fd : x # p \/ y # i => G[x][y] = F[x][y]
    BY <1>1
  <2>2. P[f].refcnt > 0 /\ P[f].refcnt \in Nat /\ P[f] \in FilpType
    BY <1>1, <1>3, UsedCounted
  <2>3. /\ R \in [Filp -> FilpType] /\ R[f].refcnt = P[f].refcnt - 1
        /\ \A g \in Filp : g # f => R[g] = P[g]
        /\ \A g \in Filp : R[g].dev = P[g].dev /\ R[g].ino = P[g].ino
    BY <1>1, <1>3, <2>2 DEF FilpType
  <2>4. ~(f < 0) /\ n \in Ino
    <3>1. n \in Ino
      BY <2>2 DEF FilpType
    <3>2. f \in Nat
      BY <1>1, <1>3
    <3> HIDE DEF f
    <3> QED
      BY <3>1, <3>2
  <2>5. t = IF R[f].refcnt # 0 \/ R[f].dev # PIPE
            THEN [fd |-> G, filp |-> R, nodes |-> N, eof |-> E]
            ELSE [fd |-> G, filp |-> R, nodes |-> r.nodes, eof |-> E \cup DOMAIN r.answers]
    <3>1. s.fd = F /\ s.filp = P /\ s.nodes = N /\ s.eof = E
      OBVIOUS
    <3>2. R[f].ino = n
      BY <1>3, <2>3
    <3> QED
      BY <2>4, <3>1, <3>2, Zenon DEF do_close
  <2> HIDE DEF t, G, R
  <2>6. Counted(G, R)
    <3> HIDE DEF f
    <3>1. F[p][i] = f
      BY DEF f
    <3> QED
      BY <1>1, <1>3, <2>1, <2>3, <3>1, CountDetach
  <2>7. CASE R[f].refcnt # 0 \/ R[f].dev # PIPE
    <3>1. t = [fd |-> G, filp |-> R, nodes |-> N, eof |-> E]
      BY <2>5, <2>7
    <3>2. t.fd = G /\ t.filp = R /\ t.nodes = N /\ t.eof = E
      BY <3>1
    <3>3. \A j \in Ino : FilpsOf(R, j) = FilpsOf(P, j)
      <4>1. \A g \in Filp : P[g].dev = PIPE => (R[g].refcnt > 0 <=> P[g].refcnt > 0)
        BY <2>2, <2>3, <2>7
      <4> QED
        BY <2>3, <4>1, FilpSame
    <3>4. Sound(G, R, N)
      BY <1>1, <2>1, <2>3, <2>6, <3>3 DEF Sound, Typed, Covered
    <3>5. \A c : ~\E m \in Ino : MsgsOf(N, m) = <<>> /\ \E k \in 1..Len(MsgsOf(N, m)) : c = MsgsOf(N, m)[k].client
      <4> SUFFICES ASSUME NEW m \in Ino, MsgsOf(N, m) = <<>>, NEW k \in 1..Len(MsgsOf(N, m)) PROVE FALSE
        OBVIOUS
      <4> QED
        OBVIOUS
    <3>6. t = [fd |-> t.fd, filp |-> t.filp, nodes |-> t.nodes, eof |-> t.eof]
      BY <3>1, <3>2
    <3> QED
      BY <2>1, <2>3, <3>2, <3>4, <3>5, <3>6 DEF Closed, t
  <2>8. CASE ~(R[f].refcnt # 0 \/ R[f].dev # PIPE)
    <3> DEFINE M == r.nodes
               A == DOMAIN r.answers
    <3>1. t = [fd |-> G, filp |-> R, nodes |-> M, eof |-> E \cup A]
      BY <2>5, <2>8
    <3>2. t.fd = G /\ t.filp = R /\ t.nodes = M /\ t.eof = E \cup A
      BY <3>1
    <3>3. t = [fd |-> t.fd, filp |-> t.filp, nodes |-> t.nodes, eof |-> t.eof]
      BY <3>1, <3>2
    <3>4. P[f].dev = PIPE /\ ~(R[f].refcnt > 0) /\ P[f].ino = n
      BY <1>3, <2>3, <2>8
    <3>5. /\ f \in FilpsOf(P, n) /\ Cardinality(FilpsOf(P, n)) # 0
          /\ Cardinality(FilpsOf(R, n)) = Cardinality(FilpsOf(P, n)) - 1
          /\ \A j : j # n => FilpsOf(R, j) = FilpsOf(P, j)
      BY <1>3, <2>2, <2>3, <3>4, FilpGone
    <3>6. /\ Cardinality(FilpsOf(P, n)) \in Nat /\ Cardinality(FilpsOf(R, n)) \in Nat
          /\ FilpsOf(R, n) # {} => Cardinality(FilpsOf(R, n)) > 0
      BY FilpsFacts, FS_EmptySet
    <3>7. N[n] # NONE /\ N[n].refcnt \in Nat /\ N[n].refcnt >= Cardinality(FilpsOf(P, n)) /\ N[n].refcnt >= 1
      <4>1. N[n] # NONE /\ N[n].refcnt >= Cardinality(FilpsOf(P, n))
        BY <1>1, <2>4, <3>5 DEF Covered
      <4>2. N[n].refcnt \in Nat
        BY <1>1, <2>4, <4>1 DEF Node
      <4> QED
        BY <3>5, <3>6, <4>1, <4>2
    <3>8. /\ M \in [Ino -> Node \cup {NONE}]
          /\ \A j \in Ino : j # n => M[j] = N[j]
          /\ N[n].refcnt > 1 => M[n] # NONE /\ M[n].refcnt = N[n].refcnt - 1
          /\ M[n] # NONE /\ M[n].refcnt <= 1 => M[n].msgs = <<>>
          /\ \/ MsgsOf(M, n) = MsgsOf(N, n) /\ A = {}
             \/ /\ MsgsOf(M, n) = <<>>
                /\ A = {MsgsOf(N, n)[k].client : k \in 1..Len(MsgsOf(N, n))}
      <4> HIDE DEF n
      <4> QED
        BY <1>1, <2>4, <3>7, Release
    <3> HIDE DEF M, A, n
    <3>9. Covered(R, M)
      <4> SUFFICES ASSUME NEW j \in Ino, FilpsOf(R, j) # {}
                   PROVE  M[j] # NONE /\ M[j].refcnt >= Cardinality(FilpsOf(R, j))
        BY DEF Covered
      <4>1. CASE j # n
        BY <1>1, <3>5, <3>8, <4>1 DEF Covered
      <4>2. CASE j = n
        <5>1. N[n].refcnt > 1
          BY <3>5, <3>6, <3>7, <4>2
        <5> QED
          BY <3>5, <3>6, <3>7, <3>8, <4>2, <5>1
      <4> QED
        BY <4>1, <4>2
    <3>10. Ends(M)
      BY <1>1, <3>8 DEF Ends
    <3>11. Sound(G, R, M)
      BY <2>1, <2>3, <2>6, <3>8, <3>9, <3>10 DEF Sound, Typed
    <3>12. \A j \in Ino : j # n => MsgsOf(M, j) = MsgsOf(N, j)
      BY <3>8 DEF MsgsOf
    <3>13. \A m \in Ino : MsgsOf(M, m) = MsgsOf(N, m) \/ MsgsOf(M, m) = <<>>
      BY <3>8, <3>12
    <3>14. ASSUME NEW c
           PROVE  c \in A <=> \E m \in Ino : /\ MsgsOf(M, m) = <<>>
                                             /\ \E k \in 1..Len(MsgsOf(N, m)) : c = MsgsOf(N, m)[k].client
      <4>1. ASSUME NEW m \in Ino, MsgsOf(N, m) = <<>>, NEW k \in 1..Len(MsgsOf(N, m)) PROVE FALSE
        BY <4>1
      <4>2. CASE MsgsOf(M, n) = MsgsOf(N, n) /\ A = {}
        <5>1. \A m \in Ino : MsgsOf(M, m) = MsgsOf(N, m)
          BY <3>12, <4>2
        <5> QED
          BY <4>1, <4>2, <5>1
      <4>3. CASE MsgsOf(M, n) = <<>> /\ A = {MsgsOf(N, n)[k].client : k \in 1..Len(MsgsOf(N, n))}
        <5>1. c \in A <=> \E k \in 1..Len(MsgsOf(N, n)) : c = MsgsOf(N, n)[k].client
          BY <4>3
        <5>2. ASSUME NEW m \in Ino, MsgsOf(M, m) = <<>>, NEW k \in 1..Len(MsgsOf(N, m)) PROVE m = n
          BY <3>12, <4>1, <5>2
        <5> QED
          BY <2>4, <4>3, <5>1, <5>2
      <4> QED
        BY <3>8, <4>2, <4>3
    <3> QED
      BY <2>1, <2>3, <3>2, <3>3, <3>11, <3>13, <3>14 DEF Closed, t
  <2> QED
    BY <2>7, <2>8
<1> QED
  BY <1>2, <1>3

-----------------------------------------------------------------------------
(* A free descriptor is opened on node n of a device with a free filp      *)
(* (do_open(), and do_pipe() twice).                                       *)
Opening(F, G, P, R, a, b, f) ==
  /\ Counted(F, P)
  /\ a \in Pid /\ b \in Fd /\ f \in Filp /\ F[a][b] \notin Filp /\ G[a][b] = f
  /\ \A x \in Pid : \A y \in Fd : x # a \/ y # b => G[x][y] = F[x][y]
  /\ P[f].refcnt = 0 /\ R[f].refcnt = 1 /\ \A g \in Filp : g # f => R[g] = P[g]

LEMMA Opened ==
  ASSUME NEW F, NEW G, NEW P, NEW R, NEW a, NEW b, NEW f, Opening(F, G, P, R, a, b, f)
  PROVE  /\ Counted(G, R)
         /\ R[f].dev = PIPE =>
              Cardinality(FilpsOf(R, R[f].ino)) = Cardinality(FilpsOf(P, R[f].ino)) + 1
         /\ \A j : j # R[f].ino \/ R[f].dev # PIPE => FilpsOf(R, j) = FilpsOf(P, j)
         /\ \A j : FilpsOf(P, j) \subseteq FilpsOf(R, j)
<1>1. /\ Counted(F, P)
      /\ a \in Pid /\ b \in Fd /\ f \in Filp /\ F[a][b] \notin Filp /\ G[a][b] = f
      /\ \A x \in Pid : \A y \in Fd : x # a \/ y # b => G[x][y] = F[x][y]
      /\ \A g \in Filp : g # f => R[g] = P[g]
  BY DEF Opening
<1>2. R[f].refcnt = P[f].refcnt + 1 /\ \A g \in Filp : g # f => R[g].refcnt = P[g].refcnt
  BY DEF Opening
<1>3. Counted(G, R)
  BY <1>1, <1>2, CountAttach
<1>4. ~(P[f].refcnt > 0) /\ R[f].refcnt > 0
  BY DEF Opening
<1>5. /\ R[f].dev = PIPE =>
           Cardinality(FilpsOf(R, R[f].ino)) = Cardinality(FilpsOf(P, R[f].ino)) + 1
      /\ \A j : j # R[f].ino \/ R[f].dev # PIPE => FilpsOf(R, j) = FilpsOf(P, j)
  BY <1>1, <1>4, FilpNew
<1>6. \A j : FilpsOf(P, j) \subseteq FilpsOf(R, j)
  BY <1>1, <1>4 DEF FilpsOf
<1> QED
  BY <1>3, <1>5, <1>6

(* A node n is grabbed; the other nodes stay. *)
Grabbed(N, M, n) ==
  /\ M \in [Ino -> Node \cup {NONE}]
  /\ \A j \in Ino : j # n => M[j] = N[j]
  /\ M[n] # NONE /\ MsgsOf(M, n) = MsgsOf(N, n)

LEMMA Grab1 ==
  ASSUME NEW N \in [Ino -> Node \cup {NONE}], Ends(N), NEW n \in Ino, N[n] # NONE
  PROVE  /\ Grabbed(N, pd_grab(N, n), n)
         /\ pd_grab(N, n)[n].refcnt = N[n].refcnt + 1
         /\ Ends(pd_grab(N, n))
<1> DEFINE M == pd_grab(N, n)
<1>1. N[n] \in Node /\ NONE \notin Node
  BY Sizes
<1>2. /\ M \in [Ino -> Node \cup {NONE}] /\ M[n] \in Node /\ M[n].refcnt = N[n].refcnt + 1
      /\ M[n].msgs = N[n].msgs /\ \A j \in Ino : j # n => M[j] = N[j]
  BY <1>1 DEF pd_grab, Node
<1> HIDE DEF M
<1>3. M[n] # NONE /\ MsgsOf(M, n) = MsgsOf(N, n)
  BY <1>1, <1>2 DEF MsgsOf
<1>4. N[n].refcnt \in Nat
  BY <1>1 DEF Node
<1>5. Ends(M)
  <2> SUFFICES ASSUME NEW j \in Ino, M[j] # NONE, M[j].refcnt <= 1 PROVE M[j].msgs = <<>>
    BY DEF Ends
  <2> QED
    BY <1>2, <1>4 DEF Ends
<1> QED
  BY <1>2, <1>3, <1>5 DEF Grabbed, M

(* pd_find_empty_node() returns a free slot, or -1. *)
LEMMA EmptyNode ==
  ASSUME NEW N, pd_find_empty_node(N) >= 0
  PROVE  pd_find_empty_node(N) \in Ino /\ N[pd_find_empty_node(N)] = NONE
<1> DEFINE S == {i \in Ino : N[i] = NONE}
<1>1. CASE \A i \in Ino : N[i] # NONE
  BY <1>1 DEF pd_find_empty_node
<1>2. CASE ~\A i \in Ino : N[i] # NONE
  <2>1. S # {} /\ S \subseteq Nat
    BY <1>2, Sizes
  <2> HIDE DEF S
  <2>2. \E x \in S : \A y \in S : x <= y
    BY <2>1, LeastNat
  <2>3. \E i \in Ino : N[i] = NONE /\ \A j \in Ino : N[j] = NONE => i <= j
    BY <2>2 DEF S
  <2> QED
    BY <1>2, <2>3, Zenon DEF pd_find_empty_node
<1> QED
  BY <1>1, <1>2

(* VFS_MKNOD and two VFS_INODE_GRABs. *)
LEMMA Made ==
  ASSUME NEW N \in [Ino -> Node \cup {NONE}], Ends(N), NEW n \in Ino, N[n] = NONE
  PROVE  LET M == pd_grab(pd_grab(pd_mknod(N, n), n), n)
         IN Grabbed(N, M, n) /\ M[n].refcnt = 2 /\ Ends(M)
<1> DEFINE A == pd_mknod(N, n)
           B == pd_grab(A, n)
           M == pd_grab(B, n)
           z == [refcnt |-> 0, msgs |-> <<>>]
<1>1. z \in Node /\ z.refcnt = 0 /\ z.msgs = <<>> /\ NONE \notin Node
  BY Sizes DEF Node
<1>2. A = [N EXCEPT ![n] = z]
  BY DEF pd_mknod
<1> HIDE DEF z, A
<1>3. /\ A \in [Ino -> Node \cup {NONE}] /\ A[n] = z /\ A[n] # NONE
      /\ \A j \in Ino : j # n => A[j] = N[j]
  BY <1>1, <1>2
<1>4. MsgsOf(A, n) = <<>> /\ MsgsOf(N, n) = <<>> /\ A[n].refcnt = 0
  BY <1>1, <1>3 DEF MsgsOf
<1>5. Ends(A)
  BY <1>1, <1>3 DEF Ends
<1>6. Grabbed(A, B, n) /\ B[n].refcnt = A[n].refcnt + 1 /\ Ends(B)
  BY <1>3, <1>5, Grab1
<1> HIDE DEF B
<1>7. B \in [Ino -> Node \cup {NONE}] /\ B[n] # NONE
  BY <1>6 DEF Grabbed
<1>8. Grabbed(B, M, n) /\ M[n].refcnt = B[n].refcnt + 1 /\ Ends(M)
  BY <1>6, <1>7, Grab1
<1> HIDE DEF M
<1>9. Grabbed(N, M, n)
  BY <1>3, <1>4, <1>6, <1>8 DEF Grabbed
<1>10. M[n].refcnt = 2
  BY <1>4, <1>6, <1>8
<1> QED
  BY <1>8, <1>9, <1>10 DEF M, B, A

-----------------------------------------------------------------------------
(* The inductive invariant.  Q is the queue of requests of each node, H    *)
(* the clients on hold.                                                    *)

Queues(N) == [n \in Ino |-> MsgsOf(N, n)]

\* A request on hold is of a client on hold, is like the first one of its
\* node, and its client has the pipe open.
Waiting(F, P, Q, H) ==
  \A n \in Ino : \A k \in 1..Len(Q[n]) :
    /\ Q[n][k].client \in H
    /\ Q[n][k].cmd = Q[n][1].cmd
    /\ \E x \in Fd : F[Q[n][k].client][x] \in FilpsOf(P, n)

\* No client has two requests, and each client on hold has one.
Single(Q) ==
  \A n, m \in Ino : \A k \in 1..Len(Q[n]) : \A l \in 1..Len(Q[m]) :
    Q[n][k].client = Q[m][l].client => n = m /\ k = l

Present(Q, H) == \A c \in H : \E n \in Ino : \E k \in 1..Len(Q[n]) : Q[n][k].client = c

\* The bytes of a pipe are those of its writers on hold.
Bytes(Q, U) ==
  \A n \in Ino :
    IF Q[n] # <<>> /\ Q[n][1].cmd = "WRITEC"
    THEN Len(U[n]) = Len(Q[n]) /\ \A k \in 1..Len(Q[n]) : U[n][k] = Q[n][k].data
    ELSE U[n] = <<>>

\* A task vfs does not know has no descriptor.
Unknown(F, K) == \A p \in Pid \ K : \A x \in Fd : F[p][x] = -1

Shape(K, F, P, N, H, U) ==
  /\ K \subseteq Pid /\ H \subseteq K /\ U \in [Ino -> Seq(Data)]
  /\ Sound(F, P, N)
  /\ Unknown(F, K)
  /\ Waiting(F, P, Queues(N), H)
  /\ Single(Queues(N))
  /\ Present(Queues(N), H)
  /\ Bytes(Queues(N), U)

VInv == Shape(known, fd, filp, nodes, held, unread)

LEMMA QueueType ==
  ASSUME NEW N \in [Ino -> Node \cup {NONE}]
  PROVE  \A n \in Ino : Queues(N)[n] = MsgsOf(N, n) /\ Queues(N)[n] \in Seq(Request)
<1> SUFFICES ASSUME NEW n \in Ino PROVE MsgsOf(N, n) \in Seq(Request)
  BY DEF Queues
<1> QED
  BY DEF MsgsOf, Node

(* A request that answers nobody, and leaves the descriptors of those on   *)
(* hold and the requests alone.                                            *)
LEMMA QuietKept ==
  ASSUME NEW K, NEW L, NEW F, NEW G, NEW P, NEW R, NEW N, NEW M, NEW H, NEW U,
         Shape(K, F, P, N, H, U), L \subseteq Pid, H \subseteq L, Sound(G, R, M), Unknown(G, L),
         \A n \in Ino : MsgsOf(M, n) = MsgsOf(N, n),
         \A c \in H : \A x \in Fd : G[c][x] = F[c][x],
         \A n \in Ino : FilpsOf(P, n) \subseteq FilpsOf(R, n)
  PROVE  Shape(L, G, R, M, H, U)
<1>1. Queues(M) = Queues(N)
  BY DEF Queues
<1> DEFINE Q == Queues(N)
<1>2. Waiting(F, P, Q, H) /\ Single(Q) /\ Present(Q, H) /\ Bytes(Q, U) /\ U \in [Ino -> Seq(Data)]
  BY DEF Shape
<1> HIDE DEF Q
<1>3. Waiting(G, R, Q, H)
  <2> SUFFICES ASSUME NEW n \in Ino, NEW k \in 1..Len(Q[n])
               PROVE  /\ Q[n][k].client \in H
                      /\ Q[n][k].cmd = Q[n][1].cmd
                      /\ \E x \in Fd : G[Q[n][k].client][x] \in FilpsOf(R, n)
    BY DEF Waiting
  <2>1. /\ Q[n][k].client \in H
        /\ Q[n][k].cmd = Q[n][1].cmd
        /\ \E x \in Fd : F[Q[n][k].client][x] \in FilpsOf(P, n)
    BY <1>2 DEF Waiting
  <2> QED
    BY <2>1
<1> QED
  BY <1>1, <1>2, <1>3 DEF Shape, Q

LEMMA VfsInit == Init => VInv
<1> SUFFICES ASSUME Init PROVE VInv
  OBVIOUS
<1>1. /\ \A p \in Pid : \A x \in Fd : fd[p][x] = -1
      /\ \A f \in Filp : filp[f].refcnt = 0
      /\ \A n \in Ino : nodes[n] = NONE /\ unread[n] = <<>>
      /\ known = {} /\ held = {}
  BY DEF Init, NoFile, FreeFilp
<1>2. Typed(fd, filp, nodes) /\ unread \in [Ino -> Seq(Data)]
  BY Sizes DEF Typed, Init, NoFile, FreeFilp, FilpType
<1>3. Counted(fd, filp)
  <2> SUFFICES ASSUME NEW f \in Filp PROVE filp[f].refcnt = Cardinality(Entries(fd, Pid, Fd, f))
    BY DEF Counted
  <2>1. -1 \notin Filp
    BY Sizes
  <2>2. Entries(fd, Pid, Fd, f) = {}
    BY <1>1, <2>1 DEF Entries
  <2> QED
    BY <1>1, <2>2, FS_EmptySet
<1>4. \A n : FilpsOf(filp, n) = {}
  BY <1>1 DEF FilpsOf
<1>5. Covered(filp, nodes) /\ Ends(nodes)
  BY <1>1, <1>4 DEF Covered, Ends
<1> DEFINE Q == Queues(nodes)
<1>6. \A n \in Ino : Q[n] = <<>>
  BY <1>1 DEF Queues, MsgsOf
<1> HIDE DEF Q
<1>7. Waiting(fd, filp, Q, held) /\ Single(Q) /\ Present(Q, held) /\ Bytes(Q, unread)
  BY <1>1, <1>6 DEF Waiting, Single, Present, Bytes
<1>8. Unknown(fd, known)
  BY <1>1 DEF Unknown
<1> QED
  BY <1>1, <1>2, <1>3, <1>5, <1>7, <1>8 DEF VInv, Shape, Sound, Q

-----------------------------------------------------------------------------
LEMMA AddFirstKeeps ==
  ASSUME VInv, NEW p \in Pid, AddFirst(p)
  PROVE  VInv'
<1>1. Shape(known, fd, filp, nodes, held, unread)
  BY DEF VInv
<1>2. /\ known = {} /\ known' = {p} /\ fd' = fd /\ filp' = filp /\ nodes' = nodes
      /\ held' = held /\ unread' = unread
  BY DEF AddFirst, Quiet
<1>3. Sound(fd, filp, nodes) /\ Unknown(fd, {p}) /\ held \subseteq {p}
  BY <1>1, <1>2 DEF Shape, Unknown
<1>4. Shape({p}, fd, filp, nodes, held, unread)
  BY <1>1, <1>3, QuietKept
<1> QED
  BY <1>2, <1>4 DEF VInv

LEMMA AddTaskKeeps ==
  ASSUME VInv, NEW p \in Pid, NEW par \in Pid, AddTask(p, par)
  PROVE  VInv'
<1>1. Shape(known, fd, filp, nodes, held, unread)
  BY DEF VInv
<1>2. /\ p \notin known /\ known' = known \cup {p} /\ fd' = [fd EXCEPT ![p] = fd[par]]
      /\ filp' = Inherit(par) /\ nodes' = nodes /\ held' = held /\ unread' = unread
  BY DEF AddTask, Quiet
<1>3. /\ known \subseteq Pid /\ held \subseteq known /\ Sound(fd, filp, nodes) /\ Unknown(fd, known)
      /\ Typed(fd, filp, nodes) /\ Counted(fd, filp) /\ Covered(filp, nodes) /\ Ends(nodes)
  BY <1>1 DEF Shape, Sound
<1>4. fd \in [Pid -> [Fd -> Filp \cup {-1}]] /\ filp \in [Filp -> FilpType]
  BY <1>3 DEF Typed
<1> DEFINE G == [fd EXCEPT ![p] = fd[par]]
           R == Inherit(par)
           more(f) == Cardinality({y \in Fd : fd[par][y] = f})
<1>5. /\ G \in [Pid -> [Fd -> Filp \cup {-1}]] /\ G[p] = fd[par]
      /\ \A x \in Pid : x # p => G[x] = fd[x]
  BY <1>4
<1>6. \A f : more(f) \in Nat
  <2> SUFFICES ASSUME NEW f PROVE more(f) \in Nat
    OBVIOUS
  <2>1. {y \in Fd : fd[par][y] = f} \in SUBSET Fd /\ IsFiniteSet(Fd)
    BY Sizes
  <2> QED
    BY <2>1, FS_Subset, FS_CardinalityType
<1>7. /\ R \in [Filp -> FilpType]
      /\ \A f \in Filp : /\ R[f].refcnt = filp[f].refcnt + more(f)
                        /\ R[f].dev = filp[f].dev /\ R[f].ino = filp[f].ino
  <2> HIDE DEF more
  <2> SUFFICES /\ DOMAIN R = Filp /\ R = [f \in Filp |-> R[f]]
               /\ \A f \in Filp : /\ R[f] \in FilpType /\ R[f].refcnt = filp[f].refcnt + more(f)
                                 /\ R[f].dev = filp[f].dev /\ R[f].ino = filp[f].ino
    OBVIOUS
  <2>1. DOMAIN R = Filp /\ R = [f \in Filp |-> R[f]]
    BY DEF Inherit
  <2> SUFFICES ASSUME NEW f \in Filp
               PROVE  /\ R[f] \in FilpType /\ R[f].refcnt = filp[f].refcnt + more(f)
                      /\ R[f].dev = filp[f].dev /\ R[f].ino = filp[f].ino
    BY <2>1
  <2>2. R[f] = [filp[f] EXCEPT !.refcnt = @ + more(f)]
    BY DEF Inherit, more
  <2>3. filp[f] \in FilpType /\ more(f) \in Nat
    BY <1>4, <1>6
  <2> HIDE DEF R
  <2> QED
    BY <2>2, <2>3 DEF FilpType
<1> HIDE DEF G, R
<1>8. Counted(G, R)
  <2> SUFFICES ASSUME NEW f \in Filp PROVE R[f].refcnt = Cardinality(Entries(G, Pid, Fd, f))
    BY DEF Counted
  <2>1. \A y \in Fd : fd[p][y] # f
    <3>1. -1 \notin Filp
      BY Sizes
    <3> QED
      BY <1>2, <1>3, <3>1 DEF Unknown
  <2>2. IsFiniteSet(Pid) /\ IsFiniteSet(Fd)
    BY Sizes
  <2>3. Cardinality(Entries(G, Pid, Fd, f)) = Cardinality(Entries(fd, Pid, Fd, f)) + more(f)
    BY <1>5, <2>1, <2>2, RowCount, SMTT(30)
  <2>4. filp[f].refcnt = Cardinality(Entries(fd, Pid, Fd, f))
    BY <1>3 DEF Counted
  <2> HIDE DEF more
  <2> QED
    BY <1>7, <2>3, <2>4
<1>9. \A n : FilpsOf(R, n) = FilpsOf(filp, n)
  <2>1. ASSUME NEW f \in Filp PROVE R[f].refcnt > 0 <=> filp[f].refcnt > 0
    <3>1. filp[f].refcnt \in Nat
      BY <1>4 DEF FilpType
    <3>2. CASE more(f) = 0
      <4> HIDE DEF more
      <4> QED
        BY <1>7, <3>1, <3>2
    <3>3. CASE more(f) # 0
      <4>1. {y \in Fd : fd[par][y] = f} # {}
        BY <3>3, FS_EmptySet
      <4>2. PICK y \in Fd : fd[par][y] = f
        BY <4>1
      <4>3. filp[f].refcnt > 0
        BY <1>3, <4>2, UsedCounted
      <4>4. more(f) \in Nat /\ R[f].refcnt = filp[f].refcnt + more(f)
        BY <1>6, <1>7
      <4> HIDE DEF more
      <4> QED
        BY <3>1, <4>3, <4>4
    <3> QED
      BY <3>2, <3>3
  <2> HIDE DEF more
  <2> QED
    BY <1>7, <2>1, FilpSame
<1>10. Sound(G, R, nodes)
  BY <1>3, <1>5, <1>7, <1>8, <1>9 DEF Sound, Typed, Covered
<1>11. Unknown(G, known \cup {p})
  BY <1>3, <1>5 DEF Unknown
<1>12. \A c \in held : \A x \in Fd : G[c][x] = fd[c][x]
  BY <1>2, <1>3, <1>5
<1>13. Shape(known \cup {p}, G, R, nodes, held, unread)
  <2>1. held \subseteq known \cup {p} /\ known \cup {p} \subseteq Pid
    BY <1>3
  <2>2. \A n \in Ino : FilpsOf(filp, n) \subseteq FilpsOf(R, n)
    BY <1>9
  <2> QED
    BY <1>1, <1>10, <1>11, <1>12, <2>1, <2>2, QuietKept
<1> QED
  BY <1>2, <1>13 DEF VInv, G, R

(* What an action that c asks for may rely on. *)
LEMMA Asker ==
  ASSUME VInv, NEW c \in Pid, Asks(c)
  PROVE  /\ Shape(known, fd, filp, nodes, held, unread)
         /\ known \subseteq Pid /\ held \subseteq known /\ c \in known /\ c \notin held
         /\ unread \in [Ino -> Seq(Data)]
         /\ Sound(fd, filp, nodes) /\ Unknown(fd, known)
         /\ Counted(fd, filp) /\ Covered(filp, nodes) /\ Ends(nodes)
         /\ fd \in [Pid -> [Fd -> Filp \cup {-1}]] /\ filp \in [Filp -> FilpType]
         /\ nodes \in [Ino -> Node \cup {NONE}] /\ -1 \notin Filp
BY Sizes DEF VInv, Shape, Sound, Typed, Asks

LEMMA DupKeeps ==
  ASSUME VInv, NEW c \in Pid, NEW i \in Fd, Dup(c, i)
  PROVE  VInv'
<1> DEFINE b == find_empty_fd(fd[c])
           f == fd[c][i]
           G == [fd EXCEPT ![c][b] = f]
           R == Grab(filp, f)
<1>1. Asks(c) /\ known' = known /\ nodes' = nodes /\ held' = held /\ unread' = unread
  BY DEF Dup, Quiet
<1>2. \/ fd' = fd /\ filp' = filp
      \/ ~(f < 0) /\ ~(b < 0) /\ fd' = G /\ filp' = R
  BY DEF Dup
<1>3. /\ Shape(known, fd, filp, nodes, held, unread)
      /\ known \subseteq Pid /\ held \subseteq known /\ c \in known /\ c \notin held
      /\ Sound(fd, filp, nodes) /\ Unknown(fd, known)
      /\ Counted(fd, filp) /\ Covered(filp, nodes) /\ Ends(nodes)
      /\ fd \in [Pid -> [Fd -> Filp \cup {-1}]] /\ filp \in [Filp -> FilpType]
      /\ nodes \in [Ino -> Node \cup {NONE}] /\ -1 \notin Filp
  BY <1>1, Asker
<1>4. CASE fd' = fd /\ filp' = filp
  BY <1>1, <1>3, <1>4 DEF VInv
<1>5. CASE ~(f < 0) /\ ~(b < 0) /\ fd' = G /\ filp' = R
  <2>1. f \in Filp
    <3>1. f \in Filp \cup {-1}
      BY <1>3
    <3> HIDE DEF f
    <3> QED
      BY <1>5, <3>1
  <2>2. b \in Fd /\ fd[c][b] = -1
    <3>1. fd[c] \in [Fd -> Filp \cup {-1}]
      BY <1>3
    <3> QED
      BY <1>5, <3>1, FindEmpty
  <2> HIDE DEF b, f
  <2>3. /\ G \in [Pid -> [Fd -> Filp \cup {-1}]] /\ G[c][b] = f
        /\ \A x \in Pid : \A y \in Fd : x # c \/ y # b => G[x][y] = fd[x][y]
    BY <1>3, <2>1, <2>2
  <2>4. /\ R \in [Filp -> FilpType] /\ R[f].refcnt = filp[f].refcnt + 1
        /\ \A g \in Filp : g # f => R[g].refcnt = filp[g].refcnt
        /\ \A g \in Filp : R[g].dev = filp[g].dev /\ R[g].ino = filp[g].ino
    BY <1>3, <2>1 DEF Grab, FilpType
  <2> HIDE DEF G, R
  <2>5. Counted(G, R)
    <3>1. fd[c][b] \notin Filp
      BY <1>3, <2>2
    <3> QED
      BY <1>3, <2>1, <2>2, <2>3, <2>4, <3>1, CountAttach
  <2>6. \A n : FilpsOf(R, n) = FilpsOf(filp, n)
    <3>1. fd[c][i] = f
      BY DEF f
    <3>2. filp[f].refcnt > 0 /\ filp[f].refcnt \in Nat
      BY <1>3, <2>1, <3>1, UsedCounted
    <3>3. \A g \in Filp : R[g].refcnt > 0 <=> filp[g].refcnt > 0
      BY <2>4, <3>2
    <3> QED
      BY <2>4, <3>3, FilpSame
  <2>7. Sound(G, R, nodes)
    BY <1>3, <2>3, <2>4, <2>5, <2>6 DEF Sound, Typed, Covered
  <2>8. Unknown(G, known) /\ \A x \in held : \A y \in Fd : G[x][y] = fd[x][y]
    BY <1>3, <2>3 DEF Unknown
  <2>9. \A n \in Ino : FilpsOf(filp, n) \subseteq FilpsOf(R, n)
    BY <2>6
  <2>10. Shape(known, G, R, nodes, held, unread)
    BY <1>3, <2>7, <2>8, <2>9, QuietKept
  <2> QED
    BY <1>1, <1>5, <2>10 DEF VInv
<1> QED
  BY <1>2, <1>4, <1>5

LEMMA OpenKeeps ==
  ASSUME VInv, NEW c \in Pid, NEW dev \in {PIPE, 1}, NEW n \in Ino, Open(c, dev, n)
  PROVE  VInv'
<1> DEFINE b == find_empty_fd(fd[c])
           f == find_empty_filp(filp)
           G == [fd EXCEPT ![c][b] = f]
           R == OpenFilp(filp, f, dev, n)
           M == IF dev = PIPE THEN pd_grab(nodes, n) ELSE nodes
<1>1. Asks(c) /\ known' = known /\ held' = held /\ unread' = unread
  BY DEF Open, Quiet
<1>2. \/ fd' = fd /\ filp' = filp /\ nodes' = nodes
      \/ /\ ~(b < 0) /\ ~(f < 0) /\ (dev = PIPE => nodes[n] # NONE)
         /\ fd' = G /\ filp' = R /\ nodes' = M
  BY DEF Open
<1>3. /\ Shape(known, fd, filp, nodes, held, unread)
      /\ known \subseteq Pid /\ held \subseteq known /\ c \in known /\ c \notin held
      /\ Sound(fd, filp, nodes) /\ Unknown(fd, known)
      /\ Counted(fd, filp) /\ Covered(filp, nodes) /\ Ends(nodes)
      /\ fd \in [Pid -> [Fd -> Filp \cup {-1}]] /\ filp \in [Filp -> FilpType]
      /\ nodes \in [Ino -> Node \cup {NONE}] /\ -1 \notin Filp
  BY <1>1, Asker
<1>4. CASE fd' = fd /\ filp' = filp /\ nodes' = nodes
  BY <1>1, <1>3, <1>4 DEF VInv
<1>5. CASE /\ ~(b < 0) /\ ~(f < 0) /\ (dev = PIPE => nodes[n] # NONE)
           /\ fd' = G /\ filp' = R /\ nodes' = M
  <2>1. b \in Fd /\ fd[c][b] = -1 /\ f \in Filp /\ filp[f].refcnt = 0
    <3>1. fd[c] \in [Fd -> Filp \cup {-1}]
      BY <1>3
    <3> QED
      BY <1>5, <3>1, FindEmpty
  <2> HIDE DEF b, f
  <2>2. /\ G \in [Pid -> [Fd -> Filp \cup {-1}]] /\ G[c][b] = f
        /\ \A x \in Pid : \A y \in Fd : x # c \/ y # b => G[x][y] = fd[x][y]
    BY <1>3, <2>1
  <2>3. /\ R \in [Filp -> FilpType] /\ R[f].refcnt = 1 /\ R[f].dev = dev /\ R[f].ino = n
        /\ \A g \in Filp : g # f => R[g] = filp[g]
    BY <1>3, <2>1 DEF OpenFilp, FilpType
  <2> HIDE DEF G, R
  <2>4. /\ Counted(G, R)
        /\ dev = PIPE => Cardinality(FilpsOf(R, n)) = Cardinality(FilpsOf(filp, n)) + 1
        /\ \A j \in Ino : j # n \/ dev # PIPE => FilpsOf(R, j) = FilpsOf(filp, j)
        /\ \A j \in Ino : FilpsOf(filp, j) \subseteq FilpsOf(R, j)
    <3>1. fd[c][b] \notin Filp /\ Counted(fd, filp)
      BY <1>3, <2>1
    <3>2. Opening(fd, G, filp, R, c, b, f)
      BY <2>1, <2>2, <2>3, <3>1 DEF Opening
    <3>3. /\ Counted(G, R)
          /\ R[f].dev = PIPE =>
               Cardinality(FilpsOf(R, R[f].ino)) = Cardinality(FilpsOf(filp, R[f].ino)) + 1
          /\ \A j : j # R[f].ino \/ R[f].dev # PIPE => FilpsOf(R, j) = FilpsOf(filp, j)
          /\ \A j : FilpsOf(filp, j) \subseteq FilpsOf(R, j)
      BY <3>2, Opened
    <3> QED
      BY <2>3, <3>3
  <2>5. /\ M \in [Ino -> Node \cup {NONE}] /\ Covered(R, M) /\ Ends(M)
        /\ \A j \in Ino : MsgsOf(M, j) = MsgsOf(nodes, j)
    <3>1. CASE dev # PIPE
      <4>1. M = nodes
        BY <3>1
      <4> QED
        BY <1>3, <2>4, <3>1, <4>1 DEF Covered
    <3>2. CASE dev = PIPE
      <4>1. Grabbed(nodes, M, n) /\ M[n].refcnt = nodes[n].refcnt + 1 /\ Ends(M)
        BY <1>3, <1>5, <3>2, Grab1
      <4> HIDE DEF M
      <4>2. nodes[n].refcnt >= Cardinality(FilpsOf(filp, n)) /\ nodes[n].refcnt \in Nat
        <5>1. nodes[n].refcnt \in Nat
          BY <1>3, <1>5, <3>2 DEF Node
        <5>2. CASE FilpsOf(filp, n) = {}
          BY <5>1, <5>2, FS_EmptySet
        <5>3. CASE FilpsOf(filp, n) # {}
          BY <1>3, <5>1, <5>3 DEF Covered
        <5> QED
          BY <5>1, <5>2, <5>3
      <4>3. Cardinality(FilpsOf(filp, n)) \in Nat
        BY FilpsFacts
      <4>4. Covered(R, M)
        <5> SUFFICES ASSUME NEW j \in Ino, FilpsOf(R, j) # {}
                     PROVE  M[j] # NONE /\ M[j].refcnt >= Cardinality(FilpsOf(R, j))
          BY DEF Covered
        <5>1. CASE j # n
          BY <1>3, <2>4, <4>1, <5>1 DEF Covered, Grabbed
        <5>2. CASE j = n
          BY <2>4, <3>2, <4>1, <4>2, <4>3, <5>2 DEF Grabbed
        <5> QED
          BY <5>1, <5>2
      <4> QED
        BY <4>1, <4>4 DEF Grabbed, MsgsOf
    <3> QED
      BY <3>1, <3>2
  <2> HIDE DEF M
  <2>6. Sound(G, R, M)
    BY <2>2, <2>3, <2>4, <2>5 DEF Sound, Typed
  <2>7. Unknown(G, known) /\ \A x \in held : \A y \in Fd : G[x][y] = fd[x][y]
    BY <1>3, <2>2 DEF Unknown
  <2>8. Shape(known, G, R, M, held, unread)
    BY <1>3, <2>4, <2>5, <2>6, <2>7, QuietKept
  <2> QED
    BY <1>1, <1>5, <2>8 DEF VInv
<1> QED
  BY <1>2, <1>4, <1>5

LEMMA PipeKeeps ==
  ASSUME VInv, NEW c \in Pid, Pipe(c)
  PROVE  VInv'
<1> DEFINE n == pd_find_empty_node(nodes)
           b == find_empty_fd(fd[c])
           f == find_empty_filp(filp)
           fds == [fd[c] EXCEPT ![b] = f]
           R == OpenFilp(filp, f, PIPE, n)
           b2 == find_empty_fd(fds)
           f2 == find_empty_filp(R)
           G == [fd EXCEPT ![c] = fds]
           G2 == [fd EXCEPT ![c] = [fds EXCEPT ![b2] = f2]]
           R2 == OpenFilp(R, f2, PIPE, n)
           M == pd_grab(pd_grab(pd_mknod(nodes, n), n), n)
<1>1. /\ Asks(c) /\ n >= 0 /\ known' = known /\ held' = held /\ unread' = unread /\ nodes' = M
      /\ \/ fd' = fd /\ filp' = filp
         \/ ~(f < 0) /\ ~(b < 0) /\ fd' = G /\ filp' = R
         \/ ~(f < 0) /\ ~(b < 0) /\ ~(f2 < 0) /\ ~(b2 < 0) /\ fd' = G2 /\ filp' = R2
  BY DEF Pipe
<1>2. /\ Shape(known, fd, filp, nodes, held, unread)
      /\ known \subseteq Pid /\ held \subseteq known /\ c \in known /\ c \notin held
      /\ Sound(fd, filp, nodes) /\ Unknown(fd, known)
      /\ Counted(fd, filp) /\ Covered(filp, nodes) /\ Ends(nodes)
      /\ fd \in [Pid -> [Fd -> Filp \cup {-1}]] /\ filp \in [Filp -> FilpType]
      /\ nodes \in [Ino -> Node \cup {NONE}] /\ -1 \notin Filp
  BY <1>1, Asker
<1>3. n \in Ino /\ nodes[n] = NONE
  BY <1>1, EmptyNode
<1> HIDE DEF n
<1>4. Grabbed(nodes, M, n) /\ M[n].refcnt = 2 /\ Ends(M)
  BY <1>2, <1>3, Made
<1> HIDE DEF M
<1>5. FilpsOf(filp, n) = {} /\ Cardinality(FilpsOf(filp, n)) = 0
  BY <1>2, <1>3, FS_EmptySet DEF Covered
<1>6. \A j \in Ino : MsgsOf(M, j) = MsgsOf(nodes, j)
  BY <1>4 DEF Grabbed, MsgsOf
\* The node has two references, and no more than two filps.
<1>7. ASSUME NEW A, NEW B, A \in [Pid -> [Fd -> Filp \cup {-1}]], B \in [Filp -> FilpType],
             Counted(A, B), Cardinality(FilpsOf(B, n)) <= 2,
             \A j \in Ino : j # n => FilpsOf(B, j) = FilpsOf(filp, j),
             \A j \in Ino : FilpsOf(filp, j) \subseteq FilpsOf(B, j),
             \A x \in Pid : x # c => A[x] = fd[x]
      PROVE  Shape(known, A, B, M, held, unread)
  <2>1. Covered(B, M)
    <3> SUFFICES ASSUME NEW j \in Ino, FilpsOf(B, j) # {}
                 PROVE  M[j] # NONE /\ M[j].refcnt >= Cardinality(FilpsOf(B, j))
      BY DEF Covered
    <3>1. CASE j # n
      BY <1>2, <1>4, <1>7, <3>1 DEF Covered, Grabbed
    <3>2. CASE j = n
      <4>1. Cardinality(FilpsOf(B, n)) \in Nat
        BY FilpsFacts
      <4> QED
        BY <1>4, <1>7, <3>2, <4>1 DEF Grabbed
    <3> QED
      BY <3>1, <3>2
  <2>2. Sound(A, B, M)
    BY <1>4, <1>7, <2>1 DEF Sound, Typed, Grabbed
  <2>3. Unknown(A, known) /\ \A x \in held : \A y \in Fd : A[x][y] = fd[x][y]
    BY <1>2, <1>7 DEF Unknown
  <2> QED
    BY <1>2, <1>6, <1>7, <2>2, <2>3, QuietKept
<1>8. CASE fd' = fd /\ filp' = filp
  <2> DEFINE A == fd
             B == filp
  <2>1. /\ A \in [Pid -> [Fd -> Filp \cup {-1}]] /\ B \in [Filp -> FilpType] /\ Counted(A, B)
        /\ \A x \in Pid : x # c => A[x] = fd[x]
        /\ Cardinality(FilpsOf(B, n)) <= 2
        /\ \A j \in Ino : j # n => FilpsOf(B, j) = FilpsOf(filp, j)
        /\ \A j \in Ino : FilpsOf(filp, j) \subseteq FilpsOf(B, j)
    BY <1>2, <1>5
  <2> HIDE DEF A, B
  <2>2. Shape(known, A, B, M, held, unread)
    BY <1>7, <2>1
  <2> QED
    BY <1>1, <1>8, <2>2 DEF VInv, A, B
<1>9. ASSUME ~(f < 0), ~(b < 0)
      PROVE  /\ G \in [Pid -> [Fd -> Filp \cup {-1}]] /\ R \in [Filp -> FilpType] /\ Counted(G, R)
             /\ G[c] = fds /\ \A x \in Pid : x # c => G[x] = fd[x]
             /\ Cardinality(FilpsOf(R, n)) = 1
             /\ \A j \in Ino : j # n => FilpsOf(R, j) = FilpsOf(filp, j)
             /\ \A j \in Ino : FilpsOf(filp, j) \subseteq FilpsOf(R, j)
  <2>1. b \in Fd /\ fd[c][b] = -1 /\ f \in Filp /\ filp[f].refcnt = 0
    <3>1. fd[c] \in [Fd -> Filp \cup {-1}]
      BY <1>2
    <3> QED
      BY <1>9, <3>1, FindEmpty
  <2> HIDE DEF b, f
  <2>2. /\ G \in [Pid -> [Fd -> Filp \cup {-1}]] /\ G[c][b] = f /\ G[c] = fds
        /\ \A x \in Pid : \A y \in Fd : x # c \/ y # b => G[x][y] = fd[x][y]
        /\ \A x \in Pid : x # c => G[x] = fd[x]
    BY <1>2, <2>1
  <2>3. /\ R \in [Filp -> FilpType] /\ R[f].refcnt = 1 /\ R[f].dev = PIPE /\ R[f].ino = n
        /\ \A g \in Filp : g # f => R[g] = filp[g]
    BY <1>2, <1>3, <2>1 DEF OpenFilp, FilpType
  <2>4. G[c] = fds
    BY <2>2
  <2> HIDE DEF G, R
  <2>5. fd[c][b] \notin Filp /\ Counted(fd, filp)
    BY <1>2, <2>1
  <2>6. Opening(fd, G, filp, R, c, b, f)
    BY <2>1, <2>2, <2>3, <2>5 DEF Opening
  <2>7. /\ Counted(G, R)
        /\ R[f].dev = PIPE =>
             Cardinality(FilpsOf(R, R[f].ino)) = Cardinality(FilpsOf(filp, R[f].ino)) + 1
        /\ \A j : j # R[f].ino \/ R[f].dev # PIPE => FilpsOf(R, j) = FilpsOf(filp, j)
        /\ \A j : FilpsOf(filp, j) \subseteq FilpsOf(R, j)
    BY <2>6, Opened
  <2>8. /\ Cardinality(FilpsOf(R, n)) = 0 + 1
        /\ \A j : j # n => FilpsOf(R, j) = FilpsOf(filp, j)
    BY <1>5, <2>3, <2>7
  <2> QED
    BY <2>2, <2>3, <2>4, <2>7, <2>8
<1>10. CASE ~(f < 0) /\ ~(b < 0) /\ fd' = G /\ filp' = R
  <2> DEFINE A == G
             B == R
  <2>1. /\ A \in [Pid -> [Fd -> Filp \cup {-1}]] /\ B \in [Filp -> FilpType] /\ Counted(A, B)
        /\ \A x \in Pid : x # c => A[x] = fd[x]
        /\ Cardinality(FilpsOf(B, n)) <= 2
        /\ \A j \in Ino : j # n => FilpsOf(B, j) = FilpsOf(filp, j)
        /\ \A j \in Ino : FilpsOf(filp, j) \subseteq FilpsOf(B, j)
    <3>1. ~(f < 0) /\ ~(b < 0)
      BY <1>10
    <3> HIDE DEF b, f, G, R
    <3> QED
      BY <1>9, <3>1
  <2> HIDE DEF A, B
  <2>2. Shape(known, A, B, M, held, unread)
    BY <1>7, <2>1
  <2> QED
    BY <1>1, <1>10, <2>2 DEF VInv, A, B
<1>11. CASE ~(f < 0) /\ ~(b < 0) /\ ~(f2 < 0) /\ ~(b2 < 0) /\ fd' = G2 /\ filp' = R2
  <2>1. /\ G \in [Pid -> [Fd -> Filp \cup {-1}]] /\ R \in [Filp -> FilpType] /\ Counted(G, R)
        /\ G[c] = fds /\ \A x \in Pid : x # c => G[x] = fd[x]
        /\ Cardinality(FilpsOf(R, n)) = 1
        /\ \A j \in Ino : j # n => FilpsOf(R, j) = FilpsOf(filp, j)
        /\ \A j \in Ino : FilpsOf(filp, j) \subseteq FilpsOf(R, j)
    <3>1. ~(f < 0) /\ ~(b < 0)
      BY <1>11
    <3> HIDE DEF b, f, G, R, fds
    <3> QED
      BY <1>9, <3>1
  <2> HIDE DEF fds, R
  <2>2. fds \in [Fd -> Filp \cup {-1}]
    <3> HIDE DEF G
    <3> QED
      BY <2>1
  <2>3. b2 \in Fd /\ fds[b2] = -1 /\ f2 \in Filp /\ R[f2].refcnt = 0
    <3>1. ~(b2 < 0) /\ ~(f2 < 0)
      BY <1>11
    <3> QED
      BY <2>2, <3>1, FindEmpty
  <2> HIDE DEF b2, f2
  <2>4. /\ G2 \in [Pid -> [Fd -> Filp \cup {-1}]] /\ G2[c][b2] = f2
        /\ \A y \in Fd : y # b2 => G2[c][y] = fds[y]
        /\ \A x \in Pid : x # c => G2[x] = fd[x]
    BY <1>2, <2>2, <2>3
  <2>5. /\ R2 \in [Filp -> FilpType] /\ R2[f2].refcnt = 1 /\ R2[f2].dev = PIPE /\ R2[f2].ino = n
        /\ \A g \in Filp : g # f2 => R2[g] = R[g]
    BY <1>3, <2>1, <2>3 DEF OpenFilp, FilpType
  <2> HIDE DEF G, G2, R2
  <2>6. Opening(G, G2, R, R2, c, b2, f2)
    <3>1. G[c][b2] \notin Filp
      BY <1>2, <2>1, <2>3
    <3>2. \A x \in Pid : \A y \in Fd : x # c \/ y # b2 => G2[x][y] = G[x][y]
      BY <2>1, <2>4
    <3> QED
      BY <2>1, <2>3, <2>4, <2>5, <3>1, <3>2 DEF Opening
  <2>7. /\ Counted(G2, R2)
        /\ R2[f2].dev = PIPE =>
             Cardinality(FilpsOf(R2, R2[f2].ino)) = Cardinality(FilpsOf(R, R2[f2].ino)) + 1
        /\ \A j : j # R2[f2].ino \/ R2[f2].dev # PIPE => FilpsOf(R2, j) = FilpsOf(R, j)
        /\ \A j : FilpsOf(R, j) \subseteq FilpsOf(R2, j)
    BY <2>6, Opened
  <2>8. /\ Cardinality(FilpsOf(R2, n)) = 1 + 1
        /\ \A j : j # n => FilpsOf(R2, j) = FilpsOf(R, j)
    BY <2>1, <2>5, <2>7
  <2>9. /\ \A j \in Ino : j # n => FilpsOf(R2, j) = FilpsOf(filp, j)
        /\ \A j \in Ino : FilpsOf(filp, j) \subseteq FilpsOf(R2, j)
        /\ Cardinality(FilpsOf(R2, n)) <= 2
    BY <2>1, <2>7, <2>8
  <2>10. Shape(known, G2, R2, M, held, unread)
    BY <1>7, <2>4, <2>5, <2>7, <2>9
  <2> QED
    BY <1>1, <1>11, <2>10 DEF VInv
<1> QED
  BY <1>1, <1>8, <1>10, <1>11

-----------------------------------------------------------------------------
(* A request of a client that is not on hold is put at the end of a queue  *)
(* of its kind.                                                            *)
Queuing(F, P, Q, T, H, U, V, n, r) ==
  /\ n \in Ino /\ r \in Request /\ \A m \in Ino : Q[m] \in Seq(Request)
  /\ Waiting(F, P, Q, H) /\ Single(Q) /\ Present(Q, H) /\ Bytes(Q, U) /\ U[n] \in Seq(Data)
  /\ r.client \notin H /\ (r.cmd = "WRITEC" => r.data \in Data)
  /\ Q[n] = <<>> \/ Q[n][1].cmd = r.cmd
  /\ \E x \in Fd : F[r.client][x] \in FilpsOf(P, n)
  /\ T[n] = Append(Q[n], r) /\ \A m \in Ino : m # n => T[m] = Q[m]
  /\ V[n] = IF r.cmd = "WRITEC" THEN Append(U[n], r.data) ELSE U[n]
  /\ \A m \in Ino : m # n => V[m] = U[m]

LEMMA Queued ==
  ASSUME NEW F, NEW P, NEW Q, NEW T, NEW H, NEW U, NEW V, NEW n, NEW r,
         Queuing(F, P, Q, T, H, U, V, n, r)
  PROVE  /\ Waiting(F, P, T, H \cup {r.client}) /\ Single(T) /\ Present(T, H \cup {r.client})
         /\ Bytes(T, V) /\ V[n] \in Seq(Data)
<1> USE DEF Queuing
<1> DEFINE q == Q[n]
           t == T[n]
           l == Len(q)
<1>1. /\ t \in Seq(Request) /\ Len(t) = l + 1 /\ t[l + 1] = r /\ \A k \in 1..l : t[k] = q[k]
      /\ l \in Nat
  BY AppendFacts
<1>2. \A k \in 1..Len(t) : k \in 1..l \/ k = l + 1
  BY <1>1
<1>3. \A k \in 1..Len(t) : t[k].cmd = r.cmd
  <2> SUFFICES ASSUME NEW k \in 1..l PROVE q[k].cmd = r.cmd
    BY <1>1, <1>2
  <2>1. q # <<>>
    BY <1>1
  <2>2. q[k].cmd = q[1].cmd
    BY DEF Waiting
  <2> QED
    BY <2>1, <2>2
<1>4. 1 \in 1..Len(t) /\ t # <<>>
  BY <1>1
<1>5. \A m \in Ino : \A k \in 1..Len(Q[m]) : Q[m][k].client \in H /\ Q[m][k].client # r.client
  BY DEF Waiting
<1>6. Waiting(F, P, T, H \cup {r.client})
  <2> SUFFICES ASSUME NEW m \in Ino, NEW k \in 1..Len(T[m])
               PROVE  /\ T[m][k].client \in H \cup {r.client}
                      /\ T[m][k].cmd = T[m][1].cmd
                      /\ \E x \in Fd : F[T[m][k].client][x] \in FilpsOf(P, m)
    BY DEF Waiting
  <2>1. CASE m # n
    BY <2>1 DEF Waiting
  <2>2. CASE m = n /\ k = l + 1
    BY <1>1, <1>3, <1>4, <2>2
  <2>3. CASE m = n /\ k \in 1..l
    <3>1. q[k].client \in H /\ \E x \in Fd : F[q[k].client][x] \in FilpsOf(P, n)
      BY <2>3 DEF Waiting
    <3>2. t[k] = q[k] /\ t[k].cmd = t[1].cmd
      BY <1>1, <1>3, <1>4, <2>3
    <3> HIDE DEF q, t
    <3>3. T[m][k] = q[k]
      BY <2>3, <3>2 DEF t
    <3> QED
      BY <2>3, <3>1, <3>2, <3>3 DEF t
  <2> QED
    BY <1>2, <2>1, <2>2, <2>3
<1>7. Single(T)
  <2> SUFFICES ASSUME NEW m1 \in Ino, NEW m2 \in Ino, NEW k1 \in 1..Len(T[m1]), NEW k2 \in 1..Len(T[m2]),
                      T[m1][k1].client = T[m2][k2].client
               PROVE  m1 = m2 /\ k1 = k2
    BY DEF Single
  \* A slot of T is the new one, or one of Q.
  <2>1. ASSUME NEW m \in Ino, NEW k \in 1..Len(T[m])
        PROVE  \/ m = n /\ k = l + 1 /\ T[m][k].client = r.client
               \/ k \in 1..Len(Q[m]) /\ T[m][k] = Q[m][k]
    <3>1. CASE m # n
      BY <3>1
    <3>2. CASE m = n
      BY <1>1, <1>2, <3>2
    <3> QED
      BY <3>1, <3>2
  <2> HIDE DEF l
  <2>2. CASE k1 \in 1..Len(Q[m1]) /\ T[m1][k1] = Q[m1][k1] /\ k2 \in 1..Len(Q[m2]) /\ T[m2][k2] = Q[m2][k2]
    <3>1. Q[m1][k1].client = Q[m2][k2].client
      BY <2>2
    <3> QED
      BY <2>2, <3>1 DEF Single
  <2> QED
    BY <1>5, <2>1, <2>2
<1>8. Present(T, H \cup {r.client})
  <2> SUFFICES ASSUME NEW c \in H \cup {r.client}
               PROVE  \E m \in Ino : \E k \in 1..Len(T[m]) : T[m][k].client = c
    BY DEF Present
  <2>1. CASE c = r.client
    <3>1. l + 1 \in 1..Len(t) /\ t[l + 1].client = c
      BY <1>1, <2>1
    <3> QED
      BY <3>1
  <2>2. CASE c \in H
    <3>1. PICK m \in Ino : \E k \in 1..Len(Q[m]) : Q[m][k].client = c
      BY <2>2 DEF Present
    <3>2. PICK k \in 1..Len(Q[m]) : Q[m][k].client = c
      BY <3>1
    <3>3. k \in 1..Len(T[m]) /\ T[m][k] = Q[m][k]
      <4>1. CASE m # n
        BY <4>1
      <4>2. CASE m = n
        BY <1>1, <4>2
      <4> QED
        BY <4>1, <4>2
    <3> QED
      BY <3>2, <3>3
  <2> QED
    BY <2>1, <2>2
<1>9. V[n] \in Seq(Data)
  <2> DEFINE u == U[n]
             e == r.data
  <2>1. u \in Seq(Data) /\ (r.cmd = "WRITEC" => e \in Data)
    OBVIOUS
  <2>2. V[n] = IF r.cmd = "WRITEC" THEN Append(u, e) ELSE u
    OBVIOUS
  <2> HIDE DEF u, e
  <2> QED
    BY <2>1, <2>2, AppendFacts
<1>10. Bytes(T, V)
  <2> SUFFICES ASSUME NEW m \in Ino
               PROVE  IF T[m] # <<>> /\ T[m][1].cmd = "WRITEC"
                      THEN Len(V[m]) = Len(T[m]) /\ \A k \in 1..Len(T[m]) : V[m][k] = T[m][k].data
                      ELSE V[m] = <<>>
    BY DEF Bytes
  <2>1. CASE m # n
    BY <2>1 DEF Bytes
  <2>2. CASE m = n /\ r.cmd # "WRITEC"
    <3>1. V[n] = U[n] /\ t[1].cmd # "WRITEC"
      BY <1>3, <1>4, <2>2
    <3>2. U[n] = <<>>
      BY <2>2 DEF Bytes
    <3> QED
      BY <2>2, <3>1, <3>2
  <2>3. CASE m = n /\ r.cmd = "WRITEC"
    <3> DEFINE u == U[n]
               e == r.data
               v == V[n]
    <3>1. u \in Seq(Data) /\ e \in Data /\ v = Append(u, e)
      BY <2>3
    <3>2. Len(u) = l /\ \A k \in 1..l : u[k] = q[k].data
      <4>1. CASE q = <<>>
        <5>1. u = <<>> /\ l = 0
          BY <4>1 DEF Bytes
        <5> QED
          BY <5>1
      <4>2. CASE q # <<>>
        <5>1. q[1].cmd = "WRITEC"
          BY <2>3, <4>2
        <5> QED
          BY <4>2, <5>1 DEF Bytes
      <4> QED
        BY <4>1, <4>2
    <3> HIDE DEF u, e, v, q, t
    <3>3. Len(v) = l + 1 /\ v[l + 1] = e /\ \A k \in 1..l : v[k] = u[k]
      BY <3>1, <3>2, AppendFacts
    <3>4. Len(v) = Len(t) /\ \A k \in 1..Len(t) : v[k] = t[k].data
      <4>1. t[l + 1].data = e
        BY <1>1 DEF e
      <4> QED
        BY <1>1, <1>2, <3>2, <3>3, <4>1
    <3>5. t # <<>> /\ t[1].cmd = "WRITEC"
      BY <1>3, <1>4, <2>3
    <3> QED
      BY <2>3, <3>4, <3>5 DEF v, t
  <2> QED
    BY <2>1, <2>2, <2>3
<1> QED
  BY <1>6, <1>7, <1>8, <1>9, <1>10

(* The first request of a queue is met: its client goes on, and what it    *)
(* was to write is read.                                                   *)
Meeting(F, P, Q, T, H, U, V, n) ==
  /\ n \in Ino /\ \A m \in Ino : Q[m] \in Seq(Request)
  /\ Q[n] # <<>>
  /\ Waiting(F, P, Q, H) /\ Single(Q) /\ Present(Q, H) /\ Bytes(Q, U) /\ U[n] \in Seq(Data)
  /\ T[n] = Tail(Q[n]) /\ \A m \in Ino : m # n => T[m] = Q[m]
  /\ V[n] = IF Q[n][1].cmd = "WRITEC" THEN Tail(U[n]) ELSE U[n]
  /\ \A m \in Ino : m # n => V[m] = U[m]

LEMMA MetFirst ==
  ASSUME NEW F, NEW P, NEW Q, NEW T, NEW H, NEW U, NEW V, NEW n,
         Meeting(F, P, Q, T, H, U, V, n)
  PROVE  LET w == Q[n][1].client
         IN /\ Waiting(F, P, T, H \ {w}) /\ Single(T) /\ Present(T, H \ {w})
            /\ Bytes(T, V) /\ V[n] \in Seq(Data)
<1> USE DEF Meeting
<1> DEFINE q == Q[n]
           t == T[n]
           l == Len(q)
           w == Q[n][1].client
<1>1. /\ q \in Seq(Request) /\ l \in Nat /\ l >= 1 /\ t \in Seq(Request) /\ Len(t) = l - 1
      /\ \A k \in 1..(l - 1) : t[k] = q[k + 1]
  OBVIOUS
\* A slot of T is one of Q; it is not the first of n.
<1>2. ASSUME NEW m \in Ino, NEW k \in 1..Len(T[m])
      PROVE  LET j == IF m = n THEN k + 1 ELSE k
             IN j \in 1..Len(Q[m]) /\ T[m][k] = Q[m][j] /\ T[m][k].client # w
  <2>1. CASE m # n
    <3>1. k \in 1..Len(Q[m]) /\ T[m][k] = Q[m][k]
      BY <2>1
    <3>2. 1 \in 1..l
      BY <1>1
    <3>3. Q[m][k].client # w
      BY <2>1, <3>1, <3>2 DEF Single
    <3> QED
      BY <2>1, <3>1, <3>3
  <2>2. CASE m = n
    <3>1. k \in 1..(l - 1) /\ k + 1 \in 1..l /\ k + 1 # 1 /\ 1 \in 1..l
      <4>1. T[m] = t
        BY <2>2
      <4> HIDE DEF t, l
      <4>2. k \in 1..(l - 1)
        BY <1>1, <4>1
      <4> QED
        BY <1>1, <4>2
    <3>2. t[k] = q[k + 1]
      BY <1>1, <3>1
    <3>3. q[k + 1].client # w
      BY <3>1 DEF Single
    <3> HIDE DEF w, l
    <3>4. T[m][k] = Q[m][k + 1] /\ Q[m][k + 1].client # w /\ k + 1 \in 1..Len(Q[m])
      BY <2>2, <3>1, <3>2, <3>3 DEF l
    <3> QED
      BY <2>2, <3>4
  <2> QED
    BY <2>1, <2>2
<1>3. ASSUME NEW m \in Ino, NEW k \in 1..Len(Q[m]), m # n \/ k # 1
      PROVE  LET j == IF m = n THEN k - 1 ELSE k
             IN j \in 1..Len(T[m]) /\ T[m][j] = Q[m][k]
  <2>1. CASE m # n
    BY <2>1
  <2>2. CASE m = n
    <3>1. k - 1 \in 1..(l - 1) /\ (k - 1) + 1 = k
      BY <1>1, <1>3, <2>2
    <3>2. t[k - 1] = q[k]
      BY <1>1, <3>1
    <3> QED
      BY <1>1, <2>2, <3>1, <3>2
  <2> QED
    BY <2>1, <2>2
<1>4. Waiting(F, P, T, H \ {w})
  <2> SUFFICES ASSUME NEW m \in Ino, NEW k \in 1..Len(T[m])
               PROVE  /\ T[m][k].client \in H \ {w}
                      /\ T[m][k].cmd = T[m][1].cmd
                      /\ \E x \in Fd : F[T[m][k].client][x] \in FilpsOf(P, m)
    BY DEF Waiting
  <2> DEFINE j == IF m = n THEN k + 1 ELSE k
             i == IF m = n THEN 2 ELSE 1
  <2>1. j \in 1..Len(Q[m]) /\ T[m][k] = Q[m][j] /\ T[m][k].client # w
    BY <1>2
  <2>2. 1 \in 1..Len(T[m])
    <3>1. T[m] \in Seq(Request)
      BY <1>1
    <3> QED
      BY <3>1
  <2>3. i \in 1..Len(Q[m]) /\ T[m][1] = Q[m][i]
    <3>1. (IF m = n THEN 1 + 1 ELSE 1) = i
      OBVIOUS
    <3> HIDE DEF i
    <3> QED
      BY <1>2, <2>2, <3>1
  <2> HIDE DEF i, j, w
  <2>4. /\ Q[m][j].client \in H /\ Q[m][j].cmd = Q[m][1].cmd /\ Q[m][i].cmd = Q[m][1].cmd
        /\ \E x \in Fd : F[Q[m][j].client][x] \in FilpsOf(P, m)
    BY <2>1, <2>3 DEF Waiting
  <2> QED
    BY <2>1, <2>3, <2>4
<1>5. Single(T)
  <2> SUFFICES ASSUME NEW m1 \in Ino, NEW m2 \in Ino, NEW k1 \in 1..Len(T[m1]), NEW k2 \in 1..Len(T[m2]),
                      T[m1][k1].client = T[m2][k2].client
               PROVE  m1 = m2 /\ k1 = k2
    BY DEF Single
  <2> DEFINE j1 == IF m1 = n THEN k1 + 1 ELSE k1
             j2 == IF m2 = n THEN k2 + 1 ELSE k2
  <2>1. j1 \in 1..Len(Q[m1]) /\ T[m1][k1] = Q[m1][j1]
    BY <1>2
  <2>2. j2 \in 1..Len(Q[m2]) /\ T[m2][k2] = Q[m2][j2]
    BY <1>2
  <2> HIDE DEF j1, j2
  <2>3. Q[m1][j1].client = Q[m2][j2].client
    BY <2>1, <2>2
  <2>4. m1 = m2 /\ j1 = j2
    BY <2>1, <2>2, <2>3 DEF Single
  <2>5. T[m1] \in Seq(Request) /\ T[m2] \in Seq(Request)
    BY <1>1
  <2>6. k1 \in Nat /\ k2 \in Nat
    BY <2>5
  <2> QED
    BY <2>4, <2>6 DEF j1, j2
<1>6. Present(T, H \ {w})
  <2> SUFFICES ASSUME NEW c \in H, c # w
               PROVE  \E m \in Ino : \E k \in 1..Len(T[m]) : T[m][k].client = c
    BY DEF Present
  <2>1. PICK m \in Ino : \E k \in 1..Len(Q[m]) : Q[m][k].client = c
    BY DEF Present
  <2>2. PICK k \in 1..Len(Q[m]) : Q[m][k].client = c
    BY <2>1
  <2>3. m # n \/ k # 1
    BY <2>2
  <2> HIDE DEF w
  <2> QED
    BY <1>3, <2>2, <2>3
<1>7. Bytes(T, V) /\ V[n] \in Seq(Data)
  <2> DEFINE u == U[n]
             v == V[n]
  <2>1. CASE q[1].cmd # "WRITEC"
    <3>1. u = <<>> /\ v = u
      BY <2>1 DEF Bytes
    <3>2. t # <<>> => t[1].cmd # "WRITEC"
      <4> SUFFICES ASSUME t # <<>> PROVE t[1].cmd # "WRITEC"
        OBVIOUS
      <4>1. 1 \in 1..(l - 1) /\ 2 \in 1..l /\ 1 + 1 = 2
        BY <1>1
      <4>2. t[1] = q[2]
        BY <1>1, <4>1
      <4>3. q[2].cmd = q[1].cmd
        BY <4>1 DEF Waiting
      <4> QED
        BY <2>1, <4>2, <4>3
    <3>3. ASSUME NEW m \in Ino
          PROVE  IF T[m] # <<>> /\ T[m][1].cmd = "WRITEC"
                 THEN Len(V[m]) = Len(T[m]) /\ \A k \in 1..Len(T[m]) : V[m][k] = T[m][k].data
                 ELSE V[m] = <<>>
      <4>1. CASE m # n
        BY <4>1 DEF Bytes
      <4>2. CASE m = n
        BY <3>1, <3>2, <4>2
      <4> QED
        BY <4>1, <4>2
    <3> QED
      BY <3>1, <3>3 DEF Bytes
  <2>2. CASE q[1].cmd = "WRITEC"
    <3>1. u \in Seq(Data) /\ Len(u) = l /\ \A k \in 1..l : u[k] = q[k].data
      BY <2>2 DEF Bytes
    <3>2. v = Tail(u)
      BY <2>2
    <3> HIDE DEF u, v
    <3>3. v \in Seq(Data) /\ Len(v) = l - 1 /\ \A k \in 1..(l - 1) : v[k] = u[k + 1]
      BY <1>1, <3>1, <3>2
    <3>4. ASSUME NEW k \in 1..(l - 1) PROVE v[k] = t[k].data
      <4>1. k + 1 \in 1..l
        BY <1>1
      <4>2. t[k] = q[k + 1]
        BY <1>1
      <4> QED
        BY <3>1, <3>3, <4>1, <4>2
    <3>5. t # <<>> => t[1].cmd = "WRITEC"
      <4> SUFFICES ASSUME t # <<>> PROVE t[1].cmd = "WRITEC"
        OBVIOUS
      <4>1. 1 \in 1..(l - 1) /\ 2 \in 1..l /\ 1 + 1 = 2
        BY <1>1
      <4>2. t[1] = q[2]
        BY <1>1, <4>1
      <4>3. q[2].cmd = q[1].cmd
        BY <4>1 DEF Waiting
      <4> QED
        BY <2>2, <4>2, <4>3
    <3>6. t = <<>> => v = <<>>
      <4> SUFFICES ASSUME t = <<>> PROVE v = <<>>
        OBVIOUS
      <4>1. Len(v) = 0
        BY <1>1, <3>3
      <4> QED
        BY <3>3, <4>1
    <3>7. ASSUME NEW m \in Ino
          PROVE  IF T[m] # <<>> /\ T[m][1].cmd = "WRITEC"
                 THEN Len(V[m]) = Len(T[m]) /\ \A k \in 1..Len(T[m]) : V[m][k] = T[m][k].data
                 ELSE V[m] = <<>>
      <4>1. CASE m # n
        BY <4>1 DEF Bytes
      <4>2. CASE m = n
        <5>1. Len(v) = Len(t) /\ \A k \in 1..Len(t) : v[k] = t[k].data
          BY <1>1, <3>3, <3>4
        <5> HIDE DEF l, q, t
        <5>2. IF t # <<>> /\ t[1].cmd = "WRITEC"
              THEN Len(v) = Len(t) /\ \A k \in 1..Len(t) : v[k] = t[k].data
              ELSE v = <<>>
          BY <3>5, <3>6, <5>1
        <5> QED
          BY <4>2, <5>2 DEF t, v
      <4> QED
        BY <4>1, <4>2
    <3>8. V[n] \in Seq(Data)
      BY <3>3 DEF v
    <3> QED
      BY <3>7, <3>8 DEF Bytes
  <2> QED
    BY <2>1, <2>2
<1> QED
  BY <1>4, <1>5, <1>6, <1>7

(* The requests of a node are changed; nothing is left there with one end. *)
WithMsgs(N, n, z) == [N EXCEPT ![n].msgs = z]

LEMMA NewMsgs ==
  ASSUME NEW F, NEW P, NEW N, Sound(F, P, N), NEW n \in Ino, N[n] # NONE,
         NEW z \in Seq(Request), z # <<>> => N[n].refcnt > 1
  PROVE  LET M == WithMsgs(N, n, z)
         IN /\ Sound(F, P, M)
            /\ Queues(M)[n] = z /\ \A j \in Ino : j # n => Queues(M)[j] = Queues(N)[j]
<1> DEFINE M == WithMsgs(N, n, z)
<1>1. Typed(F, P, N) /\ Counted(F, P) /\ Covered(P, N) /\ Ends(N) /\ N \in [Ino -> Node \cup {NONE}]
  BY DEF Sound, Typed
<1>2. N[n] \in Node /\ N[n].refcnt \in Nat /\ NONE \notin Node
  BY <1>1, Sizes DEF Node
<1>3. /\ M \in [Ino -> Node \cup {NONE}] /\ M[n] \in Node /\ M[n].msgs = z /\ M[n].refcnt = N[n].refcnt
      /\ \A j \in Ino : j # n => M[j] = N[j]
  BY <1>1, <1>2 DEF Node, WithMsgs
<1> HIDE DEF M
<1>4. M[n] # NONE
  BY <1>2, <1>3
<1>5. Covered(P, M)
  <2> SUFFICES ASSUME NEW j \in Ino, FilpsOf(P, j) # {}
               PROVE  M[j] # NONE /\ M[j].refcnt >= Cardinality(FilpsOf(P, j))
    BY DEF Covered
  <2> QED
    BY <1>1, <1>3, <1>4 DEF Covered
<1>6. Ends(M)
  <2> SUFFICES ASSUME NEW j \in Ino, M[j] # NONE, M[j].refcnt <= 1 PROVE M[j].msgs = <<>>
    BY DEF Ends
  <2> QED
    BY <1>1, <1>2, <1>3 DEF Ends
<1>7. Queues(M)[n] = z /\ \A j \in Ino : j # n => Queues(M)[j] = Queues(N)[j]
  BY <1>3, <1>4 DEF Queues, MsgsOf
<1> QED
  BY <1>1, <1>3, <1>5, <1>6, <1>7 DEF Sound, Typed, M

Both(a, b, e) == [x \in {a, b} |-> e]

LEMMA ReadFrontNone ==
  ASSUME NEW u, NEW a, NEW e
  PROVE  ReadFront(u, Answer1(a, e)) = u /\ ReadFront(u, NoAnswers) = u
<1>1. DOMAIN Answer1(a, e) = {a} /\ DOMAIN NoAnswers = {}
  BY DEF Answer1, NoAnswers
<1>2. Cardinality({a}) = 1 /\ Cardinality({}) = 0
  BY FS_Singleton, FS_EmptySet
<1> QED
  BY <1>1, <1>2 DEF ReadFront

LEMMA ReadFrontBoth ==
  ASSUME NEW u, NEW a, NEW b, NEW e, a # b, u # <<>>, Head(u) = e
  PROVE  ReadFront(u, Both(a, b, e)) = Tail(u)
<1> DEFINE g == Both(a, b, e)
<1>1. DOMAIN g = {a, b} /\ \A x \in DOMAIN g : g[x] = Head(u)
  BY DEF Both
<1>2. {a, b} = {a} \cup {b} /\ b \notin {a} /\ Cardinality({a}) = 1 /\ IsFiniteSet({a})
  BY FS_Singleton
<1>3. Cardinality({a} \cup {b}) = 1 + 1
  BY <1>2, FS_AddElement
<1>4. Cardinality(DOMAIN g) = 2
  BY <1>1, <1>2, <1>3
<1> HIDE DEF g
<1>5. ReadFront(u, g) = Tail(u)
  BY <1>1, <1>4 DEF ReadFront
<1> QED
  BY <1>5 DEF g

LEMMA RwPipeKeeps ==
  ASSUME VInv, NEW c \in Pid, NEW i \in Fd, NEW cmd \in {"READC", "WRITEC"}, NEW d \in Data \cup {EOF},
         cmd = "WRITEC" => d \in Data, RwPipe(c, i, cmd, d)
  PROVE  VInv'
<1> DEFINE f == fd[c][i]
           n == filp[f].ino
           q == nodes[n].msgs
           r == [client |-> c, cmd |-> cmd, data |-> d]
           o == pd_rw(nodes, n, r)
           Q == Queues(nodes)
           u == unread[n]
           v == ReadFront(IF cmd = "WRITEC" /\ o.answers # Answer1(c, EOF) THEN Append(u, d) ELSE u,
                          o.answers)
<1>1. /\ Asks(c) /\ f >= 0 /\ filp[f].dev = PIPE
      /\ known' = known /\ fd' = fd /\ filp' = filp
      /\ nodes' = o.nodes /\ held' = (held \cup {c}) \ DOMAIN o.answers
      /\ unread' = [unread EXCEPT ![n] = v]
  BY DEF RwPipe, files
<1>2. /\ Shape(known, fd, filp, nodes, held, unread)
      /\ known \subseteq Pid /\ held \subseteq known /\ c \in known /\ c \notin held
      /\ unread \in [Ino -> Seq(Data)]
      /\ Sound(fd, filp, nodes) /\ Unknown(fd, known)
      /\ Counted(fd, filp) /\ Covered(filp, nodes) /\ Ends(nodes)
      /\ fd \in [Pid -> [Fd -> Filp \cup {-1}]] /\ filp \in [Filp -> FilpType]
      /\ nodes \in [Ino -> Node \cup {NONE}] /\ -1 \notin Filp
  BY <1>1, Asker
<1>3. f \in Filp
  <2>1. f \in Filp \cup {-1} /\ f >= 0
    BY <1>1, <1>2
  <2> HIDE DEF f
  <2> QED
    BY <2>1
<1>4. n \in Ino /\ f \in FilpsOf(filp, n) /\ \E x \in Fd : fd[c][x] \in FilpsOf(filp, n)
  <2>1. filp[f].refcnt > 0
    BY <1>2, <1>3, UsedCounted
  <2>2. n \in Ino
    BY <1>2, <1>3 DEF FilpType
  <2>3. f \in FilpsOf(filp, n)
    BY <1>1, <1>3, <2>1 DEF FilpsOf
  <2> QED
    BY <2>2, <2>3
<1>5. nodes[n] # NONE /\ nodes[n] \in Node /\ q \in Seq(Request) /\ nodes[n].refcnt \in Nat
  <2>1. nodes[n] # NONE
    BY <1>2, <1>4 DEF Covered
  <2>2. nodes[n] \in Node
    BY <1>2, <1>4, <2>1
  <2> QED
    BY <2>1, <2>2 DEF Node
<1>6. r \in Request /\ r.client = c /\ r.cmd = cmd /\ r.data = d
  BY DEF Request
<1>7. u \in Seq(Data) /\ Q[n] = q /\ \A m \in Ino : Q[m] \in Seq(Request)
  <2>1. \A m \in Ino : Queues(nodes)[m] = MsgsOf(nodes, m) /\ Queues(nodes)[m] \in Seq(Request)
    BY <1>2, QueueType
  <2> QED
    BY <1>2, <1>4, <1>5, <2>1 DEF MsgsOf
<1>8. Waiting(fd, filp, Q, held) /\ Single(Q) /\ Present(Q, held) /\ Bytes(Q, unread)
  BY <1>2 DEF Shape
<1>9. q # <<>> => nodes[n].refcnt > 1
  BY <1>2, <1>4, <1>5 DEF Ends
<1>10. /\ q = <<>> /\ OneEnd(nodes[n]) => o = Outcome(nodes, Answer1(c, EOF))
       /\ ~(q = <<>> /\ OneEnd(nodes[n])) /\ (q = <<>> \/ Head(q).cmd = cmd) =>
            o = Outcome([nodes EXCEPT ![n].msgs = Append(q, r)], NoAnswers)
       /\ q # <<>> /\ Head(q).cmd # cmd =>
            o = Outcome([nodes EXCEPT ![n].msgs = Tail(q)],
                        [x \in {Head(q).client, c} |-> IF cmd = "READC" THEN Head(q).data ELSE d])
  <2> HIDE DEF n
  <2> QED
    BY <1>6 DEF pd_rw, Saved, Met
<1>11. \A N, A : Outcome(N, A).nodes = N /\ Outcome(N, A).answers = A
  BY DEF Outcome
<1> HIDE DEF o, Q, r, n
<1>12. CASE q = <<>> /\ OneEnd(nodes[n])
  <2>1. o.nodes = nodes /\ o.answers = Answer1(c, EOF)
    BY <1>10, <1>11, <1>12
  <2>2. v = u
    BY <2>1, ReadFrontNone
  <2>3. unread' = unread
    <3> HIDE DEF v
    <3> QED
      BY <1>1, <1>2, <1>4, <2>2
  <2>4. DOMAIN Answer1(c, EOF) = {c}
    BY DEF Answer1
  <2>5. held' = held
    BY <1>1, <1>2, <2>1, <2>4
  <2> QED
    BY <1>1, <1>2, <2>1, <2>3, <2>5 DEF VInv
<1>13. CASE ~(q = <<>> /\ OneEnd(nodes[n])) /\ (q = <<>> \/ Head(q).cmd = cmd)
  <2> DEFINE z == Append(q, r)
             M == WithMsgs(nodes, n, z)
             V == [unread EXCEPT ![n] = v]
  <2>1. o.nodes = M /\ o.answers = NoAnswers
    BY <1>10, <1>11, <1>13 DEF WithMsgs
  <2>2. v = IF cmd = "WRITEC" THEN Append(u, d) ELSE u
    <3>1. NoAnswers # Answer1(c, EOF)
      <4>1. DOMAIN NoAnswers = {} /\ DOMAIN Answer1(c, EOF) = {c}
        BY DEF NoAnswers, Answer1
      <4> QED
        BY <4>1
    <3> QED
      BY <2>1, <3>1, ReadFrontNone
  <2>3. z \in Seq(Request) /\ nodes[n].refcnt > 1
    BY <1>5, <1>6, <1>9, <1>13 DEF OneEnd
  <2> HIDE DEF v, z
  <2>4. Sound(fd, filp, M) /\ Queues(M)[n] = z /\ \A j \in Ino : j # n => Queues(M)[j] = Queues(nodes)[j]
    BY <1>2, <1>4, <1>5, <2>3, NewMsgs
  <2> HIDE DEF M
  <2> DEFINE T == Queues(M)
  <2>5. T[n] = Append(Q[n], r) /\ \A j \in Ino : j # n => T[j] = Q[j]
    BY <1>7, <2>4 DEF z, Q
  <2>6. V[n] = v /\ \A j \in Ino : j # n => V[j] = unread[j]
    BY <1>2, <1>4
  <2>7. Q[n] = <<>> \/ Q[n][1].cmd = r.cmd
    BY <1>5, <1>6, <1>7, <1>13
  <2> HIDE DEF T, V
  <2>8. /\ Waiting(fd, filp, T, held \cup {r.client}) /\ Single(T) /\ Present(T, held \cup {r.client})
        /\ Bytes(T, V) /\ V[n] \in Seq(Data)
    <3>1. V[n] = IF r.cmd = "WRITEC" THEN Append(unread[n], r.data) ELSE unread[n]
      BY <1>6, <2>2, <2>6
    <3>2. r.client \notin held /\ (r.cmd = "WRITEC" => r.data \in Data)
      BY <1>2, <1>6
    <3>3. \E x \in Fd : fd[r.client][x] \in FilpsOf(filp, n)
      BY <1>4, <1>6
    <3>4. unread[n] \in Seq(Data) /\ n \in Ino /\ r \in Request
      BY <1>4, <1>6, <1>7
    <3>5. Queuing(fd, filp, Q, T, held, unread, V, n, r)
      BY <1>7, <1>8, <2>5, <2>6, <2>7, <3>1, <3>2, <3>3, <3>4 DEF Queuing
    <3> QED
      BY <3>5, Queued
  <2>9. V \in [Ino -> Seq(Data)]
    <3>1. v \in Seq(Data)
      BY <2>6, <2>8
    <3> QED
      BY <1>2, <3>1 DEF V
  <2>10. held' = held \cup {c} /\ held \cup {c} \subseteq known
    <3>1. DOMAIN NoAnswers = {}
      BY DEF NoAnswers
    <3> QED
      BY <1>1, <1>2, <2>1, <3>1
  <2>11. nodes' = M /\ unread' = V
    BY <1>1, <2>1 DEF V
  <2>12. Shape(known, fd, filp, M, held \cup {c}, V)
    <3>1. /\ Waiting(fd, filp, T, held \cup {c}) /\ Single(T) /\ Present(T, held \cup {c})
          /\ Bytes(T, V)
      BY <1>6, <2>8
    <3> QED
      BY <1>2, <2>4, <2>9, <2>10, <3>1 DEF Shape, T
  <2> QED
    BY <1>1, <2>10, <2>11, <2>12 DEF VInv
<1>14. CASE q # <<>> /\ Head(q).cmd # cmd
  <2> DEFINE z == Tail(q)
             M == WithMsgs(nodes, n, z)
             V == [unread EXCEPT ![n] = v]
             w == Head(q)
             e == IF cmd = "READC" THEN w.data ELSE d
             h == w.client
             A == Both(h, c, e)
  <2>1. o.nodes = M /\ o.answers = A
    BY <1>10, <1>11, <1>14 DEF WithMsgs, Both
  <2>2. /\ z \in Seq(Request) /\ nodes[n].refcnt > 1 /\ w = q[1] /\ w \in Request /\ 1 \in 1..Len(q)
    BY <1>5, <1>9, <1>14
  <2>3. w.cmd \in {"READC", "WRITEC"} /\ h \in held /\ h # c
    <3>1. w.cmd \in {"READC", "WRITEC"}
      BY <2>2 DEF Request
    <3>2. Q[n][1].client \in held
      BY <1>4, <1>7, <1>8, <2>2 DEF Waiting
    <3> QED
      BY <1>2, <1>7, <2>2, <3>1, <3>2
  <2>4. v = IF w.cmd = "WRITEC" THEN Tail(u) ELSE u
    <3>1. CASE w.cmd = "WRITEC"
      <4>1. cmd = "READC"
        BY <1>14, <3>1
      <4>2. v = ReadFront(u, A)
        BY <2>1, <4>1
      <4>3. u # <<>> /\ Head(u) = e
        <5>1. Len(u) = Len(q) /\ u[1] = q[1].data
          BY <1>4, <1>7, <1>8, <1>14, <2>2, <3>1 DEF Bytes
        <5>2. u # <<>> /\ Head(u) = u[1]
          BY <1>7, <2>2, <5>1
        <5> QED
          BY <2>2, <4>1, <5>1, <5>2
      <4> HIDE DEF v, u, e, h
      <4> QED
        BY <2>3, <3>1, <4>2, <4>3, ReadFrontBoth
    <3>2. CASE w.cmd # "WRITEC"
      <4>1. cmd = "WRITEC"
        BY <1>14, <2>3, <3>2
      <4>2. d \in Data /\ d # EOF /\ e = d
        BY <4>1, VfsAssumption
      <4>3. A # Answer1(c, EOF)
        <5>1. A[c] = d /\ Answer1(c, EOF)[c] = EOF
          BY <4>2 DEF Answer1, Both
        <5> QED
          BY <4>2, <5>1
      <4>4. u = <<>>
        BY <1>4, <1>7, <1>8, <1>14, <2>2, <3>2 DEF Bytes
      <4>5. v = ReadFront(Append(u, d), A)
        BY <2>1, <4>1, <4>3
      <4>6. Append(u, d) # <<>> /\ Head(Append(u, d)) = d /\ Tail(Append(u, d)) = <<>>
        BY <4>2, <4>4
      <4> DEFINE y == Append(u, d)
      <4> HIDE DEF v, y, h
      <4>7. ReadFront(y, Both(h, c, d)) = Tail(y)
        <5>1. y # <<>> /\ Head(y) = d
          BY <4>6 DEF y
        <5> QED
          BY <2>3, <5>1, ReadFrontBoth
      <4> QED
        BY <3>2, <4>2, <4>4, <4>5, <4>6, <4>7 DEF y
    <3> QED
      BY <3>1, <3>2
  <2> HIDE DEF v, z, A
  <2>5. Sound(fd, filp, M) /\ Queues(M)[n] = z /\ \A j \in Ino : j # n => Queues(M)[j] = Queues(nodes)[j]
    BY <1>2, <1>4, <1>5, <2>2, NewMsgs
  <2> HIDE DEF M
  <2> DEFINE T == Queues(M)
  <2>6. T[n] = Tail(Q[n]) /\ \A j \in Ino : j # n => T[j] = Q[j]
    BY <1>7, <2>5 DEF z, Q
  <2>7. V[n] = v /\ \A j \in Ino : j # n => V[j] = unread[j]
    BY <1>2, <1>4
  <2>8. Q[n] # <<>> /\ Q[n][1] = w
    BY <1>7, <1>14, <2>2
  <2> HIDE DEF T, V
  <2>9. /\ Waiting(fd, filp, T, held \ {Q[n][1].client}) /\ Single(T) /\ Present(T, held \ {Q[n][1].client})
        /\ Bytes(T, V) /\ V[n] \in Seq(Data)
    <3>1. V[n] = IF Q[n][1].cmd = "WRITEC" THEN Tail(unread[n]) ELSE unread[n]
      BY <2>4, <2>7, <2>8
    <3>2. unread[n] \in Seq(Data) /\ n \in Ino /\ Q[n] # <<>>
      BY <1>4, <1>7, <2>8
    <3>3. Meeting(fd, filp, Q, T, held, unread, V, n)
      BY <1>7, <1>8, <2>6, <2>7, <3>1, <3>2 DEF Meeting
    <3> QED
      BY <3>3, MetFirst
  <2>10. V \in [Ino -> Seq(Data)]
    <3>1. v \in Seq(Data)
      BY <2>7, <2>9
    <3> QED
      BY <1>2, <3>1 DEF V
  <2>11. held' = held \ {h} /\ held \ {h} \subseteq known
    <3>1. DOMAIN A = {h, c}
      BY DEF A, Both
    <3> QED
      BY <1>1, <1>2, <2>1, <3>1
  <2>12. nodes' = M /\ unread' = V
    BY <1>1, <2>1 DEF V
  <2>13. Shape(known, fd, filp, M, held \ {h}, V)
    <3>1. /\ Waiting(fd, filp, T, held \ {h}) /\ Single(T) /\ Present(T, held \ {h})
          /\ Bytes(T, V)
      BY <2>8, <2>9
    <3> QED
      BY <1>2, <2>5, <2>10, <2>11, <3>1 DEF Shape, T
  <2> QED
    BY <1>1, <2>11, <2>12, <2>13 DEF VInv
<1> QED
  BY <1>12, <1>13, <1>14

-----------------------------------------------------------------------------
(* Some descriptors of p have been closed, those below m among them: s is  *)
(* what the tables are by then.  The clients told EOF are those of the     *)
(* nodes that have lost their requests.                                    *)
Partly(s, p, m) ==
  /\ s = [fd |-> s.fd, filp |-> s.filp, nodes |-> s.nodes, eof |-> s.eof]
  /\ Sound(s.fd, s.filp, s.nodes)
  /\ \A x \in Pid : \A y \in Fd : x # p => s.fd[x][y] = fd[x][y]
  /\ \A y \in Fd : y < m => s.fd[p][y] = -1
  /\ \A f \in Filp : s.filp[f].dev = filp[f].dev /\ s.filp[f].ino = filp[f].ino
  /\ \A n \in Ino : MsgsOf(s.nodes, n) = MsgsOf(nodes, n) \/ MsgsOf(s.nodes, n) = <<>>
  /\ \A c : c \in s.eof <=>
       \E n \in Ino : /\ MsgsOf(s.nodes, n) = <<>>
                    /\ \E k \in 1..Len(MsgsOf(nodes, n)) : c = MsgsOf(nodes, n)[k].client

LEMMA PartlyStart ==
  ASSUME VInv, NEW p
  PROVE  Partly(Before, p, 0)
<1> DEFINE s == Before
<1>1. s.fd = fd /\ s.filp = filp /\ s.nodes = nodes /\ s.eof = {}
  BY DEF Before
<1>2. s = [fd |-> s.fd, filp |-> s.filp, nodes |-> s.nodes, eof |-> s.eof]
  BY DEF Before
<1>3. Sound(fd, filp, nodes) /\ Fd \subseteq Nat
  BY Sizes DEF VInv, Shape
<1>4. ASSUME NEW n \in Ino, MsgsOf(nodes, n) = <<>>, NEW k \in 1..Len(MsgsOf(nodes, n)) PROVE FALSE
  BY <1>4
<1> HIDE DEF s
<1>5. Partly(s, p, 0)
  BY <1>1, <1>2, <1>3, <1>4 DEF Partly
<1> QED
  BY <1>5 DEF s

LEMMA PartlyStep ==
  ASSUME NEW s, NEW p \in Pid, NEW i \in Fd, NEW m \in Nat, m <= i, Partly(s, p, m)
  PROVE  Partly(do_close(s, p, i), p, m) /\ (m = i => Partly(do_close(s, p, i), p, i + 1))
<1> DEFINE F == s.fd
           P == s.filp
           N == s.nodes
           E == s.eof
           z == [fd |-> F, filp |-> P, nodes |-> N, eof |-> E]
           t == do_close(s, p, i)
<1>1. s = z /\ Sound(F, P, N)
  BY Zenon DEF Partly
<1>2. Closed(F, P, N, E, p, i, do_close(z, p, i))
  <2>1. Sound(F, P, N)
    BY <1>1
  <2> HIDE DEF F, P, N, E
  <2> QED
    BY <2>1, CloseOne
<1>3. Closed(F, P, N, E, p, i, t)
  <2> DEFINE C(x) == Closed(F, P, N, E, p, i, do_close(x, p, i))
  <2>1. C(z)
    BY <1>2
  <2>2. s = z
    BY <1>1
  <2> HIDE DEF C, z
  <2>3. C(s)
    BY <2>1, <2>2
  <2> QED
    BY <2>3 DEF C
<1>4. /\ t = [fd |-> t.fd, filp |-> t.filp, nodes |-> t.nodes, eof |-> t.eof]
      /\ Sound(t.fd, t.filp, t.nodes)
  BY <1>3, Zenon DEF Closed
<1>5. /\ t.fd[p][i] = -1
      /\ \A x \in Pid : \A y \in Fd : x # p \/ y # i => t.fd[x][y] = F[x][y]
      /\ \A f \in Filp : t.filp[f].dev = P[f].dev /\ t.filp[f].ino = P[f].ino
      /\ \A n \in Ino : MsgsOf(t.nodes, n) = MsgsOf(N, n) \/ MsgsOf(t.nodes, n) = <<>>
      /\ \A c : c \in t.eof <=>
           \/ c \in E
           \/ \E n \in Ino : /\ MsgsOf(t.nodes, n) = <<>>
                            /\ \E k \in 1..Len(MsgsOf(N, n)) : c = MsgsOf(N, n)[k].client
  BY <1>3, Zenon DEF Closed
<1>6. /\ \A x \in Pid : \A y \in Fd : x # p => F[x][y] = fd[x][y]
      /\ \A y \in Fd : y < m => F[p][y] = -1
      /\ \A f \in Filp : P[f].dev = filp[f].dev /\ P[f].ino = filp[f].ino
      /\ \A n \in Ino : MsgsOf(N, n) = MsgsOf(nodes, n) \/ MsgsOf(N, n) = <<>>
      /\ \A c : c \in E <=>
           \E n \in Ino : /\ MsgsOf(N, n) = <<>>
                        /\ \E k \in 1..Len(MsgsOf(nodes, n)) : c = MsgsOf(nodes, n)[k].client
  BY Zenon DEF Partly
<1> HIDE DEF t, F, P, N, E
<1>7. /\ \A x \in Pid : \A y \in Fd : x # p => t.fd[x][y] = fd[x][y]
      /\ \A f \in Filp : t.filp[f].dev = filp[f].dev /\ t.filp[f].ino = filp[f].ino
      /\ \A n \in Ino : MsgsOf(t.nodes, n) = MsgsOf(nodes, n) \/ MsgsOf(t.nodes, n) = <<>>
  BY <1>5, <1>6
<1>8. Fd \subseteq Nat
  BY Sizes
<1>9. /\ \A y \in Fd : y < m => t.fd[p][y] = -1
      /\ m = i => \A y \in Fd : y < i + 1 => t.fd[p][y] = -1
  <2>1. \A y \in Fd : y = i \/ t.fd[p][y] = F[p][y]
    BY <1>5
  <2>2. \A y \in Fd : y < i + 1 => y < i \/ y = i
    BY <1>8
  <2> QED
    BY <1>5, <1>6, <2>1, <2>2
<1>10. ASSUME NEW c
       PROVE  c \in t.eof <=>
                \E n \in Ino : /\ MsgsOf(t.nodes, n) = <<>>
                             /\ \E k \in 1..Len(MsgsOf(nodes, n)) : c = MsgsOf(nodes, n)[k].client
  <2>1. ASSUME NEW n \in Ino, MsgsOf(N, n) = <<>>, NEW k \in 1..Len(MsgsOf(N, n)) PROVE FALSE
    BY <2>1
  <2>2. ASSUME NEW n \in Ino PROVE MsgsOf(N, n) = <<>> => MsgsOf(t.nodes, n) = <<>>
    BY <1>5
  <2>3. ASSUME c \in t.eof
        PROVE  \E n \in Ino : /\ MsgsOf(t.nodes, n) = <<>>
                            /\ \E k \in 1..Len(MsgsOf(nodes, n)) : c = MsgsOf(nodes, n)[k].client
    <3>1. CASE c \in E
      BY <1>6, <2>2, <3>1
    <3>2. CASE \E n \in Ino : /\ MsgsOf(t.nodes, n) = <<>>
                            /\ \E k \in 1..Len(MsgsOf(N, n)) : c = MsgsOf(N, n)[k].client
      <4>1. PICK n \in Ino : /\ MsgsOf(t.nodes, n) = <<>>
                            /\ \E k \in 1..Len(MsgsOf(N, n)) : c = MsgsOf(N, n)[k].client
        BY <3>2
      <4>2. MsgsOf(N, n) = MsgsOf(nodes, n)
        BY <1>6, <2>1, <4>1
      <4> QED
        BY <4>1, <4>2
    <3> QED
      BY <1>5, <2>3, <3>1, <3>2
  <2>4. ASSUME NEW n \in Ino, MsgsOf(t.nodes, n) = <<>>,
               \E k \in 1..Len(MsgsOf(nodes, n)) : c = MsgsOf(nodes, n)[k].client
        PROVE  c \in t.eof
    <3>1. CASE MsgsOf(N, n) = <<>>
      BY <1>5, <1>6, <2>4, <3>1
    <3>2. CASE MsgsOf(N, n) = MsgsOf(nodes, n)
      BY <1>5, <2>4, <3>2
    <3> QED
      BY <1>6, <3>1, <3>2
  <2> QED
    BY <2>3, <2>4
<1>11. Partly(t, p, m) /\ (m = i => Partly(t, p, i + 1))
  BY <1>4, <1>7, <1>9, <1>10 DEF Partly
<1> QED
  BY <1>11 DEF t

(* vfs_removetask() closes them all: the least number of descriptors after *)
(* which this would not hold does not exist.                               *)
LEMMA AllClosed ==
  ASSUME VInv, NEW p \in Pid
  PROVE  Partly(Closing(p)[MAX_FD], p, MAX_FD)
<1> DEFINE S == {i \in 0..MAX_FD : ~Partly(Closing(p)[i], p, i)}
<1>1. MAX_FD \in Nat /\ S \subseteq Nat
  BY Sizes
<1>2. ASSUME NEW i \in S, \A j \in S : i <= j PROVE FALSE
  <2>1. i \in 0..MAX_FD /\ ~Partly(Closing(p)[i], p, i)
    OBVIOUS
  <2>2. i # 0
    BY <2>1, PartlyStart, ClosingSteps
  <2>3. i - 1 \in 0..MAX_FD /\ i - 1 \in Fd /\ i - 1 \in Nat /\ i \in 1..MAX_FD /\ ~(i <= i - 1)
    BY <1>1, <2>1, <2>2 DEF Fd
  <2>4. Partly(Closing(p)[i - 1], p, i - 1)
    BY <1>2, <2>3
  <2> DEFINE k == i - 1
             s == Closing(p)[k]
  <2>5. Closing(p)[i] = do_close(s, p, k)
    BY <2>3, ClosingSteps
  <2>6. k <= k /\ k + 1 = i /\ k \in Nat /\ k \in Fd
    BY <2>3
  <2> HIDE DEF k
  <2>7. Partly(s, p, k)
    BY <2>4 DEF k
  <2> HIDE DEF s
  <2>8. Partly(do_close(s, p, k), p, k + 1)
    BY <2>6, <2>7, PartlyStep
  <2> QED
    BY <2>1, <2>5, <2>6, <2>8
<1>3. S = {}
  <2> HIDE DEF S
  <2> QED
    BY <1>1, <1>2, LeastNat
<1>4. MAX_FD \in 0..MAX_FD
  BY <1>1
<1> QED
  BY <1>3, <1>4

(* The step ends there: those told EOF are no longer on hold, and every    *)
(* other client still waits for a request that is still there.             *)
LEMMA BecomesKeeps ==
  ASSUME VInv, NEW p \in Pid, p \notin held, NEW s, NEW m, Partly(s, p, m), Becomes(s),
         held \subseteq known', known' \subseteq Pid, Unknown(s.fd, known')
  PROVE  VInv'
<1> DEFINE Q == Queues(nodes)
           T == Queues(s.nodes)
           H == held \ s.eof
<1>1. /\ fd' = s.fd /\ filp' = s.filp /\ nodes' = s.nodes /\ held' = H
      /\ unread' = [i \in Ino |->
           IF nodes[i] # NONE /\ (\E r \in Range(nodes[i].msgs) : r.client \in s.eof)
           THEN <<>> ELSE unread[i]]
  BY DEF Becomes
<1>2. /\ Sound(fd, filp, nodes) /\ held \subseteq known /\ known \subseteq Pid /\ unread \in [Ino -> Seq(Data)]
      /\ Waiting(fd, filp, Q, held) /\ Single(Q) /\ Present(Q, held) /\ Bytes(Q, unread)
  BY DEF VInv, Shape
<1>3. /\ nodes \in [Ino -> Node \cup {NONE}] /\ s.nodes \in [Ino -> Node \cup {NONE}]
      /\ Sound(s.fd, s.filp, s.nodes) /\ Counted(s.fd, s.filp)
  BY <1>2 DEF Sound, Typed, Partly
<1>4. \A n \in Ino : /\ Q[n] = MsgsOf(nodes, n) /\ Q[n] \in Seq(Request)
                    /\ T[n] = MsgsOf(s.nodes, n) /\ T[n] \in Seq(Request)
  BY <1>3, QueueType
<1>5. /\ \A x \in Pid : \A y \in Fd : x # p => s.fd[x][y] = fd[x][y]
      /\ \A f \in Filp : s.filp[f].dev = filp[f].dev /\ s.filp[f].ino = filp[f].ino
  BY DEF Partly
<1>6. /\ \A n \in Ino : T[n] = Q[n] \/ T[n] = <<>>
      /\ \A c : c \in s.eof <=>
           \E n \in Ino : T[n] = <<>> /\ \E k \in 1..Len(Q[n]) : c = Q[n][k].client
  BY <1>4 DEF Partly
<1> HIDE DEF Q, T
\* A request that is left is one of before, and its client is not told EOF.
<1>7. ASSUME NEW n \in Ino, NEW k \in 1..Len(T[n])
      PROVE  T[n] = Q[n] /\ T[n][k].client \notin s.eof
  <2>1. T[n] # <<>>
    BY <1>4
  <2>2. T[n] = Q[n]
    BY <1>6, <2>1
  <2>3. ASSUME Q[n][k].client \in s.eof PROVE FALSE
    <3>1. PICK j \in Ino : T[j] = <<>> /\ \E l \in 1..Len(Q[j]) : Q[n][k].client = Q[j][l].client
      BY <1>6, <2>3
    <3>2. j = n
      BY <1>2, <2>2, <3>1 DEF Single
    <3> QED
      BY <2>1, <3>1, <3>2
  <2> QED
    BY <2>2, <2>3
<1>8. Waiting(s.fd, s.filp, T, H)
  <2> SUFFICES ASSUME NEW n \in Ino, NEW k \in 1..Len(T[n])
               PROVE  /\ T[n][k].client \in H
                      /\ T[n][k].cmd = T[n][1].cmd
                      /\ \E x \in Fd : s.fd[T[n][k].client][x] \in FilpsOf(s.filp, n)
    BY DEF Waiting
  <2>1. T[n] = Q[n] /\ T[n][k].client \notin s.eof
    BY <1>7
  <2> DEFINE c == Q[n][k].client
  <2>2. c \in held /\ Q[n][k].cmd = Q[n][1].cmd /\ \E x \in Fd : fd[c][x] \in FilpsOf(filp, n)
    BY <1>2, <2>1 DEF Waiting
  <2>3. PICK x \in Fd : fd[c][x] \in FilpsOf(filp, n)
    BY <2>2
  <2> HIDE DEF c
  <2>4. c \in Pid /\ c # p
    BY <1>2, <2>2
  <2> DEFINE f == fd[c][x]
  <2>5. f \in Filp /\ filp[f].dev = PIPE /\ filp[f].ino = n
    BY <2>3 DEF FilpsOf
  <2>6. s.fd[c][x] = f
    BY <1>5, <2>4
  <2> HIDE DEF f
  <2>7. s.filp[f].refcnt > 0
    BY <1>3, <2>4, <2>5, <2>6, UsedCounted
  <2>8. f \in FilpsOf(s.filp, n)
    BY <1>5, <2>5, <2>7 DEF FilpsOf
  <2>9. \E y \in Fd : s.fd[c][y] \in FilpsOf(s.filp, n)
    BY <2>6, <2>8
  <2> QED
    BY <2>1, <2>2, <2>9 DEF c
<1>9. Single(T)
  <2> SUFFICES ASSUME NEW m1 \in Ino, NEW m2 \in Ino, NEW k1 \in 1..Len(T[m1]), NEW k2 \in 1..Len(T[m2]),
                      T[m1][k1].client = T[m2][k2].client
               PROVE  m1 = m2 /\ k1 = k2
    BY DEF Single
  <2>1. T[m1] = Q[m1] /\ T[m2] = Q[m2]
    BY <1>7
  <2> QED
    BY <1>2, <2>1 DEF Single
<1>10. Present(T, H)
  <2> SUFFICES ASSUME NEW c \in H
               PROVE  \E n \in Ino : \E k \in 1..Len(T[n]) : T[n][k].client = c
    BY DEF Present
  <2>1. PICK n \in Ino : \E k \in 1..Len(Q[n]) : Q[n][k].client = c
    BY <1>2 DEF Present
  <2>2. T[n] # <<>>
    BY <1>6, <2>1
  <2>3. T[n] = Q[n]
    BY <1>6, <2>2
  <2> QED
    BY <2>1, <2>3
<1>11. ASSUME NEW n \in Ino
       PROVE  /\ unread'[n] \in Seq(Data)
              /\ IF T[n] # <<>> /\ T[n][1].cmd = "WRITEC"
                 THEN Len(unread'[n]) = Len(T[n]) /\ \A k \in 1..Len(T[n]) : unread'[n][k] = T[n][k].data
                 ELSE unread'[n] = <<>>
  <2>1. (nodes[n] # NONE /\ (\E r \in Range(nodes[n].msgs) : r.client \in s.eof))
          <=> \E k \in 1..Len(Q[n]) : Q[n][k].client \in s.eof
    <3>1. CASE nodes[n] = NONE
      <4>1. Q[n] = <<>>
        BY <1>4, <3>1 DEF MsgsOf
      <4> QED
        BY <3>1, <4>1
    <3>2. CASE nodes[n] # NONE
      <4>1. nodes[n].msgs = Q[n] /\ DOMAIN Q[n] = 1..Len(Q[n])
        BY <1>4, <3>2 DEF MsgsOf
      <4> QED
        BY <3>2, <4>1 DEF Range
    <3> QED
      BY <3>1, <3>2
  <2>2. CASE T[n] # <<>>
    <3>1. T[n] = Q[n]
      BY <1>6, <2>2
    <3>2. ~\E k \in 1..Len(Q[n]) : Q[n][k].client \in s.eof
      BY <1>7, <3>1
    <3>3. unread'[n] = unread[n]
      BY <1>1, <2>1, <3>2
    <3> QED
      BY <1>2, <3>1, <3>3 DEF Bytes
  <2>3. CASE T[n] = <<>>
    <3>1. CASE Q[n] = <<>>
      <4>1. unread[n] = <<>>
        BY <1>2, <3>1 DEF Bytes
      <4>2. unread'[n] = <<>> /\ <<>> \in Seq(Data)
        BY <1>1, <4>1
      <4> QED
        BY <2>3, <4>2
    <3>2. CASE Q[n] # <<>>
      <4>1. 1 \in 1..Len(Q[n])
        BY <1>4, <3>2
      <4>2. Q[n][1].client \in s.eof
        BY <1>6, <2>3, <4>1
      <4>3. \E k \in 1..Len(Q[n]) : Q[n][k].client \in s.eof
        BY <4>1, <4>2
      <4>4. unread'[n] = <<>>
        BY <1>1, <2>1, <4>3
      <4>5. <<>> \in Seq(Data)
        OBVIOUS
      <4> QED
        BY <2>3, <4>4, <4>5
    <3> QED
      BY <3>1, <3>2
  <2> QED
    BY <2>2, <2>3
<1>12. Bytes(T, unread')
  BY <1>11 DEF Bytes
<1>13. unread' \in [Ino -> Seq(Data)]
  BY <1>1, <1>11
<1>14. H \subseteq known'
  OBVIOUS
<1>15. Shape(known', s.fd, s.filp, s.nodes, H, unread')
  BY <1>3, <1>8, <1>9, <1>10, <1>12, <1>13, <1>14 DEF Shape, T
<1> QED
  BY <1>1, <1>15 DEF VInv

LEMMA CloseKeeps ==
  ASSUME VInv, NEW c \in Pid, NEW i \in Fd, Close(c, i)
  PROVE  VInv'
<1> DEFINE s == do_close(Before, c, i)
<1>1. Asks(c) /\ Becomes(s) /\ known' = known
  BY DEF Close
<1>2. /\ c \in known /\ c \notin held /\ held \subseteq known /\ known \subseteq Pid /\ Unknown(fd, known)
  BY <1>1, Asker
<1>3. Partly(s, c, 0)
  <2>1. 0 \in Nat /\ 0 <= i
    BY Sizes
  <2>2. Partly(Before, c, 0)
    BY PartlyStart
  <2> QED
    BY <2>1, <2>2, PartlyStep
<1> HIDE DEF s
<1>4. \A x \in Pid : \A y \in Fd : x # c => s.fd[x][y] = fd[x][y]
  BY <1>3 DEF Partly
<1>5. Unknown(s.fd, known')
  BY <1>1, <1>2, <1>4 DEF Unknown
<1> QED
  BY <1>1, <1>2, <1>3, <1>5, BecomesKeeps

LEMMA DelTaskKeeps ==
  ASSUME VInv, NEW p \in Pid, DelTask(p)
  PROVE  VInv'
<1> DEFINE s == Closing(p)[MAX_FD]
<1>1. Asks(p) /\ Becomes(s) /\ known' = known \ {p}
  BY DEF DelTask
<1>2. /\ p \in known /\ p \notin held /\ held \subseteq known /\ known \subseteq Pid /\ Unknown(fd, known)
  BY <1>1, Asker
<1>3. Partly(s, p, MAX_FD)
  BY AllClosed
<1> HIDE DEF s
<1>4. /\ \A x \in Pid : \A y \in Fd : x # p => s.fd[x][y] = fd[x][y]
      /\ \A y \in Fd : s.fd[p][y] = -1
  <2>1. MAX_FD \in Nat /\ \A y \in Fd : y < MAX_FD
    BY Sizes DEF Fd
  <2> QED
    BY <1>3, <2>1 DEF Partly
<1>5. Unknown(s.fd, known \ {p})
  BY <1>2, <1>4 DEF Unknown
<1>6. held \subseteq known' /\ known' \subseteq Pid /\ Unknown(s.fd, known')
  BY <1>1, <1>2, <1>5
<1> QED
  BY <1>1, <1>2, <1>3, <1>6, BecomesKeeps

-----------------------------------------------------------------------------
(* VInv holds in every reachable state of vfs and the pipe device, for any *)
(* number of tasks, descriptors, filps and nodes.                          *)
THEOREM VfsInvariant == Spec => []VInv
<1>1. ASSUME VInv, [Next]_vars PROVE VInv'
  <2>1. CASE UNCHANGED vars
    BY <1>1, <2>1 DEF vars, VInv
  <2>2. CASE Next
    <3>1. PICK c \in Pid :
            \/ AddFirst(c) \/ DelTask(c) \/ Pipe(c) \/ PipeFull(c)
            \/ \E p \in Pid : AddTask(p, c)
            \/ \E i \in Fd : \/ Close(c, i) \/ Dup(c, i) \/ RwOther(c, i)
                             \/ RwPipe(c, i, "READC", EOF)
                             \/ \E d \in Data : RwPipe(c, i, "WRITEC", d)
            \/ Open(c, 1, 0)
            \/ \E ino \in Ino : Open(c, PIPE, ino)
      BY <2>2 DEF Next
    <3>2. CASE AddFirst(c)
      BY <1>1, <3>2, AddFirstKeeps
    <3>3. CASE DelTask(c)
      BY <1>1, <3>3, DelTaskKeeps
    <3>4. CASE Pipe(c)
      BY <1>1, <3>4, PipeKeeps
    <3>5. CASE PipeFull(c)
      BY <1>1, <3>5 DEF PipeFull, files, VInv
    <3>6. CASE \E p \in Pid : AddTask(p, c)
      BY <1>1, <3>6, AddTaskKeeps
    <3>7. ASSUME NEW i \in Fd, Close(c, i) PROVE VInv'
      BY <1>1, <3>7, CloseKeeps
    <3>8. ASSUME NEW i \in Fd, Dup(c, i) PROVE VInv'
      BY <1>1, <3>8, DupKeeps
    <3>9. ASSUME NEW i \in Fd, RwOther(c, i) PROVE VInv'
      BY <1>1, <3>9 DEF RwOther, files, VInv
    <3>10. ASSUME NEW i \in Fd, RwPipe(c, i, "READC", EOF) PROVE VInv'
      BY <1>1, <3>10, RwPipeKeeps
    <3>11. ASSUME NEW i \in Fd, NEW d \in Data, RwPipe(c, i, "WRITEC", d) PROVE VInv'
      BY <1>1, <3>11, RwPipeKeeps
    <3>12. CASE Open(c, 1, 0)
      BY <1>1, <3>12, Sizes, OpenKeeps
    <3>13. CASE \E ino \in Ino : Open(c, PIPE, ino)
      BY <1>1, <3>13, OpenKeeps
    <3> QED
      BY <3>1, <3>2, <3>3, <3>4, <3>5, <3>6, <3>7, <3>8, <3>9, <3>10, <3>11, <3>12, <3>13
  <2> QED
    BY <1>1, <2>1, <2>2
<1> QED
  BY VfsInit, <1>1, PTL DEF Spec

(* refcnt of a filp is the number of descriptors that use it, so that the  *)
(* error at vfs.c:419 cannot happen.                                       *)
THEOREM FilpsAlwaysCounted == Spec => []FilpCounted
<1>1. VInv => FilpCounted
  <2> SUFFICES ASSUME VInv PROVE FilpCounted
    OBVIOUS
  <2>1. TypeOK
    BY DEF VInv, Shape, Sound, Typed, TypeOK, FilpType
  <2>2. Counted(fd, filp)
    BY DEF VInv, Shape, Sound
  <2>3. \A f \in Filp : Users(f) = Entries(fd, Pid, Fd, f)
    BY DEF Users, Entries
  <2> QED
    BY <2>1, <2>2, <2>3 DEF FilpCounted, Counted
<1> QED
  BY <1>1, VfsInvariant, PTL

LEMMA SameFilps == \A i \in Ino : Filps(i) = FilpsOf(filp, i)
BY DEF Filps, FilpsOf

(* A pipe node outlives the filps that are open on it (vfs.c do_close(),   *)
(* pipe.c VFS_INODE_RELEASE).                                              *)
THEOREM NodesAlwaysHeld == Spec => []NodeHeld
<1>1. VInv => NodeHeld
  <2> SUFFICES ASSUME VInv PROVE NodeHeld
    OBVIOUS
  <2>1. Covered(filp, nodes)
    BY DEF VInv, Shape, Sound
  <2> QED
    BY <2>1, SameFilps DEF Covered, NodeHeld
<1> QED
  BY <1>1, VfsInvariant, PTL

(* Nobody is on hold at a pipe of which one end is left (pipe.c            *)
(* VFS_INODE_RELEASE answers them).                                        *)
THEOREM NeverWaitAtOneEnd == Spec => []NoWaitAtOneEnd
<1>1. VInv => NoWaitAtOneEnd
  BY DEF VInv, Shape, Sound, Ends, NoWaitAtOneEnd
<1> QED
  BY <1>1, VfsInvariant, PTL

(* Each client on hold has one request, at a node it has open, among       *)
(* requests of its own kind.                                               *)
THEOREM AlwaysHeldOnce == Spec => []HeldOnce
<1>1. VInv => HeldOnce
  <2> SUFFICES ASSUME VInv PROVE HeldOnce
    OBVIOUS
  <2> DEFINE Q == Queues(nodes)
  <2>1. \A i \in Ino : Msgs(i) = Q[i] /\ Q[i] \in Seq(Request)
    <3>1. nodes \in [Ino -> Node \cup {NONE}]
      BY DEF VInv, Shape, Sound, Typed
    <3> QED
      BY <3>1, QueueType DEF Msgs, MsgsOf
  <2>2. Waiting(fd, filp, Q, held) /\ Single(Q) /\ Present(Q, held)
    BY DEF VInv, Shape
  <2> HIDE DEF Q
  <2>3. ASSUME NEW i \in Ino, NEW k \in 1..Len(Msgs(i))
        PROVE  /\ Msgs(i)[k].client \in held
               /\ Msgs(i)[k].cmd = Msgs(i)[1].cmd
               /\ \E x \in Fd : fd[Msgs(i)[k].client][x] \in Filps(i)
    <3>1. k \in 1..Len(Q[i]) /\ Msgs(i) = Q[i] /\ Filps(i) = FilpsOf(filp, i)
      BY <2>1, <2>3, SameFilps
    <3>2. /\ Q[i][k].client \in held /\ Q[i][k].cmd = Q[i][1].cmd
          /\ \E x \in Fd : fd[Q[i][k].client][x] \in FilpsOf(filp, i)
      BY <2>2, <3>1 DEF Waiting
    <3> QED
      BY <3>1, <3>2
  <2>4. ASSUME NEW c \in held PROVE \E u \in Slots(c) : Slots(c) = {u}
    <3>1. PICK i \in Ino : \E k \in 1..Len(Q[i]) : Q[i][k].client = c
      BY <2>2 DEF Present
    <3>2. PICK k \in 1..Len(Q[i]) : Q[i][k].client = c
      BY <3>1
    <3>3. \A v : v \in Slots(c) <=>
                 \E j \in Ino : \E l \in 1..Len(Q[j]) : Q[j][l].client = c /\ v = <<j, l>>
      <4>1. Slots(c) = UNION {{<<j, l>> : l \in {x \in 1..Len(Q[j]) : Q[j][x].client = c}} : j \in Ino}
        BY <2>1 DEF Slots
      <4> QED
        BY <4>1
    <3>4. <<i, k>> \in Slots(c)
      BY <3>2, <3>3
    <3>5. ASSUME NEW v \in Slots(c) PROVE v = <<i, k>>
      <4>1. PICK j \in Ino : \E l \in 1..Len(Q[j]) : Q[j][l].client = c /\ v = <<j, l>>
        BY <3>3, <3>5
      <4>2. PICK l \in 1..Len(Q[j]) : Q[j][l].client = c /\ v = <<j, l>>
        BY <4>1
      <4>3. j = i /\ l = k
        BY <2>2, <3>2, <4>2 DEF Single
      <4> QED
        BY <4>2, <4>3
    <3>6. Slots(c) = {<<i, k>>}
      BY <3>4, <3>5
    <3> QED
      BY <3>4, <3>6
  <2> QED
    BY <2>3, <2>4 DEF HeldOnce
<1> QED
  BY <1>1, VfsInvariant, PTL

(* The bytes written to a pipe and not yet read are those of its waiting   *)
(* writers, in order: none is lost, read twice or overtaken (pipe.c        *)
(* VFS_READC and VFS_WRITEC).                                              *)
THEOREM BytesAlwaysInOrder == Spec => []BytesInOrder
<1>1. VInv => BytesInOrder
  <2> SUFFICES ASSUME VInv, NEW i \in Ino
               PROVE  LET w == Pick(Msgs(i), {k \in 1..Len(Msgs(i)) : Msgs(i)[k].cmd = "WRITEC"})
                      IN unread[i] = [k \in 1..Len(w) |-> w[k].data]
    BY DEF BytesInOrder
  <2> DEFINE Q == Queues(nodes)
             q == Msgs(i)
             I == {k \in 1..Len(q) : q[k].cmd = "WRITEC"}
             w == Pick(q, I)
             u == unread[i]
  <2>1. q = Q[i] /\ q \in Seq(Request) /\ u \in Seq(Data)
    <3>1. nodes \in [Ino -> Node \cup {NONE}] /\ unread \in [Ino -> Seq(Data)]
      BY DEF VInv, Shape, Sound, Typed
    <3> QED
      BY <3>1, QueueType DEF Msgs, MsgsOf
  <2>2. Waiting(fd, filp, Q, held) /\ Bytes(Q, unread)
    BY DEF VInv, Shape
  <2> HIDE DEF Q, q
  <2>3. \A k \in 1..Len(q) : q[k].cmd = q[1].cmd
    BY <2>1, <2>2 DEF Waiting
  <2>4. IF q # <<>> /\ q[1].cmd = "WRITEC"
        THEN Len(u) = Len(q) /\ \A k \in 1..Len(q) : u[k] = q[k].data
        ELSE u = <<>>
    BY <2>1, <2>2 DEF Bytes
  <2> HIDE DEF u
  <2>5. Pick(q, 1..Len(q)) = q /\ Pick(q, {}) = <<>>
    BY <2>1, PickAll
  <2>6. CASE q # <<>> /\ q[1].cmd = "WRITEC"
    <3>1. I = 1..Len(q)
      BY <2>3, <2>6
    <3>2. w = q
      BY <2>5, <3>1
    <3>3. u = [k \in 1..Len(u) |-> u[k]]
      BY <2>1
    <3>4. u = [k \in 1..Len(q) |-> q[k].data]
      BY <2>4, <2>6, <3>3
    <3> HIDE DEF w
    <3>5. u = [k \in 1..Len(w) |-> w[k].data]
      BY <3>2, <3>4
    <3> QED
      BY <3>5 DEF u, w, I, q
  <2>7. CASE ~(q # <<>> /\ q[1].cmd = "WRITEC")
    <3>1. I = {}
      <4> SUFFICES ASSUME NEW k \in 1..Len(q) PROVE q[k].cmd # "WRITEC"
        OBVIOUS
      <4>1. q # <<>>
        BY <2>1
      <4> QED
        BY <2>3, <2>7, <4>1
    <3>2. w = <<>> /\ u = <<>>
      BY <2>4, <2>5, <2>7, <3>1
    <3> HIDE DEF w
    <3>3. [k \in 1..Len(w) |-> w[k].data] = <<>>
      BY <3>2
    <3> QED
      BY <3>2, <3>3 DEF u, w, I, q
  <2> QED
    BY <2>6, <2>7
<1> QED
  BY <1>1, VfsInvariant, PTL
=============================================================================

--------------------------- MODULE MachineProofs ---------------------------
(***************************************************************************)
(* Proofs about the three parts of the system that handle memory cells,    *)
(* registers and interrupts themselves: the queue library (Queue), the     *)
(* context switch (Hal) and the tty driver with the usart event task       *)
(* (Tty).  They share no state; each has its own inductive invariant.      *)
(***************************************************************************)
EXTENDS Queue, Hal, Tty, SeqLemmas, SequenceTheorems, TLAPS

(***************************************************************************)
(* The links of lib/queue.c spell the sequences the callers put together,  *)
(* for any number of queues and items.  One lemma per operation on the     *)
(* fields; the invariant is Linked with the types and with Separate (an    *)
(* item on two queues would have its links overwritten).                   *)
(***************************************************************************)

(* Putting a new item x anywhere on queue q, or nothing but that, keeps    *)
(* every item on one place of one queue (q_front and q_end of              *)
(* lib/queue.c:28-64 on an item that is on no queue).                      *)
LEMMA InsertSeparate ==
  ASSUME NEW c \in [QueueId -> Seq(Item)], NEW d \in [QueueId -> Seq(Item)],
         Separate(c), NEW q \in QueueId, NEW x \in Item, NEW p \in Nat,
         \A r \in QueueId : \A i \in 1..Len(c[r]) : c[r][i] # x,
         \A r \in QueueId : r # q => d[r] = c[r],
         Len(d[q]) = Len(c[q]) + 1,
         p \in 1..Len(d[q]),
         \A i \in 1..Len(d[q]) :
            d[q][i] = IF i = p THEN x ELSE IF i < p THEN c[q][i] ELSE c[q][i - 1]
  PROVE  Separate(d)
<1>1. ASSUME NEW i \in 1..Len(d[q]), NEW r \in QueueId, r # q,
             NEW j \in 1..Len(d[r]), d[q][i] = d[r][j]
      PROVE  FALSE
  <2>1. d[r] = c[r]
    BY <1>1
  <2>2. CASE i = p
    BY <1>1, <2>1, <2>2
  <2>3. CASE i < p
    <3>1. i \in 1..Len(c[q]) /\ d[q][i] = c[q][i]
      BY <2>3
    <3> QED
      BY <1>1, <2>1, <3>1 DEF Separate
  <2>4. CASE i > p
    <3>1. i - 1 \in 1..Len(c[q]) /\ d[q][i] = c[q][i - 1]
      BY <2>4
    <3> QED
      BY <1>1, <2>1, <3>1 DEF Separate
  <2> QED
    BY <2>2, <2>3, <2>4
<1>2. ASSUME NEW i \in 1..Len(d[q]), NEW j \in 1..Len(d[q]), d[q][i] = d[q][j]
      PROVE  i = j
  <2> DEFINE o(k) == IF k < p THEN k ELSE k - 1
  <2>1. \A k \in 1..Len(d[q]) : k # p => o(k) \in 1..Len(c[q]) /\ d[q][k] = c[q][o(k)]
    OBVIOUS
  <2>2. CASE i = p /\ j = p
    BY <2>2
  <2>3. CASE i = p /\ j # p
    <3>1. o(j) \in 1..Len(c[q]) /\ d[q][j] = c[q][o(j)] /\ d[q][i] = x
      BY <2>1, <2>3
    <3> QED
      BY <1>2, <3>1
  <2>4. CASE i # p /\ j = p
    <3>1. o(i) \in 1..Len(c[q]) /\ d[q][i] = c[q][o(i)] /\ d[q][j] = x
      BY <2>1, <2>4
    <3> QED
      BY <1>2, <3>1
  <2>5. CASE i # p /\ j # p
    <3>1. /\ o(i) \in 1..Len(c[q]) /\ d[q][i] = c[q][o(i)]
          /\ o(j) \in 1..Len(c[q]) /\ d[q][j] = c[q][o(j)]
      BY <2>1, <2>5
    <3>2. c[q][o(i)] = c[q][o(j)]
      BY <1>2, <3>1
    <3> HIDE DEF o
    <3>3. o(i) = o(j)
      BY <3>1, <3>2 DEF Separate
    <3> USE DEF o
    <3> QED
      BY <2>5, <3>3
  <2> QED
    BY <2>2, <2>3, <2>4, <2>5
<1>3. \A r, s \in QueueId : r # q /\ s # q =>
        \A i \in 1..Len(d[r]), j \in 1..Len(d[s]) :
          d[r][i] = d[s][j] => r = s /\ i = j
  BY DEF Separate
<1> QED
  BY <1>1, <1>2, <1>3 DEF Separate

(* q_front on the fields of a queue is Cons on its sequence                *)
(* (lib/queue.c:28-42).                                                    *)
LEMMA FrontRepresents ==
  ASSUME NEW m \in Fields, NEW q \in QueueId, NEW s \in Seq(Item),
         Represents(m, q, s),
         \A i, j \in 1..Len(s) : s[i] = s[j] => i = j,
         NEW x \in Item, \A i \in 1..Len(s) : s[i] # x
  PROVE  Represents(q_front(m, q, x), q, Cons(x, s))
<1> DEFINE f == q_front(m, q, x)
           t == Cons(x, s)
<1>1. x # NULL /\ m.head[q] \in Ptr
  BY NullAssumption DEF Fields
<1>2. /\ t \in Seq(Item) /\ Len(t) = Len(s) + 1 /\ t[1] = x /\ t # <<>>
      /\ \A i \in 2..(Len(s) + 1) : t[i] = s[i - 1]
  BY ConsFacts
<1>3. CASE s = <<>>
  <2>1. m.head[q] = NULL /\ m.tail[q] = NULL
    BY <1>3 DEF Represents
  <2>2. /\ f.head[q] = x /\ f.tail[q] = x
        /\ f.next[x] = NULL /\ f.prev[x] = NULL
    BY <1>1, <2>1 DEF q_front, Fields
  <2> HIDE DEF f, t
  <2>3. Represents(f, q, t)
    BY <1>2, <1>3, <2>2 DEF Represents
  <2> QED
    BY <2>3 DEF f, t
<1>4. CASE s # <<>>
  <2>1. /\ m.head[q] = s[1] /\ s[1] # NULL /\ s[1] \in Item /\ Len(s) >= 1
        /\ m.prev[s[1]] = NULL /\ m.tail[q] = s[Len(s)]
    BY <1>4, NullAssumption DEF Represents
  <2>2. /\ f.head[q] = x /\ f.tail[q] = s[Len(s)]
        /\ f.next = [m.next EXCEPT ![x] = s[1]]
        /\ f.prev = [m.prev EXCEPT ![x] = NULL, ![s[1]] = x]
    BY <1>1, <2>1 DEF q_front, Fields
  <2> HIDE DEF f, t
  <2>3. /\ f.next[x] = s[1] /\ f.prev[x] = NULL /\ f.prev[s[1]] = x
        /\ \A i \in 1..Len(s) : f.next[s[i]] = m.next[s[i]]
        /\ \A i \in 2..Len(s) : f.prev[s[i]] = m.prev[s[i]]
    BY <2>1, <2>2 DEF Fields
  <2>4. ASSUME NEW i \in 1..Len(t)
        PROVE  /\ f.next[t[i]] = IF i = Len(t) THEN NULL ELSE t[i + 1]
               /\ f.prev[t[i]] = IF i = 1 THEN NULL ELSE t[i - 1]
    <3>1. CASE i = 1
      BY <1>2, <2>1, <2>3, <3>1
    <3>2. CASE i # 1
      <4>1. i - 1 \in 1..Len(s) /\ t[i] = s[i - 1]
        BY <1>2, <3>2
      <4>2. /\ m.next[s[i - 1]] = IF i - 1 = Len(s) THEN NULL ELSE s[i]
            /\ m.prev[s[i - 1]] = IF i - 1 = 1 THEN NULL ELSE s[i - 2]
        BY <4>1 DEF Represents
      <4>3. f.next[t[i]] = IF i = Len(t) THEN NULL ELSE t[i + 1]
        BY <1>2, <2>3, <4>1, <4>2, SMTT(30)
      <4>4. f.prev[t[i]] = t[i - 1]
        BY <1>2, <2>1, <2>3, <3>2, <4>1, <4>2
      <4> QED
        BY <3>2, <4>3, <4>4
    <3> QED
      BY <3>1, <3>2
  <2>5. f.head[q] = t[1] /\ f.tail[q] = t[Len(t)]
    <3>1. Len(t) \in 2..(Len(s) + 1) /\ Len(t) - 1 = Len(s)
      BY <1>2, <2>1
    <3>2. t[Len(t)] = s[Len(s)]
      BY <1>2, <3>1
    <3> QED
      BY <1>2, <2>2, <3>2
  <2>6. Represents(f, q, t)
    BY <1>2, <2>4, <2>5 DEF Represents
  <2> QED
    BY <2>6 DEF f, t
<1> QED
  BY <1>3, <1>4

(* q_end on the fields of a queue is Append on its sequence                *)
(* (lib/queue.c:50-64).                                                    *)
LEMMA EndRepresents ==
  ASSUME NEW m \in Fields, NEW q \in QueueId, NEW s \in Seq(Item),
         Represents(m, q, s),
         \A i, j \in 1..Len(s) : s[i] = s[j] => i = j,
         NEW x \in Item, \A i \in 1..Len(s) : s[i] # x
  PROVE  Represents(q_end(m, q, x), q, Append(s, x))
<1> DEFINE f == q_end(m, q, x)
           t == Append(s, x)
           l == Len(s)
<1>1. x # NULL /\ m.tail[q] \in Ptr
  BY NullAssumption DEF Fields
<1>2. /\ t \in Seq(Item) /\ Len(t) = l + 1 /\ t[l + 1] = x /\ t # <<>>
      /\ \A i \in 1..l : t[i] = s[i]
  BY AppendFacts
<1>3. CASE s = <<>>
  <2>1. m.head[q] = NULL /\ m.tail[q] = NULL
    BY <1>3 DEF Represents
  <2>2. /\ f.head[q] = x /\ f.tail[q] = x
        /\ f.next[x] = NULL /\ f.prev[x] = NULL
    BY <1>1, <2>1 DEF q_end, Fields
  <2> HIDE DEF f, t
  <2>3. Represents(f, q, t)
    BY <1>2, <1>3, <2>2 DEF Represents
  <2> QED
    BY <2>3 DEF f, t
<1>4. CASE s # <<>>
  <2>1. /\ m.tail[q] = s[l] /\ s[l] # NULL /\ s[l] \in Item /\ l >= 1
        /\ m.next[s[l]] = NULL /\ m.head[q] = s[1]
    BY <1>4, NullAssumption DEF Represents
  <2>2. /\ f.head[q] = s[1] /\ f.tail[q] = x
        /\ f.next = [m.next EXCEPT ![x] = NULL, ![s[l]] = x]
        /\ f.prev = [m.prev EXCEPT ![x] = s[l]]
    BY <1>1, <2>1 DEF q_end, Fields
  <2> HIDE DEF f, t
  <2>3. /\ f.next[x] = NULL /\ f.prev[x] = s[l] /\ f.next[s[l]] = x
        /\ \A i \in 1..(l - 1) : f.next[s[i]] = m.next[s[i]]
        /\ \A i \in 1..l : f.prev[s[i]] = m.prev[s[i]]
    BY <2>1, <2>2 DEF Fields
  <2>4. ASSUME NEW i \in 1..Len(t)
        PROVE  /\ f.next[t[i]] = IF i = Len(t) THEN NULL ELSE t[i + 1]
               /\ f.prev[t[i]] = IF i = 1 THEN NULL ELSE t[i - 1]
    <3>1. CASE i = Len(t)
      BY <1>2, <2>1, <2>3, <3>1
    <3>2. CASE i # Len(t)
      <4>1. i \in 1..l /\ t[i] = s[i]
        BY <1>2, <3>2
      <4>2. /\ m.next[s[i]] = IF i = l THEN NULL ELSE s[i + 1]
            /\ m.prev[s[i]] = IF i = 1 THEN NULL ELSE s[i - 1]
        BY <4>1 DEF Represents
      <4>3. f.next[t[i]] = t[i + 1]
        BY <1>2, <2>1, <2>3, <3>2, <4>1, <4>2
      <4>4. f.prev[t[i]] = IF i = 1 THEN NULL ELSE t[i - 1]
        BY <1>2, <2>3, <4>1, <4>2
      <4> QED
        BY <3>2, <4>3, <4>4
    <3> QED
      BY <3>1, <3>2
  <2>5. f.head[q] = t[1] /\ f.tail[q] = t[Len(t)]
    BY <1>2, <2>1, <2>2
  <2>6. Represents(f, q, t)
    BY <1>2, <2>4, <2>5 DEF Represents
  <2> QED
    BY <2>6 DEF f, t
<1> QED
  BY <1>3, <1>4

(* q_remv on the fields of a queue closes the gap in its sequence, for an  *)
(* item at either end, in the middle, or alone (lib/queue.c:72-80).        *)
LEMMA RemvRepresents ==
  ASSUME NEW m \in Fields, NEW q \in QueueId, NEW s \in Seq(Item),
         Represents(m, q, s),
         \A i, j \in 1..Len(s) : s[i] = s[j] => i = j,
         NEW k \in 1..Len(s)
  PROVE  Represents(q_remv(m, q, s[k]), q, Without(s, k))
<1> DEFINE f == q_remv(m, q, s[k])
           t == Without(s, k)
           l == Len(s)
           p == IF k = 1 THEN NULL ELSE s[k - 1]
           nx == IF k = l THEN NULL ELSE s[k + 1]
<1>1. /\ \A i \in 1..l : s[i] \in Item /\ s[i] # NULL
      /\ m.prev[s[k]] = p /\ m.next[s[k]] = nx /\ s # <<>> /\ l \in Nat
  BY NullAssumption DEF Represents
<1>2. /\ t \in Seq(Item) /\ Len(t) = l - 1
      /\ \A j \in 1..(l - 1) : t[j] = IF j < k THEN s[j] ELSE s[j + 1]
  BY WithoutFacts
<1>3. /\ f.head = IF k = 1 THEN [m.head EXCEPT ![q] = nx] ELSE m.head
      /\ f.tail = IF k = l THEN [m.tail EXCEPT ![q] = p] ELSE m.tail
      /\ f.next = IF k = 1 THEN m.next ELSE [m.next EXCEPT ![s[k - 1]] = nx]
      /\ f.prev = IF k = l THEN m.prev ELSE [m.prev EXCEPT ![s[k + 1]] = p]
  <2>1. /\ s[k] # NULL /\ (p = NULL <=> k = 1) /\ (nx = NULL <=> k = l)
        /\ (k # 1 => p = s[k - 1]) /\ (k # l => nx = s[k + 1])
    BY <1>1
  <2> HIDE DEF p, nx
  <2> QED
    BY <1>1, <2>1 DEF q_remv
<1> HIDE DEF f, t
<1>4. m.head[q] = s[1] /\ m.tail[q] = s[l]
  BY <1>1 DEF Represents
<1>5. f.head[q] = IF t = <<>> THEN NULL ELSE t[1]
  <2>1. CASE k = 1
    <3>1. f.head[q] = nx
      BY <1>3, <2>1 DEF Fields
    <3> QED
      BY <1>1, <1>2, <2>1, <3>1
  <2>2. CASE k # 1
    <3>1. f.head[q] = s[1]
      BY <1>3, <1>4, <2>2
    <3> QED
      BY <1>1, <1>2, <2>2, <3>1
  <2> QED
    BY <2>1, <2>2
<1>6. f.tail[q] = IF t = <<>> THEN NULL ELSE t[Len(t)]
  <2>1. CASE k = l
    <3>1. f.tail[q] = p
      BY <1>3, <2>1 DEF Fields
    <3> QED
      BY <1>1, <1>2, <2>1, <3>1
  <2>2. CASE k # l
    <3>1. f.tail[q] = s[l]
      BY <1>3, <1>4, <2>2
    <3> QED
      BY <1>1, <1>2, <2>2, <3>1
  <2> QED
    BY <2>1, <2>2
<1>7. ASSUME NEW i \in 1..l, i # k
      PROVE  /\ f.next[s[i]] = IF i = k - 1 THEN nx ELSE m.next[s[i]]
             /\ f.prev[s[i]] = IF i = k + 1 THEN p ELSE m.prev[s[i]]
  BY <1>1, <1>3, <1>7 DEF Fields
<1>8. ASSUME NEW j \in 1..Len(t)
      PROVE  /\ f.next[t[j]] = IF j = Len(t) THEN NULL ELSE t[j + 1]
             /\ f.prev[t[j]] = IF j = 1 THEN NULL ELSE t[j - 1]
  <2> DEFINE i == IF j < k THEN j ELSE j + 1
  <2>1. i \in 1..l /\ i # k /\ t[j] = s[i]
    BY <1>1, <1>2
  <2>2. /\ m.next[s[i]] = IF i = l THEN NULL ELSE s[i + 1]
        /\ m.prev[s[i]] = IF i = 1 THEN NULL ELSE s[i - 1]
    BY <2>1 DEF Represents
  <2>3. /\ f.next[s[i]] = IF i = k - 1 THEN nx ELSE m.next[s[i]]
        /\ f.prev[s[i]] = IF i = k + 1 THEN p ELSE m.prev[s[i]]
    BY <1>7, <2>1
  <2>4. f.next[t[j]] = IF j = Len(t) THEN NULL ELSE t[j + 1]
    BY <1>1, <1>2, <2>1, <2>2, <2>3
  <2>5. f.prev[t[j]] = IF j = 1 THEN NULL ELSE t[j - 1]
    BY <1>1, <1>2, <2>1, <2>2, <2>3
  <2> QED
    BY <2>4, <2>5
<1>9. Represents(f, q, t)
  BY <1>5, <1>6, <1>8 DEF Represents
<1> QED
  BY <1>9 DEF f, t

(* A queue whose head, tail and items' links keep their values still       *)
(* spells the same sequence.                                               *)
LEMMA FrameRepresents ==
  ASSUME NEW m, NEW f, NEW r, NEW s \in Seq(Item), Represents(m, r, s),
         f.head[r] = m.head[r], f.tail[r] = m.tail[r],
         \A i \in 1..Len(s) : /\ f.next[s[i]] = m.next[s[i]]
                              /\ f.prev[s[i]] = m.prev[s[i]]
  PROVE  Represents(f, r, s)
BY DEF Represents

-----------------------------------------------------------------------------
\* What relates the fields to the sequences, in one state.
Sound(m, c) ==
  /\ m \in Fields
  /\ c \in [QueueId -> Seq(Item)]
  /\ Separate(c)
  /\ AllRepresent(m, c)

(* Q_FRONT of an item that is on no queue keeps fields and sequences       *)
(* together on every queue.                                                *)
LEMMA FrontSound ==
  ASSUME NEW m, NEW c, Sound(m, c), NEW q \in QueueId, NEW x \in Item,
         \A r \in QueueId : \A i \in 1..Len(c[r]) : c[r][i] # x
  PROVE  Sound(q_front(m, q, x), [c EXCEPT ![q] = Cons(x, @)])
<1> DEFINE f == q_front(m, q, x)
           d == [c EXCEPT ![q] = Cons(x, @)]
<1>1. m \in Fields /\ c \in [QueueId -> Seq(Item)] /\ x # NULL
  BY NullAssumption DEF Sound
<1>2. c[q] \in Seq(Item) /\ \A i, j \in 1..Len(c[q]) : c[q][i] = c[q][j] => i = j
  BY <1>1 DEF Sound, Separate
<1>3. /\ Cons(x, c[q]) \in Seq(Item)
      /\ Len(Cons(x, c[q])) = Len(c[q]) + 1
      /\ Cons(x, c[q])[1] = x
      /\ \A i \in 2..(Len(c[q]) + 1) : Cons(x, c[q])[i] = c[q][i - 1]
  BY <1>2 DEF Cons
<1>4. f \in Fields
  BY <1>1 DEF Fields, q_front, Ptr
<1>5. /\ d \in [QueueId -> Seq(Item)] /\ d[q] = Cons(x, c[q])
      /\ \A r \in QueueId : r # q => d[r] = c[r]
  BY <1>1, <1>3
<1>6. Represents(f, q, d[q])
  BY <1>1, <1>2, <1>5, FrontRepresents DEF Sound, AllRepresent
<1>7. ASSUME NEW r \in QueueId, r # q
      PROVE  Represents(f, r, d[r])
  <2>1. c[r] \in Seq(Item) /\ Represents(m, r, c[r]) /\ Represents(m, q, c[q])
    BY <1>1 DEF Sound, AllRepresent
  <2>2. \A i \in 1..Len(c[r]) : c[r][i] \in Item /\ c[r][i] # x /\ c[r][i] # m.head[q]
    <3> SUFFICES ASSUME NEW i \in 1..Len(c[r]) PROVE c[r][i] \in Item /\ c[r][i] # m.head[q]
      OBVIOUS
    <3>1. c[r][i] \in Item /\ c[r][i] # NULL
      BY <2>1, NullAssumption
    <3>2. c[q] # <<>> => 1 \in 1..Len(c[q]) /\ c[r][i] # c[q][1]
      BY <1>2, <1>7 DEF Sound, Separate
    <3> QED
      BY <2>1, <3>1, <3>2 DEF Represents
  <2>3. f.head[r] = m.head[r] /\ f.tail[r] = m.tail[r]
    BY <1>1, <1>7 DEF q_front, Fields
  <2>4. \A i \in 1..Len(c[r]) : /\ f.next[c[r][i]] = m.next[c[r][i]]
                                /\ f.prev[c[r][i]] = m.prev[c[r][i]]
    BY <1>1, <2>2 DEF q_front, Fields
  <2> HIDE DEF f, d
  <2> QED
    BY <1>5, <1>7, <2>1, <2>3, <2>4, FrameRepresents
<1> HIDE DEF d
<1>8. Separate(d)
  <2>1. Len(d[q]) = Len(c[q]) + 1 /\ 1 \in 1..Len(d[q])
    BY <1>2, <1>3, <1>5
  <2>2. \A i \in 1..Len(d[q]) :
          d[q][i] = IF i = 1 THEN x ELSE IF i < 1 THEN c[q][i] ELSE c[q][i - 1]
    BY <1>2, <1>3, <1>5
  <2> QED
    <3>1. Separate(c) /\ 1 \in Nat
      BY DEF Sound
    <3> QED
      BY <1>1, <1>5, <2>1, <2>2, <3>1, InsertSeparate
<1>9. Sound(f, d)
  BY <1>4, <1>5, <1>6, <1>7, <1>8 DEF Sound, AllRepresent
<1> QED
  BY <1>9 DEF d

(* Q_END of an item that is on no queue keeps fields and sequences         *)
(* together on every queue.                                                *)
LEMMA EndSound ==
  ASSUME NEW m, NEW c, Sound(m, c), NEW q \in QueueId, NEW x \in Item,
         \A r \in QueueId : \A i \in 1..Len(c[r]) : c[r][i] # x
  PROVE  Sound(q_end(m, q, x), [c EXCEPT ![q] = Append(@, x)])
<1> DEFINE f == q_end(m, q, x)
           d == [c EXCEPT ![q] = Append(@, x)]
<1>1. m \in Fields /\ c \in [QueueId -> Seq(Item)] /\ x # NULL
  BY NullAssumption DEF Sound
<1>2. c[q] \in Seq(Item) /\ \A i, j \in 1..Len(c[q]) : c[q][i] = c[q][j] => i = j
  BY <1>1 DEF Sound, Separate
<1>4. f \in Fields
  BY <1>1 DEF Fields, q_end, Ptr
<1>5. /\ d \in [QueueId -> Seq(Item)] /\ d[q] = Append(c[q], x)
      /\ \A r \in QueueId : r # q => d[r] = c[r]
  BY <1>1, <1>2
<1>6. Represents(f, q, d[q])
  BY <1>1, <1>2, <1>5, EndRepresents DEF Sound, AllRepresent
<1>7. ASSUME NEW r \in QueueId, r # q
      PROVE  Represents(f, r, d[r])
  <2>1. c[r] \in Seq(Item) /\ Represents(m, r, c[r]) /\ Represents(m, q, c[q])
    BY <1>1 DEF Sound, AllRepresent
  <2>2. \A i \in 1..Len(c[r]) : c[r][i] \in Item /\ c[r][i] # x /\ c[r][i] # m.tail[q]
    <3> SUFFICES ASSUME NEW i \in 1..Len(c[r]) PROVE c[r][i] \in Item /\ c[r][i] # m.tail[q]
      OBVIOUS
    <3>1. c[r][i] \in Item /\ c[r][i] # NULL
      BY <2>1, NullAssumption
    <3>2. c[q] # <<>> => Len(c[q]) \in 1..Len(c[q]) /\ c[r][i] # c[q][Len(c[q])]
      BY <1>2, <1>7 DEF Sound, Separate
    <3> QED
      BY <2>1, <3>1, <3>2 DEF Represents
  <2>3. f.head[r] = m.head[r] /\ f.tail[r] = m.tail[r]
    BY <1>1, <1>7 DEF q_end, Fields
  <2>4. \A i \in 1..Len(c[r]) : /\ f.next[c[r][i]] = m.next[c[r][i]]
                                /\ f.prev[c[r][i]] = m.prev[c[r][i]]
    BY <1>1, <2>2 DEF q_end, Fields
  <2> HIDE DEF f, d
  <2> QED
    BY <1>5, <1>7, <2>1, <2>3, <2>4, FrameRepresents
<1> HIDE DEF d
<1>8. Separate(d)
  <2> DEFINE p == Len(c[q]) + 1
  <2>1. Len(d[q]) = Len(c[q]) + 1 /\ p \in 1..Len(d[q]) /\ p \in Nat /\ Separate(c)
    BY <1>2, <1>5 DEF Sound
  <2>2. \A i \in 1..Len(d[q]) :
          d[q][i] = IF i = p THEN x ELSE IF i < p THEN c[q][i] ELSE c[q][i - 1]
    BY <1>2, <1>5
  <2> HIDE DEF p
  <2> QED
    BY <1>1, <1>5, <2>1, <2>2, InsertSeparate
<1>9. Sound(f, d)
  BY <1>4, <1>5, <1>6, <1>7, <1>8 DEF Sound, AllRepresent
<1> QED
  BY <1>9 DEF d

(* Q_REMV of an item of queue q keeps fields and sequences together on     *)
(* every queue, and leaves the item on none.                               *)
LEMMA RemvSound ==
  ASSUME NEW m, NEW c, Sound(m, c), NEW q \in QueueId, NEW k \in 1..Len(c[q])
  PROVE  LET d == [c EXCEPT ![q] = Without(@, k)]
         IN /\ Sound(q_remv(m, q, c[q][k]), d)
            /\ \A r \in QueueId : \A i \in 1..Len(d[r]) : d[r][i] # c[q][k]
<1> DEFINE x == c[q][k]
           f == q_remv(m, q, x)
           d == [c EXCEPT ![q] = Without(@, k)]
           l == Len(c[q])
<1>1. m \in Fields /\ c \in [QueueId -> Seq(Item)]
  BY DEF Sound
<1>2. /\ c[q] \in Seq(Item) /\ l \in Nat /\ x \in Item /\ x # NULL
      /\ \A i, j \in 1..Len(c[q]) : c[q][i] = c[q][j] => i = j
  BY <1>1, NullAssumption DEF Sound, Separate
<1>3. /\ Without(c[q], k) \in Seq(Item) /\ Len(Without(c[q], k)) = l - 1
      /\ \A j \in 1..(l - 1) :
           Without(c[q], k)[j] = IF j < k THEN c[q][j] ELSE c[q][j + 1]
  BY <1>2, WithoutFacts
<1>4. m.prev[x] \in Ptr /\ m.next[x] \in Ptr
  BY <1>1, <1>2 DEF Fields
<1>5. f \in Fields
  <2> HIDE DEF x
  <2> QED
    BY <1>1, <1>2, <1>4 DEF Fields, q_remv, Ptr
<1>6. /\ d \in [QueueId -> Seq(Item)] /\ d[q] = Without(c[q], k)
      /\ \A r \in QueueId : r # q => d[r] = c[r]
  BY <1>1, <1>3
<1>7. Represents(f, q, d[q])
  BY <1>1, <1>2, <1>6, RemvRepresents DEF Sound, AllRepresent
<1>8. ASSUME NEW r \in QueueId, r # q
      PROVE  Represents(f, r, d[r]) /\ \A i \in 1..Len(c[r]) : c[r][i] # x
  <2>1. c[r] \in Seq(Item) /\ Represents(m, r, c[r]) /\ Represents(m, q, c[q])
    BY <1>1 DEF Sound, AllRepresent
  <2>2. /\ m.prev[x] = IF k = 1 THEN NULL ELSE c[q][k - 1]
        /\ m.next[x] = IF k = l THEN NULL ELSE c[q][k + 1]
    BY <2>1 DEF Represents
  <2>3. ASSUME NEW i \in 1..Len(c[r])
        PROVE  /\ c[r][i] \in Item /\ c[r][i] # x
               /\ c[r][i] # m.prev[x] /\ c[r][i] # m.next[x]
    <3>1. c[r][i] \in Item /\ c[r][i] # NULL
      BY <2>1, NullAssumption
    <3>2. \A j \in 1..l : c[r][i] # c[q][j]
      BY <1>8 DEF Sound, Separate
    <3>3. /\ k # 1 => k - 1 \in 1..l
          /\ k # l => k + 1 \in 1..l
      BY <1>2
    <3> QED
      BY <2>2, <3>1, <3>2, <3>3
  <2> HIDE DEF x
  <2>4. f.head[r] = m.head[r] /\ f.tail[r] = m.tail[r]
    BY <1>1, <1>2, <1>8 DEF q_remv, Fields
  <2>5. \A i \in 1..Len(c[r]) : /\ f.next[c[r][i]] = m.next[c[r][i]]
                                /\ f.prev[c[r][i]] = m.prev[c[r][i]]
    BY <1>1, <1>2, <2>3 DEF q_remv, Fields
  <2> HIDE DEF f, d
  <2> QED
    BY <1>6, <1>8, <2>1, <2>3, <2>4, <2>5, FrameRepresents
<1> HIDE DEF d
<1> DEFINE o(j) == IF j < k THEN j ELSE j + 1
<1>9. /\ Len(d[q]) = l - 1
      /\ \A j \in 1..(l - 1) : o(j) \in 1..l /\ o(j) # k /\ d[q][j] = c[q][o(j)]
  BY <1>2, <1>3, <1>6
<1>10. \A i, j \in 1..(l - 1) : o(i) = o(j) => i = j
  BY <1>2
<1> HIDE DEF o
<1>11. Separate(d)
  <2>1. \A i, j \in 1..(l - 1) : d[q][i] = d[q][j] => i = j
    BY <1>2, <1>9, <1>10
  <2>2. ASSUME NEW r \in QueueId, r # q, NEW i \in 1..(l - 1), NEW j \in 1..Len(c[r]),
               d[q][i] = d[r][j]
        PROVE  FALSE
    BY <1>6, <1>9, <2>2 DEF Sound, Separate
  <2>3. ASSUME NEW r \in QueueId, r # q, NEW t \in QueueId, t # q,
               NEW i \in 1..Len(d[r]), NEW j \in 1..Len(d[t]), d[r][i] = d[t][j]
        PROVE  r = t /\ i = j
    BY <1>6, <2>3 DEF Sound, Separate
  <2> SUFFICES ASSUME NEW r \in QueueId, NEW t \in QueueId,
                      NEW i \in 1..Len(d[r]), NEW j \in 1..Len(d[t]), d[r][i] = d[t][j]
               PROVE  r = t /\ i = j
    BY DEF Separate
  <2>4. CASE r = q /\ t = q
    BY <1>9, <2>1, <2>4
  <2>5. CASE r = q /\ t # q
    BY <1>6, <1>9, <2>2, <2>5
  <2>6. CASE r # q /\ t = q
    BY <1>6, <1>9, <2>2, <2>6
  <2> QED
    BY <2>3, <2>4, <2>5, <2>6
<1>12. \A r \in QueueId : \A i \in 1..Len(d[r]) : d[r][i] # x
  BY <1>2, <1>6, <1>8, <1>9, SMTT(30)
<1>13. Sound(f, d)
  BY <1>5, <1>6, <1>7, <1>8, <1>11 DEF Sound, AllRepresent
<1> QED
  BY <1>12, <1>13 DEF d

(* Writing over the links of an item that is on no queue (the heap reusing *)
(* freed memory) disturbs no queue.                                        *)
LEMMA ScribbleSound ==
  ASSUME NEW m, NEW c, Sound(m, c), NEW x \in Item, NEW a \in Ptr, NEW b \in Ptr,
         \A r \in QueueId : \A i \in 1..Len(c[r]) : c[r][i] # x
  PROVE  Sound(Scribble(m, x, a, b), c)
<1> DEFINE f == Scribble(m, x, a, b)
<1>1. m \in Fields /\ c \in [QueueId -> Seq(Item)]
  BY DEF Sound
<1>2. f \in Fields
  BY <1>1 DEF Fields, Scribble
<1>3. ASSUME NEW r \in QueueId
      PROVE  Represents(f, r, c[r])
  <2>1. c[r] \in Seq(Item) /\ Represents(m, r, c[r])
    BY <1>1 DEF Sound, AllRepresent
  <2>2. f.head[r] = m.head[r] /\ f.tail[r] = m.tail[r]
    BY DEF Scribble
  <2>3. \A i \in 1..Len(c[r]) : /\ f.next[c[r][i]] = m.next[c[r][i]]
                                /\ f.prev[c[r][i]] = m.prev[c[r][i]]
    BY <1>1, <2>1 DEF Scribble, Fields
  <2> HIDE DEF f
  <2> QED
    BY <2>1, <2>2, <2>3, FrameRepresents
<1> QED
  BY <1>1, <1>2, <1>3 DEF Sound, AllRepresent

(* One turn of q_forall's loop: the item it visits is the one that follows *)
(* those already visited, and the rest remains to be visited whether the   *)
(* callback keeps the item or removes it (lib/queue.c:100-103).            *)
LEMMA ScanTurn ==
  ASSUME NEW m, NEW q, NEW c \in Seq(Item), Represents(m, q, c),
         NEW s \in Seq(Item), NEW n \in Nat, NEW it, it # NULL, Scan(c, s, n, it)
  PROVE  /\ m.next[it] \in Ptr
         /\ Scan(c, s, n + 1, m.next[it])
         /\ \E p \in 1..Len(c) : /\ it = c[p]
                                 /\ Scan(Without(c, p), s, n + 1, m.next[it])
<1>1. PICK l \in Nat : l = Len(s)
  OBVIOUS
<1>2. PICK g \in Nat : g = Len(c)
  OBVIOUS
<1>3. n < l /\ it = s[n + 1] /\ l - n <= g
  BY <1>1, <1>2 DEF Scan
<1>4. \A k \in 0..(l - n - 1) : s[l - k] = c[g - k]
  BY <1>1, <1>2 DEF Scan
<1>5. PICK p \in 1..g : p = g - l + n + 1
  BY <1>3
<1>6. it = c[p]
  <2>1. PICK k \in 0..(l - n - 1) : k = l - n - 1
    BY <1>3
  <2>2. l - k = n + 1 /\ g - k = p
    BY <1>5, <2>1
  <2>3. s[l - k] = c[g - k]
    BY <1>4
  <2> QED
    BY <1>3, <2>2, <2>3
<1>7. m.next[it] = IF p = g THEN NULL ELSE c[p + 1]
  BY <1>2, <1>6 DEF Represents
<1>8. m.next[it] \in Ptr
  BY <1>2, <1>7 DEF Ptr
<1>9. m.next[it] = IF n + 1 = l THEN NULL ELSE s[n + 2]
  <2>1. CASE n + 1 = l
    BY <1>5, <1>7, <2>1
  <2>2. CASE n + 1 # l
    <3>1. PICK k \in 0..(l - n - 1) : k = l - n - 2
      BY <1>3, <2>2
    <3>2. l - k = n + 2 /\ g - k = p + 1 /\ p # g
      BY <1>3, <1>5, <2>2, <3>1
    <3>3. s[l - k] = c[g - k]
      BY <1>4
    <3> QED
      BY <1>7, <2>2, <3>2, <3>3
  <2> QED
    BY <2>1, <2>2
<1>10. Scan(c, s, n + 1, m.next[it])
  <2>1. ASSUME NEW k \in 0..(l - (n + 1) - 1)
        PROVE  s[l - k] = c[g - k]
    <3>1. k \in 0..(l - n - 1)
      OBVIOUS
    <3> QED
      BY <1>4, <3>1
  <2>2. n + 1 <= l /\ l - (n + 1) <= g /\ (n + 1) + 1 = n + 2
    BY <1>3
  <2> QED
    BY <1>1, <1>2, <1>9, <2>1, <2>2 DEF Scan
<1>11. Scan(Without(c, p), s, n + 1, m.next[it])
  <2>1. PICK e : e = Without(c, p)
    OBVIOUS
  <2>2. Len(e) = g - 1 /\ \A j \in 1..(g - 1) : e[j] = IF j < p THEN c[j] ELSE c[j + 1]
    BY <1>2, <2>1, WithoutFacts
  <2>3. ASSUME NEW k \in 0..(l - (n + 1) - 1)
        PROVE  s[l - k] = e[(g - 1) - k]
    <3>1. PICK j \in 1..(g - 1) : j = (g - 1) - k
      BY <1>3, <2>3
    <3>2. ~(j < p) /\ j + 1 = g - k
      BY <1>3, <1>5, <2>3, <3>1
    <3>3. e[j] = c[j + 1]
      BY <2>2, <3>2
    <3> QED
      BY <1>4, <3>1, <3>2, <3>3
  <2>4. n + 1 <= l /\ l - (n + 1) <= g - 1 /\ (n + 1) + 1 = n + 2
    BY <1>3
  <2>5. Scan(e, s, n + 1, m.next[it])
    BY <1>1, <1>9, <2>2, <2>3, <2>4 DEF Scan
  <2> QED
    BY <2>1, <2>5
<1> QED
  BY <1>2, <1>6, <1>8, <1>10, <1>11

-----------------------------------------------------------------------------
\* The inductive invariant: Linked needs the types, and that no item is on
\* two places, for a store through one queue's links to leave the rest alone.
IInv == Sound(mem, contents) /\ TypeOK /\ ForallInOrder

(* The empty queues of q_init satisfy the invariant whatever the items'    *)
(* link fields hold.                                                       *)
LEMMA InitIInv == Init => IInv
<1> SUFFICES ASSUME Init PROVE IInv
  OBVIOUS
<1>1. contents = [q \in QueueId |-> <<>>] /\ iter = Idle
  BY DEF Init
<1>2. PICK n, p \in [Item -> Ptr] :
        mem = [head |-> [q \in QueueId |-> NULL], tail |-> [q \in QueueId |-> NULL],
               next |-> n, prev |-> p]
  BY DEF Init
<1>3. mem \in Fields
  BY <1>2 DEF Fields, Ptr
<1>4. contents \in [QueueId -> Seq(Item)]
  BY <1>1
<1>5. \A q \in QueueId : contents[q] = <<>> /\ Len(contents[q]) = 0
  BY <1>1
<1>6. Separate(contents)
  BY <1>5 DEF Separate
<1>7. AllRepresent(mem, contents)
  BY <1>2, <1>5 DEF AllRepresent, Represents
<1> QED
  BY <1>1, <1>3, <1>4, <1>6, <1>7 DEF IInv, Sound, TypeOK, ForallInOrder

(* Every operation of the queue package, every turn of q_forall's loop,    *)
(* and the heap's own writes preserve the invariant.                       *)
LEMMA NextIInv == IInv /\ [Next]_vars => IInv'
<1> SUFFICES ASSUME IInv, [Next]_vars PROVE IInv'
  OBVIOUS
<1>1. /\ Sound(mem, contents) /\ TypeOK /\ ForallInOrder
      /\ contents \in [QueueId -> Seq(Item)] /\ mem \in Fields
  BY DEF IInv, TypeOK
<1>2. ASSUME Sound(mem', contents'), iter' = iter, iter = Idle
      PROVE  IInv'
  BY <1>1, <1>2 DEF IInv, TypeOK, Sound, ForallInOrder
<1>3. ASSUME NEW x, ~OnSome(x)
      PROVE  \A r \in QueueId : \A i \in 1..Len(contents[r]) : contents[r][i] # x
  BY <1>1, <1>3 DEF OnSome, Range
<1>4. ASSUME NEW q \in QueueId, Create(q)
      PROVE  IInv'
  <2>1. mem.head[q] = NULL /\ mem.tail[q] = NULL
    BY <1>1, <1>4 DEF Create, Sound, AllRepresent, Represents
  <2>2. mem' = mem
    BY <1>1, <1>4, <2>1 DEF Create, q_init, Fields
  <2> QED
    BY <1>1, <1>2, <1>4, <2>2 DEF Create
<1>5. ASSUME NEW q \in QueueId, NEW x \in Ptr, PutFront(q, x)
      PROVE  IInv'
  <2>1. CASE x = NULL
    BY <1>1, <1>2, <1>5, <2>1 DEF PutFront, q_front
  <2>2. CASE x # NULL
    <3>1. x \in Item /\ ~OnSome(x)
      BY <1>5, <2>2 DEF PutFront, Ptr
    <3>2. \A r \in QueueId : \A i \in 1..Len(contents[r]) : contents[r][i] # x
      BY <1>3, <3>1
    <3>3. Sound(q_front(mem, q, x), [contents EXCEPT ![q] = Cons(x, @)])
      BY <1>1, <3>1, <3>2, FrontSound
    <3> QED
      BY <1>2, <1>5, <2>2, <3>3 DEF PutFront
  <2> QED
    BY <2>1, <2>2
<1>6. ASSUME NEW q \in QueueId, NEW x \in Ptr, PutEnd(q, x)
      PROVE  IInv'
  <2>1. CASE x = NULL
    BY <1>1, <1>2, <1>6, <2>1 DEF PutEnd, q_end
  <2>2. CASE x # NULL
    <3>1. x \in Item /\ ~OnSome(x)
      BY <1>6, <2>2 DEF PutEnd, Ptr
    <3>2. \A r \in QueueId : \A i \in 1..Len(contents[r]) : contents[r][i] # x
      BY <1>3, <3>1
    <3>3. Sound(q_end(mem, q, x), [contents EXCEPT ![q] = Append(@, x)])
      BY <1>1, <3>1, <3>2, EndSound
    <3> QED
      BY <1>2, <1>6, <2>2, <3>3 DEF PutEnd
  <2> QED
    BY <2>1, <2>2
<1>7. ASSUME NEW q \in QueueId, NEW x \in Ptr, Take(q, x)
      PROVE  IInv'
  <2>1. CASE x = NULL /\ contents' = contents
    BY <1>1, <1>2, <1>7, <2>1 DEF Take, q_remv
  <2>2. ASSUME NEW i \in 1..Len(contents[q]), contents[q][i] = x,
               contents' = [contents EXCEPT ![q] = Without(@, i)]
        PROVE  IInv'
    <3>1. Sound(q_remv(mem, q, x), [contents EXCEPT ![q] = Without(@, i)])
      BY <1>1, <2>2, RemvSound
    <3> QED
      BY <1>2, <1>7, <2>2, <3>1 DEF Take
  <2> QED
    BY <1>7, <2>1, <2>2 DEF Take
<1>8. ASSUME NEW x \in Item, NEW a \in Ptr, NEW b \in Ptr, Recycle(x, a, b)
      PROVE  IInv'
  <2>1. \A r \in QueueId : \A i \in 1..Len(contents[r]) : contents[r][i] # x
    BY <1>3, <1>8 DEF Recycle
  <2>2. Sound(Scribble(mem, x, a, b), contents)
    BY <1>1, <2>1, ScribbleSound
  <2> QED
    BY <1>2, <1>8, <2>2 DEF Recycle
<1>9. ASSUME NEW q \in QueueId, ForallBegin(q)
      PROVE  IInv'
  <2>1. contents[q] \in Seq(Item) /\ mem.head[q] \in Ptr
    BY <1>1 DEF Fields
  <2>2. mem.head[q] = IF contents[q] = <<>> THEN NULL ELSE contents[q][1]
    BY <1>1 DEF Sound, AllRepresent, Represents
  <2>3. iter' = [que |-> q, it |-> mem.head[q], n |-> 0, start |-> contents[q]]
        /\ mem' = mem /\ contents' = contents
    BY <1>9 DEF ForallBegin
  <2>4. iter' \in [que : QueueId, it : Ptr, n : Nat, start : Seq(Item)]
    BY <2>1, <2>3
  <2>5. ForallInOrder'
    BY <2>1, <2>2, <2>3 DEF ForallInOrder, Scan
  <2> QED
    BY <1>1, <2>3, <2>4, <2>5 DEF IInv, TypeOK
<1>10. ASSUME ForallEnd \/ ForallFound
       PROVE  IInv'
  BY <1>1, <1>10 DEF ForallEnd, ForallFound, IInv, TypeOK, ForallInOrder
<1>11. ASSUME iter.it # NULL
       PROVE  /\ iter \in [que : QueueId, it : Ptr, n : Nat, start : Seq(Item)]
              /\ Represents(mem, iter.que, contents[iter.que])
              /\ contents[iter.que] \in Seq(Item)
              /\ Scan(contents[iter.que], iter.start, iter.n, iter.it)
  <2>1. iter # Idle /\ iter \in [que : QueueId, it : Ptr, n : Nat, start : Seq(Item)]
    BY <1>1, <1>11 DEF TypeOK, Idle
  <2> QED
    BY <1>1, <2>1 DEF Sound, AllRepresent, ForallInOrder
<1>12. ASSUME ForallKeep
       PROVE  IInv'
  <2>1. /\ iter.it # NULL /\ mem' = mem /\ contents' = contents
        /\ iter' = Turn(mem.next[iter.it])
    BY <1>12 DEF ForallKeep
  <2>2. /\ mem.next[iter.it] \in Ptr
        /\ Scan(contents[iter.que], iter.start, iter.n + 1, mem.next[iter.it])
    BY <1>11, <2>1, ScanTurn
  <2>3. /\ iter' \in [que : QueueId, it : Ptr, n : Nat, start : Seq(Item)]
        /\ iter'.que = iter.que /\ iter'.n = iter.n + 1 /\ iter'.start = iter.start
        /\ iter'.it = mem.next[iter.it]
    BY <1>11, <2>1, <2>2 DEF Turn
  <2>4. ForallInOrder'
    BY <2>1, <2>2, <2>3 DEF ForallInOrder
  <2> QED
    BY <1>1, <2>1, <2>3, <2>4 DEF IInv, TypeOK
<1>13. ASSUME NEW i \in 1..Len(contents[iter.que]), NEW a \in Ptr, NEW b \in Ptr,
              ForallDrop(i, a, b)
       PROVE  IInv'
  <2>1. /\ iter.it # NULL /\ contents[iter.que][i] = iter.it
        /\ contents' = [contents EXCEPT ![iter.que] = Without(@, i)]
        /\ mem' = Scribble(q_remv(mem, iter.que, iter.it), iter.it, a, b)
        /\ iter' = Turn(mem.next[iter.it])
    BY <1>13 DEF ForallDrop
  <2>2. /\ iter \in [que : QueueId, it : Ptr, n : Nat, start : Seq(Item)]
        /\ contents[iter.que] \in Seq(Item)
    BY <1>11, <2>1
  <2>3. /\ mem.next[iter.it] \in Ptr
        /\ \E p \in 1..Len(contents[iter.que]) :
             /\ iter.it = contents[iter.que][p]
             /\ Scan(Without(contents[iter.que], p), iter.start, iter.n + 1, mem.next[iter.it])
    BY <1>11, <2>1, ScanTurn
  <2>4. PICK p \in 1..Len(contents[iter.que]) :
             /\ iter.it = contents[iter.que][p]
             /\ Scan(Without(contents[iter.que], p), iter.start, iter.n + 1, mem.next[iter.it])
    BY <2>3
  <2>5. i = p
    BY <1>1, <2>1, <2>2, <2>4 DEF Sound, Separate
  <2>6. /\ iter' \in [que : QueueId, it : Ptr, n : Nat, start : Seq(Item)]
        /\ iter'.que = iter.que /\ iter'.n = iter.n + 1 /\ iter'.start = iter.start
        /\ iter'.it = mem.next[iter.it]
    BY <2>1, <2>2, <2>3 DEF Turn
  <2>7. ForallInOrder'
    <3>1. contents'[iter.que] = Without(contents[iter.que], p)
      BY <1>1, <2>1, <2>2, <2>5
    <3> QED
      BY <2>4, <2>6, <3>1 DEF ForallInOrder
  <2>8. Sound(mem', contents')
    <3>1. PICK d : d = [contents EXCEPT ![iter.que] = Without(@, i)]
      OBVIOUS
    <3>2. iter.que \in QueueId /\ iter.it \in Item
      BY <2>1, <2>2 DEF Ptr
    <3>3. /\ Sound(q_remv(mem, iter.que, iter.it), d)
          /\ \A r \in QueueId : \A j \in 1..Len(d[r]) : d[r][j] # iter.it
      <4>1. LET e == [contents EXCEPT ![iter.que] = Without(@, i)]
            IN /\ Sound(q_remv(mem, iter.que, contents[iter.que][i]), e)
               /\ \A r \in QueueId : \A j \in 1..Len(e[r]) : e[r][j] # contents[iter.que][i]
        BY <1>1, <3>2, RemvSound
      <4> QED
        BY <2>1, <3>1, <4>1
    <3>4. Sound(Scribble(q_remv(mem, iter.que, iter.it), iter.it, a, b), d)
      BY <3>2, <3>3, ScribbleSound
    <3> QED
      BY <2>1, <3>1, <3>4
  <2> QED
    BY <2>6, <2>7, <2>8 DEF IInv, TypeOK, Sound
<1>14. CASE UNCHANGED vars
  BY <1>1, <1>14 DEF vars, IInv, TypeOK, ForallInOrder
<1> QED
  BY <1>4, <1>5, <1>6, <1>7, <1>8, <1>9, <1>10, <1>12, <1>13, <1>14 DEF Next

(* For any number of queues and items: the links of every queue always     *)
(* spell the sequence of the items put there and not yet removed, front to *)
(* back and back to front (lib/queue.c).                                   *)
THEOREM LinkedAlways == Spec => []Linked
<1>1. IInv => Linked
  BY DEF IInv, Sound, Linked
<1> QED
  BY <1>1, InitIInv, NextIInv, PTL DEF Spec

(* For any number of queues and items: q_forall hands every item that was  *)
(* on the queue to the callback once and in order, even when the callback  *)
(* removes and frees the items it is given (lib/queue.c:90-105).           *)
THEOREM ForallAlways == Spec => []ForallInOrder
<1>1. IInv => ForallInOrder
  BY DEF IInv
<1> QED
  BY <1>1, InitIInv, NextIInv, PTL DEF Spec

-----------------------------------------------------------------------------
(***************************************************************************)
(* The context switch (hal.h, hal.c, kernel.c:75-97, 181-207): registers,  *)
(* stacks and return addresses, for any number of tasks.  Holds says what  *)
(* a saved context is; a task that does not run is Suspended: its context  *)
(* holds the registers it goes on with, above the stack and the return     *)
(* address of the place it goes on at.                                     *)
(***************************************************************************)

(* Where a context keeps each register.                                    *)

Origin == {"own", "args", "kernel", "flags", "call", "high", "low", "result", "zero", "junk"}
Byte == Origin \X Nat \X Nat
Regs == [Reg -> Byte]

\* The register that SAVE_CONTEXT pushes i-th, and when it pushes r.
RegAt(i) == IF i = 1 THEN 31 ELSE IF i = 2 THEN SREG ELSE 33 - i
PushTurn(r) == IF r = 31 THEN 1 ELSE IF r = SREG THEN 2 ELSE 33 - r

\* RegAt and PushTurn are inverse: SAVE_CONTEXT (hal.h:58-94) pushes each of the
\* 33 registers once.
LEMMA TurnFacts ==
  /\ \A i \in 1..33 : RegAt(i) \in Reg /\ PushTurn(RegAt(i)) = i
  /\ \A r \in Reg : PushTurn(r) \in 1..33 /\ RegAt(PushTurn(r)) = r
BY DEF RegAt, PushTurn, Reg, SREG

\* The place of a register in a stack of m bytes, n of them under the context.
LEMMA TurnPlace ==
  ASSUME NEW m, NEW n \in Nat, m = n + 33, NEW r \in Reg
  PROVE  /\ n + PushTurn(r) \in 1..m /\ n + PushTurn(r) > n
         /\ m + 1 - (34 - PushTurn(r)) = n + PushTurn(r)
         /\ \A f \in Reg : n + PushTurn(r) = n + PushTurn(f) <=> r = f
BY DEF PushTurn, Reg, SREG

\* An index above a stack of n bytes is one of the 33 saved ones.
LEMMA AboveStack ==
  ASSUME NEW n \in Nat, NEW i \in 1..(n + 33), i > n
  PROVE  i - n \in 1..33
OBVIOUS

\* A function on 1..n is a sequence of length n.
LEMMA FunctionSeq ==
  ASSUME NEW S, NEW n \in Nat, NEW f \in [1..n -> S]
  PROVE  f \in Seq(S) /\ Len(f) = n
OBVIOUS

\* c is a and then b.
Joins(a, b, c) ==
  /\ Len(c) = Len(a) + Len(b)
  /\ \A i \in 1..(Len(a) + Len(b)) : c[i] = IF i <= Len(a) THEN a[i] ELSE b[i - Len(a)]

\* Concatenation joins its parts.
LEMMA Joined ==
  ASSUME NEW S, NEW a \in Seq(S), NEW b \in Seq(S)
  PROVE  a \o b \in Seq(S) /\ Joins(a, b, a \o b)
BY ConcatProperties DEF Joins

\* The i-th push.
LEMMA SaveOrderFacts ==
  SaveOrder \in Seq(Nat) /\ Len(SaveOrder) = 33 /\ \A i \in 1..33 : SaveOrder[i] = RegAt(i)
<1> DEFINE down == [i \in 1..31 |-> 31 - i]
           two == <<31, SREG>>
<1>1. down \in Seq(Nat) /\ Len(down) = 31 /\ \A i \in 1..31 : down[i] = 31 - i
  OBVIOUS
<1>2. two \in Seq(Nat) /\ Len(two) = 2 /\ two[1] = 31 /\ two[2] = SREG
  BY DEF SREG
<1> HIDE DEF down, two
<1>3. two \o down \in Seq(Nat) /\ Joins(two, down, two \o down)
  BY <1>1, <1>2, Joined
<1>4. SaveOrder \in Seq(Nat) /\ Joins(two, down, SaveOrder)
  BY <1>3 DEF SaveOrder, two, down
<1>5. Len(SaveOrder) = 33
  BY <1>4, <1>1, <1>2 DEF Joins
<1>6. Len(two) = 2 /\ Len(down) = 31
  BY <1>1, <1>2
<1>7. \A i \in 1..(Len(two) + Len(down)) :
        SaveOrder[i] = IF i <= Len(two) THEN two[i] ELSE down[i - Len(two)]
  BY <1>4 DEF Joins
<1>8. \A i \in 1..33 : SaveOrder[i] = IF i <= 2 THEN two[i] ELSE down[i - 2]
  BY <1>6, <1>7
<1>9. \A i \in 1..31 : down[i] = 31 - i
  BY <1>1
<1>10. ASSUME NEW i \in 3..33 PROVE SaveOrder[i] = 33 - i
  <2>1. down[i - 2] = 31 - (i - 2)
    BY <1>9
  <2> QED BY <1>8, <2>1
<1>11. SaveOrder[1] = 31 /\ SaveOrder[2] = SREG
  BY <1>2, <1>8
<1>12. \A i \in 1..33 : SaveOrder[i] = RegAt(i)
  BY <1>10, <1>11 DEF RegAt
<1> QED BY <1>4, <1>5, <1>12

\* f stands at place k of s, which has n places, and nowhere else.
OnlyAt(s, n, k, f) == Len(s) = n /\ k \in 1..n /\ \A i \in 1..n : s[i] = f <=> i = k

\* IndexOf finds the place of a field that occurs once.
LEMMA OnlyMatch ==
  ASSUME NEW s, NEW n \in Nat, NEW k, NEW f, OnlyAt(s, n, k, f)
  PROVE  IndexOf(s, f) = k
BY DEF IndexOf, OnlyAt

\* The pops come in the opposite order of the pushes.
LEMMA RestoreOrderFacts ==
  ASSUME NEW r \in Reg
  PROVE  IndexOf(RestoreOrder, r) = 34 - PushTurn(r)
<1> DEFINE up == [i \in 1..31 |-> i - 1]
           two == <<SREG, 31>>
<1>1. up \in Seq(Nat) /\ Len(up) = 31 /\ \A i \in 1..31 : up[i] = i - 1
  OBVIOUS
<1>2. two \in Seq(Nat) /\ Len(two) = 2 /\ two[1] = 32 /\ two[2] = 31
  BY DEF SREG
<1> HIDE DEF up, two
<1>3. up \o two \in Seq(Nat) /\ Joins(up, two, up \o two)
  BY <1>1, <1>2, Joined
<1>4. RestoreOrder \in Seq(Nat) /\ Joins(up, two, RestoreOrder)
  BY <1>3 DEF RestoreOrder, two, up
<1>5. Len(RestoreOrder) = 33
  BY <1>4, <1>1, <1>2 DEF Joins
<1>6. Len(two) = 2 /\ Len(up) = 31
  BY <1>1, <1>2
<1>7. \A i \in 1..(Len(up) + Len(two)) :
        RestoreOrder[i] = IF i <= Len(up) THEN up[i] ELSE two[i - Len(up)]
  BY <1>4 DEF Joins
<1>8. \A i \in 1..33 : RestoreOrder[i] = IF i <= 31 THEN up[i] ELSE two[i - 31]
  BY <1>6, <1>7
<1>9. \A i \in 1..31 : up[i] = i - 1
  BY <1>1
<1>10. \A i \in 1..31 : RestoreOrder[i] = i - 1
  BY <1>8, <1>9
<1>11. RestoreOrder[32] = two[1] /\ RestoreOrder[33] = two[2]
  BY <1>8
<1>12. RestoreOrder[32] = 32 /\ RestoreOrder[33] = 31
  BY <1>2, <1>11
<1>13. 34 - PushTurn(r) \in 1..33
  BY DEF PushTurn, Reg, SREG
<1>14. \A i \in 1..33 : RestoreOrder[i] = r <=> i = 34 - PushTurn(r)
  BY <1>10, <1>12 DEF PushTurn, Reg, SREG
<1>15. OnlyAt(RestoreOrder, 33, 34 - PushTurn(r), r)
  BY <1>5, <1>13, <1>14 DEF OnlyAt
<1> QED BY <1>15, OnlyMatch

\* The fields of a context, from its lowest address.
LEMMA ContextOrder ==
  /\ cpu_context \in Seq(Nat) /\ Len(cpu_context) = 35
  /\ \A i \in 1..31 : cpu_context[i] = i - 1
  /\ cpu_context[32] = 32 /\ cpu_context[33] = 31
  /\ cpu_context[34] = RetHigh /\ cpu_context[35] = RetLow
<1> DEFINE up == [i \in 1..31 |-> i - 1]
           four == <<SREG, 31, RetHigh, RetLow>>
<1>1. up \in Seq(Nat) /\ Len(up) = 31 /\ \A i \in 1..31 : up[i] = i - 1
  OBVIOUS
<1>2. /\ four \in Seq(Nat) /\ Len(four) = 4
      /\ four[1] = 32 /\ four[2] = 31 /\ four[3] = RetHigh /\ four[4] = RetLow
  BY DEF SREG, RetHigh, RetLow
<1> HIDE DEF up, four
<1>3. up \o four \in Seq(Nat) /\ Joins(up, four, up \o four)
  BY <1>1, <1>2, Joined
<1>4. cpu_context \in Seq(Nat) /\ Joins(up, four, cpu_context)
  BY <1>3 DEF cpu_context, four, up
<1>5. Len(cpu_context) = 35
  BY <1>4, <1>1, <1>2 DEF Joins
<1>6. Len(four) = 4 /\ Len(up) = 31
  BY <1>1, <1>2
<1>7. \A i \in 1..(Len(up) + Len(four)) :
        cpu_context[i] = IF i <= Len(up) THEN up[i] ELSE four[i - Len(up)]
  BY <1>4 DEF Joins
<1>8. \A i \in 1..35 : cpu_context[i] = IF i <= 31 THEN up[i] ELSE four[i - 31]
  BY <1>6, <1>7
<1>9. \A i \in 1..31 : up[i] = i - 1
  BY <1>1
<1>10. \A i \in 1..31 : cpu_context[i] = i - 1
  BY <1>8, <1>9
<1>11. /\ cpu_context[32] = four[1] /\ cpu_context[33] = four[2]
       /\ cpu_context[34] = four[3] /\ cpu_context[35] = four[4]
  BY <1>8
<1>12. four[1] = 32 /\ four[2] = 31 /\ four[3] = RetHigh /\ four[4] = RetLow
  BY <1>2
<1> QED BY <1>4, <1>5, <1>10, <1>11, <1>12

\* Where struct cpu_context (hal.h:13-54) has each register and the return address.
LEMMA FieldPlace ==
  /\ \A r \in Reg : IndexOf(cpu_context, r) = 34 - PushTurn(r)
  /\ IndexOf(cpu_context, RetHigh) = 34
<1>1. Len(cpu_context) = 35
  BY ContextOrder
<1>2. /\ \A i \in 1..31 : cpu_context[i] = i - 1
      /\ cpu_context[32] = 32 /\ cpu_context[33] = 31
      /\ cpu_context[34] = 33 /\ cpu_context[35] = 34
  BY ContextOrder DEF RetHigh, RetLow
<1>3. ASSUME NEW r \in Reg
      PROVE  IndexOf(cpu_context, r) = 34 - PushTurn(r)
  <2>1. 34 - PushTurn(r) \in 1..35
    BY DEF PushTurn, Reg, SREG
  <2>2. \A i \in 1..35 : cpu_context[i] = r <=> i = 34 - PushTurn(r)
    BY <1>2 DEF PushTurn, Reg, SREG
  <2>3. OnlyAt(cpu_context, 35, 34 - PushTurn(r), r)
    BY <1>1, <2>1, <2>2 DEF OnlyAt
  <2> QED BY <2>3, OnlyMatch
<1>4. \A i \in 1..35 : cpu_context[i] = RetHigh <=> i = 34
  BY <1>2 DEF RetHigh
<1>5. OnlyAt(cpu_context, 35, 34, RetHigh)
  BY <1>1, <1>4 DEF OnlyAt
<1>6. IndexOf(cpu_context, RetHigh) = 34
  BY <1>5, OnlyMatch
<1> QED BY <1>3, <1>6

-----------------------------------------------------------------------------
(* A saved context: c is stack s with the registers rg on top.             *)

Holds(c, s, rg) ==
  /\ c \in Seq(Byte) /\ s \in Seq(Byte) /\ rg \in Regs
  /\ Len(c) = Len(s) + 33
  /\ \A i \in 1..Len(s) : c[i] = s[i]
  /\ \A r \in Reg : c[Len(s) + PushTurn(r)] = rg[r]

\* SAVE_CONTEXT leaves the stack under the context as it was, and the registers in it.
LEMMA SavedHolds ==
  ASSUME NEW s \in Seq(Byte), NEW rg \in Regs
  PROVE  Holds(SAVE_CONTEXT(s, rg), s, rg)
<1> DEFINE top == [i \in 1..Len(SaveOrder) |-> rg[SaveOrder[i]]]
           c == SAVE_CONTEXT(s, rg)
<1>1. \A i \in 1..33 : SaveOrder[i] = RegAt(i) /\ RegAt(i) \in Reg
  BY SaveOrderFacts, TurnFacts
<1>2. Len(SaveOrder) = 33
  BY SaveOrderFacts
<1>3. top \in [1..33 -> Byte]
  BY <1>1, <1>2 DEF Regs
<1>4. top \in Seq(Byte) /\ Len(top) = 33
  <2> HIDE DEF top
  <2> QED BY <1>3, FunctionSeq
<1>5. \A i \in 1..33 : top[i] = rg[RegAt(i)]
  BY <1>1, <1>2
<1>6. c = s \o top
  BY DEF SAVE_CONTEXT, Pushed
<1> HIDE DEF top, c
<1>7. s \o top \in Seq(Byte) /\ Joins(s, top, s \o top)
  BY <1>4, Joined
<1>8. c \in Seq(Byte) /\ Joins(s, top, c)
  BY <1>6, <1>7
<1>9. Len(s) \in Nat
  OBVIOUS
<1>10. Len(c) = Len(s) + 33
  BY <1>4, <1>8 DEF Joins
<1>11. \A i \in 1..Len(s) : c[i] = s[i]
  BY <1>4, <1>8, <1>9 DEF Joins
<1>12. ASSUME NEW i \in 1..33 PROVE c[Len(s) + i] = top[i]
  <2>1. Len(s) + i \in 1..(Len(s) + Len(top)) /\ ~(Len(s) + i <= Len(s))
    BY <1>4, <1>9
  <2>2. c[Len(s) + i] = top[(Len(s) + i) - Len(s)]
    BY <1>8, <2>1 DEF Joins
  <2> QED BY <2>2, <1>9
<1>13. ASSUME NEW r \in Reg PROVE c[Len(s) + PushTurn(r)] = rg[r]
  <2>1. PushTurn(r) \in 1..33 /\ RegAt(PushTurn(r)) = r
    BY TurnFacts
  <2> QED BY <2>1, <1>12, <1>5
<1>14. Holds(c, s, rg)
  BY <1>8, <1>10, <1>11, <1>13 DEF Holds
<1> QED BY <1>14 DEF c

\* Nothing else than SAVE_CONTEXT makes such a stack.
LEMMA HoldsSaved ==
  ASSUME NEW c, NEW s, NEW rg, Holds(c, s, rg)
  PROVE  c = SAVE_CONTEXT(s, rg)
<1> DEFINE d == SAVE_CONTEXT(s, rg)
<1>1. Holds(d, s, rg)
  BY SavedHolds DEF Holds
<1> HIDE DEF d
<1>2. /\ c \in Seq(Byte) /\ d \in Seq(Byte) /\ s \in Seq(Byte) /\ Len(s) \in Nat
      /\ Len(c) = Len(s) + 33 /\ Len(d) = Len(s) + 33
  BY <1>1 DEF Holds
<1>3. ASSUME NEW i \in 1..(Len(s) + 33) PROVE c[i] = d[i]
  <2>1. CASE i <= Len(s)
    BY <1>1, <1>2, <2>1 DEF Holds
  <2>2. CASE i > Len(s)
    <3> DEFINE r == RegAt(i - Len(s))
    <3>1. i - Len(s) \in 1..33
      BY <1>2, <2>2, AboveStack
    <3>2. r \in Reg /\ PushTurn(r) = i - Len(s)
      BY <3>1, TurnFacts
    <3> HIDE DEF r
    <3>3. c[Len(s) + PushTurn(r)] = d[Len(s) + PushTurn(r)]
      BY <3>2, <1>1 DEF Holds
    <3>4. Len(s) + PushTurn(r) = i
      BY <3>2, <1>2
    <3> QED BY <3>3, <3>4
  <2> QED BY <1>2, <2>1, <2>2
<1>4. Len(c) = Len(d)
  BY <1>2
<1>5. \A i \in 1..Len(c) : c[i] = d[i]
  BY <1>2, <1>3
<1>6. c \in Seq(Byte) /\ d \in Seq(Byte)
  BY <1>2
<1>7. c = d
  BY <1>4, <1>5, <1>6, SeqEqual
<1> QED BY <1>7 DEF d

\* RESTORE_CONTEXT gives the registers back, and what is left is the stack.
LEMMA ContextRestored ==
  ASSUME NEW c, NEW s, NEW rg, Holds(c, s, rg)
  PROVE  RESTORE_CONTEXT(c) = rg /\ Popped(c, ContextSize) = s
<1>1. /\ c \in Seq(Byte) /\ s \in Seq(Byte) /\ Len(s) \in Nat /\ rg \in Regs
      /\ Len(c) = Len(s) + 33
  BY DEF Holds
<1>2. ASSUME NEW r \in Reg PROVE RESTORE_CONTEXT(c)[r] = rg[r]
  <2>1. RESTORE_CONTEXT(c)[r] = c[Len(c) + 1 - (34 - PushTurn(r))]
    BY RestoreOrderFacts DEF RESTORE_CONTEXT
  <2>2. Len(c) + 1 - (34 - PushTurn(r)) = Len(s) + PushTurn(r)
    BY <1>1, TurnPlace
  <2>3. c[Len(s) + PushTurn(r)] = rg[r]
    BY DEF Holds
  <2> QED BY <2>1, <2>2, <2>3
<1>3. RESTORE_CONTEXT(c) = [r \in Reg |-> RESTORE_CONTEXT(c)[r]]
  BY DEF RESTORE_CONTEXT
<1>4. RESTORE_CONTEXT(c) = rg
  BY <1>1, <1>2, <1>3 DEF Regs
<1>5. Popped(c, ContextSize) = SubSeq(c, 1, Len(s))
  <2>1. ContextSize = 33
    BY SaveOrderFacts DEF ContextSize
  <2>2. Len(c) - ContextSize = Len(s)
    BY <1>1, <2>1
  <2> QED BY <2>2 DEF Popped
<1>6. \A i \in 1..Len(s) : c[i] = s[i]
  BY DEF Holds
<1>7. SubSeq(c, 1, Len(s)) = s
  BY <1>1, <1>6
<1> QED BY <1>4, <1>5, <1>7

\* The kernel's view of the same bytes through cpu_context_t.
LEMMA ContextFields ==
  ASSUME NEW c, NEW s, NEW rg, Holds(c, s, rg)
  PROVE  /\ \A f \in Reg : At(c, f) = Len(s) + PushTurn(f) /\ Field(c, f) = rg[f]
         /\ Len(s) > 0 => Field(c, RetHigh) = s[Len(s)]
<1>1. c \in Seq(Byte) /\ s \in Seq(Byte) /\ Len(s) \in Nat /\ Len(c) = Len(s) + 33
  BY DEF Holds
<1>2. ASSUME NEW f \in Reg
      PROVE  At(c, f) = Len(s) + PushTurn(f) /\ Field(c, f) = rg[f]
  <2>1. At(c, f) = Len(c) + 1 - (34 - PushTurn(f))
    BY FieldPlace DEF At
  <2>2. Len(c) + 1 - (34 - PushTurn(f)) = Len(s) + PushTurn(f)
    BY <1>1, TurnPlace
  <2>3. c[Len(s) + PushTurn(f)] = rg[f]
    BY DEF Holds
  <2> QED BY <2>1, <2>2, <2>3 DEF Field
<1>3. ASSUME Len(s) > 0 PROVE Field(c, RetHigh) = s[Len(s)]
  <2>1. At(c, RetHigh) = Len(c) + 1 - 34
    BY FieldPlace DEF At
  <2>2. At(c, RetHigh) = Len(s)
    BY <1>1, <2>1
  <2>3. Len(s) \in 1..Len(s)
    BY <1>1, <1>3
  <2>4. c[Len(s)] = s[Len(s)]
    BY <2>3 DEF Holds
  <2> QED BY <2>2, <2>4 DEF Field
<1> QED BY <1>2, <1>3

\* A register written through cpu_context_t.
LEMMA FieldWritten ==
  ASSUME NEW c, NEW s, NEW rg, Holds(c, s, rg), NEW f \in Reg, NEW b \in Byte
  PROVE  Holds([c EXCEPT ![At(c, f)] = b], s, [rg EXCEPT ![f] = b])
<1> DEFINE d == [c EXCEPT ![At(c, f)] = b]
           q == [rg EXCEPT ![f] = b]
           k == Len(s) + PushTurn(f)
<1>1. /\ c \in Seq(Byte) /\ s \in Seq(Byte) /\ Len(s) \in Nat /\ rg \in Regs
      /\ Len(c) = Len(s) + 33
  BY DEF Holds
<1>2. k \in 1..Len(c) /\ k > Len(s)
  BY <1>1, TurnPlace
<1>3. d = [c EXCEPT ![k] = b]
  BY ContextFields
<1>4. q \in Regs /\ \A r \in Reg : q[r] = IF r = f THEN b ELSE rg[r]
  BY <1>1 DEF Regs
<1> HIDE DEF d, q, k
<1>5. d \in Seq(Byte) /\ Len(d) = Len(c) /\ \A i \in 1..Len(c) : d[i] = IF i = k THEN b ELSE c[i]
  BY <1>1, <1>2, <1>3
<1>6. \A i \in 1..Len(s) : d[i] = s[i]
  <2>1. \A i \in 1..Len(s) : c[i] = s[i] /\ i \in 1..Len(c) /\ i # k
    BY <1>1, <1>2 DEF Holds
  <2> QED BY <2>1, <1>5
<1>7. ASSUME NEW r \in Reg PROVE d[Len(s) + PushTurn(r)] = q[r]
  <2>1. Len(s) + PushTurn(r) \in 1..Len(c)
    BY <1>1, TurnPlace
  <2>2. Len(s) + PushTurn(r) = k <=> r = f
    BY <1>1, TurnPlace DEF k
  <2>3. c[Len(s) + PushTurn(r)] = rg[r]
    BY DEF Holds
  <2> QED BY <1>4, <1>5, <2>1, <2>2, <2>3
<1>8. Len(d) = Len(s) + 33
  BY <1>1, <1>5
<1>9. Holds(d, s, q)
  BY <1>1, <1>4, <1>5, <1>6, <1>7, <1>8 DEF Holds
<1> QED BY <1>9 DEF d, q

-----------------------------------------------------------------------------
(* The inductive invariant.                                                *)

Codes == 1..7
KernelRegs == [r \in Reg |-> IF r = SREG THEN Flags(0) ELSE Mine(r)]

\* What lies on t's stack when t goes on at p and c is the call it makes:
\* the exit functions it has not returned to yet, and the frame.
StackAt(t, p, c) ==
  (IF p \in {EXITFN, EXITTASK} \/ c = EXIT
   THEN IF t \in NoExitFn THEN <<>> ELSE Address(EXITTASK)
   ELSE Exits(t))
  \o IF p = RESTORED THEN Address(ENTRY) ELSE Frame(t, p)

\* t may go on at p with the registers rg: it does not notice.
GoesOn(t, p, c, rg) ==
  /\ p \in InTask /\ rg \in Regs
  /\ p \in {ENTRY, USER, EXITFN, EXITTASK, RESTORED} => c = 0
  /\ p \in {PUSHED, LOADED, TRAP, AFTER} => c \in Codes
  /\ p = AFTER => c # EXIT
  /\ p = EXITFN => t \notin NoExitFn
  /\ p = EXITTASK => t \in NoExitFn
  /\ p \in {ENTRY, RESTORED} =>
       rg[24] = Args(t, 24) /\ rg[25] = Args(t, 25) /\ rg[1] = Zero
  /\ p \notin {ENTRY, RESTORED} => \A r \in Reg \ {SREG, 16, 24, 25} : rg[r] = Own(t, r)
  /\ p \in {USER, PUSHED, EXITFN, EXITTASK} => rg[16] = Own(t, 16)
  /\ p \in {LOADED, TRAP} => rg[16] = CallCode(c)
  /\ p \notin {ENTRY, RESTORED, AFTER} => rg[24] = Own(t, 24) /\ rg[25] = Own(t, 25)

\* A context is saved with the I flag clear; only the first one of a task
\* may have it set, and such a task has not called kirqdis().
SavedFlags(p, rg, off) ==
  rg[SREG] = Flags(0) \/ (rg[SREG] = Flags(1) /\ p = ENTRY /\ ~off)

\* The task can be switched to: its place is under its context.
Suspended(t, c, s, off, wait) ==
  \E p \in InTask :
    /\ Holds(s, StackAt(t, p, c) \o Address(p), RESTORE_CONTEXT(s))
    /\ GoesOn(t, p, c, RESTORE_CONTEXT(s))
    /\ SavedFlags(p, RESTORE_CONTEXT(s), off)
    /\ wait => p = AFTER

\* The task has made call c.
Trapped(t, c, s) ==
  LET rg == RESTORE_CONTEXT(s)
  IN /\ Holds(s, StackAt(t, AFTER, c) \o Address(AFTER), rg)
     /\ c \in Codes
     /\ \A r \in Reg \ {SREG, 16, 24, 25} : rg[r] = Own(t, r)
     /\ rg[16] = CallCode(c) /\ rg[SREG] = Flags(0)

\* The stack pointer is the kernel's in the kernel and the running task's outside.
Types ==
  /\ HalTypeOK
  /\ sp = IF pc = KERNEL THEN 0 ELSE current
  /\ regs \in Regs /\ stack \in [0..Tasks -> Seq(Byte)]
  /\ code \in [Task -> Nat]

\* The running task is on no list, and no task is blocked after it has ended.
Sets == current \notin blocked /\ current \notin gone /\ blocked \cap gone = {}

\* Every other task that has not ended can be switched to.
Others ==
  \A t \in Task \ gone :
    t # current => Suspended(t, code[t], stack[t], t \in irqdis, t \in blocked)

\* The kernel has its own registers, and knows why it was entered: an event
\* leaves the task where it was, a call leaves it after its trap.
InKernel ==
  pc = KERNEL =>
    /\ stack[0] = <<>> /\ regs = KernelRegs
    /\ event => Suspended(current, code[current], stack[current], current \in irqdis, FALSE)
    /\ ~event => Trapped(current, code[current], stack[current])

\* While a task runs the kernel's context waits at the end of switch_from_kernel().
KernelSaved == pc # KERNEL => Holds(stack[0], Address(KERNEL), KernelRegs)

\* The running task has its registers, its stack, and the I flag it asked for.
Runs ==
  pc \notin {KERNEL, RESTORED} =>
    /\ GoesOn(current, pc, code[current], regs)
    /\ stack[current] = StackAt(current, pc, code[current])
    /\ regs[SREG] = Flags(IF current \in irqdis THEN 0 ELSE 1)

\* Between RESTORE_CONTEXT and RET or RETI the place to go on at is on the stack.
Resumes ==
  pc = RESTORED =>
    \E p \in InTask :
      /\ stack[current] = StackAt(current, p, code[current]) \o Address(p)
      /\ GoesOn(current, p, code[current], regs)
      /\ SavedFlags(p, regs, current \in irqdis)

HalInv == Types /\ Sets /\ Others /\ InKernel /\ KernelSaved /\ Runs /\ Resumes

-----------------------------------------------------------------------------
(* Bytes and return addresses.                                             *)

\* The bytes the model tells apart are Bytes.
LEMMA BytesAre ==
  /\ \A t, r \in Nat : Own(t, r) \in Byte /\ Args(t, r) \in Byte
  /\ \A r \in Nat : /\ Mine(r) \in Byte /\ Flags(r) \in Byte /\ CallCode(r) \in Byte
                    /\ High(r) \in Byte /\ Low(r) \in Byte /\ Result(r) \in Byte
  /\ Zero \in Byte /\ Junk \in Byte
<1>1. \A n \in Origin : \A a, b \in Nat : <<n, a, b>> \in Byte
  BY DEF Byte
<1>5. /\ "own" \in Origin /\ "args" \in Origin /\ "kernel" \in Origin
      /\ "flags" \in Origin /\ "call" \in Origin /\ "high" \in Origin /\ "low" \in Origin
      /\ "result" \in Origin /\ "zero" \in Origin /\ "junk" \in Origin
  BY DEF Origin
<1>6. 0 \in Nat
  OBVIOUS
<1>2. \A t, r \in Nat : Own(t, r) \in Byte /\ Args(t, r) \in Byte
  BY <1>1, <1>5, <1>6, Zenon DEF Own, Args
<1>3. \A r \in Nat : /\ Mine(r) \in Byte /\ Flags(r) \in Byte /\ CallCode(r) \in Byte
                    /\ High(r) \in Byte /\ Low(r) \in Byte /\ Result(r) \in Byte
  BY <1>1, <1>5, <1>6, Zenon DEF Mine, Flags, CallCode, High, Low, Result
<1>4. Zero \in Byte /\ Junk \in Byte
  BY <1>1, <1>5, <1>6, Zenon DEF Zero, Junk
<1> QED BY <1>2, <1>3, <1>4

\* Interrupts on and off, and two kernel call codes, are different bytes.
LEMMA BytesDiffer ==
  /\ Flags(0) # Flags(1)
  /\ \A c, d \in Nat : CallCode(c) = CallCode(d) => c = d
<1>1. Flags(0)[2] = 0 /\ Flags(1)[2] = 1
  BY DEF Flags
<1>2. \A c \in Nat : CallCode(c)[2] = c
  BY DEF CallCode
<1> QED BY <1>1, <1>2

\* The program counters are numbers; the kernel is at none of the tasks' places.
LEMMA PlacesAre ==
  /\ InTask \subseteq Nat /\ KERNEL \in Nat /\ KERNEL \notin InTask
  /\ \A p \in InTask \cup {KERNEL} : p \in Nat /\ p # WILD
BY DEF InTask, KERNEL, WILD, ENTRY, USER, PUSHED, LOADED, TRAP, AFTER, EXITFN, EXITTASK, RESTORED

\* Registers are numbers.
LEMMA RegsAre == Reg \subseteq Nat /\ 1 \in Reg /\ 16 \in Reg /\ 24 \in Reg /\ 25 \in Reg /\ SREG \in Reg
BY DEF Reg, SREG

\* A return address is two bytes, the low one under the high one.
LEMMA AddressFacts ==
  ASSUME NEW p \in Nat
  PROVE  /\ Address(p) \in Seq(Byte) /\ Len(Address(p)) = 2
         /\ Address(p)[1] = Low(p) /\ Address(p)[2] = High(p)
<1>1. Low(p) \in Byte /\ High(p) \in Byte
  BY BytesAre
<1> QED BY <1>1 DEF Address

\* What is on the stack after the call that pushes a return address.
LEMMA AddressPushed ==
  ASSUME NEW s \in Seq(Byte), NEW p \in Nat
  PROVE  /\ s \o Address(p) \in Seq(Byte) /\ Len(s \o Address(p)) = Len(s) + 2
         /\ (s \o Address(p))[Len(s) + 1] = Low(p)
         /\ (s \o Address(p))[Len(s) + 2] = High(p)
         /\ \A i \in 1..Len(s) : (s \o Address(p))[i] = s[i]
<1> DEFINE a == Address(p)
           c == s \o a
<1>1. a \in Seq(Byte) /\ Len(a) = 2 /\ a[1] = Low(p) /\ a[2] = High(p)
  BY AddressFacts
<1> HIDE DEF a
<1>2. c \in Seq(Byte) /\ Joins(s, a, c)
  BY <1>1, Joined
<1> HIDE DEF c
<1>3. Len(a) = 2 /\ Len(s) \in Nat
  BY <1>1
<1>4. /\ Len(c) = Len(s) + Len(a)
      /\ \A i \in 1..(Len(s) + Len(a)) : c[i] = IF i <= Len(s) THEN s[i] ELSE a[i - Len(s)]
  BY <1>2 DEF Joins
<1>5. \A i \in 1..Len(s) : c[i] = s[i]
  BY <1>3, <1>4
<1>6. c[Len(s) + 1] = a[(Len(s) + 1) - Len(s)] /\ c[Len(s) + 2] = a[(Len(s) + 2) - Len(s)]
  BY <1>3, <1>4
<1>7. c[Len(s) + 1] = a[1] /\ c[Len(s) + 2] = a[2]
  BY <1>3, <1>6
<1>8. Len(c) = Len(s) + 2
  BY <1>3, <1>4
<1> QED BY <1>1, <1>2, <1>5, <1>7, <1>8 DEF c, a

\* call and ret.
LEMMA ReturnsTo ==
  ASSUME NEW s \in Seq(Byte), NEW p \in Nat
  PROVE  /\ Returned(s \o Address(p)) = p
         /\ Popped(s \o Address(p), 2) = s
<1> DEFINE c == s \o Address(p)
<1>1. /\ c \in Seq(Byte) /\ Len(c) = Len(s) + 2
      /\ c[Len(s) + 1] = Low(p) /\ c[Len(s) + 2] = High(p)
      /\ \A i \in 1..Len(s) : c[i] = s[i]
  BY AddressPushed
<1> HIDE DEF c
<1>2. Len(s) \in Nat /\ Len(c) - 1 = Len(s) + 1 /\ Len(c) - 2 = Len(s)
  BY <1>1
<1>3. c[Len(c)] = High(p) /\ c[Len(c) - 1] = Low(p)
  BY <1>1, <1>2
<1>4. High(p)[2] = p
  BY DEF High
<1>5. Returned(c) = p
  BY <1>3, <1>4 DEF Returned
<1>6. Popped(c, 2) = SubSeq(c, 1, Len(s))
  BY <1>2 DEF Popped
<1>7. SubSeq(c, 1, Len(s)) = s
  BY <1>1, <1>2
<1> QED BY <1>5, <1>6, <1>7 DEF c

\* push and pop.
LEMMA BytePopped ==
  ASSUME NEW s \in Seq(Byte), NEW b \in Byte
  PROVE  /\ s \o <<b>> \in Seq(Byte) /\ Len(s \o <<b>>) = Len(s) + 1
         /\ (s \o <<b>>)[Len(s \o <<b>>)] = b
         /\ Popped(s \o <<b>>, 1) = s
<1> DEFINE a == <<b>>
           c == s \o a
<1>1. a \in Seq(Byte) /\ Len(a) = 1 /\ a[1] = b
  OBVIOUS
<1> HIDE DEF a
<1>2. c \in Seq(Byte) /\ Joins(s, a, c)
  BY <1>1, Joined
<1> HIDE DEF c
<1>3. Len(a) = 1 /\ Len(s) \in Nat
  BY <1>1
<1>4. /\ Len(c) = Len(s) + Len(a)
      /\ \A i \in 1..(Len(s) + Len(a)) : c[i] = IF i <= Len(s) THEN s[i] ELSE a[i - Len(s)]
  BY <1>2 DEF Joins
<1>5. \A i \in 1..Len(s) : c[i] = s[i]
  BY <1>3, <1>4
<1>6. c[Len(s) + 1] = a[(Len(s) + 1) - Len(s)]
  BY <1>3, <1>4
<1>7. c[Len(s) + 1] = a[1]
  BY <1>3, <1>6
<1>8. Len(c) = Len(s) + 1
  BY <1>3, <1>4
<1>9. Popped(c, 1) = SubSeq(c, 1, Len(s))
  BY <1>3, <1>8 DEF Popped
<1>10. SubSeq(c, 1, Len(s)) = s
  BY <1>2, <1>3, <1>5, <1>8
<1> QED BY <1>1, <1>2, <1>7, <1>8, <1>9, <1>10 DEF c, a

-----------------------------------------------------------------------------
(* The stack of a task at each place of its code.                          *)

\* Tasks are numbers.
LEMMA TaskNat == Task \subseteq Nat /\ 0 \notin Task /\ Task \subseteq 0..Tasks /\ 0 \in 0..Tasks
BY HalAssumption DEF Task

\* Return addresses are sequences of bytes.
LEMMA AddressSeq == \A p \in InTask \cup {KERNEL} : Address(p) \in Seq(Byte)
BY PlacesAre, AddressFacts

\* The places a task can be at.
LEMMA PlacesIn ==
  /\ ENTRY \in InTask /\ USER \in InTask /\ PUSHED \in InTask /\ LOADED \in InTask
  /\ TRAP \in InTask /\ AFTER \in InTask /\ EXITFN \in InTask /\ EXITTASK \in InTask
  /\ RESTORED \in InTask
BY DEF InTask

\* The exit addresses under a new task's context (do_setuptask, kernel.c:181-207).
LEMMA ExitsSeq ==
  ASSUME NEW t
  PROVE  /\ Exits(t) \in Seq(Byte)
         /\ t \in NoExitFn => Exits(t) = <<>> \o Address(EXITTASK)
         /\ t \notin NoExitFn => Exits(t) = Address(EXITTASK) \o Address(EXITFN)
<1>1. Address(EXITTASK) \in Seq(Byte) /\ Address(EXITFN) \in Seq(Byte)
  BY AddressSeq, PlacesIn
<1>2. CASE t \in NoExitFn
  <2>1. Exits(t) = Address(EXITTASK) \o <<>>
    BY <1>2 DEF Exits
  <2>2. Address(EXITTASK) \o <<>> = Address(EXITTASK) /\ <<>> \o Address(EXITTASK) = Address(EXITTASK)
    BY <1>1, ConcatEmptySeq
  <2> QED BY <1>1, <1>2, <2>1, <2>2
<1>3. CASE t \notin NoExitFn
  <2>1. Exits(t) = Address(EXITTASK) \o Address(EXITFN)
    BY <1>3 DEF Exits
  <2> DEFINE a == Address(EXITTASK)
             b == Address(EXITFN)
  <2> HIDE DEF a, b
  <2>2. a \o b \in Seq(Byte)
    BY <1>1, Joined DEF a, b
  <2> QED BY <1>3, <2>1, <2>2 DEF a, b
<1> QED BY <1>2, <1>3

\* What is left of the exit functions when the task's function has returned.
Rest(t) == IF t \in NoExitFn THEN <<>> ELSE Address(EXITTASK)

\* What is left of them after the first return.
LEMMA RestSeq ==
  ASSUME NEW t
  PROVE  /\ Rest(t) \in Seq(Byte)
         /\ t \in NoExitFn => Exits(t) = Rest(t) \o Address(EXITTASK)
         /\ t \notin NoExitFn => Exits(t) = Rest(t) \o Address(EXITFN)
<1>1. Address(EXITTASK) \in Seq(Byte) /\ <<>> \in Seq(Byte)
  BY AddressSeq, PlacesIn
<1> QED BY <1>1, ExitsSeq DEF Rest

\* No two places are the same.
LEMMA PlacesDiffer ==
  /\ ENTRY \notin {USER, PUSHED, LOADED, TRAP, AFTER, EXITFN, EXITTASK, RESTORED, KERNEL}
  /\ USER \notin {PUSHED, LOADED, TRAP, AFTER, EXITFN, EXITTASK, RESTORED, KERNEL}
  /\ PUSHED \notin {LOADED, TRAP, AFTER, EXITFN, EXITTASK, RESTORED, KERNEL}
  /\ LOADED \notin {TRAP, AFTER, EXITFN, EXITTASK, RESTORED, KERNEL}
  /\ TRAP \notin {AFTER, EXITFN, EXITTASK, RESTORED, KERNEL}
  /\ AFTER \notin {EXITFN, EXITTASK, RESTORED, KERNEL}
  /\ EXITFN \notin {EXITTASK, RESTORED, KERNEL}
  /\ EXITTASK \notin {RESTORED, KERNEL}
  /\ RESTORED \notin {KERNEL}
  /\ EXIT # 0
BY DEF ENTRY, USER, PUSHED, LOADED, TRAP,
       AFTER, EXITFN, EXITTASK, RESTORED, KERNEL, EXIT

\* The exit functions, by the call the task makes.
Base(t, c) == IF c = EXIT THEN Rest(t) ELSE Exits(t)

\* What a task's own stack holds at each place.
LEMMA StackShapes ==
  ASSUME NEW t \in Task, NEW c
  PROVE  /\ StackAt(t, ENTRY, 0) = Exits(t) /\ StackAt(t, USER, 0) = Exits(t)
         /\ StackAt(t, EXITFN, 0) = Rest(t) /\ StackAt(t, EXITTASK, 0) = Rest(t)
         /\ StackAt(t, RESTORED, 0) = Exits(t) \o Address(ENTRY)
         /\ StackAt(t, PUSHED, c) = Base(t, c) \o <<Own(t, 16)>>
         /\ StackAt(t, LOADED, c) = Base(t, c) \o <<Own(t, 16)>>
         /\ StackAt(t, AFTER, c) = Base(t, c) \o <<Own(t, 16)>>
         /\ StackAt(t, TRAP, c) = StackAt(t, AFTER, c) \o Address(AFTER)
<1>1. Exits(t) \o <<>> = Exits(t) /\ Rest(t) \o <<>> = Rest(t)
  BY ExitsSeq, RestSeq, ConcatEmptySeq
<1>2. /\ Frame(t, ENTRY) = <<>> /\ Frame(t, USER) = <<>>
      /\ Frame(t, EXITFN) = <<>> /\ Frame(t, EXITTASK) = <<>>
  BY PlacesDiffer DEF Frame
<1>3. /\ Frame(t, PUSHED) = <<Own(t, 16)>> /\ Frame(t, LOADED) = <<Own(t, 16)>>
      /\ Frame(t, AFTER) = <<Own(t, 16)>>
  BY PlacesDiffer DEF Frame
<1>4. Frame(t, TRAP) = <<Own(t, 16)>> \o Address(AFTER)
  BY PlacesDiffer DEF Frame
<1>5. \A p \in InTask : p \notin {EXITFN, EXITTASK, RESTORED} =>
          StackAt(t, p, c) = Base(t, c) \o Frame(t, p)
  BY DEF StackAt, Base, Rest
<1>6. \A p \in {EXITFN, EXITTASK} : StackAt(t, p, 0) = Rest(t) \o Frame(t, p)
  BY PlacesDiffer DEF StackAt, Rest
<1>7. StackAt(t, RESTORED, 0) = Exits(t) \o Address(ENTRY)
  BY PlacesDiffer DEF StackAt
<1>8. \A p \in {ENTRY, USER} : StackAt(t, p, 0) = Exits(t) \o Frame(t, p)
  BY PlacesDiffer DEF StackAt
<1>9. StackAt(t, TRAP, c) = (Base(t, c) \o <<Own(t, 16)>>) \o Address(AFTER)
  <2>1. Own(t, 16) \in Byte
    BY BytesAre, TaskNat
  <2>2. Base(t, c) \in Seq(Byte) /\ <<Own(t, 16)>> \in Seq(Byte) /\ Address(AFTER) \in Seq(Byte)
    BY <2>1, ExitsSeq, RestSeq, AddressSeq, PlacesIn DEF Base
  <2>3. StackAt(t, TRAP, c) = Base(t, c) \o (<<Own(t, 16)>> \o Address(AFTER))
    BY <1>4, <1>5, PlacesIn, PlacesDiffer
  <2> DEFINE o == <<Own(t, 16)>>
             a == Address(AFTER)
  <2> HIDE DEF o, a
  <2>4. (Base(t, c) \o o) \o a = Base(t, c) \o (o \o a)
    BY <2>2, ConcatAssociative DEF o, a
  <2> QED BY <2>3, <2>4 DEF o, a
<1>10. /\ StackAt(t, ENTRY, 0) = Exits(t) /\ StackAt(t, USER, 0) = Exits(t)
       /\ StackAt(t, EXITFN, 0) = Rest(t) /\ StackAt(t, EXITTASK, 0) = Rest(t)
  BY <1>1, <1>2, <1>6, <1>8
<1>11. /\ StackAt(t, PUSHED, c) = Base(t, c) \o <<Own(t, 16)>>
       /\ StackAt(t, LOADED, c) = Base(t, c) \o <<Own(t, 16)>>
       /\ StackAt(t, AFTER, c) = Base(t, c) \o <<Own(t, 16)>>
  BY <1>3, <1>5, PlacesIn, PlacesDiffer
<1> QED BY <1>7, <1>9, <1>10, <1>11

\* The stack at every place is a sequence of bytes.
LEMMA StackAtSeq ==
  ASSUME NEW t \in Task, NEW p \in InTask, NEW c,
         p \in {ENTRY, USER, EXITFN, EXITTASK, RESTORED} => c = 0
  PROVE  /\ StackAt(t, p, c) \in Seq(Byte)
         /\ StackAt(t, p, c) \o Address(p) \in Seq(Byte)
<1>1. Own(t, 16) \in Byte
  BY BytesAre, TaskNat
<1>2. Exits(t) \in Seq(Byte) /\ Rest(t) \in Seq(Byte) /\ Base(t, c) \in Seq(Byte)
  BY ExitsSeq, RestSeq DEF Base
<1>3. Base(t, c) \o <<Own(t, 16)>> \in Seq(Byte)
  BY <1>1, <1>2, BytePopped
<1>4. StackAt(t, AFTER, c) \in Seq(Byte)
  BY <1>3, StackShapes
<1>5. StackAt(t, TRAP, c) \in Seq(Byte)
  BY <1>4, StackShapes, AddressPushed, PlacesAre, PlacesIn
<1>6. StackAt(t, RESTORED, 0) \in Seq(Byte)
  BY <1>2, StackShapes, AddressPushed, PlacesAre, PlacesIn
<1>7. p \in {ENTRY, USER, EXITFN, EXITTASK, RESTORED} \/ p \in {PUSHED, LOADED, AFTER, TRAP}
  BY DEF InTask
<1>8. StackAt(t, p, c) \in Seq(Byte)
  BY <1>2, <1>3, <1>5, <1>6, <1>7, StackShapes
<1> QED BY <1>8, AddressPushed, PlacesAre

-----------------------------------------------------------------------------
(* do_setuptask() makes what SAVE_CONTEXT would have made.                 *)

StartRegs(t, f) ==
  [r \in Reg |-> IF r \in {24, 25} THEN Args(t, r) ELSE IF r = 1 THEN Zero
                 ELSE IF r = SREG THEN f ELSE Junk]

StartByte(t, flags, f) ==
  IF f = RetHigh THEN High(ENTRY) ELSE IF f = RetLow THEN Low(ENTRY)
  ELSE IF f \in {24, 25} THEN Args(t, f) ELSE IF f = 1 THEN Zero
  ELSE IF f = SREG THEN flags ELSE Junk

\* Struct cpu_context has the registers in the order of the pops.
LEMMA ContextTurn ==
  /\ \A r \in Reg : cpu_context[34 - PushTurn(r)] = r
  /\ \A i \in 1..35 : cpu_context[i] \in Nat
<1>1. /\ \A i \in 1..31 : cpu_context[i] = i - 1
      /\ cpu_context[32] = 32 /\ cpu_context[33] = 31
      /\ cpu_context[34] = 33 /\ cpu_context[35] = 34
  BY ContextOrder DEF RetHigh, RetLow
<1>2. \A r \in Reg : cpu_context[34 - PushTurn(r)] = r
  BY <1>1 DEF PushTurn, Reg, SREG
<1>3. \A i \in 1..35 : cpu_context[i] \in Nat
  BY <1>1
<1> QED BY <1>2, <1>3

\* The registers do_setuptask writes for a task are bytes.
LEMMA StartRegsAre ==
  ASSUME NEW t \in Task, NEW f \in Byte
  PROVE  /\ StartRegs(t, f) \in Regs
         /\ \A r \in Reg : StartByte(t, f, r) = StartRegs(t, f)[r]
         /\ \A x \in Nat : StartByte(t, f, x) \in Byte
<1>1. \A x \in Nat : StartByte(t, f, x) \in Byte
  BY BytesAre, TaskNat, PlacesAre, PlacesIn DEF StartByte
<1>2. \A r \in Reg : r # RetHigh /\ r # RetLow /\ r \in Nat
  BY DEF Reg, SREG, RetHigh, RetLow
<1>3. \A r \in Reg : StartByte(t, f, r) = StartRegs(t, f)[r]
  BY <1>2 DEF StartByte, StartRegs
<1>4. StartRegs(t, f) = [r \in Reg |-> StartRegs(t, f)[r]]
  BY DEF StartRegs
<1> HIDE DEF StartRegs
<1>5. StartRegs(t, f) \in Regs
  BY <1>1, <1>2, <1>3, <1>4 DEF Regs
<1> QED BY <1>1, <1>3, <1>5

\* do_setuptask builds the context of a task that was stopped at its entry.
LEMMA SetUp ==
  ASSUME NEW t \in Task, NEW f \in Byte
  PROVE  Holds(do_setuptask(t, f), Exits(t) \o Address(ENTRY), StartRegs(t, f))
<1> DEFINE e == Exits(t)
           top == [i \in 1..Len(cpu_context) |->
                     StartByte(t, f, cpu_context[Len(cpu_context) + 1 - i])]
           c == do_setuptask(t, f)
           s == Exits(t) \o Address(ENTRY)
<1>1. c = e \o top
  BY DEF do_setuptask, Pushed, Exits, StartByte
<1>2. Len(cpu_context) = 35
  BY ContextOrder
<1>3. top = [i \in 1..35 |-> StartByte(t, f, cpu_context[36 - i])]
  BY <1>2
<1> HIDE DEF top
<1>4. \A i \in 1..35 : 36 - i \in 1..35
  OBVIOUS
<1>5. \A i \in 1..35 : StartByte(t, f, cpu_context[36 - i]) \in Byte
  BY <1>4, ContextTurn, StartRegsAre
<1>6. top \in [1..35 -> Byte] /\ \A i \in 1..35 : top[i] = StartByte(t, f, cpu_context[36 - i])
  BY <1>3, <1>5
<1>7. top \in Seq(Byte) /\ Len(top) = 35
  <2>1. top \in [1..35 -> Byte]
    BY <1>6
  <2> QED BY <2>1, FunctionSeq
<1>8. e \in Seq(Byte)
  BY ExitsSeq
<1> HIDE DEF e, c, s
<1>9. c \in Seq(Byte) /\ Joins(e, top, c)
  BY <1>1, <1>7, <1>8, Joined
<1>10. /\ s \in Seq(Byte) /\ Len(s) = Len(e) + 2
       /\ s[Len(e) + 1] = Low(ENTRY) /\ s[Len(e) + 2] = High(ENTRY)
       /\ \A i \in 1..Len(e) : s[i] = e[i]
  BY <1>8, AddressPushed, PlacesAre, PlacesIn DEF e, s
<1>11. Len(e) \in Nat /\ Len(top) = 35 /\ Len(s) = Len(e) + 2
  BY <1>7, <1>8, <1>10
<1>12. /\ Len(c) = Len(e) + Len(top)
       /\ \A i \in 1..(Len(e) + Len(top)) : c[i] = IF i <= Len(e) THEN e[i] ELSE top[i - Len(e)]
  BY <1>9 DEF Joins
<1>13. Len(c) = Len(s) + 33
  BY <1>11, <1>12
<1>14. \A i \in 1..Len(e) : c[i] = e[i]
  BY <1>11, <1>12
<1>15. ASSUME NEW i \in 1..35 PROVE c[Len(e) + i] = top[i]
  <2>1. Len(e) + i \in 1..(Len(e) + Len(top)) /\ ~(Len(e) + i <= Len(e)) /\ (Len(e) + i) - Len(e) = i
    BY <1>11
  <2>2. c[Len(e) + i] = top[(Len(e) + i) - Len(e)]
    BY <1>12, <2>1
  <2> QED BY <2>1, <2>2
<1>16. top[1] = Low(ENTRY) /\ top[2] = High(ENTRY)
  <2>1. top[1] = StartByte(t, f, cpu_context[35]) /\ top[2] = StartByte(t, f, cpu_context[34])
    BY <1>6
  <2>2. cpu_context[34] = RetHigh /\ cpu_context[35] = RetLow
    BY ContextOrder
  <2>3. RetHigh # RetLow
    BY DEF RetHigh, RetLow
  <2> QED BY <2>1, <2>2, <2>3 DEF StartByte
<1>17. ASSUME NEW i \in 1..Len(s) PROVE c[i] = s[i]
  <2>1. i \in 1..Len(e) \/ i = Len(e) + 1 \/ i = Len(e) + 2
    BY <1>11
  <2>2. c[Len(e) + 1] = top[1] /\ c[Len(e) + 2] = top[2]
    BY <1>15
  <2>3. CASE i \in 1..Len(e)
    BY <2>3, <1>10, <1>14
  <2>4. CASE i = Len(e) + 1
    BY <2>2, <2>4, <1>10, <1>16
  <2>5. CASE i = Len(e) + 2
    BY <2>2, <2>5, <1>10, <1>16
  <2> QED BY <2>1, <2>3, <2>4, <2>5
<1>18. ASSUME NEW r \in Reg PROVE c[Len(s) + PushTurn(r)] = StartRegs(t, f)[r]
  <2>1. PushTurn(r) \in 1..33
    BY TurnFacts
  <2>2. PushTurn(r) + 2 \in 1..35
    BY <2>1
  <2>7. 36 - (PushTurn(r) + 2) = 34 - PushTurn(r)
    BY <2>1
  <2>3. Len(s) + PushTurn(r) = Len(e) + (PushTurn(r) + 2)
    <3>1. Len(e) \in Nat /\ Len(s) = Len(e) + 2
      BY <1>11
    <3>2. PushTurn(r) \in Int
      BY <2>1
    <3> QED BY <3>1, <3>2
  <2>4. c[Len(e) + (PushTurn(r) + 2)] = top[PushTurn(r) + 2]
    BY <1>15, <2>2
  <2>5. top[PushTurn(r) + 2] = StartByte(t, f, cpu_context[36 - (PushTurn(r) + 2)])
    <3>1. \A i \in 1..35 : top[i] = StartByte(t, f, cpu_context[36 - i])
      BY <1>6
    <3> QED BY <2>2, <3>1, Zenon
  <2>6. StartByte(t, f, cpu_context[34 - PushTurn(r)]) = StartRegs(t, f)[r]
    <3>1. cpu_context[34 - PushTurn(r)] = r
      BY ContextTurn
    <3>2. StartByte(t, f, r) = StartRegs(t, f)[r]
      BY StartRegsAre
    <3> QED BY <3>1, <3>2
  <2> QED BY <2>3, <2>4, <2>5, <2>6, <2>7
<1>19. Holds(c, s, StartRegs(t, f))
  BY <1>9, <1>10, <1>13, <1>17, <1>18, StartRegsAre DEF Holds
<1> QED BY <1>19 DEF c, s

-----------------------------------------------------------------------------
(* Tasks that are not on the processor.                                    *)

\* t is back from its call c as soon as it is switched to.
AtAfter(t, c, s) ==
  LET rg == RESTORE_CONTEXT(s)
  IN /\ Holds(s, StackAt(t, AFTER, c) \o Address(AFTER), rg)
     /\ c \in Codes
     /\ \A r \in Reg \ {SREG, 16, 24, 25} : rg[r] = Own(t, r)
     /\ rg[SREG] = Flags(0)

\* A task whose context was saved at p can be resumed there.
LEMMA SavedSuspended ==
  ASSUME NEW t, NEW c, NEW s, NEW rg, NEW p \in InTask, NEW off, NEW wait,
         Holds(s, StackAt(t, p, c) \o Address(p), rg), GoesOn(t, p, c, rg),
         SavedFlags(p, rg, off), wait => p = AFTER
  PROVE  Suspended(t, c, s, off, wait)
<1>1. RESTORE_CONTEXT(s) = rg
  BY ContextRestored
<1> QED BY <1>1 DEF Suspended

\* A task that trapped goes on after the trap.
LEMMA TrappedAfter ==
  ASSUME NEW t, NEW c, NEW s, Trapped(t, c, s)
  PROVE  AtAfter(t, c, s)
BY DEF Trapped, AtAfter

\* A task that waits for an event goes on after its trap.
LEMMA WaitsAfter ==
  ASSUME NEW t, NEW c, NEW s, NEW off, Suspended(t, c, s, off, TRUE)
  PROVE  AtAfter(t, c, s) /\ c # EXIT
<1>1. PICK p \in InTask :
        /\ Holds(s, StackAt(t, p, c) \o Address(p), RESTORE_CONTEXT(s))
        /\ GoesOn(t, p, c, RESTORE_CONTEXT(s))
        /\ SavedFlags(p, RESTORE_CONTEXT(s), off)
        /\ p = AFTER
  BY DEF Suspended
<1> DEFINE rg == RESTORE_CONTEXT(s)
<1> HIDE DEF rg
<1>2. Holds(s, StackAt(t, AFTER, c) \o Address(AFTER), rg)
  BY <1>1 DEF rg
<1>3. GoesOn(t, AFTER, c, rg) /\ SavedFlags(AFTER, rg, off)
  BY <1>1 DEF rg
<1>4. rg[SREG] = Flags(0)
  BY <1>3, PlacesDiffer DEF SavedFlags
<1>5. c \in Codes /\ c # EXIT /\ \A r \in Reg \ {SREG, 16, 24, 25} : rg[r] = Own(t, r)
  BY <1>3, PlacesDiffer DEF GoesOn
<1> QED BY <1>2, <1>4, <1>5 DEF AtAfter, rg

\* A task that stands after its trap can be resumed there, whatever the flags and
\* the blocked queue say.
LEMMA AfterSuspended ==
  ASSUME NEW t, NEW c, NEW s, NEW off, NEW wait, AtAfter(t, c, s), c # EXIT
  PROVE  Suspended(t, c, s, off, wait)
<1> DEFINE rg == RESTORE_CONTEXT(s)
<1>1. /\ Holds(s, StackAt(t, AFTER, c) \o Address(AFTER), rg)
      /\ c \in Codes /\ rg[SREG] = Flags(0)
      /\ \A r \in Reg \ {SREG, 16, 24, 25} : rg[r] = Own(t, r)
  BY DEF AtAfter
<1> HIDE DEF rg
<1>2. rg \in Regs
  BY <1>1 DEF Holds
<1>3. GoesOn(t, AFTER, c, rg)
  BY <1>1, <1>2, PlacesIn, PlacesDiffer DEF GoesOn
<1>4. SavedFlags(AFTER, rg, off)
  BY <1>1 DEF SavedFlags
<1> QED BY <1>1, <1>3, <1>4, PlacesIn, SavedSuspended

\* What the kernel writes into the context of a task that waits.
LEMMA FieldAfter ==
  ASSUME NEW t, NEW c, NEW s, AtAfter(t, c, s), NEW f \in {16, 24, 25}, NEW b \in Byte
  PROVE  /\ AtAfter(t, c, [s EXCEPT ![At(s, f)] = b])
         /\ \A g \in Reg : At([s EXCEPT ![At(s, f)] = b], g) = At(s, g)
<1> DEFINE rg == RESTORE_CONTEXT(s)
           q == [rg EXCEPT ![f] = b]
           d == [s EXCEPT ![At(s, f)] = b]
           u == StackAt(t, AFTER, c) \o Address(AFTER)
<1>1. /\ Holds(s, u, rg) /\ c \in Codes /\ rg[SREG] = Flags(0)
      /\ \A r \in Reg \ {SREG, 16, 24, 25} : rg[r] = Own(t, r)
  BY DEF AtAfter
<1> HIDE DEF rg, u
<1>2. rg \in Regs
  BY <1>1 DEF Holds
<1>3. f \in Reg /\ f # SREG /\ SREG \in Reg
  BY DEF Reg, SREG
<1>4. Holds(d, u, q)
  BY <1>1, <1>3, FieldWritten
<1>5. q[SREG] = Flags(0) /\ \A r \in Reg \ {SREG, 16, 24, 25} : q[r] = Own(t, r)
  BY <1>1, <1>2, <1>3 DEF Regs
<1> HIDE DEF q
<1>6. RESTORE_CONTEXT(d) = q
  BY <1>4, ContextRestored
<1>7. \A g \in Reg : At(d, g) = Len(u) + PushTurn(g) /\ At(s, g) = Len(u) + PushTurn(g)
  BY <1>1, <1>4, ContextFields
<1> HIDE DEF d
<1>8. AtAfter(t, c, d)
  BY <1>1, <1>4, <1>5, <1>6 DEF AtAfter, u
<1> QED BY <1>7, <1>8 DEF d

\* SETP0 and SET_KCALLCODE write r24, r25 and r16 of a stopped task, and leave it
\* after its trap.
LEMMA AnswerAfter ==
  ASSUME NEW t, NEW c, NEW s, AtAfter(t, c, s)
  PROVE  /\ AtAfter(t, c, SETP0(s)) /\ SETP0(s) \in Seq(Byte)
         /\ AtAfter(t, c, SET_KCALLCODE(s, RECEIVE)) /\ SET_KCALLCODE(s, RECEIVE) \in Seq(Byte)
<1>1. Result(24) \in Byte /\ Result(25) \in Byte /\ CallCode(RECEIVE) \in Byte
  BY BytesAre DEF RECEIVE
<1> DEFINE d == [s EXCEPT ![At(s, 24)] = Result(24)]
<1>2. AtAfter(t, c, d) /\ At(d, 25) = At(s, 25)
  BY <1>1, FieldAfter, RegsAre
<1> HIDE DEF d
<1>3. AtAfter(t, c, [d EXCEPT ![At(d, 25)] = Result(25)])
  BY <1>1, <1>2, FieldAfter
<1>4. SETP0(s) = [d EXCEPT ![At(d, 25)] = Result(25)]
  BY <1>2 DEF SETP0, d
<1>5. AtAfter(t, c, SET_KCALLCODE(s, RECEIVE))
  BY <1>1, FieldAfter DEF SET_KCALLCODE
<1>6. AtAfter(t, c, SETP0(s))
  BY <1>3, <1>4
<1> QED BY <1>5, <1>6 DEF AtAfter, Holds

-----------------------------------------------------------------------------
(* The two switches.                                                       *)

\* Changing the flags alone changes nothing else of where a task goes on.
LEMMA FlagsKept ==
  ASSUME NEW t, NEW p, NEW c, NEW rg, GoesOn(t, p, c, rg), NEW b \in Byte
  PROVE  /\ [rg EXCEPT ![SREG] = b] \in Regs
         /\ GoesOn(t, p, c, [rg EXCEPT ![SREG] = b])
         /\ [rg EXCEPT ![SREG] = b][SREG] = b
<1> DEFINE q == [rg EXCEPT ![SREG] = b]
<1>1. rg \in Regs
  BY DEF GoesOn
<1>2. SREG \in Reg /\ SREG \notin {1, 16, 24, 25} /\ 1 \in Reg /\ 16 \in Reg /\ 24 \in Reg /\ 25 \in Reg
  BY DEF Reg, SREG
<1>3. /\ q \in Regs /\ q[SREG] = b /\ q[1] = rg[1] /\ q[16] = rg[16]
      /\ q[24] = rg[24] /\ q[25] = rg[25]
      /\ \A r \in Reg \ {SREG, 16, 24, 25} : q[r] = rg[r]
  BY <1>1, <1>2 DEF Regs
<1> HIDE DEF q
<1>4. GoesOn(t, p, c, q)
  BY <1>3 DEF GoesOn
<1> QED BY <1>3, <1>4 DEF q

\* The registers the kernel keeps over a switch are bytes.
LEMMA KernelRegsAre == KernelRegs \in Regs
<1>1. \A r \in Reg : Mine(r) \in Byte /\ Flags(0) \in Byte
  BY BytesAre, RegsAre
<1> QED BY <1>1 DEF KernelRegs, Regs

\* switchtokernel() (kernel.c:75-81): the kernel goes on with the registers it had.
LEMMA KernelEntered ==
  ASSUME Types, Holds(stack[0], Address(KERNEL), KernelRegs),
         NEW s \in Seq(Byte), NEW rg \in Regs, switchtokernel(s, rg)
  PROVE  /\ regs' = KernelRegs /\ pc' = KERNEL /\ sp' = 0
         /\ stack' \in [0..Tasks -> Seq(Byte)] /\ stack'[0] = <<>>
         /\ Holds(stack'[current], s, rg)
         /\ \A x \in Task : x # current => stack'[x] = stack[x]
<1> DEFINE k == stack[0]
           a == SAVE_CONTEXT(s, rg)
           b == Popped(k, ContextSize + 2)
           f == [stack EXCEPT ![current] = a]
<1>1. /\ regs' = RESTORE_CONTEXT(k) /\ pc' = Returned(Popped(k, ContextSize))
      /\ sp' = 0 /\ stack' = [f EXCEPT ![0] = b]
  BY DEF switchtokernel
<1>2. Holds(k, Address(KERNEL), KernelRegs)
  OBVIOUS
<1> HIDE DEF k
<1>3. RESTORE_CONTEXT(k) = KernelRegs /\ Popped(k, ContextSize) = Address(KERNEL)
  BY <1>2, ContextRestored
<1>4. Returned(Address(KERNEL)) = KERNEL
  <2>1. <<>> \in Seq(Byte) /\ KERNEL \in Nat
    BY PlacesAre
  <2>2. Address(KERNEL) \in Seq(Byte)
    BY AddressSeq
  <2>3. <<>> \o Address(KERNEL) = Address(KERNEL)
    BY <2>2, ConcatEmptySeq
  <2>4. Returned(<<>> \o Address(KERNEL)) = KERNEL
    BY <2>1, ReturnsTo
  <2> QED BY <2>3, <2>4
<1>5. b = <<>>
  <2>1. Len(Address(KERNEL)) = 2
    BY AddressFacts, PlacesAre
  <2>2. ContextSize = 33
    BY SaveOrderFacts DEF ContextSize
  <2>3. Len(k) = Len(Address(KERNEL)) + 33
    BY <1>2 DEF Holds
  <2>4. Len(k) - (ContextSize + 2) = 0
    BY <2>1, <2>2, <2>3
  <2>5. SubSeq(k, 1, 0) = <<>>
    BY SubSeqEmpty
  <2> QED BY <2>4, <2>5 DEF Popped
<1>6. Holds(a, s, rg)
  BY SavedHolds
<1> HIDE DEF a, b
<1>7. a \in Seq(Byte) /\ b \in Seq(Byte)
  BY <1>5, <1>6 DEF Holds
<1>8. /\ stack \in [0..Tasks -> Seq(Byte)] /\ current \in Task /\ current \in 0..Tasks
      /\ current # 0 /\ 0 \in 0..Tasks
  BY TaskNat DEF Types, HalTypeOK
<1>9. /\ f \in [0..Tasks -> Seq(Byte)] /\ f[current] = a
      /\ \A x \in 0..Tasks : x # current => f[x] = stack[x]
  BY <1>7, <1>8
<1> HIDE DEF f
<1>10. /\ stack' \in [0..Tasks -> Seq(Byte)] /\ stack'[0] = b
       /\ \A x \in 0..Tasks : x # 0 => stack'[x] = f[x]
  BY <1>1, <1>7, <1>8, <1>9
<1>11. stack'[current] = a
  BY <1>8, <1>9, <1>10
<1>12. \A x \in Task : x # current => stack'[x] = stack[x]
  BY <1>9, <1>10, TaskNat
<1> QED BY <1>1, <1>3, <1>4, <1>5, <1>6, <1>10, <1>11, <1>12

\* switch_from_kernel() (kernel.c:84-97): the task goes on where it was stopped.
LEMMA SwitchedTo ==
  ASSUME NEW s \in [0..Tasks -> Seq(Byte)], s[0] = <<>>, regs = KernelRegs,
         NEW t \in Task, NEW c, NEW off, NEW wait, Suspended(t, c, s[t], off, wait),
         switch_from_kernel(t, s)
  PROVE  /\ regs' \in Regs /\ pc' = RESTORED /\ sp' = t /\ current' = t
         /\ stack' \in [0..Tasks -> Seq(Byte)]
         /\ Holds(stack'[0], Address(KERNEL), KernelRegs)
         /\ \A x \in Task : x # t => stack'[x] = s[x]
         /\ \E p \in InTask : /\ stack'[t] = StackAt(t, p, c) \o Address(p)
                              /\ GoesOn(t, p, c, regs')
                              /\ SavedFlags(p, regs', off)
<1> DEFINE a == SAVE_CONTEXT(Pushed(s[0], Address(KERNEL)), regs)
           f == [s EXCEPT ![0] = a]
           b == Popped(s[t], ContextSize)
<1>1. t \in 0..Tasks /\ t # 0 /\ 0 \in 0..Tasks
  BY TaskNat
<1>2. /\ regs' = RESTORE_CONTEXT(s[t]) /\ pc' = RESTORED /\ sp' = t /\ current' = t
      /\ stack' = [f EXCEPT ![t] = Popped(f[t], ContextSize)]
  BY DEF switch_from_kernel
<1>3. Holds(a, Address(KERNEL), KernelRegs)
  <2>1. Address(KERNEL) \in Seq(Byte)
    BY AddressSeq
  <2>2. Pushed(s[0], Address(KERNEL)) = Address(KERNEL)
    BY <2>1, ConcatEmptySeq DEF Pushed
  <2> QED BY <2>1, <2>2, SavedHolds, KernelRegsAre
<1> HIDE DEF a
<1>4. a \in Seq(Byte)
  BY <1>3 DEF Holds
<1>5. f \in [0..Tasks -> Seq(Byte)] /\ f[0] = a /\ \A x \in 0..Tasks : x # 0 => f[x] = s[x]
  BY <1>1, <1>4
<1> HIDE DEF f
<1>6. PICK p \in InTask :
        /\ Holds(s[t], StackAt(t, p, c) \o Address(p), RESTORE_CONTEXT(s[t]))
        /\ GoesOn(t, p, c, RESTORE_CONTEXT(s[t]))
        /\ SavedFlags(p, RESTORE_CONTEXT(s[t]), off)
  BY DEF Suspended
<1>7. b = StackAt(t, p, c) \o Address(p)
  BY <1>6, ContextRestored
<1>8. b \in Seq(Byte)
  BY <1>6, <1>7 DEF Holds
<1>9. stack' = [f EXCEPT ![t] = b]
  BY <1>1, <1>2, <1>5
<1> HIDE DEF b
<1>10. /\ stack' \in [0..Tasks -> Seq(Byte)] /\ stack'[t] = b
       /\ \A x \in 0..Tasks : x # t => stack'[x] = f[x]
  BY <1>1, <1>5, <1>8, <1>9
<1>11. stack'[0] = a
  BY <1>1, <1>5, <1>10
<1>12. \A x \in Task : x # t => stack'[x] = s[x]
  BY <1>5, <1>10, TaskNat
<1>13. regs' \in Regs
  BY <1>2, <1>6 DEF GoesOn
<1>14. \E p_1 \in InTask : /\ stack'[t] = StackAt(t, p_1, c) \o Address(p_1)
                          /\ GoesOn(t, p_1, c, regs')
                          /\ SavedFlags(p_1, regs', off)
  BY <1>2, <1>6, <1>7, <1>10
<1> QED BY <1>2, <1>3, <1>10, <1>11, <1>12, <1>13, <1>14

\* The kernel switches to t: what has to hold of the stacks it prepared.
LEMMA SwitchKeeps ==
  ASSUME HalInv, pc = KERNEL, NEW t \in Task,
         NEW s \in [0..Tasks -> Seq(Byte)], s[0] = <<>>,
         switch_from_kernel(t, s), UNCHANGED code,
         irqdis' \subseteq Task, blocked' \subseteq Task, gone' \subseteq Task,
         event' \in BOOLEAN, blocked' \cap gone' = {}, t \notin blocked', t \notin gone',
         \A x \in Task \ gone' : Suspended(x, code[x], s[x], x \in irqdis', x \in blocked')
  PROVE  HalInv'
<1>1. regs = KernelRegs
  BY DEF HalInv, InKernel
<1>2. Suspended(t, code[t], s[t], t \in irqdis', t \in blocked')
  OBVIOUS
<1>3. /\ regs' \in Regs /\ pc' = RESTORED /\ sp' = t /\ current' = t
      /\ stack' \in [0..Tasks -> Seq(Byte)]
      /\ Holds(stack'[0], Address(KERNEL), KernelRegs)
      /\ \A x \in Task : x # t => stack'[x] = s[x]
      /\ \E p \in InTask : /\ stack'[t] = StackAt(t, p, code[t]) \o Address(p)
                           /\ GoesOn(t, p, code[t], regs')
                           /\ SavedFlags(p, regs', t \in irqdis')
  BY <1>1, <1>2, SwitchedTo
<1>4. RESTORED # KERNEL /\ RESTORED \in InTask
  BY PlacesDiffer, PlacesIn
<1>5. code \in [Task -> Nat] /\ code' = code
  BY DEF HalInv, Types
<1>6. Types'
  <2>1. pc' \in InTask \cup {KERNEL} /\ sp' \in 0..Tasks /\ current' \in Task
    BY <1>3, <1>4, TaskNat
  <2>2. HalTypeOK'
    BY <2>1 DEF HalTypeOK
  <2>3. sp' = IF pc' = KERNEL THEN 0 ELSE current'
    BY <1>3, <1>4
  <2> QED BY <1>3, <1>5, <2>2, <2>3 DEF Types
<1>7. Sets'
  BY <1>3 DEF Sets
<1>8. Others'
  BY <1>3, <1>5 DEF Others
<1>9. InKernel' /\ KernelSaved' /\ Runs'
  BY <1>3, <1>4 DEF InKernel, KernelSaved, Runs
<1>10. Resumes'
  BY <1>3, <1>5 DEF Resumes
<1> QED BY <1>6, <1>7, <1>8, <1>9, <1>10 DEF HalInv

-----------------------------------------------------------------------------
(* The invariant is inductive: the steps of the task on the processor.     *)

\* The tasks as do_setuptask leaves them.
LEMMA HalInitInv == HalInit => HalInv
<1> SUFFICES ASSUME HalInit PROVE HalInv
  OBVIOUS
<1>1. PICK f \in [Task -> {Flags(0), Flags(1)}] :
        stack = [t \in 0..Tasks |-> IF t = 0 THEN <<>> ELSE do_setuptask(t, f[t])]
  BY DEF HalInit
<1>2. stack[0] = <<>> /\ \A t \in Task : stack[t] = do_setuptask(t, f[t])
  BY <1>1, TaskNat
<1>3. \A t \in Task : f[t] \in Byte /\ f[t] \in {Flags(0), Flags(1)}
  BY BytesAre
<1>4. \A t \in Task : Holds(stack[t], StackAt(t, ENTRY, 0) \o Address(ENTRY), StartRegs(t, f[t]))
  BY <1>2, <1>3, SetUp, StackShapes
<1>5. ASSUME NEW t \in Task PROVE Suspended(t, 0, stack[t], FALSE, FALSE)
  <2> DEFINE rg == StartRegs(t, f[t])
  <2>1. Holds(stack[t], StackAt(t, ENTRY, 0) \o Address(ENTRY), rg)
    BY <1>4
  <2>2. /\ rg[24] = Args(t, 24) /\ rg[25] = Args(t, 25) /\ rg[1] = Zero /\ rg[SREG] = f[t]
    BY RegsAre DEF StartRegs, SREG
  <2> HIDE DEF rg
  <2>3. rg \in Regs
    BY <2>1 DEF Holds
  <2>4. GoesOn(t, ENTRY, 0, rg)
    BY <2>2, <2>3, PlacesIn, PlacesDiffer DEF GoesOn
  <2>5. SavedFlags(ENTRY, rg, FALSE)
    BY <2>2, <1>3 DEF SavedFlags
  <2> QED BY <2>1, <2>4, <2>5, PlacesIn, SavedSuspended
<1>6. pc = KERNEL /\ sp = 0 /\ current \in Task /\ irqdis = {} /\ blocked = {} /\ gone = {}
  BY DEF HalInit
<1>7. event = TRUE /\ code = [t \in Task |-> 0] /\ regs = KernelRegs
  BY DEF HalInit, KernelRegs
<1>8. \A t \in 0..Tasks : stack[t] \in Seq(Byte)
  <2>1. \A t \in Task : stack[t] \in Seq(Byte)
    BY <1>4 DEF Holds
  <2>2. stack[0] \in Seq(Byte)
    BY <1>2
  <2>3. \A t \in 0..Tasks : t = 0 \/ t \in Task
    BY HalAssumption DEF Task
  <2> QED BY <2>1, <2>2, <2>3
<1>9. stack \in [0..Tasks -> Seq(Byte)]
  BY <1>1, <1>8
<1>10. Types
  <2>1. pc \in InTask \cup {KERNEL} /\ sp \in 0..Tasks /\ sp = IF pc = KERNEL THEN 0 ELSE current
    BY <1>6, TaskNat
  <2>2. irqdis \subseteq Task /\ blocked \subseteq Task /\ gone \subseteq Task /\ event \in BOOLEAN
    BY <1>6, <1>7
  <2>3. code \in [Task -> Nat] /\ regs \in Regs
    BY <1>7, KernelRegsAre
  <2> QED BY <1>6, <1>9, <2>1, <2>2, <2>3 DEF Types, HalTypeOK
<1>11. Sets /\ KernelSaved
  BY <1>6 DEF Sets, KernelSaved
<1>12. Others
  <2>1. \A t \in Task : code[t] = 0 /\ (t \in irqdis) = FALSE /\ (t \in blocked) = FALSE
    BY <1>6, <1>7
  <2> QED BY <1>5, <2>1 DEF Others
<1>13. InKernel
  <2>1. code[current] = 0 /\ (current \in irqdis) = FALSE
    BY <1>6, <1>7
  <2>2. Suspended(current, code[current], stack[current], current \in irqdis, FALSE)
    BY <1>5, <1>6, <2>1
  <2> QED BY <1>2, <1>7, <2>2 DEF InKernel
<1>14. Runs /\ Resumes
  BY <1>6, PlacesDiffer DEF Runs, Resumes
<1> QED BY <1>10, <1>11, <1>12, <1>13, <1>14 DEF HalInv

\* The task on the processor does something to its registers, its stack and
\* its call only.
TaskStep ==
  /\ pc # KERNEL /\ pc' \in InTask
  /\ UNCHANGED <<sp, Kernelspace>>
  /\ regs' \in Regs /\ stack' \in [0..Tasks -> Seq(Byte)] /\ code' \in [Task -> Nat]
  /\ \A x \in 0..Tasks : x # current => stack'[x] = stack[x]
  /\ \A x \in Task : x # current => code'[x] = code[x]

\* A step of a task keeps the invariant when it keeps what is said of that task.
LEMMA TaskStepKeeps ==
  ASSUME HalInv, TaskStep, Runs', Resumes'
  PROVE  HalInv'
<1>1. /\ pc # KERNEL /\ pc' # KERNEL /\ pc' \in InTask /\ sp' = sp
      /\ irqdis' = irqdis /\ blocked' = blocked /\ gone' = gone /\ current' = current
      /\ event' = event
  BY PlacesAre DEF TaskStep, Kernelspace
<1>2. /\ regs' \in Regs /\ stack' \in [0..Tasks -> Seq(Byte)] /\ code' \in [Task -> Nat]
      /\ \A x \in 0..Tasks : x # current => stack'[x] = stack[x]
      /\ \A x \in Task : x # current => code'[x] = code[x]
  BY DEF TaskStep
<1>3. Types /\ Sets /\ Others /\ KernelSaved
  BY DEF HalInv
<1>4. Types'
  BY <1>1, <1>2, <1>3 DEF Types, HalTypeOK
<1>5. Sets'
  BY <1>1, <1>3 DEF Sets
<1>6. Others'
  BY <1>1, <1>2, <1>3, TaskNat DEF Others
<1>7. current # 0 /\ 0 \in 0..Tasks
  BY <1>3, TaskNat DEF Types, HalTypeOK
<1>8. KernelSaved'
  BY <1>1, <1>2, <1>3, <1>7 DEF KernelSaved
<1>9. InKernel'
  BY <1>1 DEF InKernel
<1> QED BY <1>4, <1>5, <1>6, <1>8, <1>9 DEF HalInv

\* A step of a task touches no other stack.
LEMMA StackStep ==
  ASSUME HalInv, pc # KERNEL, NEW b \in Seq(Byte), stack' = [stack EXCEPT ![sp] = b]
  PROVE  /\ sp = current /\ stack' \in [0..Tasks -> Seq(Byte)] /\ stack'[current] = b
         /\ \A x \in 0..Tasks : x # current => stack'[x] = stack[x]
<1>1. sp = current /\ current \in 0..Tasks /\ stack \in [0..Tasks -> Seq(Byte)]
  BY TaskNat DEF HalInv, Types, HalTypeOK
<1> QED BY <1>1

\* reti of the restored task.
LEMMA ReturnKeeps == HalInv /\ Return => HalInv'
<1> SUFFICES ASSUME HalInv, Return PROVE HalInv'
  OBVIOUS
<1> DEFINE t == current
           c == code[current]
<1>1. Types /\ t \in Task /\ sp = t /\ pc = RESTORED /\ pc # KERNEL
  BY PlacesDiffer DEF HalInv, Types, HalTypeOK, Return
<1>2. PICK p \in InTask :
        /\ stack[t] = StackAt(t, p, c) \o Address(p)
        /\ GoesOn(t, p, c, regs)
        /\ SavedFlags(p, regs, t \in irqdis)
  BY <1>1 DEF HalInv, Resumes
<1>3. StackAt(t, p, c) \in Seq(Byte) /\ p \in Nat
  BY <1>1, <1>2, StackAtSeq, PlacesAre DEF GoesOn
<1>4. pc' = p /\ stack' = [stack EXCEPT ![sp] = StackAt(t, p, c)]
  BY <1>1, <1>2, <1>3, ReturnsTo DEF Return
<1>5. /\ stack' \in [0..Tasks -> Seq(Byte)] /\ stack'[t] = StackAt(t, p, c)
      /\ \A x \in 0..Tasks : x # t => stack'[x] = stack[x]
  BY <1>1, <1>3, <1>4, StackStep
<1>6. /\ regs' \in Regs /\ GoesOn(t, p, c, regs')
      /\ regs'[SREG] = Flags(IF t \in irqdis THEN 0 ELSE 1)
  <2>1. CASE t \in irqdis
    BY <1>2, <2>1 DEF Return, SavedFlags, GoesOn
  <2>2. CASE t \notin irqdis
    <3>1. regs' = [regs EXCEPT ![SREG] = Flags(1)] /\ Flags(1) \in Byte
      BY <2>2, BytesAre DEF Return
    <3>2. /\ [regs EXCEPT ![SREG] = Flags(1)] \in Regs
          /\ GoesOn(t, p, c, [regs EXCEPT ![SREG] = Flags(1)])
          /\ [regs EXCEPT ![SREG] = Flags(1)][SREG] = Flags(1)
      <4>1. GoesOn(t, p, c, regs) /\ Flags(1) \in Byte
        BY <1>2, <3>1
      <4> HIDE DEF t, c
      <4> QED BY <4>1, FlagsKept
    <3> QED BY <2>2, <3>1, <3>2
  <2> QED BY <2>1, <2>2
<1>7. /\ UNCHANGED <<sp, Kernelspace, code>> /\ code \in [Task -> Nat]
      /\ current' = current /\ irqdis' = irqdis /\ code' = code
  BY <1>1 DEF Return, Types, Kernelspace
<1>8. TaskStep
  BY <1>1, <1>4, <1>5, <1>6, <1>7 DEF TaskStep
<1>9. Runs'
  BY <1>4, <1>5, <1>6, <1>7 DEF Runs
<1>10. Resumes'
  <2> SUFFICES ASSUME p = RESTORED PROVE Resumes'
    BY <1>4 DEF Resumes
  <2>1. c = 0
    BY <1>2 DEF GoesOn
  <2>2. stack'[t] = StackAt(t, ENTRY, c) \o Address(ENTRY)
    BY <1>1, <1>5, <2>1, StackShapes
  <2>3. GoesOn(t, ENTRY, c, regs')
    BY <1>6, <2>1, PlacesIn, PlacesDiffer DEF GoesOn
  <2>4. SavedFlags(ENTRY, regs', t \in irqdis)
    BY <1>6 DEF SavedFlags
  <2> QED BY <1>7, <2>2, <2>3, <2>4, PlacesIn DEF Resumes
<1> QED BY <1>8, <1>9, <1>10, TaskStepKeeps

\* What holds at the start of a step in the code of a task.
LEMMA Running ==
  ASSUME HalInv, pc \notin {KERNEL, RESTORED}
  PROVE  /\ current \in Task /\ sp = current /\ pc \in InTask /\ pc # KERNEL
         /\ GoesOn(current, pc, code[current], regs)
         /\ stack[current] = StackAt(current, pc, code[current])
         /\ StackAt(current, pc, code[current]) \in Seq(Byte)
         /\ regs \in Regs /\ stack \in [0..Tasks -> Seq(Byte)] /\ code \in [Task -> Nat]
         /\ regs[SREG] = Flags(IF current \in irqdis THEN 0 ELSE 1)
<1>1. /\ current \in Task /\ sp = current /\ pc \in InTask /\ pc # KERNEL
      /\ regs \in Regs /\ stack \in [0..Tasks -> Seq(Byte)] /\ code \in [Task -> Nat]
  BY DEF HalInv, Types, HalTypeOK
<1>2. /\ GoesOn(current, pc, code[current], regs)
      /\ stack[current] = StackAt(current, pc, code[current])
      /\ regs[SREG] = Flags(IF current \in irqdis THEN 0 ELSE 1)
  BY DEF HalInv, Runs
<1>3. StackAt(current, pc, code[current]) \in Seq(Byte)
  BY <1>1, <1>2, StackAtSeq DEF GoesOn
<1> QED BY <1>1, <1>2, <1>3

\* The step ends at p with stack s and call c.
LEMMA RunsOn ==
  ASSUME HalInv, pc \notin {KERNEL, RESTORED}, UNCHANGED <<sp, Kernelspace>>,
         NEW p \in InTask, p # RESTORED, pc' = p, NEW c \in Nat,
         stack' \in [0..Tasks -> Seq(Byte)], code' \in [Task -> Nat],
         \A x \in 0..Tasks : x # current => stack'[x] = stack[x],
         \A x \in Task : x # current => code'[x] = code[x],
         code'[current] = c, stack'[current] = StackAt(current, p, c),
         GoesOn(current, p, c, regs'), regs'[SREG] = regs[SREG]
  PROVE  HalInv'
<1>1. current' = current /\ irqdis' = irqdis
  BY DEF Kernelspace
<1>2. regs' \in Regs
  BY DEF GoesOn
<1>3. TaskStep
  BY <1>2 DEF TaskStep
<1>4. regs[SREG] = Flags(IF current \in irqdis THEN 0 ELSE 1)
  BY Running
<1>5. Runs'
  BY <1>1, <1>4 DEF Runs
<1>6. Resumes'
  BY DEF Resumes
<1> QED BY <1>3, <1>5, <1>6, TaskStepKeeps

\* The first instruction of a task.
LEMMA EnterKeeps == HalInv /\ Enter => HalInv'
<1> SUFFICES ASSUME HalInv, Enter PROVE HalInv'
  OBVIOUS
<1>1. pc = ENTRY /\ pc \notin {KERNEL, RESTORED}
  BY PlacesDiffer DEF Enter
<1>2. /\ current \in Task /\ GoesOn(current, ENTRY, code[current], regs)
      /\ stack[current] = StackAt(current, ENTRY, code[current])
      /\ regs \in Regs /\ stack \in [0..Tasks -> Seq(Byte)] /\ code \in [Task -> Nat]
  BY <1>1, Running
<1>3. code[current] = 0
  BY <1>2 DEF GoesOn
<1>4. /\ pc' = USER /\ stack' = stack /\ code' = code /\ UNCHANGED <<sp, Kernelspace>>
      /\ regs' = [r \in Reg |-> IF r = SREG THEN regs[r] ELSE Own(current, r)]
  BY DEF Enter
<1>5. regs' \in Regs
  <2>1. \A r \in Reg : Own(current, r) \in Byte /\ regs[r] \in Byte
    BY <1>2, BytesAre, RegsAre, TaskNat DEF Regs
  <2> QED BY <1>4, <2>1 DEF Regs
<1>6. regs'[SREG] = regs[SREG] /\ \A r \in Reg \ {SREG} : regs'[r] = Own(current, r)
  BY <1>4, RegsAre
<1>7. /\ regs'[16] = Own(current, 16) /\ regs'[24] = Own(current, 24)
      /\ regs'[25] = Own(current, 25)
      /\ \A r \in Reg \ {SREG, 16, 24, 25} : regs'[r] = Own(current, r)
  BY <1>6, RegsAre DEF SREG
<1>8. GoesOn(current, USER, 0, regs')
  BY <1>5, <1>7, PlacesIn, PlacesDiffer DEF GoesOn
<1>9. stack'[current] = StackAt(current, USER, 0)
  BY <1>2, <1>3, <1>4, StackShapes
<1>10. code'[current] = 0
  BY <1>3, <1>4
<1>11. USER \in InTask /\ USER # RESTORED
  BY PlacesIn, PlacesDiffer
<1> QED BY <1>1, <1>2, <1>4, <1>6, <1>8, <1>9, <1>10, <1>11, RunsOn

\* KERNEL_CALL (hal.h:208-214): push r16.
LEMMA PushR16Keeps ==
  ASSUME HalInv, NEW c \in {WAIT, SENDREC, SEND, YIELD, IRQDIS, IRQEN, EXIT}, PushR16(c)
  PROVE  HalInv'
<1>1. /\ pc \in {USER, EXITFN, EXITTASK} /\ pc \notin {KERNEL, RESTORED}
      /\ c = EXIT <=> pc # USER
  BY PlacesDiffer DEF PushR16
<1>2. /\ current \in Task /\ GoesOn(current, pc, code[current], regs) /\ sp = current
      /\ stack[current] = StackAt(current, pc, code[current])
      /\ StackAt(current, pc, code[current]) \in Seq(Byte)
      /\ regs \in Regs /\ stack \in [0..Tasks -> Seq(Byte)] /\ code \in [Task -> Nat]
  BY <1>1, Running
<1>3. /\ code[current] = 0 /\ regs[16] = Own(current, 16)
      /\ regs[24] = Own(current, 24) /\ regs[25] = Own(current, 25)
      /\ \A r \in Reg \ {SREG, 16, 24, 25} : regs[r] = Own(current, r)
  BY <1>1, <1>2, PlacesDiffer DEF GoesOn
<1>4. /\ pc' = PUSHED /\ regs' = regs /\ UNCHANGED <<sp, Kernelspace>>
      /\ code' = [code EXCEPT ![current] = c]
      /\ stack' = [stack EXCEPT ![sp] = Pushed(stack[sp], <<regs[16]>>)]
  BY DEF PushR16, Push
<1>5. c \in Codes /\ c \in Nat
  <2>1. c \in 1..7
    BY DEF WAIT, SENDREC, SEND, YIELD, IRQDIS, IRQEN, EXIT
  <2> QED BY <2>1 DEF Codes
<1>6. code' \in [Task -> Nat] /\ code'[current] = c /\ \A x \in Task : x # current => code'[x] = code[x]
  BY <1>2, <1>4, <1>5
<1>7. StackAt(current, pc, 0) = Base(current, c)
  BY <1>1, <1>2, StackShapes DEF Base
<1>8. Pushed(stack[sp], <<regs[16]>>) = StackAt(current, PUSHED, c)
  <2>1. stack[sp] = Base(current, c) /\ regs[16] = Own(current, 16)
    BY <1>2, <1>3, <1>7
  <2>2. Base(current, c) \o <<Own(current, 16)>> = StackAt(current, PUSHED, c)
    BY <1>2, StackShapes
  <2> QED BY <2>1, <2>2 DEF Pushed
<1>9. GoesOn(current, PUSHED, c, regs')
  BY <1>2, <1>3, <1>4, <1>5, PlacesIn, PlacesDiffer DEF GoesOn
<1>10. StackAt(current, PUSHED, c) \in Seq(Byte)
  BY <1>2, PlacesIn, PlacesDiffer, StackAtSeq
<1>11. /\ stack' \in [0..Tasks -> Seq(Byte)] /\ stack'[current] = StackAt(current, PUSHED, c)
       /\ \A x \in 0..Tasks : x # current => stack'[x] = stack[x]
  <2>1. stack' = [stack EXCEPT ![sp] = StackAt(current, PUSHED, c)] /\ pc # KERNEL
    BY <1>1, <1>4, <1>8
  <2> QED BY <1>10, <2>1, StackStep
<1>12. PUSHED \in InTask /\ PUSHED # RESTORED /\ regs'[SREG] = regs[SREG]
  BY <1>4, PlacesIn, PlacesDiffer
<1>13. pc' = PUSHED /\ UNCHANGED <<sp, Kernelspace>>
  BY <1>4
<1> QED BY <1>1, <1>5, <1>6, <1>9, <1>11, <1>12, <1>13, RunsOn

\* The call code goes to r16.
LEMMA LoadR16Keeps == HalInv /\ LoadR16 => HalInv'
<1> SUFFICES ASSUME HalInv, LoadR16 PROVE HalInv'
  OBVIOUS
<1> DEFINE c == code[current]
<1>1. pc = PUSHED /\ pc \notin {KERNEL, RESTORED}
  BY PlacesDiffer DEF LoadR16
<1>2. /\ current \in Task /\ GoesOn(current, PUSHED, c, regs)
      /\ stack[current] = StackAt(current, PUSHED, c)
      /\ regs \in Regs /\ stack \in [0..Tasks -> Seq(Byte)] /\ code \in [Task -> Nat]
  BY <1>1, Running
<1>3. /\ pc' = LOADED /\ stack' = stack /\ code' = code /\ UNCHANGED <<sp, Kernelspace>>
      /\ regs' = [regs EXCEPT ![16] = CallCode(c)]
  BY DEF LoadR16
<1>4. CallCode(c) \in Byte /\ c \in Nat
  BY <1>2, BytesAre
<1>5. /\ regs' \in Regs /\ regs'[16] = CallCode(c) /\ regs'[SREG] = regs[SREG]
      /\ regs'[24] = regs[24] /\ regs'[25] = regs[25]
      /\ \A r \in Reg \ {SREG, 16, 24, 25} : regs'[r] = regs[r]
  BY <1>2, <1>3, <1>4, RegsAre DEF Regs, SREG
<1> HIDE DEF c
<1>6. GoesOn(current, LOADED, c, regs')
  BY <1>2, <1>5, PlacesIn, PlacesDiffer DEF GoesOn
<1>7. stack'[current] = StackAt(current, LOADED, c)
  BY <1>2, <1>3, StackShapes
<1>8. code'[current] = c
  BY <1>3 DEF c
<1>9. LOADED \in InTask /\ LOADED # RESTORED
  BY PlacesIn, PlacesDiffer
<1> QED BY <1>1, <1>2, <1>3, <1>4, <1>5, <1>6, <1>7, <1>8, <1>9, RunsOn

\* call swtrap.
LEMMA CallSwtrapKeeps == HalInv /\ CallSwtrap => HalInv'
<1> SUFFICES ASSUME HalInv, CallSwtrap PROVE HalInv'
  OBVIOUS
<1> DEFINE c == code[current]
<1>1. pc = LOADED /\ pc \notin {KERNEL, RESTORED}
  BY PlacesDiffer DEF CallSwtrap
<1>2. /\ current \in Task /\ GoesOn(current, LOADED, c, regs) /\ sp = current
      /\ stack[current] = StackAt(current, LOADED, c) /\ code \in [Task -> Nat]
  BY <1>1, Running
<1>3. /\ pc' = TRAP /\ regs' = regs /\ code' = code /\ UNCHANGED <<sp, Kernelspace>>
      /\ stack' = [stack EXCEPT ![sp] = Pushed(stack[sp], Address(AFTER))]
  BY DEF CallSwtrap, Push
<1> HIDE DEF c
<1>4. c \in Nat
  BY <1>2 DEF c
<1>5. Pushed(stack[sp], Address(AFTER)) = StackAt(current, TRAP, c)
  BY <1>2, StackShapes DEF Pushed
<1>6. StackAt(current, TRAP, c) \in Seq(Byte)
  BY <1>2, PlacesIn, PlacesDiffer, StackAtSeq
<1>7. /\ stack' \in [0..Tasks -> Seq(Byte)] /\ stack'[current] = StackAt(current, TRAP, c)
      /\ \A x \in 0..Tasks : x # current => stack'[x] = stack[x]
  <2>1. stack' = [stack EXCEPT ![sp] = StackAt(current, TRAP, c)] /\ pc # KERNEL
    BY <1>1, <1>3, <1>5
  <2> QED BY <1>6, <2>1, StackStep
<1>8. GoesOn(current, TRAP, c, regs')
  BY <1>2, <1>3, PlacesIn, PlacesDiffer DEF GoesOn
<1>9. code'[current] = c
  BY <1>3 DEF c
<1>10. TRAP \in InTask /\ TRAP # RESTORED /\ regs'[SREG] = regs[SREG]
  BY <1>3, PlacesIn, PlacesDiffer
<1>11. pc' = TRAP /\ code' = code /\ UNCHANGED <<sp, Kernelspace>>
  BY <1>3
<1> QED BY <1>1, <1>2, <1>4, <1>7, <1>8, <1>9, <1>10, <1>11, RunsOn

\* pop r16 after the trap.
LEMMA PopR16Keeps == HalInv /\ PopR16 => HalInv'
<1> SUFFICES ASSUME HalInv, PopR16 PROVE HalInv'
  OBVIOUS
<1> DEFINE c == code[current]
           b == Base(current, c)
<1>1. pc = AFTER /\ pc \notin {KERNEL, RESTORED}
  BY PlacesDiffer DEF PopR16
<1>2. /\ current \in Task /\ GoesOn(current, AFTER, c, regs) /\ sp = current
      /\ stack[current] = StackAt(current, AFTER, c) /\ code \in [Task -> Nat]
      /\ regs \in Regs
  BY <1>1, Running
<1>3. c # EXIT /\ \A r \in Reg \ {SREG, 16, 24, 25} : regs[r] = Own(current, r)
  BY <1>2, PlacesDiffer DEF GoesOn
<1>4. b = Exits(current) /\ b \in Seq(Byte) /\ stack[current] = b \o <<Own(current, 16)>>
  BY <1>2, <1>3, StackShapes, ExitsSeq DEF Base
<1>5. \A r \in Nat : Own(current, r) \in Byte
  BY <1>2, BytesAre, TaskNat
<1> HIDE DEF b, c
<1>6. stack[sp][Len(stack[sp])] = Own(current, 16) /\ Popped(stack[sp], 1) = b
  BY <1>2, <1>4, <1>5, BytePopped
<1>7. /\ pc' = USER /\ UNCHANGED <<sp, Kernelspace>>
      /\ regs' = [r \in Reg |-> IF r = 16 THEN stack[sp][Len(stack[sp])]
                                ELSE IF r \in {24, 25} THEN Own(current, r) ELSE regs[r]]
      /\ stack' = [stack EXCEPT ![sp] = Popped(stack[sp], 1)]
      /\ code' = [code EXCEPT ![current] = 0]
  BY DEF PopR16
<1>8. regs' = [r \in Reg |-> IF r = 16 THEN Own(current, 16)
                            ELSE IF r \in {24, 25} THEN Own(current, r) ELSE regs[r]]
  BY <1>6, <1>7
<1>9. regs' \in Regs
  <2>1. \A r \in Reg : Own(current, r) \in Byte /\ Own(current, 16) \in Byte /\ regs[r] \in Byte
    BY <1>2, <1>5, RegsAre DEF Regs
  <2> QED BY <1>8, <2>1 DEF Regs
<1>10. /\ regs'[16] = Own(current, 16) /\ regs'[24] = Own(current, 24)
       /\ regs'[25] = Own(current, 25) /\ regs'[SREG] = regs[SREG]
       /\ \A r \in Reg \ {SREG, 16, 24, 25} : regs'[r] = regs[r]
  BY <1>8, RegsAre DEF SREG
<1>11. GoesOn(current, USER, 0, regs')
  BY <1>3, <1>9, <1>10, PlacesIn, PlacesDiffer DEF GoesOn
<1>12. code' \in [Task -> Nat] /\ code'[current] = 0 /\ \A x \in Task : x # current => code'[x] = code[x]
  BY <1>2, <1>7
<1>13. /\ stack' \in [0..Tasks -> Seq(Byte)] /\ stack'[current] = b
       /\ \A x \in 0..Tasks : x # current => stack'[x] = stack[x]
  <2>1. stack' = [stack EXCEPT ![sp] = b] /\ pc # KERNEL /\ b \in Seq(Byte)
    BY <1>1, <1>4, <1>6, <1>7
  <2> QED BY <2>1, StackStep
<1>14. stack'[current] = StackAt(current, USER, 0)
  BY <1>2, <1>4, <1>13, StackShapes
<1>15. USER \in InTask /\ USER # RESTORED /\ 0 \in Nat
  BY PlacesIn, PlacesDiffer
<1>16. pc' = USER /\ UNCHANGED <<sp, Kernelspace>> /\ stack' \in [0..Tasks -> Seq(Byte)]
  BY <1>7, <1>13
<1>17. regs'[SREG] = regs[SREG]
  BY <1>10
<1>18. \A x \in 0..Tasks : x # current => stack'[x] = stack[x]
  BY <1>13
<1> QED BY <1>1, <1>11, <1>12, <1>14, <1>15, <1>16, <1>17, <1>18, RunsOn

\* The function of the task returns to an exit address (kernel.c:189-194).
LEMMA FunctionReturnsKeeps == HalInv /\ FunctionReturns => HalInv'
<1> SUFFICES ASSUME HalInv, FunctionReturns PROVE HalInv'
  OBVIOUS
<1> DEFINE t == current
           p == IF t \in NoExitFn THEN EXITTASK ELSE EXITFN
<1>1. pc = USER /\ pc \notin {KERNEL, RESTORED}
  BY PlacesDiffer DEF FunctionReturns
<1>2. /\ t \in Task /\ GoesOn(t, USER, code[t], regs) /\ sp = t
      /\ stack[t] = StackAt(t, USER, code[t]) /\ code \in [Task -> Nat] /\ regs \in Regs
  BY <1>1, Running
<1>3. code[t] = 0
  BY <1>2 DEF GoesOn
<1>4. p \in {EXITFN, EXITTASK} /\ p \in InTask /\ p # RESTORED /\ p \in Nat
  BY PlacesIn, PlacesDiffer, PlacesAre
<1>5. stack[t] = Rest(t) \o Address(p) /\ Rest(t) \in Seq(Byte)
  BY <1>2, <1>3, StackShapes, RestSeq
<1>6. (p = EXITFN => t \notin NoExitFn) /\ (p = EXITTASK => t \in NoExitFn)
  BY PlacesDiffer
<1> HIDE DEF p
<1>7. Returned(stack[t]) = p /\ Popped(stack[t], 2) = Rest(t)
  BY <1>4, <1>5, ReturnsTo
<1>8. /\ pc' = p /\ regs' = regs /\ code' = code /\ UNCHANGED <<sp, Kernelspace>>
      /\ stack' = [stack EXCEPT ![sp] = Rest(t)]
  BY <1>2, <1>7 DEF FunctionReturns
<1>9. /\ stack' \in [0..Tasks -> Seq(Byte)] /\ stack'[t] = Rest(t)
      /\ \A x \in 0..Tasks : x # t => stack'[x] = stack[x]
  BY <1>1, <1>5, <1>8, StackStep
<1>10. StackAt(t, p, 0) = Rest(t)
  BY <1>2, <1>4, StackShapes
<1>11. GoesOn(t, p, 0, regs')
  BY <1>2, <1>4, <1>6, <1>8, PlacesDiffer DEF GoesOn
<1>12. code'[t] = 0 /\ regs'[SREG] = regs[SREG] /\ pc' = p /\ UNCHANGED <<sp, Kernelspace>> /\ code' = code
  BY <1>3, <1>8
<1>13. stack'[t] = StackAt(t, p, 0)
  BY <1>9, <1>10
<1>14. /\ stack' \in [0..Tasks -> Seq(Byte)] /\ 0 \in Nat
       /\ \A x \in 0..Tasks : x # t => stack'[x] = stack[x]
  BY <1>9
<1> QED BY <1>1, <1>2, <1>4, <1>11, <1>12, <1>13, <1>14, RunsOn

-----------------------------------------------------------------------------
(* Into the kernel.                                                        *)

\* swtrap() (hal.c:143-159): the task is saved and the kernel goes on.
LEMMA swtrapKeeps == HalInv /\ swtrap => HalInv'
<1> SUFFICES ASSUME HalInv, swtrap PROVE HalInv'
  OBVIOUS
<1> DEFINE c == code[current]
           rg == [regs EXCEPT ![SREG] = Flags(0)]
           u == StackAt(current, AFTER, c) \o Address(AFTER)
<1>1. pc = TRAP /\ pc \notin {KERNEL, RESTORED}
  BY PlacesDiffer DEF swtrap
<1>2. /\ current \in Task /\ GoesOn(current, TRAP, c, regs) /\ sp = current
      /\ stack[current] = StackAt(current, TRAP, c) /\ code \in [Task -> Nat]
      /\ StackAt(current, TRAP, c) \in Seq(Byte)
  BY <1>1, Running
<1>3. stack[sp] = u /\ u \in Seq(Byte)
  BY <1>2, StackShapes
<1>4. Flags(0) \in Byte
  BY BytesAre
<1> HIDE DEF c
<1>5. rg \in Regs /\ GoesOn(current, TRAP, c, rg) /\ rg[SREG] = Flags(0)
  BY <1>2, <1>4, FlagsKept
<1>6. switchtokernel(u, rg)
  BY <1>3 DEF swtrap
<1>7. Holds(stack[0], Address(KERNEL), KernelRegs) /\ Types
  BY <1>1 DEF HalInv, KernelSaved
<1> HIDE DEF u, rg
<1>8. /\ regs' = KernelRegs /\ pc' = KERNEL /\ sp' = 0
      /\ stack' \in [0..Tasks -> Seq(Byte)] /\ stack'[0] = <<>>
      /\ Holds(stack'[current], u, rg)
      /\ \A x \in Task : x # current => stack'[x] = stack[x]
  BY <1>3, <1>5, <1>6, <1>7, KernelEntered
<1>9. /\ event' = FALSE /\ current' = current /\ irqdis' = irqdis /\ blocked' = blocked
      /\ gone' = gone /\ code' = code
  BY DEF swtrap
<1>10. RESTORE_CONTEXT(stack'[current]) = rg
  BY <1>8, ContextRestored
<1>11. c \in Codes /\ rg[16] = CallCode(c) /\ \A r \in Reg \ {SREG, 16, 24, 25} : rg[r] = Own(current, r)
  BY <1>5, PlacesDiffer DEF GoesOn
<1>12. Trapped(current, c, stack'[current])
  BY <1>5, <1>8, <1>10, <1>11 DEF Trapped, u
<1>13. Types'
  <2>1. HalTypeOK'
    <3>1. HalTypeOK
      BY <1>7 DEF Types
    <3> QED BY <1>8, <1>9, <3>1, TaskNat DEF HalTypeOK
  <2>2. code' \in [Task -> Nat] /\ regs' \in Regs
    BY <1>2, <1>8, <1>9, KernelRegsAre
  <2> QED BY <1>8, <2>1, <2>2 DEF Types
<1>14. Sets' /\ Others'
  BY <1>8, <1>9 DEF HalInv, Sets, Others
<1>15. InKernel'
  BY <1>8, <1>9, <1>12 DEF InKernel, c
<1>16. KernelSaved' /\ Runs' /\ Resumes'
  BY <1>8, PlacesDiffer DEF KernelSaved, Runs, Resumes
<1> QED BY <1>13, <1>14, <1>15, <1>16 DEF HalInv

\* An interrupt (hal.c:165-200) between any two instructions of a task.
LEMMA IsrKeeps == HalInv /\ Isr => HalInv'
<1> SUFFICES ASSUME HalInv, Isr PROVE HalInv'
  OBVIOUS
<1> DEFINE t == current
           c == code[current]
           rg == [regs EXCEPT ![SREG] = Flags(0)]
           u == stack[sp] \o Address(pc)
<1>1. pc \in InTask /\ pc # KERNEL /\ regs[SREG] = Flags(1)
  BY PlacesAre DEF Isr
<1>2. /\ t \in Task /\ sp = t /\ code \in [Task -> Nat] /\ Types
      /\ Holds(stack[0], Address(KERNEL), KernelRegs)
  BY <1>1 DEF HalInv, Types, HalTypeOK, KernelSaved
<1>3. stack[t] = StackAt(t, pc, c) /\ GoesOn(t, pc, c, regs)
  <2>1. CASE pc # RESTORED
    BY <1>1, <2>1, Running
  <2>2. CASE pc = RESTORED
    <3>1. PICK p \in InTask :
            /\ stack[t] = StackAt(t, p, c) \o Address(p)
            /\ GoesOn(t, p, c, regs)
            /\ SavedFlags(p, regs, t \in irqdis)
      BY <2>2 DEF HalInv, Resumes
    <3>2. p = ENTRY
      BY <1>1, <3>1, BytesDiffer DEF SavedFlags
    <3>3. c = 0
      BY <3>1, <3>2 DEF GoesOn
    <3>4. stack[t] = StackAt(t, RESTORED, c)
      BY <1>2, <3>1, <3>2, <3>3, StackShapes
    <3>5. GoesOn(t, ENTRY, c, regs)
      BY <3>1, <3>2
    <3>6. GoesOn(t, RESTORED, c, regs)
      BY <3>3, <3>5, PlacesIn, PlacesDiffer DEF GoesOn
    <3> QED BY <2>2, <3>4, <3>6
  <2> QED BY <2>1, <2>2
<1>4. Flags(0) \in Byte
  BY BytesAre
<1>5. u = StackAt(t, pc, c) \o Address(pc) /\ u \in Seq(Byte)
  BY <1>1, <1>2, <1>3, StackAtSeq DEF GoesOn
<1> HIDE DEF c
<1>6. rg \in Regs /\ GoesOn(t, pc, c, rg) /\ rg[SREG] = Flags(0)
  BY <1>3, <1>4, FlagsKept
<1>7. switchtokernel(u, rg)
  BY DEF Isr, Pushed
<1> HIDE DEF u, rg
<1>8. /\ regs' = KernelRegs /\ pc' = KERNEL /\ sp' = 0
      /\ stack' \in [0..Tasks -> Seq(Byte)] /\ stack'[0] = <<>>
      /\ Holds(stack'[t], u, rg)
      /\ \A x \in Task : x # t => stack'[x] = stack[x]
  BY <1>2, <1>5, <1>6, <1>7, KernelEntered
<1>9. /\ event' = TRUE /\ current' = current /\ irqdis' = irqdis /\ blocked' = blocked
      /\ gone' = gone /\ code' = code
  BY DEF Isr
<1>10. Suspended(t, c, stack'[t], t \in irqdis, FALSE)
  <2>1. SavedFlags(pc, rg, t \in irqdis)
    BY <1>6 DEF SavedFlags
  <2>2. Holds(stack'[t], StackAt(t, pc, c) \o Address(pc), rg)
    BY <1>5, <1>8
  <2> QED BY <1>1, <1>6, <2>1, <2>2, SavedSuspended
<1>11. Types'
  <2>1. HalTypeOK'
    <3>1. HalTypeOK
      BY <1>2 DEF Types
    <3> QED BY <1>8, <1>9, <3>1, TaskNat DEF HalTypeOK
  <2>2. code' \in [Task -> Nat] /\ regs' \in Regs
    BY <1>2, <1>8, <1>9, KernelRegsAre
  <2> QED BY <1>8, <2>1, <2>2 DEF Types
<1>12. Sets' /\ Others'
  BY <1>8, <1>9 DEF HalInv, Sets, Others
<1>13. InKernel'
  BY <1>8, <1>9, <1>10 DEF InKernel, c
<1>14. KernelSaved' /\ Runs' /\ Resumes'
  BY <1>8, PlacesDiffer DEF KernelSaved, Runs, Resumes
<1> QED BY <1>11, <1>12, <1>13, <1>14 DEF HalInv

-----------------------------------------------------------------------------
(* The kernel.                                                             *)

\* What holds at the kernel's re-entry point.
LEMMA Reentered ==
  ASSUME HalInv, pc = KERNEL
  PROVE  /\ current \in Task /\ stack \in [0..Tasks -> Seq(Byte)] /\ stack[0] = <<>>
         /\ irqdis \subseteq Task /\ blocked \subseteq Task /\ gone \subseteq Task
         /\ event \in BOOLEAN /\ code \in [Task -> Nat]
         /\ current \notin blocked /\ current \notin gone /\ blocked \cap gone = {}
         /\ \A t \in Task \ gone :
              t # current => Suspended(t, code[t], stack[t], t \in irqdis, t \in blocked)
         /\ event => Suspended(current, code[current], stack[current], current \in irqdis, FALSE)
         /\ ~event => Trapped(current, code[current], stack[current])
BY DEF HalInv, Types, HalTypeOK, Sets, Others, InKernel

\* A context changed under a task that waits or has made its call.
LEMMA StackChanged ==
  ASSUME HalInv, pc = KERNEL, NEW w \in Task, NEW b \in Seq(Byte)
  PROVE  /\ [stack EXCEPT ![w] = b] \in [0..Tasks -> Seq(Byte)]
         /\ [stack EXCEPT ![w] = b][0] = <<>> /\ [stack EXCEPT ![w] = b][w] = b
         /\ \A x \in Task : x # w => [stack EXCEPT ![w] = b][x] = stack[x]
<1>1. stack \in [0..Tasks -> Seq(Byte)] /\ stack[0] = <<>> /\ w \in 0..Tasks /\ w # 0 /\ 0 \in 0..Tasks
  BY Reentered, TaskNat
<1>2. \A x \in Task : x \in 0..Tasks
  BY TaskNat
<1> QED BY <1>1, <1>2

\* A blocked task that an event wakes stays after its trap.
LEMMA WokenPlaces ==
  ASSUME HalInv, pc = KERNEL, NEW w \in blocked, NEW off
  PROVE  /\ w \in Task /\ w \notin gone /\ w # current
         /\ SETP0(stack[w]) \in Seq(Byte)
         /\ Suspended(w, code[w], SETP0(stack[w]), off, FALSE)
<1>1. w \in Task /\ w \notin gone /\ w # current /\ (w \in blocked) = TRUE
  BY Reentered
<1>2. Suspended(w, code[w], stack[w], w \in irqdis, TRUE)
  BY <1>1, Reentered
<1>3. AtAfter(w, code[w], stack[w]) /\ code[w] # EXIT
  BY <1>2, WaitsAfter
<1>4. AtAfter(w, code[w], SETP0(stack[w])) /\ SETP0(stack[w]) \in Seq(Byte)
  BY <1>3, AnswerAfter
<1>5. Suspended(w, code[w], SETP0(stack[w]), off, FALSE)
  BY <1>3, <1>4, AfterSuspended
<1> QED BY <1>1, <1>4, <1>5

\* The kernel's handling of an event (kernel.c:337-357).
LEMMA HandleEventKeeps == HalInv /\ HandleEvent => HalInv'
<1> SUFFICES ASSUME HalInv, HandleEvent PROVE HalInv'
  OBVIOUS
<1>1. /\ pc = KERNEL /\ event /\ event' \in BOOLEAN
      /\ irqdis' = irqdis /\ gone' = gone /\ UNCHANGED code
  BY DEF HandleEvent
<1>2. /\ irqdis' \subseteq Task /\ gone' \subseteq Task /\ blocked \subseteq Task
      /\ blocked \cap gone = {}
  BY <1>1, Reentered
<1>3. Suspended(current, code[current], stack[current], current \in irqdis, FALSE)
  BY <1>1, Reentered
<1>4. ASSUME NEW w \in blocked, blocked' = blocked \ {w},
             switch_from_kernel(w, [stack EXCEPT ![w] = SETP0(@)])
      PROVE  HalInv'
  <2> DEFINE s == [stack EXCEPT ![w] = SETP0(stack[w])]
  <2>1. /\ w \in Task /\ w \notin gone /\ w # current /\ SETP0(stack[w]) \in Seq(Byte)
        /\ Suspended(w, code[w], SETP0(stack[w]), w \in irqdis, FALSE)
    BY <1>1, WokenPlaces
  <2>2. /\ s \in [0..Tasks -> Seq(Byte)] /\ s[0] = <<>> /\ s[w] = SETP0(stack[w])
        /\ \A x \in Task : x # w => s[x] = stack[x]
    BY <1>1, <2>1, StackChanged
  <2>3. switch_from_kernel(w, s)
    BY <1>4
  <2> HIDE DEF s
  <2>4. ASSUME NEW x \in Task \ gone'
        PROVE  Suspended(x, code[x], s[x], x \in irqdis', x \in blocked')
    <3>1. CASE x = w
      <4>1. (x \in blocked') = FALSE
        BY <1>4, <3>1
      <4> QED BY <1>1, <2>1, <2>2, <3>1, <4>1
    <3>2. CASE x = current
      <4>1. (x \in blocked') = FALSE /\ s[x] = stack[x]
        BY <1>1, <1>4, <2>1, <2>2, <3>2, Reentered
      <4> QED BY <1>1, <1>3, <3>2, <4>1
    <3>3. CASE x # w /\ x # current
      <4>1. (x \in blocked') = (x \in blocked) /\ s[x] = stack[x] /\ x \in Task \ gone
        BY <1>1, <1>4, <2>2, <3>3
      <4>2. Suspended(x, code[x], stack[x], x \in irqdis, x \in blocked)
        BY <1>1, <3>3, <4>1, Reentered
      <4> QED BY <1>1, <4>1, <4>2
    <3> QED BY <3>1, <3>2, <3>3
  <2>5. blocked' \subseteq Task /\ blocked' \cap gone' = {} /\ w \notin blocked' /\ w \notin gone'
    BY <1>1, <1>2, <1>4, <2>1
  <2> QED BY <1>1, <1>2, <2>1, <2>2, <2>3, <2>4, <2>5, SwitchKeeps
<1>5. ASSUME switch_from_kernel(current, stack), blocked' = blocked
      PROVE  HalInv'
  <2>1. /\ stack \in [0..Tasks -> Seq(Byte)] /\ stack[0] = <<>> /\ current \in Task
        /\ current \notin blocked /\ current \notin gone
    BY <1>1, Reentered
  <2>2. ASSUME NEW x \in Task \ gone'
        PROVE  Suspended(x, code[x], stack[x], x \in irqdis', x \in blocked')
    <3>1. CASE x = current
      <4>1. (x \in blocked') = FALSE
        BY <1>5, <2>1, <3>1
      <4> QED BY <1>1, <1>3, <3>1, <4>1
    <3>2. CASE x # current
      BY <1>1, <1>5, <3>2, Reentered
    <3> QED BY <3>1, <3>2
  <2>3. blocked' \subseteq Task /\ blocked' \cap gone' = {} /\ current \notin blocked' /\ current \notin gone'
    BY <1>1, <1>2, <1>5, <2>1
  <2> QED BY <1>1, <1>2, <1>5, <2>1, <2>2, <2>3, SwitchKeeps
<1> QED BY <1>4, <1>5 DEF HandleEvent

\* A call of CURRENT is handled: only its own context and its own place in
\* the kernel's sets change.
LEMMA CallKeeps ==
  ASSUME HalInv, pc = KERNEL, ~event, UNCHANGED <<event, code>>,
         NEW t \in Task, NEW s \in [0..Tasks -> Seq(Byte)], s[0] = <<>>,
         \A x \in Task : x # current => s[x] = stack[x],
         switch_from_kernel(t, s), t \notin blocked', t \notin gone',
         irqdis' \subseteq Task, blocked' \subseteq Task, gone' \subseteq Task,
         \A x \in Task : x # current => /\ (x \in irqdis') = (x \in irqdis)
                                       /\ (x \in blocked') = (x \in blocked)
                                       /\ (x \in gone') = (x \in gone),
         ~(current \in blocked' /\ current \in gone'),
         current \notin gone' => AtAfter(current, code[current], s[current]) /\ code[current] # EXIT
  PROVE  HalInv'
<1>1. ASSUME NEW x \in Task \ gone'
      PROVE  Suspended(x, code[x], s[x], x \in irqdis', x \in blocked')
  <2>1. CASE x = current
    BY <2>1, AfterSuspended
  <2>2. CASE x # current
    <3>1. x \in Task \ gone /\ s[x] = stack[x]
      BY <2>2
    <3>2. Suspended(x, code[x], stack[x], x \in irqdis, x \in blocked)
      BY <2>2, <3>1, Reentered
    <3>3. (x \in irqdis') = (x \in irqdis) /\ (x \in blocked') = (x \in blocked)
      BY <2>2
    <3> QED BY <3>1, <3>2, <3>3
  <2> QED BY <2>1, <2>2
<1>2. blocked' \cap gone' = {}
  <2>1. blocked \cap gone = {}
    BY Reentered
  <2> SUFFICES ASSUME NEW x \in blocked', x \in gone' PROVE FALSE
    OBVIOUS
  <2>2. x \in Task /\ x # current
    OBVIOUS
  <2> QED BY <2>1, <2>2
<1>3. event' \in BOOLEAN /\ UNCHANGED code
  BY Reentered
<1> QED BY <1>1, <1>2, <1>3, SwitchKeeps

\* The kernel reads the code of the call the task made.
LEMMA CallCodeSeen ==
  ASSUME HalInv, pc = KERNEL, ~event
  PROVE  /\ Field(stack[current], RetHigh) = High(AFTER)
         /\ GET_KCALLCODE(stack[current]) = CallCode(code[current])
<1> DEFINE c == code[current]
           rg == RESTORE_CONTEXT(stack[current])
           a == StackAt(current, AFTER, c)
           u == a \o Address(AFTER)
<1>1. current \in Task /\ Trapped(current, c, stack[current])
  BY Reentered
<1>2. Holds(stack[current], u, rg) /\ rg[16] = CallCode(c)
  BY <1>1 DEF Trapped
<1>3. a \in Seq(Byte) /\ AFTER \in Nat
  BY <1>1, StackAtSeq, PlacesIn, PlacesAre, PlacesDiffer
<1> HIDE DEF a, rg, c
<1>4. Len(u) = Len(a) + 2 /\ u[Len(a) + 2] = High(AFTER)
  BY <1>3, AddressPushed
<1>5. Len(a) \in Nat
  BY <1>3
<1>6. Len(u) > 0 /\ u[Len(u)] = High(AFTER)
  BY <1>4, <1>5
<1> HIDE DEF u
<1>7. Field(stack[current], 16) = rg[16] /\ Field(stack[current], RetHigh) = u[Len(u)]
  BY <1>2, <1>6, ContextFields, RegsAre
<1> QED BY <1>2, <1>6, <1>7 DEF GET_KCALLCODE, c

\* The kernel's handling of a call (kernel.c:359-463).
LEMMA HandleCallKeeps == HalInv /\ HandleCall => HalInv'
<1> SUFFICES ASSUME HalInv, HandleCall PROVE HalInv'
  OBVIOUS
<1> DEFINE c == GET_KCALLCODE(stack[current])
           k == code[current]
           s == [stack EXCEPT ![current] = SETP0(@)]
           q == [stack EXCEPT ![current] = SET_KCALLCODE(@, RECEIVE)]
<1>1. pc = KERNEL /\ ~event /\ UNCHANGED <<event, code>>
  BY DEF HandleCall
<1>2. c = CallCode(k)
  BY <1>1, CallCodeSeen
<1>3. /\ current \in Task /\ stack \in [0..Tasks -> Seq(Byte)] /\ stack[0] = <<>>
      /\ irqdis \subseteq Task /\ blocked \subseteq Task /\ gone \subseteq Task
      /\ current \notin blocked /\ current \notin gone /\ k \in Nat
  BY <1>1, Reentered
<1>4. AtAfter(current, k, stack[current])
  BY <1>1, Reentered, TrappedAfter
<1>5. /\ s \in [0..Tasks -> Seq(Byte)] /\ s[0] = <<>>
      /\ \A x \in Task : x # current => s[x] = stack[x]
      /\ AtAfter(current, k, s[current])
  <2>1. AtAfter(current, k, SETP0(stack[current])) /\ SETP0(stack[current]) \in Seq(Byte)
    BY <1>4, AnswerAfter
  <2> QED BY <1>1, <1>3, <2>1, StackChanged
<1>6. /\ q \in [0..Tasks -> Seq(Byte)] /\ q[0] = <<>>
      /\ \A x \in Task : x # current => q[x] = stack[x]
      /\ AtAfter(current, k, q[current])
  <2>1. /\ AtAfter(current, k, SET_KCALLCODE(stack[current], RECEIVE))
        /\ SET_KCALLCODE(stack[current], RECEIVE) \in Seq(Byte)
    BY <1>4, AnswerAfter
  <2> QED BY <1>1, <1>3, <2>1, StackChanged
<1>7. \A e \in {WAIT, SENDREC, SEND, YIELD, IRQDIS, IRQEN} : c = CallCode(e) => k # EXIT
  <2>1. \A e \in {WAIT, SENDREC, SEND, YIELD, IRQDIS, IRQEN} : e \in Nat /\ e # EXIT
    BY DEF WAIT, SENDREC, SEND, YIELD, IRQDIS, IRQEN, EXIT
  <2> QED BY <1>2, <1>3, <2>1, BytesDiffer
<1> HIDE DEF c, k, s, q
<1>8. ASSUME c = CallCode(YIELD), NEW t \in Runnable(blocked, gone), switch_from_kernel(t, s),
             UNCHANGED <<irqdis, blocked, gone>>
      PROVE  HalInv'
  <2>1. t \in Task /\ t \notin blocked' /\ t \notin gone' /\ k # EXIT
    BY <1>7, <1>8 DEF Runnable
  <2> QED BY <1>1, <1>3, <1>5, <1>8, <2>1, CallKeeps DEF k
<1>9. ASSUME c \in {CallCode(WAIT), CallCode(SEND)}, blocked' = blocked \cup {current},
             NEW t \in Runnable(blocked', gone), switch_from_kernel(t, stack),
             UNCHANGED <<irqdis, gone>>
      PROVE  HalInv'
  <2>1. t \in Task /\ t \notin blocked' /\ t \notin gone' /\ k # EXIT
    BY <1>7, <1>9 DEF Runnable
  <2>2. /\ blocked' \subseteq Task /\ irqdis' \subseteq Task /\ gone' \subseteq Task /\ current \notin gone'
        /\ \A x \in Task : x # current => /\ (x \in irqdis') = (x \in irqdis)
                                          /\ (x \in blocked') = (x \in blocked)
                                          /\ (x \in gone') = (x \in gone)
    BY <1>3, <1>9
  <2> QED BY <1>1, <1>3, <1>4, <1>9, <2>1, <2>2, CallKeeps DEF k
<1>10. ASSUME c = CallCode(SENDREC), blocked' = blocked \cup {current},
              NEW t \in Runnable(blocked', gone), switch_from_kernel(t, q),
              UNCHANGED <<irqdis, gone>>
       PROVE  HalInv'
  <2>1. t \in Task /\ t \notin blocked' /\ t \notin gone' /\ k # EXIT
    BY <1>7, <1>10 DEF Runnable
  <2>2. /\ blocked' \subseteq Task /\ irqdis' \subseteq Task /\ gone' \subseteq Task /\ current \notin gone'
        /\ \A x \in Task : x # current => /\ (x \in irqdis') = (x \in irqdis)
                                          /\ (x \in blocked') = (x \in blocked)
                                          /\ (x \in gone') = (x \in gone)
    BY <1>3, <1>10
  <2> QED BY <1>1, <1>3, <1>6, <1>10, <2>1, <2>2, CallKeeps DEF k
<1>11. ASSUME c = CallCode(SEND), NEW w \in blocked, blocked' = blocked \ {w},
              switch_from_kernel(current, [stack EXCEPT ![w] = SETP0(@)]),
              UNCHANGED <<irqdis, gone>>
       PROVE  HalInv'
  <2> DEFINE v == [stack EXCEPT ![w] = SETP0(stack[w])]
  <2>1. /\ w \in Task /\ w \notin gone /\ w # current /\ SETP0(stack[w]) \in Seq(Byte)
        /\ Suspended(w, code[w], SETP0(stack[w]), w \in irqdis, FALSE)
    BY <1>1, WokenPlaces
  <2>2. /\ v \in [0..Tasks -> Seq(Byte)] /\ v[0] = <<>> /\ v[w] = SETP0(stack[w])
        /\ \A x \in Task : x # w => v[x] = stack[x]
    BY <1>1, <2>1, StackChanged
  <2>3. switch_from_kernel(current, v)
    BY <1>11
  <2>4. k # EXIT
    BY <1>7, <1>11
  <2> HIDE DEF v
  <2>5. ASSUME NEW x \in Task \ gone'
        PROVE  Suspended(x, code[x], v[x], x \in irqdis', x \in blocked')
    <3>1. CASE x = w
      <4>1. (x \in blocked') = FALSE /\ irqdis' = irqdis
        BY <1>11, <3>1
      <4> QED BY <2>1, <2>2, <3>1, <4>1
    <3>2. CASE x = current
      <4>1. v[x] = stack[x]
        BY <1>3, <2>1, <2>2, <3>2
      <4>2. AtAfter(x, code[x], v[x]) /\ code[x] # EXIT
        BY <1>4, <2>4, <3>2, <4>1 DEF k
      <4> QED BY <4>2, AfterSuspended
    <3>3. CASE x # w /\ x # current
      <4>1. (x \in blocked') = (x \in blocked) /\ v[x] = stack[x] /\ x \in Task \ gone /\ irqdis' = irqdis
        BY <1>11, <2>2, <3>3
      <4>2. Suspended(x, code[x], stack[x], x \in irqdis, x \in blocked)
        BY <1>1, <3>3, <4>1, Reentered
      <4> QED BY <4>1, <4>2
    <3> QED BY <3>1, <3>2, <3>3
  <2>6. /\ irqdis' \subseteq Task /\ blocked' \subseteq Task /\ gone' \subseteq Task /\ event' \in BOOLEAN
        /\ blocked' \cap gone' = {} /\ current \notin blocked' /\ current \notin gone' /\ UNCHANGED code
    BY <1>1, <1>3, <1>11, Reentered
  <2> QED BY <1>1, <1>3, <2>2, <2>3, <2>5, <2>6, SwitchKeeps
<1>12. ASSUME c \in {CallCode(IRQDIS), CallCode(IRQEN)},
              irqdis' = irqdis \cup {current} \/ irqdis' = irqdis \ {current},
              switch_from_kernel(current, stack), UNCHANGED <<blocked, gone>>
       PROVE  HalInv'
  <2>1. k # EXIT
    BY <1>7, <1>12
  <2>2. /\ blocked' \subseteq Task /\ irqdis' \subseteq Task /\ gone' \subseteq Task
        /\ current \notin gone' /\ current \notin blocked'
        /\ \A x \in Task : x # current => /\ (x \in irqdis') = (x \in irqdis)
                                          /\ (x \in blocked') = (x \in blocked)
                                          /\ (x \in gone') = (x \in gone)
    BY <1>3, <1>12
  <2> QED BY <1>1, <1>3, <1>4, <1>12, <2>1, <2>2, CallKeeps DEF k
<1>13. ASSUME gone' = gone \cup {current}, NEW t \in Runnable(blocked, gone'),
              switch_from_kernel(t, stack), UNCHANGED <<irqdis, blocked>>
       PROVE  HalInv'
  <2>1. t \in Task /\ t \notin blocked' /\ t \notin gone'
    BY <1>13 DEF Runnable
  <2>2. /\ blocked' \subseteq Task /\ irqdis' \subseteq Task /\ gone' \subseteq Task
        /\ current \in gone' /\ current \notin blocked'
        /\ \A x \in Task : x # current => /\ (x \in irqdis') = (x \in irqdis)
                                          /\ (x \in blocked') = (x \in blocked)
                                          /\ (x \in gone') = (x \in gone)
    BY <1>3, <1>13
  <2> QED BY <1>1, <1>3, <1>13, <2>1, <2>2, CallKeeps
<1>14. \/ \E t \in Runnable(blocked, gone) :
              c = CallCode(YIELD) /\ switch_from_kernel(t, s) /\ UNCHANGED <<irqdis, blocked, gone>>
       \/ /\ c \in {CallCode(WAIT), CallCode(SEND)} /\ blocked' = blocked \cup {current}
          /\ \E t \in Runnable(blocked', gone) : switch_from_kernel(t, stack)
          /\ UNCHANGED <<irqdis, gone>>
       \/ /\ c = CallCode(SENDREC) /\ blocked' = blocked \cup {current}
          /\ \E t \in Runnable(blocked', gone) : switch_from_kernel(t, q)
          /\ UNCHANGED <<irqdis, gone>>
       \/ /\ c = CallCode(SEND)
          /\ \E w \in blocked : /\ blocked' = blocked \ {w}
                                /\ switch_from_kernel(current, [stack EXCEPT ![w] = SETP0(@)])
          /\ UNCHANGED <<irqdis, gone>>
       \/ /\ c = CallCode(IRQDIS) /\ irqdis' = irqdis \cup {current}
          /\ switch_from_kernel(current, stack) /\ UNCHANGED <<blocked, gone>>
       \/ /\ c = CallCode(IRQEN) /\ irqdis' = irqdis \ {current}
          /\ switch_from_kernel(current, stack) /\ UNCHANGED <<blocked, gone>>
       \/ /\ gone' = gone \cup {current}
          /\ \E t \in Runnable(blocked, gone') : switch_from_kernel(t, stack)
          /\ UNCHANGED <<irqdis, blocked>>
  BY Zenon DEF HandleCall, c, s, q
<1> QED BY <1>8, <1>9, <1>10, <1>11, <1>12, <1>13, <1>14

-----------------------------------------------------------------------------

\* Every step keeps the invariant.
LEMMA HalNextKeeps == HalInv /\ [HalNext]_HalVars => HalInv'
<1> SUFFICES ASSUME HalInv, [HalNext]_HalVars PROVE HalInv'
  OBVIOUS
<1>1. CASE UNCHANGED HalVars
  BY <1>1 DEF HalVars, HalInv, Types, HalTypeOK, Sets, Others, InKernel, KernelSaved, Runs, Resumes
<1>2. ASSUME NEW c \in {WAIT, SENDREC, SEND, YIELD, IRQDIS, IRQEN, EXIT}, PushR16(c) PROVE HalInv'
  BY <1>2, PushR16Keeps
<1> QED BY <1>1, <1>2, ReturnKeeps, EnterKeeps, LoadR16Keeps, CallSwtrapKeeps, swtrapKeeps,
           PopR16Keeps, FunctionReturnsKeeps, IsrKeeps, HandleEventKeeps, HandleCallKeeps DEF HalNext

\* HalInv holds always.
LEMMA HalInvariant == HalSpec => []HalInv
<1>1. HalInit => HalInv
  BY HalInitInv
<1>2. HalInv /\ [HalNext]_HalVars => HalInv'
  BY HalNextKeeps
<1> QED BY <1>1, <1>2, PTL DEF HalSpec

(* A task does not notice interrupts, other tasks or its own kernel calls, *)
(* and the kernel gets its registers and its stack back (hal.h: the pushes *)
(* of SAVE_CONTEXT, the pops of RESTORE_CONTEXT and cpu_context_t).        *)
THEOREM RegistersKeptAlways == HalSpec => []RegistersKept
<1>1. HalInv => RegistersKept
  <2> SUFFICES ASSUME HalInv PROVE RegistersKept
    OBVIOUS
  <2>1. HalTypeOK
    BY DEF HalInv, Types
  <2>2. KernelKept
    BY DEF HalInv, InKernel, KernelKept, KernelRegs
  <2>3. ASSUME pc \in {USER, PUSHED, LOADED, TRAP, AFTER}
        PROVE  /\ \A r \in Reg \ {SREG, 16, 24, 25} : regs[r] = Own(current, r)
               /\ pc \in {USER, PUSHED} => regs[16] = Own(current, 16)
               /\ pc \in {LOADED, TRAP} => regs[16] = CallCode(code[current])
               /\ pc # AFTER => \A r \in {24, 25} : regs[r] = Own(current, r)
               /\ ~Left(current) => stack[current] = Exits(current) \o Frame(current, pc)
    <3>1. pc \notin {KERNEL, RESTORED, ENTRY, EXITFN, EXITTASK}
      BY <2>3, PlacesDiffer
    <3>2. /\ GoesOn(current, pc, code[current], regs)
          /\ stack[current] = StackAt(current, pc, code[current])
      BY <3>1, Running
    <3>3. ~Left(current) => stack[current] = Exits(current) \o Frame(current, pc)
      BY <3>1, <3>2 DEF Left, StackAt
    <3>4. GoesOn(current, pc, code[current], regs)
      BY <3>2
    <3> QED BY <3>1, <3>3, <3>4 DEF GoesOn
  <2> QED BY <2>1, <2>2, <2>3 DEF RegistersKept
<1> QED BY <1>1, HalInvariant, PTL

(* The kernel takes an entry for a kernel call only when the task trapped, *)
(* and then finds the code of that very call (kernel.c:341).               *)
THEOREM TrapOnlyAlways == HalSpec => []TrapOnly
<1>1. HalInv => TrapOnly
  BY CallCodeSeen DEF TrapOnly
<1> QED BY <1>1, HalInvariant, PTL

(* Interrupts are off for exactly the tasks that called kirqdis(), and in  *)
(* the kernel (kernel.c:92: RET or RETI).                                  *)
THEOREM IrqFlagAlways == HalSpec => []IrqFlag
<1>1. HalInv => IrqFlag
  <2> SUFFICES ASSUME HalInv PROVE IrqFlag
    OBVIOUS
  <2>1. ASSUME pc \in InTask \ {RESTORED} PROVE regs[SREG] = Flags(0) <=> current \in irqdis
    <3>1. pc \notin {KERNEL, RESTORED}
      BY <2>1, PlacesAre
    <3>2. regs[SREG] = Flags(IF current \in irqdis THEN 0 ELSE 1)
      BY <3>1, Running
    <3> QED BY <3>2, BytesDiffer
  <2>2. ASSUME pc = KERNEL PROVE regs[SREG] = Flags(0)
    BY <2>2, RegsAre DEF HalInv, InKernel, KernelRegs
  <2> QED BY <2>1, <2>2 DEF IrqFlag
<1> QED BY <1>1, HalInvariant, PTL

(* A task starts with its argument, with zero in r1 and with its exit      *)
(* functions under its function (kernel.c:181, do_setuptask).              *)
THEOREM StartsRightAlways == HalSpec => []StartsRight
<1>1. HalInv => StartsRight
  <2> SUFFICES ASSUME HalInv PROVE StartsRight
    OBVIOUS
  <2>1. ASSUME pc \in {ENTRY, EXITFN, EXITTASK}
        PROVE  /\ current \in Task /\ GoesOn(current, pc, code[current], regs)
               /\ stack[current] = StackAt(current, pc, code[current])
    BY <2>1, PlacesDiffer, Running
  <2>2. ASSUME pc = ENTRY
        PROVE  /\ \A r \in {24, 25} : regs[r] = Args(current, r)
               /\ regs[1] = Zero /\ stack[current] = Exits(current)
    <3>1. /\ current \in Task /\ GoesOn(current, ENTRY, code[current], regs)
          /\ stack[current] = StackAt(current, ENTRY, code[current])
      BY <2>1, <2>2
    <3>2. code[current] = 0 /\ regs[24] = Args(current, 24) /\ regs[25] = Args(current, 25) /\ regs[1] = Zero
      BY <3>1 DEF GoesOn
    <3>3. stack[current] = Exits(current)
      BY <3>1, <3>2, StackShapes
    <3> QED BY <3>2, <3>3
  <2>3. (pc = EXITFN => current \notin NoExitFn) /\ (pc = EXITTASK => current \in NoExitFn)
    BY <2>1, PlacesDiffer DEF GoesOn
  <2> QED BY <2>2, <2>3 DEF StartsRight
<1> QED BY <1>1, HalInvariant, PTL

-----------------------------------------------------------------------------
(***************************************************************************)
(* The tty driver, the usart event task and vfs between them (tty.c),      *)
(* under the interrupts of the usart, for any set of clients and           *)
(* characters and any length of tbuf.                                      *)
(***************************************************************************)

\* What rd_q and wr_q hold.
ReadRequest == [cmd : {"RX"}, client : {NONE}, data : Char \cup {EOF}]
                 \cup [cmd : {"READC"}, client : Client, data : {NONE}]
WriteRequest == [cmd : {"TX"}, client : {NONE}, data : {NONE}]
                  \cup [cmd : {"WRITEC"}, client : Client \cup {NONE}, data : Client \cup Char]

OneKind(q) == \A i, j \in DOMAIN q : q[i].cmd = q[j].cmd
OnHold(q, c) == \E i \in DOMAIN q : q[i].client = c

State == [rd : Seq(ReadRequest), wr : Seq(WriteRequest), buf : Seq(Char), over : BOOLEAN,
          free : SUBSET (Client \cup {NONE}), got : Seq(Char \cup {EOF}),
          asked : Seq(Client \cup Char), out : Seq(Client \cup Char)]

\* What readers have got or will get next, what is sent or will be.
Seen(s) == s.got \o Data(s.rd, "RX")
Sent(s) == s.out \o Data(s.wr, "WRITEC")

\* The line as readers will see it.
Ints(buf) == [i \in DOMAIN buf |-> AsInt(buf[i])]

\* The characters of the line are among the last ones taken, and none of
\* those ended a line.
Ends == {"NL", "^C", "^D"}
Recent(buf, s) ==
  /\ Len(buf) <= Len(s)
  /\ \A j \in (Len(s) - Len(buf) + 1)..Len(s) : s[j] \notin Ends

Ready(t) == cur = t \/ t \in Range(high)

\* A message about an interrupt is on its way to the driver.
AtEv(what) == evmsg = what /\ (cur = "ev" \/ ev = "blocked")
AtVfs(what) == vmsg = what /\ vfs \in {"int", "asked"}

\* vfs, the driver and pm are ready exactly when they have something to do, pm
\* waits while vfs works for it, and the event task is blocked only while vfs is.
Scheduled ==
  /\ IsInjective(high) /\ cur \notin Range(high)
  /\ cur = "user" => high = <<>>
  /\ Ready("vfs") <=> vfs \in {"int", "pm", "done"}
  /\ Ready("tty") <=> vfs = "asked"
  /\ Ready("pm") <=> pm = "ready"
  /\ vfs = "pm" => pm = "vfs"
  /\ cur = "ev" => ev = "wait"
  /\ ev = "blocked" => vfs # "receive"

\* A receive message is about a character that came in; unless an interrupt came
\* to pm or ex before vfs was done, nothing stale is read and the event task never waits
\* for vfs.
Fresh ==
  /\ AtEv("RX") \/ AtVfs("RX") => rx # <<>> \/ udr \in Char
  /\ ~hit => /\ ~stale /\ ev # "blocked"
             /\ cur = "ev" => vfs = "receive"
             /\ AtEv("RX") \/ AtVfs("RX") => rx # <<>>

\* Who runs, who is ready, and what the messages are.
TtyTasks ==
  /\ cur \in {"user", "pm", "ex", "ev", "vfs", "tty"}
  /\ high \in Seq({"pm", "ex", "vfs", "tty"})
  /\ ev \in {"wait", "blocked"} /\ evmsg \in {"RX", "TX", NONE}
  /\ vfs \in {"receive", "int", "asked", "pm", "done"} /\ vmsg \in {"RX", "TX", NONE}
  /\ pm \in {"receive", "ready", "ex", "send", "vfs"}
  /\ hit \in BOOLEAN /\ stale \in BOOLEAN

\* The usart's interrupt masks, flags and receive buffer.
Registers ==
  /\ rxcie \in BOOLEAN /\ txcie \in BOOLEAN /\ busy \in BOOLEAN /\ txc \in BOOLEAN
  /\ rx \in Seq(Char) /\ Len(rx) <= RXFIFO /\ udr \in Char \cup {NONE}

\* A queue holds requests or interrupts, never both; a client that waits is held.
Queues ==
  /\ Driver \in State /\ taken \in Seq(Char)
  /\ client \in [Client -> {"run", "read", "write"}]
  /\ OneKind(rd_q) /\ OneKind(wr_q)
  /\ \A c \in Client : /\ client[c] = "read" => OnHold(rd_q, c)
                       /\ client[c] = "write" => OnHold(wr_q, c)

\* Output leaves in the order it was asked for; readers see what the line editor
\* makes of the characters taken.
Lines ==
  /\ Sent(Driver) = asked
  /\ Edited(taken).text = Seen(Driver) /\ Edited(taken).line = Ints(tbuf)
  /\ Recent(tbuf, taken) /\ OverrunByLongLine

\* At most one end of transmission is under way, and exactly one unless an
\* interrupt came to pm or ex before vfs was done.
Tokens == TxTokens <= 1 /\ (hit \/ TxTokens = 1)

TtyInv == TtyTasks /\ Registers /\ Scheduled /\ Fresh /\ Queues /\ Lines /\ Tokens

-----------------------------------------------------------------------------
(* Sequences.                                                              *)

\* What is put behind the second of two sequences is behind both.
LEMMA AppendConcat ==
  ASSUME NEW S, NEW a \in Seq(S), NEW b \in Seq(S), NEW x \in S
  PROVE  a \o Append(b, x) = Append(a \o b, x)
<1>1. <<x>> \in Seq(S) /\ a \o b \in Seq(S)
  BY ConcatProperties
<1>2. Append(b, x) = b \o <<x>> /\ Append(a \o b, x) = (a \o b) \o <<x>>
  BY <1>1, AppendIsConcat
<1> QED
  BY <1>1, <1>2, ConcatAssociative

\* Nothing changes when the first of the second becomes the last of the first.
LEMMA HeadConcat ==
  ASSUME NEW S, NEW a \in Seq(S), NEW b \in Seq(S), b # <<>>
  PROVE  Append(a, Head(b)) \o Tail(b) = a \o b
<1> DEFINE h == Head(b)
           t == Tail(b)
<1>1. h \in S /\ t \in Seq(S) /\ <<h>> \in Seq(S)
  BY HeadTailProperties
<1>2. b = <<h>> \o t
  OBVIOUS
<1>3. Append(a, h) = a \o <<h>>
  BY <1>1, AppendIsConcat
<1> HIDE DEF h, t
<1>4. (a \o <<h>>) \o t = a \o (<<h>> \o t)
  BY <1>1, ConcatAssociative
<1> QED
  BY <1>2, <1>3, <1>4 DEF h, t

DataOf(q) == [i \in DOMAIN q |-> q[i].data]

\* The data of a queue of one kind of requests: all or nothing.
LEMMA DataFacts ==
  ASSUME NEW S, NEW q \in Seq(S), NEW cmd
  PROVE  /\ (\A i \in DOMAIN q : q[i].cmd = cmd) =>
              Data(q, cmd) = DataOf(q) /\ Places(q, cmd) = 1..Len(q)
         /\ (\A i \in DOMAIN q : q[i].cmd # cmd) =>
              Data(q, cmd) = <<>> /\ Places(q, cmd) = {}
<1>1. DOMAIN q = 1..Len(q)
  OBVIOUS
<1>2. Pick(q, 1..Len(q)) = q /\ Pick(q, {}) = <<>>
  BY PickAll
<1>3. ASSUME \A i \in DOMAIN q : q[i].cmd = cmd
      PROVE  Data(q, cmd) = DataOf(q) /\ Places(q, cmd) = 1..Len(q)
  <2>1. Places(q, cmd) = 1..Len(q)
    BY <1>1, <1>3 DEF Places
  <2> QED
    BY <1>2, <2>1 DEF Data, DataOf
<1>4. ASSUME \A i \in DOMAIN q : q[i].cmd # cmd
      PROVE  Data(q, cmd) = <<>> /\ Places(q, cmd) = {}
  <2>1. Places(q, cmd) = {}
    BY <1>4 DEF Places
  <2>2. Data(q, cmd) = [i \in DOMAIN <<>> |-> <<>>[i].data]
    BY <1>2, <2>1 DEF Data
  <2> QED
    BY <2>1, <2>2
<1> QED
  BY <1>3, <1>4

\* The data of a queue that grows or loses its first request.
LEMMA DataSteps ==
  ASSUME NEW S, NEW D, NEW q \in Seq(S), \A r \in S : r.data \in D
  PROVE  /\ DataOf(q) \in Seq(D) /\ Len(DataOf(q)) = Len(q)
         /\ \A r \in S : DataOf(Append(q, r)) = Append(DataOf(q), r.data)
         /\ q # <<>> => /\ DataOf(q) # <<>> /\ Head(DataOf(q)) = Head(q).data
                        /\ DataOf(Tail(q)) = Tail(DataOf(q))
<1>1. DataOf(q) \in Seq(D) /\ Len(DataOf(q)) = Len(q)
  BY DEF DataOf
<1>2. ASSUME NEW r \in S PROVE DataOf(Append(q, r)) = Append(DataOf(q), r.data)
  BY <1>2 DEF DataOf
<1>3. ASSUME q # <<>>
      PROVE  /\ DataOf(q) # <<>> /\ Head(DataOf(q)) = Head(q).data
             /\ DataOf(Tail(q)) = Tail(DataOf(q))
  BY <1>3 DEF DataOf
<1> QED
  BY <1>1, <1>2, <1>3

-----------------------------------------------------------------------------
(* What the driver's functions do to its state.                            *)

\* Who waits goes on waiting, unless he is answered.
Kept(s, t) ==
  /\ s.free \subseteq t.free
  /\ \A c \in Client : c \notin t.free =>
       /\ OnHold(s.rd, c) => OnHold(t.rd, c)
       /\ OnHold(s.wr, c) => OnHold(t.wr, c)

\* All but the output is as it was.
SameInput(s, t) == t.rd = s.rd /\ t.buf = s.buf /\ t.over = s.over /\ t.got = s.got
SameOutput(s, t) == t.wr = s.wr /\ t.asked = s.asked /\ t.out = s.out

\* What is different after a read or a write is served.
ReadDone(s, a, b, g) == [s EXCEPT !.rd = a, !.free = b, !.got = g]
WriteDone(s, a, o, b) == [s EXCEPT !.wr = a, !.out = o, !.free = b]

\* The driver's state after a read request is served.
LEMMA ReadFields ==
  ASSUME NEW s \in State, NEW a \in Seq(ReadRequest), NEW b \in SUBSET (Client \cup {NONE}),
         NEW g \in Seq(Char \cup {EOF})
  PROVE  LET t == ReadDone(s, a, b, g)
         IN /\ t \in State /\ t.rd = a /\ t.free = b /\ t.got = g
            /\ t.buf = s.buf /\ t.over = s.over /\ SameOutput(s, t)
BY DEF State, SameOutput, ReadDone

\* The driver's state after a write request is served.
LEMMA WriteFields ==
  ASSUME NEW s \in State, NEW a \in Seq(WriteRequest), NEW b \in SUBSET (Client \cup {NONE}),
         NEW o \in Seq(Client \cup Char)
  PROVE  LET t == WriteDone(s, a, o, b)
         IN /\ t \in State /\ t.wr = a /\ t.free = b /\ t.out = o /\ t.asked = s.asked
            /\ SameInput(s, t)
BY DEF State, SameInput, WriteDone

\* The driver's state after one field is assigned.
LEMMA OneField ==
  ASSUME NEW s \in State
  PROVE  /\ \A a \in Seq(ReadRequest) :
              LET t == [s EXCEPT !.rd = a]
              IN /\ t \in State /\ t.rd = a /\ t.free = s.free /\ t.got = s.got
                 /\ t.buf = s.buf /\ t.over = s.over /\ SameOutput(s, t)
         /\ \A a \in Seq(WriteRequest) :
              LET t == [s EXCEPT !.wr = a]
              IN /\ t \in State /\ t.wr = a /\ t.free = s.free /\ t.out = s.out
                 /\ t.asked = s.asked /\ SameInput(s, t)
         /\ \A a \in Seq(Client \cup Char) :
              LET t == [s EXCEPT !.asked = a]
              IN /\ t \in State /\ t.wr = s.wr /\ t.free = s.free /\ t.out = s.out
                 /\ t.asked = a /\ SameInput(s, t)
         /\ \A a \in Seq(Char) :
              LET t == [s EXCEPT !.buf = a]
              IN /\ t \in State /\ t.rd = s.rd /\ t.free = s.free /\ t.got = s.got
                 /\ t.buf = a /\ t.over = s.over /\ SameOutput(s, t)
BY DEF State, SameInput, SameOutput

\* The types of the driver's fields.
LEMMA StateFields ==
  ASSUME NEW s \in State
  PROVE  /\ s.rd \in Seq(ReadRequest) /\ s.wr \in Seq(WriteRequest) /\ s.buf \in Seq(Char)
         /\ s.over \in BOOLEAN /\ s.free \in SUBSET (Client \cup {NONE})
         /\ s.got \in Seq(Char \cup {EOF})
         /\ s.asked \in Seq(Client \cup Char) /\ s.out \in Seq(Client \cup Char)
BY DEF State

\* The types of the requests' fields.
LEMMA RequestFields ==
  /\ \A r \in ReadRequest : /\ r.cmd \in {"RX", "READC"}
                            /\ r.cmd = "RX" => r.client = NONE /\ r.data \in Char \cup {EOF}
                            /\ r.cmd = "READC" => r.client \in Client
                            /\ r.client \in Client \cup {NONE}
                            /\ r.data \in Char \cup {EOF, NONE}
  /\ \A r \in WriteRequest : /\ r.cmd \in {"TX", "WRITEC"}
                             /\ r.cmd = "TX" => r.client = NONE
                             /\ r.cmd = "WRITEC" => r.data \in Client \cup Char
                             /\ r.client \in Client \cup {NONE}
                             /\ r.data \in Client \cup Char \cup {NONE}
BY DEF ReadRequest, WriteRequest

\* A queue of one kind of requests that grows by one of the kind, or loses
\* its first.
LEMMA KindSteps ==
  ASSUME NEW S, NEW q \in Seq(S), OneKind(q)
  PROVE  /\ \A r \in S : (q = <<>> \/ Head(q).cmd = r.cmd) => OneKind(Append(q, r))
         /\ \A r \in S : \A c : OnHold(Append(q, r), c) <=> OnHold(q, c) \/ r.client = c
         /\ q # <<>> => /\ OneKind(Tail(q)) /\ \A i \in DOMAIN q : q[i].cmd = Head(q).cmd
                        /\ \A i \in DOMAIN Tail(q) : Tail(q)[i].cmd = Head(q).cmd
                        /\ \A c : OnHold(q, c) => c = Head(q).client \/ OnHold(Tail(q), c)
<1>1. /\ DOMAIN q = 1..Len(q) /\ Len(q) \in Nat
      /\ q # <<>> => 1 \in DOMAIN q /\ Head(q) = q[1]
  OBVIOUS
<1>2. ASSUME NEW r \in S
      PROVE  /\ (q = <<>> \/ Head(q).cmd = r.cmd) => OneKind(Append(q, r))
             /\ \A c : OnHold(Append(q, r), c) <=> OnHold(q, c) \/ r.client = c
  <2> DEFINE t == Append(q, r)
  <2>1. /\ DOMAIN t = 1..(Len(q) + 1) /\ t[Len(q) + 1] = r
        /\ \A i \in 1..Len(q) : t[i] = q[i]
    BY <1>2, AppendFacts
  <2> HIDE DEF t
  <2>2. \A i \in DOMAIN t : (i \in DOMAIN q /\ t[i] = q[i]) \/ t[i] = r
    BY <1>1, <2>1
  <2>3. ASSUME q = <<>> \/ Head(q).cmd = r.cmd PROVE OneKind(t)
    <3>1. \A i \in DOMAIN q : q[i].cmd = r.cmd
      BY <1>1, <2>3 DEF OneKind
    <3>2. \A i \in DOMAIN t : t[i].cmd = r.cmd
      BY <2>2, <3>1
    <3> QED
      BY <3>2 DEF OneKind
  <2>4. ASSUME NEW c PROVE OnHold(t, c) <=> OnHold(q, c) \/ r.client = c
    <3>1. OnHold(t, c) => OnHold(q, c) \/ r.client = c
      BY <2>2 DEF OnHold
    <3>2. Len(q) + 1 \in DOMAIN t /\ \A i \in DOMAIN q : i \in DOMAIN t /\ t[i] = q[i]
      BY <1>1, <2>1
    <3> QED
      BY <2>1, <3>1, <3>2 DEF OnHold
  <2> QED
    BY <2>3, <2>4 DEF t
<1>3. ASSUME q # <<>>
      PROVE  /\ OneKind(Tail(q)) /\ \A i \in DOMAIN q : q[i].cmd = Head(q).cmd
             /\ \A i \in DOMAIN Tail(q) : Tail(q)[i].cmd = Head(q).cmd
             /\ \A c : OnHold(q, c) => c = Head(q).client \/ OnHold(Tail(q), c)
  <2> DEFINE t == Tail(q)
  <2>1. DOMAIN t = 1..(Len(q) - 1) /\ \A i \in 1..(Len(q) - 1) : t[i] = q[i + 1]
    BY <1>3
  <2> HIDE DEF t
  <2>2. \A i \in DOMAIN t : i + 1 \in DOMAIN q /\ t[i] = q[i + 1]
    BY <1>1, <2>1
  <2>3. \A i \in DOMAIN q : i = 1 \/ (i - 1 \in DOMAIN t /\ t[i - 1] = q[i])
    BY <1>1, <2>1
  <2>4. \A i \in DOMAIN q : q[i].cmd = Head(q).cmd
    BY <1>1, <1>3 DEF OneKind
  <2>5. \A i \in DOMAIN t : t[i].cmd = Head(q).cmd
    BY <2>2, <2>4
  <2>6. OneKind(t)
    BY <2>5 DEF OneKind
  <2>7. \A c : OnHold(q, c) => c = Head(q).client \/ OnHold(t, c)
    BY <1>1, <1>3, <2>3 DEF OnHold
  <2> QED
    BY <2>4, <2>5, <2>6, <2>7 DEF t
<1> QED
  BY <1>2, <1>3

\* What went through a queue and what it still holds of the requests for cmd.
Stream(a, q, cmd) == a \o Data(q, cmd)

\* Taking the first request off the queue moves its data into the stream, if
\* it is one of those; putting one on it appends to the stream, if it is.
LEMMA StreamSteps ==
  ASSUME NEW S, NEW D, NEW q \in Seq(S), OneKind(q), NEW a \in Seq(D), NEW cmd,
         \A r \in S : r.cmd = cmd => r.data \in D
  PROVE  /\ Stream(a, q, cmd) \in Seq(D)
         /\ q # <<>> /\ Head(q).cmd = cmd =>
              Stream(Append(a, Head(q).data), Tail(q), cmd) = Stream(a, q, cmd)
         /\ q # <<>> /\ Head(q).cmd # cmd =>
              \A x \in D : Stream(Append(a, x), Tail(q), cmd) = Append(Stream(a, q, cmd), x)
         /\ \A r \in S : q = <<>> \/ Head(q).cmd = r.cmd =>
              /\ r.cmd = cmd =>
                   Stream(a, Append(q, r), cmd) = Append(Stream(a, q, cmd), r.data)
              /\ r.cmd # cmd => Stream(a, Append(q, r), cmd) = Stream(a, q, cmd)
<1> DEFINE P == {r \in S : r.cmd = cmd}
           All(s) == \A i \in DOMAIN s : s[i].cmd = cmd
           No(s) == \A i \in DOMAIN s : s[i].cmd # cmd
<1>1. \A r \in P : r.data \in D
  OBVIOUS
<1>2. ASSUME NEW s \in Seq(S), All(s)
      PROVE  s \in Seq(P) /\ Data(s, cmd) = DataOf(s) /\ Data(s, cmd) \in Seq(D)
  <2>1. s \in Seq(P)
    <3>1. \A i \in 1..Len(s) : s[i] \in P
      BY <1>2
    <3> HIDE DEF P
    <3> QED
      BY <3>1
  <2>2. Data(s, cmd) = DataOf(s)
    BY <1>2, DataFacts
  <2> HIDE DEF P
  <2>3. DataOf(s) \in Seq(D)
    BY <1>1, <2>1, DataSteps
  <2> QED
    BY <2>1, <2>2, <2>3
<1>3. ASSUME NEW s \in Seq(S), No(s) PROVE Data(s, cmd) = <<>>
  BY <1>3, DataFacts
<1>4. \A b \in Seq(D) : b \o <<>> = b
  BY ConcatEmptySeq
<1>5. <<>> \in Seq(D)
  OBVIOUS
<1>6. CASE q = <<>> \/ Head(q).cmd = cmd
  <2>1. All(q)
    BY <1>6, KindSteps
  <2>2. q \in Seq(P) /\ Data(q, cmd) = DataOf(q) /\ Data(q, cmd) \in Seq(D)
    BY <1>2, <2>1
  <2>3. Stream(a, q, cmd) \in Seq(D)
    BY <2>2, ConcatProperties DEF Stream
  <2>4. ASSUME q # <<>>
        PROVE  Stream(Append(a, Head(q).data), Tail(q), cmd) = Stream(a, q, cmd)
    <3>1. Tail(q) \in Seq(S) /\ All(Tail(q))
      BY <1>6, <2>4, KindSteps
    <3>2. Data(Tail(q), cmd) = DataOf(Tail(q))
      BY <1>2, <3>1
    <3> HIDE DEF P, All, No
    <3>3. /\ DataOf(q) # <<>> /\ Head(DataOf(q)) = Head(q).data /\ DataOf(q) \in Seq(D)
          /\ DataOf(Tail(q)) = Tail(DataOf(q))
      BY <1>1, <2>2, <2>4, DataSteps
    <3>4. Append(a, Head(DataOf(q))) \o Tail(DataOf(q)) = a \o DataOf(q)
      BY <3>3, HeadConcat
    <3> QED
      BY <2>2, <3>2, <3>3, <3>4 DEF Stream
  <2>5. ASSUME NEW r \in S, r.cmd = cmd
        PROVE  Stream(a, Append(q, r), cmd) = Append(Stream(a, q, cmd), r.data)
    <3>1. Append(q, r) \in Seq(S) /\ All(Append(q, r)) /\ r \in P /\ r.data \in D
      BY <2>1, <2>5
    <3>2. Data(Append(q, r), cmd) = DataOf(Append(q, r))
      BY <1>2, <3>1
    <3> HIDE DEF P, All, No
    <3>3. DataOf(Append(q, r)) = Append(DataOf(q), r.data) /\ DataOf(q) \in Seq(D)
      BY <1>1, <2>2, <3>1, DataSteps
    <3>4. a \o Append(DataOf(q), r.data) = Append(a \o DataOf(q), r.data)
      BY <3>1, <3>3, AppendConcat
    <3> QED
      BY <2>2, <3>2, <3>3, <3>4 DEF Stream
  <2>6. ASSUME NEW r \in S, r.cmd # cmd, q = <<>> \/ Head(q).cmd = r.cmd
        PROVE  Stream(a, Append(q, r), cmd) = Stream(a, q, cmd)
    <3>1. q = <<>>
      BY <1>6, <2>6
    <3>2. Append(q, r) \in Seq(S) /\ No(Append(q, r)) /\ No(q)
      BY <2>6, <3>1
    <3> HIDE DEF No
    <3> QED
      BY <1>3, <3>2 DEF Stream
  <2> QED
    BY <1>6, <2>3, <2>4, <2>5, <2>6
<1>7. CASE q # <<>> /\ Head(q).cmd # cmd
  <2>1. No(q)
    BY <1>7, KindSteps
  <2>2. Data(q, cmd) = <<>>
    BY <1>3, <2>1
  <2>3. Stream(a, q, cmd) = a
    BY <1>4, <2>2 DEF Stream
  <2>4. ASSUME NEW x \in D PROVE Stream(Append(a, x), Tail(q), cmd) = Append(Stream(a, q, cmd), x)
    <3>1. Tail(q) \in Seq(S) /\ No(Tail(q))
      BY <1>7, KindSteps
    <3>2. Data(Tail(q), cmd) = <<>>
      BY <1>3, <3>1
    <3>3. Append(a, x) \in Seq(D)
      BY <2>4
    <3> QED
      BY <1>4, <2>3, <3>2, <3>3 DEF Stream
  <2>5. ASSUME NEW r \in S, Head(q).cmd = r.cmd
        PROVE  Stream(a, Append(q, r), cmd) = Stream(a, q, cmd)
    <3>1. Append(q, r) \in Seq(S) /\ No(Append(q, r))
      BY <1>7, <2>1, <2>5
    <3>2. Data(Append(q, r), cmd) = <<>>
      BY <1>3, <3>1
    <3> QED
      BY <2>2, <3>2 DEF Stream
  <2> QED
    BY <1>7, <2>3, <2>4, <2>5
<1> QED
  BY <1>6, <1>7

\* usart_serve_read() (tty.c:92-112): a character is seen by readers once, in
\* its turn, whether a reader waits or not; a reader changes nothing of it.
LEMMA ReadServed ==
  ASSUME NEW s \in State, OneKind(s.rd), NEW r \in ReadRequest, NEW cmd \in {"RX", "READC"},
         cmd # r.cmd
  PROVE  LET t == usart_serve_read(s, r, cmd)
         IN /\ t \in State /\ OneKind(t.rd) /\ Kept(s, t)
            /\ t.buf = s.buf /\ t.over = s.over /\ SameOutput(s, t)
            /\ r.cmd = "READC" => r.client \in t.free \/ OnHold(t.rd, r.client)
            /\ r.cmd = "RX" => Seen(t) = Append(Seen(s), r.data)
            /\ r.cmd # "RX" => Seen(t) = Seen(s)
<1> DEFINE t == usart_serve_read(s, r, cmd)
           w == Head(s.rd)
           D == Char \cup {EOF}
<1>1. /\ s.rd \in Seq(ReadRequest) /\ s.free \in SUBSET (Client \cup {NONE}) /\ s.got \in Seq(D)
      /\ \A x : Seen(x) = Stream(x.got, x.rd, "RX")
  BY StateFields DEF Seen, Stream
<1>2. \A x \in ReadRequest : x.cmd = "RX" => x.data \in D
  BY RequestFields
<1> HIDE DEF D
<1>3. CASE s.rd # <<>> /\ w.cmd = cmd
  <2> DEFINE c == (IF r.cmd = "RX" THEN w ELSE r).client
             d == (IF r.cmd = "RX" THEN r ELSE w).data
             f == s.free \cup {c}
             q == Tail(s.rd)
             g == Append(s.got, d)
  <2>1. w \in ReadRequest /\ q \in Seq(ReadRequest)
    BY <1>1, <1>3
  <2>2. /\ r.cmd = "RX" => w.cmd = "READC" /\ c = w.client /\ d = r.data
        /\ r.cmd # "RX" => w.cmd = "RX" /\ r.cmd = "READC" /\ c = r.client /\ d = w.data /\ w.client = NONE
    <3>1. r.cmd \in {"RX", "READC"} /\ w.cmd \in {"RX", "READC"} /\ (w.cmd = "RX" => w.client = NONE)
      BY <2>1, RequestFields
    <3> QED
      BY <1>3, <3>1
  <2>3. d \in D /\ c \in Client \cup {NONE}
    BY <1>2, <2>1, <2>2, RequestFields
  <2>4. t = ReadDone(s, q, f, g)
    BY <1>3, Zenon DEF usart_serve_read, ReadDone
  <2>5. f \in SUBSET (Client \cup {NONE}) /\ g \in Seq(D)
    <3> HIDE DEF c, d
    <3> QED
      BY <1>1, <2>3
  <2> HIDE DEF t, w, c, d, f, q, g
  <2>6. /\ t \in State /\ t.rd = q /\ t.free = f /\ t.got = g
        /\ t.buf = s.buf /\ t.over = s.over /\ SameOutput(s, t)
    <3>1. g \in Seq(Char \cup {EOF})
      BY <2>5 DEF D
    <3> QED
      BY <2>1, <2>4, <2>5, <3>1, ReadFields
  <2>7. /\ OneKind(q) /\ \A x : OnHold(s.rd, x) => x = w.client \/ OnHold(q, x)
    BY <1>1, <1>3, KindSteps DEF q, w
  <2>8. Kept(s, t)
    <3>1. \A x \in Client : x \notin f /\ OnHold(s.rd, x) => OnHold(q, x)
      <4> SUFFICES ASSUME NEW x \in Client, x \notin f, OnHold(s.rd, x), x = w.client PROVE FALSE
        BY <2>7
      <4>1. CASE r.cmd = "RX"
        BY <2>2, <4>1 DEF f
      <4>2. CASE r.cmd # "RX"
        <5>1. x = NONE
          BY <2>2, <4>2
        <5> QED
          BY <5>1, TtyAssumption
      <4> QED
        BY <4>1, <4>2
    <3> QED
      BY <2>6, <3>1 DEF Kept, SameOutput, f
  <2>9. r.cmd = "READC" => r.client \in t.free
    BY <2>2, <2>6 DEF f
  <2>10. CASE r.cmd = "RX"
    <3>1. Stream(Append(s.got, d), q, "RX") = Append(Stream(s.got, s.rd, "RX"), d)
      <4>1. w.cmd # "RX"
        BY <2>2, <2>10
      <4> QED
        BY <1>1, <1>2, <1>3, <2>3, <4>1, StreamSteps DEF q, w
    <3> QED
      BY <1>1, <2>2, <2>6, <2>7, <2>8, <2>9, <2>10, <3>1 DEF g, t
  <2>11. CASE r.cmd # "RX"
    <3>1. Stream(Append(s.got, w.data), q, "RX") = Stream(s.got, s.rd, "RX")
      <4>1. w.cmd = "RX"
        BY <2>2, <2>11
      <4> QED
        BY <1>1, <1>2, <1>3, <4>1, StreamSteps DEF q, w
    <3> QED
      BY <1>1, <2>2, <2>6, <2>7, <2>8, <2>9, <2>11, <3>1 DEF g, t
  <2> QED
    BY <2>10, <2>11
<1>4. CASE ~(s.rd # <<>> /\ w.cmd = cmd)
  <2> DEFINE q == Append(s.rd, r)
  <2>1. t = [s EXCEPT !.rd = q]
    BY <1>4, Zenon DEF usart_serve_read
  <2>2. s.rd = <<>> \/ w.cmd = r.cmd
    <3>1. s.rd # <<>> => w \in ReadRequest
      BY <1>1
    <3>2. s.rd # <<>> => w.cmd \in {"RX", "READC"}
      BY <3>1, RequestFields
    <3>3. r.cmd \in {"RX", "READC"}
      BY RequestFields
    <3> HIDE DEF w
    <3> QED
      BY <1>4, <3>2, <3>3
  <2>3. q \in Seq(ReadRequest)
    BY <1>1
  <2> HIDE DEF t, q
  <2>4. /\ t \in State /\ t.rd = q /\ t.free = s.free /\ t.got = s.got
        /\ t.buf = s.buf /\ t.over = s.over /\ SameOutput(s, t)
    BY <2>1, <2>3, OneField
  <2>5. OneKind(q) /\ \A x : OnHold(q, x) <=> OnHold(s.rd, x) \/ r.client = x
    BY <1>1, <2>2, KindSteps DEF q
  <2>6. Kept(s, t)
    BY <2>4, <2>5 DEF Kept, SameOutput
  <2>7. /\ r.cmd = "RX" => Stream(s.got, q, "RX") = Append(Stream(s.got, s.rd, "RX"), r.data)
        /\ r.cmd # "RX" => Stream(s.got, q, "RX") = Stream(s.got, s.rd, "RX")
    BY <1>1, <1>2, <2>2, StreamSteps DEF q
  <2> QED
    BY <1>1, <2>4, <2>5, <2>6, <2>7 DEF t
<1> QED
  BY <1>3, <1>4

\* How many ends of transmission wait in a queue of one kind of requests.
Ended(q) == Cardinality(Places(q, "TX"))

\* On a queue of one kind, all requests or none are ends of transmissions.
LEMMA EndedFacts ==
  ASSUME NEW S, NEW q \in Seq(S), OneKind(q)
  PROVE  Ended(q) = IF q # <<>> /\ Head(q).cmd = "TX" THEN Len(q) ELSE 0
<1>1. CASE q = <<>>
  <2>1. DOMAIN q = {}
    BY <1>1
  <2>2. Places(q, "TX") = {}
    BY <2>1 DEF Places
  <2> QED
    BY <1>1, <2>2, FS_EmptySet DEF Ended
<1>2. CASE q # <<>> /\ Head(q).cmd = "TX"
  <2>1. Places(q, "TX") = 1..Len(q)
    BY <1>2, KindSteps, DataFacts
  <2>2. Len(q) \in Nat
    OBVIOUS
  <2>3. \A n \in Nat : Cardinality(1..n) = n
    <3>1. \A a, b \in Int : a > b => a..b = {} /\ Cardinality({}) = 0
      BY FS_EmptySet
    <3> SUFFICES ASSUME NEW n \in Nat PROVE Cardinality(1..n) = n
      OBVIOUS
    <3> QED
      BY FS_Interval
  <2> QED
    BY <1>2, <2>1, <2>2, <2>3 DEF Ended
<1>3. CASE q # <<>> /\ Head(q).cmd # "TX"
  <2>1. Places(q, "TX") = {}
    BY <1>3, KindSteps, DataFacts
  <2> QED
    BY <1>3, <2>1, FS_EmptySet DEF Ended
<1> QED
  BY <1>1, <1>2, <1>3

\* How the number of ends changes as wr_q grows and shrinks.
LEMMA EndedSteps ==
  ASSUME NEW S, NEW q \in Seq(S), OneKind(q)
  PROVE  /\ Ended(q) \in Nat
         /\ \A r \in S : q = <<>> \/ Head(q).cmd = r.cmd =>
              Ended(Append(q, r)) = IF r.cmd = "TX" THEN Ended(q) + 1 ELSE Ended(q)
         /\ q # <<>> => Ended(Tail(q)) = IF Head(q).cmd = "TX" THEN Ended(q) - 1 ELSE Ended(q)
<1>1. Ended(q) = IF q # <<>> /\ Head(q).cmd = "TX" THEN Len(q) ELSE 0
  BY EndedFacts
<1>2. ASSUME NEW r \in S, q = <<>> \/ Head(q).cmd = r.cmd
      PROVE  Ended(Append(q, r)) = IF r.cmd = "TX" THEN Ended(q) + 1 ELSE Ended(q)
  <2> DEFINE t == Append(q, r)
  <2>1. t \in Seq(S) /\ t # <<>> /\ Len(t) = Len(q) + 1 /\ Head(t) = IF q = <<>> THEN r ELSE Head(q)
    BY HeadTailAppend, AppendProperties
  <2>2. OneKind(t)
    BY <1>2, KindSteps
  <2> HIDE DEF t
  <2>3. Ended(t) = IF Head(t).cmd = "TX" THEN Len(t) ELSE 0
    BY <2>1, <2>2, EndedFacts
  <2>4. CASE q = <<>>
    BY <1>1, <2>1, <2>3, <2>4 DEF t
  <2>5. CASE q # <<>>
    BY <1>1, <1>2, <2>1, <2>3, <2>5 DEF t
  <2> QED
    BY <2>4, <2>5
<1>3. ASSUME q # <<>>
      PROVE  Ended(Tail(q)) = IF Head(q).cmd = "TX" THEN Ended(q) - 1 ELSE Ended(q)
  <2> DEFINE t == Tail(q)
  <2>1. t \in Seq(S) /\ Len(t) = Len(q) - 1 /\ (t # <<>> => 1 \in DOMAIN t /\ Head(t) = t[1])
    BY <1>3
  <2>2. OneKind(t) /\ \A i \in DOMAIN t : t[i].cmd = Head(q).cmd
    BY <1>3, KindSteps
  <2> HIDE DEF t
  <2>3. Ended(t) = IF t # <<>> /\ Head(t).cmd = "TX" THEN Len(t) ELSE 0
    BY <2>1, <2>2, EndedFacts
  <2>4. t # <<>> => Head(t).cmd = Head(q).cmd
    BY <2>1, <2>2
  <2>5. t = <<>> => Len(t) = 0
    OBVIOUS
  <2> QED
    BY <1>1, <1>3, <2>1, <2>3, <2>4, <2>5 DEF t
<1>4. Len(q) \in Nat
  OBVIOUS
<1> QED
  BY <1>1, <1>2, <1>3, <1>4

\* usart0_serve_write() (tty.c:52-72): a write is sent in its turn, and uses
\* up one end of a transmission; an end of a transmission sends the next, or
\* waits for it.
LEMMA WriteServed ==
  ASSUME NEW s \in State, OneKind(s.wr), NEW r \in WriteRequest, NEW cmd \in {"TX", "WRITEC"},
         cmd # r.cmd
  PROVE  LET t == usart0_serve_write(s, r, cmd)
         IN /\ t \in State /\ OneKind(t.wr) /\ Kept(s, t) /\ t.asked = s.asked /\ SameInput(s, t)
            /\ r.cmd = "WRITEC" =>
                 /\ r.client \in t.free \/ OnHold(t.wr, r.client)
                 /\ Sent(t) = Append(Sent(s), r.data)
                 /\ \/ t.out = s.out /\ Ended(t.wr) = Ended(s.wr)
                    \/ t.out # s.out /\ Ended(t.wr) = Ended(s.wr) - 1
            /\ r.cmd # "WRITEC" =>
                 /\ Sent(t) = Sent(s)
                 /\ \/ t.out = s.out /\ Ended(t.wr) = Ended(s.wr) + 1
                    \/ t.out # s.out /\ Ended(t.wr) = Ended(s.wr)
<1> DEFINE t == usart0_serve_write(s, r, cmd)
           w == Head(s.wr)
           D == Client \cup Char
<1>1. /\ s.wr \in Seq(WriteRequest) /\ s.free \in SUBSET (Client \cup {NONE}) /\ s.out \in Seq(D)
      /\ \A x : Sent(x) = Stream(x.out, x.wr, "WRITEC")
  BY StateFields DEF Sent, Stream
<1>2. \A x \in WriteRequest : x.cmd = "WRITEC" => x.data \in D
  BY RequestFields
<1> HIDE DEF D
<1>3. CASE s.wr # <<>> /\ w.cmd = cmd
  <2> DEFINE v == IF r.cmd = "TX" THEN w ELSE r
             c == v.client
             d == v.data
             f == s.free \cup {c}
             q == Tail(s.wr)
             o == Append(s.out, d)
  <2>1. w \in WriteRequest /\ q \in Seq(WriteRequest)
    BY <1>1, <1>3
  <2>2. /\ r.cmd # "WRITEC" => w.cmd = "WRITEC" /\ c = w.client /\ d = w.data /\ w.cmd # "TX"
        /\ r.cmd = "WRITEC" => /\ w.cmd = "TX" /\ w.cmd # "WRITEC" /\ c = r.client
                               /\ d = r.data /\ w.client = NONE
    <3>1. /\ r.cmd \in {"TX", "WRITEC"} /\ w.cmd \in {"TX", "WRITEC"}
          /\ w.cmd = "TX" => w.client = NONE
      BY <2>1, RequestFields
    <3> QED
      BY <1>3, <3>1
  <2>3. d \in D /\ c \in Client \cup {NONE}
    BY <1>2, <2>1, <2>2, RequestFields
  <2>4. t = WriteDone(s, q, o, f)
    BY <1>3, Zenon DEF usart0_serve_write, WriteDone
  <2>5. f \in SUBSET (Client \cup {NONE}) /\ o \in Seq(D) /\ Len(o) = Len(s.out) + 1
    <3> HIDE DEF c, d
    <3> QED
      BY <1>1, <2>3
  <2>6. o # s.out
    <3> HIDE DEF o
    <3> QED
      BY <1>1, <2>5
  <2> HIDE DEF t, w, v, c, d, f, q, o
  <2>7. /\ t \in State /\ t.wr = q /\ t.free = f /\ t.out = o /\ t.asked = s.asked
        /\ SameInput(s, t)
    <3>1. o \in Seq(Client \cup Char)
      BY <2>5 DEF D
    <3> QED
      BY <2>1, <2>4, <2>5, <3>1, WriteFields
  <2>8. /\ OneKind(q) /\ \A x : OnHold(s.wr, x) => x = w.client \/ OnHold(q, x)
    BY <1>1, <1>3, KindSteps DEF q, w
  <2>9. Kept(s, t)
    <3>1. \A x \in Client : x \notin f /\ OnHold(s.wr, x) => OnHold(q, x)
      <4> SUFFICES ASSUME NEW x \in Client, x \notin f, OnHold(s.wr, x), x = w.client PROVE FALSE
        BY <2>8
      <4>1. CASE r.cmd # "WRITEC"
        BY <2>2, <4>1 DEF f
      <4>2. CASE r.cmd = "WRITEC"
        <5>1. x = NONE
          BY <2>2, <4>2
        <5> QED
          BY <5>1, TtyAssumption
      <4> QED
        BY <4>1, <4>2
    <3> QED
      BY <2>7, <3>1 DEF Kept, SameInput, f
  <2>10. Ended(q) = IF w.cmd = "TX" THEN Ended(s.wr) - 1 ELSE Ended(s.wr)
    BY <1>1, <1>3, EndedSteps DEF q, w
  <2>11. CASE r.cmd = "WRITEC"
    <3>1. Stream(Append(s.out, d), q, "WRITEC") = Append(Stream(s.out, s.wr, "WRITEC"), d)
      <4>1. w.cmd # "WRITEC"
        BY <2>2, <2>11
      <4> QED
        BY <1>1, <1>2, <1>3, <2>3, <4>1, StreamSteps DEF q, w
    <3>2. Sent(t) = Append(Sent(s), r.data)
      BY <1>1, <2>2, <2>7, <2>11, <3>1 DEF o
    <3>3. r.client \in t.free
      BY <2>2, <2>7, <2>11 DEF f
    <3> QED
      BY <2>2, <2>6, <2>7, <2>8, <2>9, <2>10, <2>11, <3>2, <3>3 DEF t
  <2>12. CASE r.cmd # "WRITEC"
    <3>1. Stream(Append(s.out, w.data), q, "WRITEC") = Stream(s.out, s.wr, "WRITEC")
      <4>1. w.cmd = "WRITEC"
        BY <2>2, <2>12
      <4> QED
        BY <1>1, <1>2, <1>3, <4>1, StreamSteps DEF q, w
    <3>2. Sent(t) = Sent(s)
      BY <1>1, <2>2, <2>7, <2>12, <3>1 DEF o
    <3> QED
      BY <2>2, <2>6, <2>7, <2>8, <2>9, <2>10, <2>12, <3>2 DEF t
  <2> QED
    BY <2>11, <2>12
<1>4. CASE ~(s.wr # <<>> /\ w.cmd = cmd)
  <2> DEFINE q == Append(s.wr, r)
  <2>1. t = [s EXCEPT !.wr = q]
    BY <1>4, Zenon DEF usart0_serve_write
  <2>2. s.wr = <<>> \/ w.cmd = r.cmd
    <3>1. s.wr # <<>> => w \in WriteRequest
      BY <1>1
    <3>2. s.wr # <<>> => w.cmd \in {"TX", "WRITEC"}
      BY <3>1, RequestFields
    <3>3. r.cmd \in {"TX", "WRITEC"}
      BY RequestFields
    <3> HIDE DEF w
    <3> QED
      BY <1>4, <3>2, <3>3
  <2>3. q \in Seq(WriteRequest) /\ r.cmd \in {"TX", "WRITEC"}
    BY <1>1, RequestFields
  <2> HIDE DEF t, q
  <2>4. /\ t \in State /\ t.wr = q /\ t.free = s.free /\ t.out = s.out /\ t.asked = s.asked
        /\ SameInput(s, t)
    BY <2>1, <2>3, OneField
  <2>5. OneKind(q) /\ \A x : OnHold(q, x) <=> OnHold(s.wr, x) \/ r.client = x
    BY <1>1, <2>2, KindSteps DEF q
  <2>6. Kept(s, t)
    BY <2>4, <2>5 DEF Kept, SameInput
  <2>7. /\ r.cmd = "WRITEC" => Stream(s.out, q, "WRITEC") = Append(Stream(s.out, s.wr, "WRITEC"), r.data)
        /\ r.cmd # "WRITEC" => Stream(s.out, q, "WRITEC") = Stream(s.out, s.wr, "WRITEC")
    BY <1>1, <1>2, <2>2, StreamSteps DEF q
  <2>8. Ended(q) = IF r.cmd = "TX" THEN Ended(s.wr) + 1 ELSE Ended(s.wr)
    BY <1>1, <2>2, EndedSteps DEF q
  <2> QED
    BY <1>1, <2>3, <2>4, <2>5, <2>6, <2>7, <2>8 DEF t
<1> QED
  BY <1>3, <1>4

\* usart0_print_char() (tty.c:75-86).
LEMMA Printed ==
  ASSUME NEW s \in State, OneKind(s.wr), NEW d \in Client \cup Char
  PROVE  LET t == usart0_print_char(s, d)
         IN /\ t \in State /\ OneKind(t.wr) /\ Kept(s, t) /\ SameInput(s, t)
            /\ t.asked = Append(s.asked, d) /\ Sent(t) = Append(Sent(s), d)
            /\ \/ t.out = s.out /\ Ended(t.wr) = Ended(s.wr)
               \/ t.out # s.out /\ Ended(t.wr) = Ended(s.wr) - 1
<1> DEFINE r == Request("WRITEC", NONE, d)
           u == usart0_serve_write(s, r, "TX")
           a == Append(u.asked, d)
           t == [u EXCEPT !.asked = a]
<1>1. r \in WriteRequest /\ r.cmd = "WRITEC" /\ r.data = d
  BY DEF WriteRequest, Request
<1> HIDE DEF r
<1>2. /\ u \in State /\ OneKind(u.wr) /\ Kept(s, u) /\ u.asked = s.asked /\ SameInput(s, u)
      /\ Sent(u) = Append(Sent(s), d)
      /\ \/ u.out = s.out /\ Ended(u.wr) = Ended(s.wr)
         \/ u.out # s.out /\ Ended(u.wr) = Ended(s.wr) - 1
  BY <1>1, WriteServed
<1>3. usart0_print_char(s, d) = t
  BY DEF usart0_print_char, r
<1> HIDE DEF u
<1>4. a \in Seq(Client \cup Char)
  BY <1>2, StateFields
<1> HIDE DEF a, t
<1>5. /\ t \in State /\ t.wr = u.wr /\ t.free = u.free /\ t.out = u.out
      /\ t.asked = a /\ SameInput(u, t)
  BY <1>2, <1>4, OneField DEF t
<1>6. Kept(s, t) /\ SameInput(s, t)
  BY <1>2, <1>5 DEF Kept, SameInput
<1>7. Sent(t) = Sent(u)
  BY <1>5 DEF Sent
<1> QED
  BY <1>2, <1>3, <1>5, <1>6, <1>7 DEF a

\* usart_reply_char() (tty.c:115-127).
LEMMA Replied ==
  ASSUME NEW s \in State, OneKind(s.rd), NEW d \in Char \cup {EOF}
  PROVE  LET t == usart_reply_char(s, d)
         IN /\ t \in State /\ OneKind(t.rd) /\ Kept(s, t)
            /\ t.buf = s.buf /\ t.over = s.over /\ SameOutput(s, t)
            /\ Seen(t) = Append(Seen(s), d)
<1> DEFINE r == Request("RX", NONE, d)
<1>1. r \in ReadRequest /\ r.cmd = "RX" /\ r.data = d
  BY DEF ReadRequest, Request
<1>2. usart_reply_char(s, d) = usart_serve_read(s, r, "READC")
  BY DEF usart_reply_char
<1> HIDE DEF r
<1> QED
  BY <1>1, <1>2, ReadServed

\* (int) buf[i].
LEMMA AsIntType ==
  ASSUME NEW c \in Char
  PROVE  AsInt(c) \in Char \cup {EOF}
BY DEF AsInt

\* The steps G take b through the values f.
IsStep(G, n, S) == G \in [1..n -> [S -> S]]
Leads(f, n, S, b, G) ==
  f \in [0..n -> S] /\ f[0] = b /\ \A i \in 1..n : f[i] = G[i][f[i - 1]]

\* A value can be computed in n turns, each from the one before.
LEMMA Turns ==
  ASSUME NEW S, NEW n \in Nat, NEW b \in S, NEW G, IsStep(G, n, S)
  PROVE  \E f : Leads(f, n, S, b, G)
<1> DEFINE Trace(f, m) == f[0] = b /\ \A i \in 1..m : f[i] = G[i][f[i - 1]]
           T == {m \in 0..n : ~\E f \in [0..m -> S] : Trace(f, m)}
<1>0. G \in [1..n -> [S -> S]]
  BY DEF IsStep
<1>1. ASSUME NEW m \in T, \A k \in T : m <= k PROVE FALSE
  <2>1. m \in 0..n /\ m \in Nat /\ ~\E f \in [0..m -> S] : Trace(f, m)
    OBVIOUS
  <2>2. CASE m = 0
    <3> DEFINE f == [i \in 0..m |-> b]
    <3>1. f \in [0..m -> S] /\ Trace(f, m)
      BY <2>2
    <3> QED
      BY <2>1, <3>1
  <2>3. CASE m # 0
    <3>1. m - 1 \in 0..n /\ m - 1 \notin T /\ m \in 1..n
      <4>1. m - 1 \in 0..n /\ m \in 1..n /\ ~(m <= m - 1)
        BY <2>1, <2>3
      <4> HIDE DEF T
      <4> QED
        BY <1>1, <4>1
    <3>2. PICK f \in [0..(m - 1) -> S] : Trace(f, m - 1)
      BY <3>1
    <3>3. f[m - 1] \in S
      BY <3>1, <3>2
    <3> DEFINE x == G[m][f[m - 1]]
               g == [i \in 0..m |-> IF i = m THEN x ELSE f[i]]
    <3>4. x \in S
      BY <1>0, <3>1, <3>3
    <3>5. \A i \in 0..m : i # m => i \in 0..(m - 1)
      BY <2>1
    <3>6. g \in [0..m -> S]
      <4> HIDE DEF x
      <4> QED
        BY <3>2, <3>4, <3>5
    <3>7. g[m] = G[m][f[m - 1]] /\ \A i \in 0..(m - 1) : g[i] = f[i]
      BY <2>1, <3>1
    <3> HIDE DEF g, x
    <3>8. \A i \in 1..m : g[i] = G[i][g[i - 1]]
      <4> SUFFICES ASSUME NEW i \in 1..m PROVE g[i] = G[i][g[i - 1]]
        OBVIOUS
      <4>1. CASE i = m
        <5>1. m - 1 \in 0..(m - 1)
          BY <3>1
        <5> QED
          BY <3>7, <4>1, <5>1
      <4>2. CASE i # m
        <5>1. i \in 1..(m - 1) /\ i \in 0..(m - 1) /\ i - 1 \in 0..(m - 1)
          BY <2>1, <4>2
        <5> QED
          BY <3>2, <3>7, <5>1
      <4> QED
        BY <4>1, <4>2
    <3>9. g[0] = b
      BY <3>1, <3>2, <3>7
    <3> QED
      BY <2>1, <3>6, <3>8, <3>9
  <2> QED
    BY <2>2, <2>3
<1>2. T \subseteq Nat
  OBVIOUS
<1>3. T = {}
  <2> HIDE DEF T
  <2> QED
    BY <1>1, <1>2, LeastNat
<1>4. n \in 0..n
  OBVIOUS
<1> QED
  BY <1>3, <1>4 DEF Leads

\* tty_flush() replies with one character after the other (tty.c:130-137).
LEMMA FlushingSteps ==
  ASSUME NEW s \in State, OneKind(s.rd)
  PROVE  LET f == Flushing(s)
         IN /\ f[0] = s
            /\ \A i \in 1..Len(s.buf) :
                 /\ f[i - 1] \in State /\ OneKind(f[i - 1].rd)
                 /\ f[i] = usart_reply_char(f[i - 1], AsInt(s.buf[i]))
<1> DEFINE S == {x \in State : OneKind(x.rd)}
           n == Len(s.buf)
           R(x, i) == usart_reply_char(x, AsInt(s.buf[i]))
           G == [i \in 1..n |-> [x \in S |-> R(x, i)]]
<1>1. s.buf \in Seq(Char) /\ n \in Nat /\ s \in S
  BY StateFields
<1>2. \A x \in S : \A i \in 1..n : R(x, i) \in S
  <2> SUFFICES ASSUME NEW x \in S, NEW i \in 1..n PROVE R(x, i) \in S
    OBVIOUS
  <2>1. s.buf[i] \in Char
    BY <1>1
  <2>2. AsInt(s.buf[i]) \in Char \cup {EOF}
    BY <2>1, AsIntType
  <2> QED
    BY <2>2, Replied
<1>3. \A x \in S : x \in State /\ OneKind(x.rd)
  OBVIOUS
<1> HIDE DEF R, S, n
<1>4. IsStep(G, n, S)
  BY <1>2 DEF IsStep
<1>5. \A x \in S : \A i \in 1..n : G[i][x] = R(x, i)
  OBVIOUS
<1> HIDE DEF G
<1>6. PICK h : Leads(h, n, S, s, G)
  BY <1>1, <1>4, Turns
<1>7. \A i \in 1..n : i \in 0..n /\ i # 0 /\ i - 1 \in 0..n /\ h[i] = R(h[i - 1], i)
  <2> SUFFICES ASSUME NEW i \in 1..n
               PROVE  i \in 0..n /\ i # 0 /\ i - 1 \in 0..n /\ h[i] = R(h[i - 1], i)
    OBVIOUS
  <2>1. i \in 0..n /\ i # 0 /\ i - 1 \in 0..n
    BY <1>1
  <2> QED
    BY <1>5, <1>6, <2>1 DEF Leads
<1>8. \A i \in 0..n : h[i] = IF i = 0 THEN s ELSE R(h[i - 1], i)
  <2>1. \A i \in 0..n : i = 0 \/ i \in 1..n
    BY <1>1
  <2> QED
    BY <1>6, <1>7, <2>1 DEF Leads
<1>9. \E g : g = [i \in 0..n |-> IF i = 0 THEN s ELSE R(g[i - 1], i)]
  <2>1. h = [i \in 0..n |-> h[i]]
    BY <1>6 DEF Leads
  <2>2. [i \in 0..n |-> h[i]] = [i \in 0..n |-> IF i = 0 THEN s ELSE R(h[i - 1], i)]
    BY <1>8
  <2>3. h = [i \in 0..n |-> IF i = 0 THEN s ELSE R(h[i - 1], i)]
    BY <2>1, <2>2
  <2> QED
    BY <2>3
<1> DEFINE f == Flushing(s)
<1>10. f = CHOOSE g : g = [i \in 0..n |-> IF i = 0 THEN s ELSE R(g[i - 1], i)]
  BY Zenon DEF Flushing, R, n
<1>11. f = [i \in 0..n |-> IF i = 0 THEN s ELSE R(f[i - 1], i)]
  BY <1>9, <1>10, Zenon
<1> HIDE DEF f
<1>12. \A i \in 0..n : f[i] = IF i = 0 THEN s ELSE R(f[i - 1], i)
  BY <1>11, Zenon
<1>13. f[0] = s /\ \A i \in 1..n : f[i] = R(f[i - 1], i)
  BY <1>1, <1>7, <1>12
<1>14. \A i \in 0..n : f[i] \in S
  <2> DEFINE T == {i \in 0..n : f[i] \notin S}
  <2>1. ASSUME NEW i \in T, \A j \in T : i <= j PROVE FALSE
    <3>1. i \in 0..n /\ f[i] \notin S
      OBVIOUS
    <3>2. i # 0
      BY <1>1, <1>13, <3>1
    <3>3. i \in 1..n /\ i - 1 \in 0..n /\ ~(i <= i - 1)
      BY <1>1, <3>1, <3>2
    <3>4. f[i - 1] \in S
      BY <2>1, <3>3
    <3> QED
      BY <1>2, <1>13, <3>1, <3>3, <3>4
  <2>2. T \subseteq Nat
    BY <1>1
  <2>3. T = {}
    <3> HIDE DEF T
    <3> QED
      BY <2>1, <2>2, LeastNat
  <2> QED
    BY <2>3
<1>15. \A i \in 1..n : f[i - 1] \in State /\ OneKind(f[i - 1].rd)
  BY <1>3, <1>7, <1>14
<1> QED
  BY <1>13, <1>15 DEF f, R, n

EditorState == [text : Seq(Char \cup {EOF}), line : Seq(Char \cup {EOF})]

\* A keystroke keeps the editor's state in its type.
LEMMA EditType ==
  ASSUME NEW e \in EditorState, NEW c \in Char
  PROVE  Edit(e, c) \in EditorState
<1> DEFINE D == Char \cup {EOF}
<1>1. e.text \in Seq(D) /\ e.line \in Seq(D) /\ EOF \in D /\ c \in D /\ AsInt(c) \in D
  BY AsIntType DEF EditorState
<1>2. /\ Append(e.text, EOF) \in Seq(D) /\ <<>> \in Seq(D)
      /\ Append(e.line, AsInt(c)) \in Seq(D) /\ Append(e.line, c) \in Seq(D)
  <2> HIDE DEF D
  <2> QED
    BY <1>1
<1>3. e.text \o e.line \in Seq(D) /\ e.text \o Append(e.line, c) \in Seq(D)
  BY <1>1, <1>2, ConcatProperties
<1>4. e.line # <<>> => Front(e.line) \in Seq(D)
  <2> HIDE DEF D
  <2> QED
    BY <1>1 DEF Front
<1>5. \A x, y \in Seq(D) : /\ [text |-> x, line |-> y] \in EditorState
                          /\ [e EXCEPT !.text = x] \in EditorState
                          /\ [e EXCEPT !.line = x] \in EditorState
  BY DEF EditorState
<1> HIDE DEF D, EditorState
<1>6. CASE c = "^D"
  <2>1. Edit(e, c) = IF e.line = <<>> THEN [e EXCEPT !.text = Append(e.text, EOF)]
                     ELSE [text |-> e.text \o e.line, line |-> <<>>]
    BY <1>6 DEF Edit
  <2> QED
    BY <1>1, <1>2, <1>3, <1>5, <2>1
<1>7. CASE c = "^C"
  BY <1>2, <1>5, <1>7 DEF Edit
<1>8. CASE c = "BS"
  <2>1. Edit(e, c) = [e EXCEPT !.line = IF e.line = <<>> THEN e.line ELSE Front(e.line)]
    BY <1>8 DEF Edit
  <2> QED
    BY <1>1, <1>4, <1>5, <2>1
<1>9. CASE c = "NL"
  <2>1. Edit(e, c) = [text |-> e.text \o Append(e.line, c), line |-> <<>>]
    BY <1>9 DEF Edit
  <2> QED
    BY <1>2, <1>3, <1>5, <2>1
<1>10. CASE c \notin {"^D", "^C", "BS", "NL"}
  <2>1. Edit(e, c) = [e EXCEPT !.line = Append(e.line, AsInt(c))]
    BY <1>10 DEF Edit
  <2> QED
    BY <1>2, <1>5, <2>1
<1> QED
  BY <1>6, <1>7, <1>8, <1>9, <1>10

\* The line editor takes one character after the other.
LEMMA EditingSteps ==
  ASSUME NEW s \in Seq(Char)
  PROVE  LET f == Editing(s)
         IN /\ f[0] = [text |-> <<>>, line |-> <<>>]
            /\ \A i \in 0..Len(s) : f[i] \in EditorState
            /\ \A i \in 1..Len(s) : f[i] = Edit(f[i - 1], s[i])
<1> DEFINE S == EditorState
           n == Len(s)
           e0 == [text |-> <<>>, line |-> <<>>]
           R(x, i) == Edit(x, s[i])
           G == [i \in 1..n |-> [x \in S |-> R(x, i)]]
<1>1. n \in Nat /\ e0 \in S
  BY DEF EditorState
<1>2. \A x \in S : \A i \in 1..n : R(x, i) \in S
  <2> SUFFICES ASSUME NEW x \in S, NEW i \in 1..n PROVE R(x, i) \in S
    OBVIOUS
  <2>1. s[i] \in Char
    OBVIOUS
  <2> QED
    BY <2>1, EditType
<1> HIDE DEF R, S, n, e0
<1>4. IsStep(G, n, S)
  BY <1>2 DEF IsStep
<1>5. \A x \in S : \A i \in 1..n : G[i][x] = R(x, i)
  OBVIOUS
<1> HIDE DEF G
<1>6. PICK h : Leads(h, n, S, e0, G)
  BY <1>1, <1>4, Turns
<1>7. \A i \in 1..n : i \in 0..n /\ i # 0 /\ i - 1 \in 0..n /\ h[i] = R(h[i - 1], i)
  <2> SUFFICES ASSUME NEW i \in 1..n
               PROVE  i \in 0..n /\ i # 0 /\ i - 1 \in 0..n /\ h[i] = R(h[i - 1], i)
    OBVIOUS
  <2>1. i \in 0..n /\ i # 0 /\ i - 1 \in 0..n
    BY <1>1
  <2> QED
    BY <1>5, <1>6, <2>1 DEF Leads
<1>8. \A i \in 0..n : h[i] = IF i = 0 THEN e0 ELSE R(h[i - 1], i)
  <2>1. \A i \in 0..n : i = 0 \/ i \in 1..n
    BY <1>1
  <2> QED
    BY <1>6, <1>7, <2>1 DEF Leads
<1>9. \E g : g = [i \in 0..n |-> IF i = 0 THEN e0 ELSE R(g[i - 1], i)]
  <2>1. h = [i \in 0..n |-> h[i]]
    BY <1>6 DEF Leads
  <2>2. [i \in 0..n |-> h[i]] = [i \in 0..n |-> IF i = 0 THEN e0 ELSE R(h[i - 1], i)]
    BY <1>8
  <2>3. h = [i \in 0..n |-> IF i = 0 THEN e0 ELSE R(h[i - 1], i)]
    BY <2>1, <2>2
  <2> QED
    BY <2>3
<1> DEFINE f == Editing(s)
<1>10. f = CHOOSE g : g = [i \in 0..n |-> IF i = 0 THEN e0 ELSE R(g[i - 1], i)]
  BY Zenon DEF Editing, R, n, e0
<1>11. f = [i \in 0..n |-> IF i = 0 THEN e0 ELSE R(f[i - 1], i)]
  BY <1>9, <1>10, Zenon
<1> HIDE DEF f
<1>12. \A i \in 0..n : f[i] = IF i = 0 THEN e0 ELSE R(f[i - 1], i)
  BY <1>11, Zenon
<1>13. f[0] = e0 /\ \A i \in 1..n : f[i] = R(f[i - 1], i)
  BY <1>1, <1>7, <1>12
<1>14. \A i \in 0..n : f[i] \in S
  <2> DEFINE T == {i \in 0..n : f[i] \notin S}
  <2>1. ASSUME NEW i \in T, \A j \in T : i <= j PROVE FALSE
    <3>1. i \in 0..n /\ f[i] \notin S
      OBVIOUS
    <3>2. i # 0
      BY <1>1, <1>13, <3>1
    <3>3. i \in 1..n /\ i - 1 \in 0..n /\ ~(i <= i - 1)
      BY <1>1, <3>1, <3>2
    <3>4. f[i - 1] \in S
      BY <2>1, <3>3
    <3> QED
      BY <1>2, <1>13, <3>1, <3>3, <3>4
  <2>2. T \subseteq Nat
    BY <1>1
  <2>3. T = {}
    <3> HIDE DEF T
    <3> QED
      BY <2>1, <2>2, LeastNat
  <2> QED
    BY <2>3
<1> QED
  BY <1>13, <1>14 DEF f, R, n, e0, S

\* One character more.
LEMMA EditedAppend ==
  ASSUME NEW s \in Seq(Char), NEW c \in Char
  PROVE  /\ Edited(s) \in EditorState
         /\ Edited(Append(s, c)) = Edit(Edited(s), c)
<1> DEFINE t == Append(s, c)
           n == Len(s)
           f == Editing(s)
           g == Editing(t)
<1>1. /\ t \in Seq(Char) /\ Len(t) = n + 1 /\ t[n + 1] = c /\ n \in Nat
      /\ \A i \in 1..n : t[i] = s[i]
  BY AppendFacts
<1> HIDE DEF t, n
<1>2. /\ f[0] = [text |-> <<>>, line |-> <<>>]
      /\ \A i \in 0..n : f[i] \in EditorState
      /\ \A i \in 1..n : f[i] = Edit(f[i - 1], s[i])
  BY EditingSteps DEF n
<1>3. /\ g[0] = [text |-> <<>>, line |-> <<>>]
      /\ \A i \in 1..(n + 1) : g[i] = Edit(g[i - 1], t[i])
  BY <1>1, EditingSteps
<1> HIDE DEF f, g
<1> DEFINE T == {i \in 0..n : f[i] # g[i]}
<1>4. ASSUME NEW i \in T, \A j \in T : i <= j PROVE FALSE
  <2>1. i \in 0..n /\ f[i] # g[i]
    OBVIOUS
  <2>2. i # 0
    BY <1>2, <1>3, <2>1
  <2>3. i \in 1..n /\ i \in 1..(n + 1) /\ i - 1 \in 0..n /\ ~(i <= i - 1)
    BY <1>1, <2>1, <2>2
  <2>4. f[i - 1] = g[i - 1]
    BY <1>4, <2>3
  <2> QED
    BY <1>1, <1>2, <1>3, <2>1, <2>3, <2>4
<1>5. T \subseteq Nat
  BY <1>1
<1>6. T = {}
  <2> HIDE DEF T
  <2> QED
    BY <1>4, <1>5, LeastNat
<1>7. n \in 0..n /\ n + 1 \in 1..(n + 1) /\ (n + 1) - 1 = n
  BY <1>1
<1>8. f[n] = g[n] /\ f[n] \in EditorState
  BY <1>2, <1>6, <1>7
<1>9. g[n + 1] = Edit(f[n], c)
  BY <1>1, <1>3, <1>7, <1>8
<1>10. Edited(s) = f[n] /\ Edited(t) = g[n + 1]
  BY <1>1 DEF Edited, f, g, n
<1> QED
  BY <1>8, <1>9, <1>10 DEF t

\* A client kept over two steps is kept over both.
LEMMA KeptOn ==
  ASSUME NEW s, NEW t, NEW u, Kept(s, t), Kept(t, u)
  PROVE  Kept(s, u)
BY DEF Kept

\* What readers see are characters and EOF.
LEMMA SeenType ==
  ASSUME NEW s \in State, OneKind(s.rd)
  PROVE  Seen(s) \in Seq(Char \cup {EOF})
<1>1. s.rd \in Seq(ReadRequest) /\ s.got \in Seq(Char \cup {EOF})
  BY StateFields
<1>2. \A x \in ReadRequest : x.cmd = "RX" => x.data \in Char \cup {EOF}
  BY RequestFields
<1>3. Stream(s.got, s.rd, "RX") \in Seq(Char \cup {EOF})
  BY <1>1, <1>2, StreamSteps
<1> QED
  BY <1>3 DEF Seen, Stream

\* The line grows and is edited as readers will see it.
LEMMA IntsSteps ==
  ASSUME NEW b \in Seq(Char)
  PROVE  /\ Ints(b) \in Seq(Char \cup {EOF}) /\ Len(Ints(b)) = Len(b)
         /\ Ints(b) = <<>> <=> b = <<>>
         /\ \A c \in Char : Ints(Append(b, c)) = Append(Ints(b), AsInt(c))
         /\ b # <<>> => Front(b) \in Seq(Char) /\ Len(Front(b)) = Len(b) - 1 /\ Ints(Front(b)) = Front(Ints(b))
<1> DEFINE D == Char \cup {EOF}
           n == Len(b)
<1>1. n \in Nat /\ DOMAIN b = 1..n /\ \A i \in 1..n : AsInt(b[i]) \in D
  BY AsIntType
<1>2. Ints(b) = [i \in 1..n |-> AsInt(b[i])]
  BY <1>1 DEF Ints
<1> HIDE DEF D
<1>3. Ints(b) \in Seq(D) /\ Len(Ints(b)) = n
  BY <1>1, <1>2
<1>4. Ints(b) = <<>> <=> b = <<>>
  BY <1>3
<1>5. ASSUME NEW c \in Char PROVE Ints(Append(b, c)) = Append(Ints(b), AsInt(c))
  BY <1>1, <1>2 DEF Ints
<1>6. ASSUME b # <<>>
      PROVE  Front(b) \in Seq(Char) /\ Len(Front(b)) = Len(b) - 1 /\ Ints(Front(b)) = Front(Ints(b))
  <2>1. /\ Front(b) \in Seq(Char) /\ Len(Front(b)) = n - 1
        /\ \A i \in 1..(n - 1) : Front(b)[i] = b[i]
    <3>1. n > 0 /\ Len(b) = n
      BY <1>6
    <3> HIDE DEF n
    <3> QED
      BY <1>1, <3>1 DEF Front
  <2>2. /\ Front(Ints(b)) \in Seq(D) /\ Len(Front(Ints(b))) = n - 1
        /\ \A i \in 1..(n - 1) : Front(Ints(b))[i] = Ints(b)[i]
    <3> HIDE DEF n
    <3>1. n > 0
      BY <1>6 DEF n
    <3> QED
      BY <1>1, <1>3, <3>1 DEF Front
  <2>3. /\ Len(Ints(Front(b))) = n - 1 /\ Ints(Front(b)) \in Seq(D)
        /\ \A i \in 1..(n - 1) : Ints(Front(b))[i] = AsInt(b[i])
    <3>1. Ints(Front(b)) = [i \in 1..(n - 1) |-> AsInt(b[i])]
      BY <2>1 DEF Ints
    <3>2. n - 1 \in Nat /\ \A i \in 1..(n - 1) : AsInt(b[i]) \in D
      BY <1>1, <1>6
    <3> HIDE DEF n
    <3> QED
      BY <3>1, <3>2
  <2>4. \A i \in 1..(n - 1) : Ints(b)[i] = AsInt(b[i])
    BY <1>1, <1>2
  <2> HIDE DEF n
  <2>5. Ints(Front(b)) = Front(Ints(b))
    BY <2>2, <2>3, <2>4, SeqEqual
  <2> QED
    BY <2>1, <2>5 DEF n
<1> QED
  BY <1>3, <1>4, <1>5, <1>6 DEF D

\* tty_flush(): readers see the line, and it is empty.
LEMMA Flushed ==
  ASSUME NEW s \in State, OneKind(s.rd)
  PROVE  LET t == tty_flush(s)
         IN /\ t \in State /\ OneKind(t.rd) /\ Kept(s, t)
            /\ t.buf = <<>> /\ t.over = s.over /\ SameOutput(s, t)
            /\ Seen(t) = Seen(s) \o Ints(s.buf)
<1> DEFINE f == Flushing(s)
           n == Len(s.buf)
           D == Char \cup {EOF}
           Sub(i) == [j \in 1..i |-> AsInt(s.buf[j])]
           Part(i) == /\ f[i] \in State /\ OneKind(f[i].rd) /\ Kept(s, f[i])
                      /\ f[i].buf = s.buf /\ f[i].over = s.over /\ SameOutput(s, f[i])
                      /\ Seen(f[i]) = Seen(s) \o Sub(i)
<1>1. s.buf \in Seq(Char) /\ n \in Nat /\ Seen(s) \in Seq(D)
  BY StateFields, SeenType
<1>2. /\ f[0] = s
      /\ \A i \in 1..n : f[i] = usart_reply_char(f[i - 1], AsInt(s.buf[i]))
  BY FlushingSteps
<1>3. \A i \in 1..n : AsInt(s.buf[i]) \in D
  BY <1>1, AsIntType
<1>4. \A i \in 0..n : Sub(i) \in Seq(D)
  <2> HIDE DEF D
  <2> QED
    BY <1>1, <1>3
<1>5. \A i \in 1..n : Sub(i) = Append(Sub(i - 1), AsInt(s.buf[i]))
  BY <1>1
<1>6. Sub(0) = <<>> /\ Sub(n) = Ints(s.buf)
  BY <1>1 DEF Ints
<1> HIDE DEF f, n, Sub
<1>7. Part(0)
  <2>1. Seen(s) \o <<>> = Seen(s)
    BY <1>1, ConcatEmptySeq
  <2>2. Kept(s, s) /\ SameOutput(s, s)
    BY DEF Kept, SameOutput
  <2> QED
    BY <1>2, <1>6, <2>1, <2>2
<1>8. ASSUME NEW i \in 1..n, Part(i - 1) PROVE Part(i)
  <2> DEFINE x == f[i - 1]
             d == AsInt(s.buf[i])
  <2>1. f[i] = usart_reply_char(x, d) /\ d \in D
    BY <1>2, <1>3
  <2>2. /\ x \in State /\ OneKind(x.rd) /\ Kept(s, x)
        /\ x.buf = s.buf /\ x.over = s.over /\ SameOutput(s, x)
        /\ Seen(x) = Seen(s) \o Sub(i - 1)
    BY <1>8
  <2>3. Sub(i) = Append(Sub(i - 1), d) /\ Sub(i - 1) \in Seq(D)
    <3>1. i - 1 \in 0..n
      BY <1>1
    <3> QED
      BY <1>4, <1>5, <3>1
  <2> HIDE DEF x, d
  <2>4. /\ f[i] \in State /\ OneKind(f[i].rd) /\ Kept(x, f[i])
        /\ f[i].buf = x.buf /\ f[i].over = x.over /\ SameOutput(x, f[i])
        /\ Seen(f[i]) = Append(Seen(x), d)
    BY <2>1, <2>2, Replied
  <2>5. Append(Seen(s) \o Sub(i - 1), d) = Seen(s) \o Append(Sub(i - 1), d)
    <3> HIDE DEF D
    <3> DEFINE a == Seen(s)
               b == Sub(i - 1)
    <3>1. a \in Seq(D) /\ b \in Seq(D) /\ d \in D
      BY <1>1, <2>1, <2>3
    <3> HIDE DEF a, b
    <3>2. a \o Append(b, d) = Append(a \o b, d)
      BY <3>1, AppendConcat
    <3> QED
      BY <3>2 DEF a, b
  <2>6. Kept(s, f[i])
    BY <2>2, <2>4, KeptOn
  <2> QED
    BY <2>2, <2>3, <2>4, <2>5, <2>6 DEF SameOutput
<1>9. Part(n)
  <2> DEFINE T == {i \in 0..n : ~Part(i)}
  <2> HIDE DEF Part
  <2>1. ASSUME NEW i \in T, \A j \in T : i <= j PROVE FALSE
    <3>1. i \in 0..n /\ ~Part(i)
      OBVIOUS
    <3>2. i # 0
      BY <1>7, <3>1
    <3>3. i \in 1..n /\ i - 1 \in 0..n /\ ~(i <= i - 1)
      BY <1>1, <3>1, <3>2
    <3>4. Part(i - 1)
      BY <2>1, <3>3
    <3> QED
      BY <1>8, <3>1, <3>3, <3>4
  <2>2. T \subseteq Nat
    BY <1>1
  <2>3. T = {}
    <3> HIDE DEF T
    <3> QED
      BY <2>1, <2>2, LeastNat
  <2>4. n \in 0..n
    BY <1>1
  <2> QED
    BY <2>3, <2>4
<1> DEFINE x == f[n]
           t == [x EXCEPT !.buf = <<>>]
<1>10. tty_flush(s) = t
  BY DEF tty_flush, f, n
<1>11. /\ x \in State /\ OneKind(x.rd) /\ Kept(s, x)
       /\ x.over = s.over /\ SameOutput(s, x) /\ Seen(x) = Seen(s) \o Ints(s.buf)
  BY <1>6, <1>9
<1> HIDE DEF x
<1>12. <<>> \in Seq(Char)
  OBVIOUS
<1>13. /\ t \in State /\ t.rd = x.rd /\ t.free = x.free /\ t.got = x.got
       /\ t.buf = <<>> /\ t.over = x.over /\ SameOutput(x, t)
  BY <1>11, <1>12, OneField
<1> HIDE DEF t
<1>14. Kept(s, t) /\ SameOutput(s, t)
  BY <1>11, <1>13 DEF Kept, SameOutput
<1>15. Seen(t) = Seen(x)
  BY <1>13 DEF Seen
<1> QED
  BY <1>10, <1>11, <1>13, <1>14, <1>15

\* The driver's state is in order: its queues hold one kind of requests, and
\* what is asked for is sent or waits to be.
InOrder(s) == s \in State /\ OneKind(s.rd) /\ OneKind(s.wr) /\ Sent(s) = s.asked

\* What is sent uses up one end of a transmission.
Spends(s, t) == \/ t.out = s.out /\ Ended(t.wr) = Ended(s.wr)
                \/ t.out # s.out /\ Ended(t.wr) = Ended(s.wr) - 1

\* tbuf[idx++] = c.
LEMMA Stored ==
  ASSUME NEW s \in State, NEW c \in Char
  PROVE  LET t == Store(s, c)
         IN /\ t \in State /\ t.rd = s.rd /\ t.free = s.free /\ t.got = s.got
            /\ t.buf = Append(s.buf, c) /\ SameOutput(s, t)
            /\ t.over => s.over \/ Len(s.buf) >= LINE
<1> DEFINE t == Store(s, c)
           b == Append(s.buf, c)
           o == s.over \/ Len(s.buf) >= LINE
<1>1. b \in Seq(Char)
  BY StateFields
<1>2. o \in BOOLEAN
  OBVIOUS
<1>3. t = [s EXCEPT !.buf = b, !.over = o]
  BY Zenon DEF Store
<1> HIDE DEF b, o, t
<1>4. /\ t \in State /\ t.rd = s.rd /\ t.free = s.free /\ t.got = s.got
      /\ t.buf = b /\ t.over = o /\ t.wr = s.wr /\ t.asked = s.asked /\ t.out = s.out
  BY <1>1, <1>2, <1>3, Zenon DEF State
<1> QED
  BY <1>4 DEF b, o, t, SameOutput

\* The same queues are in the same order.
LEMMA SameOrder ==
  ASSUME NEW s, NEW t \in State
  PROVE  /\ SameOutput(s, t) => Sent(t) = Sent(s) /\ Spends(s, t)
         /\ SameOutput(s, t) /\ InOrder(s) => OneKind(t.wr) /\ Sent(t) = t.asked
         /\ t.rd = s.rd /\ t.got = s.got => Seen(t) = Seen(s)
         /\ t.rd = s.rd /\ t.free = s.free /\ SameOutput(s, t) => Kept(s, t)
BY DEF SameOutput, InOrder, Sent, Seen, Spends, Kept

\* A newline the driver prints (Ctrl-C, Ctrl-D) leaves its state in order.
LEMMA PrintOrder ==
  ASSUME NEW s, InOrder(s)
  PROVE  LET t == usart0_print_char(s, "NL")
         IN InOrder(t) /\ Kept(s, t) /\ SameInput(s, t) /\ Spends(s, t)
<1> DEFINE t == usart0_print_char(s, "NL")
<1>1. "NL" \in Client \cup Char
  BY DEF Char, Special
<1>2. s \in State /\ OneKind(s.wr) /\ OneKind(s.rd) /\ Sent(s) = s.asked
  BY DEF InOrder
<1>3. /\ t \in State /\ OneKind(t.wr) /\ Kept(s, t) /\ SameInput(s, t)
      /\ t.asked = Append(s.asked, "NL") /\ Sent(t) = Append(Sent(s), "NL") /\ Spends(s, t)
  BY <1>1, <1>2, Printed DEF Spends
<1> HIDE DEF t
<1>4. Sent(t) = t.asked
  BY <1>2, <1>3
<1>5. t.rd = s.rd
  BY <1>3 DEF SameInput
<1> QED
  BY <1>2, <1>3, <1>4, <1>5 DEF InOrder, t

\* What a typed character does (tty.c:179-211).  e is the line editor before
\* it.
Edits(s, t, e, c) ==
  /\ InOrder(t) /\ Kept(s, t) /\ Spends(s, t)
  /\ e.text = Seen(t) /\ e.line = Ints(t.buf)
  /\ t.over => s.over \/ Len(s.buf) >= LINE
  /\ t.buf = <<>> \/ (c \notin Ends /\ Len(t.buf) <= Len(s.buf) + 1)

\* The driver on one character (tty.c:174-212) does what the editor does.
LEMMA TypedDoes ==
  ASSUME NEW s, InOrder(s), NEW c \in Char,
         NEW e \in EditorState, e.text = Seen(s), e.line = Ints(s.buf)
  PROVE  Edits(s, Typed(s, c), Edit(e, c), c)
<1> DEFINE t == Typed(s, c)
           g == Edit(e, c)
<1>1. s \in State /\ OneKind(s.rd) /\ OneKind(s.wr) /\ Sent(s) = s.asked
  BY DEF InOrder
<1>2. s.buf \in Seq(Char) /\ <<>> \in Seq(Char) /\ Len(s.buf) \in Nat
  BY <1>1, StateFields
<1>3. /\ e.line = <<>> <=> s.buf = <<>>
      /\ \A x \in Char : Ints(Append(s.buf, x)) = Append(e.line, AsInt(x))
      /\ s.buf # <<>> => /\ Front(s.buf) \in Seq(Char) /\ Len(Front(s.buf)) = Len(s.buf) - 1
                         /\ Ints(Front(s.buf)) = Front(e.line)
  BY <1>2, IntsSteps
<1>4. Ints(<<>>) = <<>>
  BY <1>2, IntsSteps
<1>5. CASE c = "^D" /\ s.buf = <<>>
  <2>1. t = usart_reply_char(s, EOF)
    BY <1>5, Zenon DEF Typed
  <2>2. g = [e EXCEPT !.text = Append(e.text, EOF)]
    <3>1. e.line = <<>>
      BY <1>3, <1>5
    <3> QED
      BY <1>5, <3>1, Zenon DEF Edit
  <2>3. g.text = Append(e.text, EOF) /\ g.line = e.line
    BY <2>2 DEF EditorState
  <2>4. EOF \in Char \cup {EOF}
    OBVIOUS
  <2> HIDE DEF t, g
  <2>5. /\ t \in State /\ OneKind(t.rd) /\ Kept(s, t)
        /\ t.buf = s.buf /\ t.over = s.over /\ SameOutput(s, t)
        /\ Seen(t) = Append(Seen(s), EOF)
    BY <1>1, <2>1, <2>4, Replied
  <2>6. OneKind(t.wr) /\ Sent(t) = t.asked /\ Spends(s, t)
    BY <2>5, SameOrder
  <2>7. InOrder(t)
    BY <2>5, <2>6 DEF InOrder
  <2> QED
    BY <1>5, <2>3, <2>5, <2>6, <2>7 DEF Edits, t, g
<1>6. CASE c = "^D" /\ s.buf # <<>>
  <2> DEFINE u == usart0_print_char(s, "NL")
  <2>1. t = tty_flush(u)
    BY <1>6, Zenon DEF Typed
  <2>2. g = [text |-> e.text \o e.line, line |-> <<>>]
    <3>1. e.line # <<>>
      BY <1>3, <1>6
    <3> QED
      BY <1>6, <3>1, Zenon DEF Edit
  <2>3. g.text = e.text \o e.line /\ g.line = <<>>
    BY <2>2
  <2>4. InOrder(u) /\ Kept(s, u) /\ SameInput(s, u) /\ Spends(s, u)
    BY PrintOrder
  <2> HIDE DEF t, g, u
  <2>5. u \in State /\ OneKind(u.rd) /\ u.buf = s.buf /\ u.over = s.over /\ Seen(u) = Seen(s)
    BY <2>4, SameOrder DEF InOrder, SameInput
  <2>6. /\ t \in State /\ OneKind(t.rd) /\ Kept(u, t)
        /\ t.buf = <<>> /\ t.over = u.over /\ SameOutput(u, t)
        /\ Seen(t) = Seen(u) \o Ints(u.buf)
    BY <2>1, <2>5, Flushed
  <2>7. OneKind(t.wr) /\ Sent(t) = t.asked
    BY <2>4, <2>6, SameOrder
  <2>8. InOrder(t) /\ Kept(s, t) /\ Spends(s, t)
    BY <2>4, <2>6, <2>7, KeptOn DEF InOrder, Spends, SameOutput
  <2> QED
    BY <1>4, <2>3, <2>5, <2>6, <2>8 DEF Edits, t, g
<1>7. CASE c = "^C"
  <2> DEFINE u == [s EXCEPT !.buf = <<>>]
  <2>1. t = usart0_print_char(u, "NL")
    BY <1>7, Zenon DEF Typed
  <2>2. g = [e EXCEPT !.line = <<>>]
    BY <1>7, Zenon DEF Edit
  <2>3. g.text = e.text /\ g.line = <<>>
    BY <2>2 DEF EditorState
  <2>4. /\ u \in State /\ u.rd = s.rd /\ u.free = s.free /\ u.got = s.got
        /\ u.buf = <<>> /\ u.over = s.over /\ SameOutput(s, u)
    BY <1>1, <1>2, OneField
  <2> HIDE DEF t, g, u
  <2>5. InOrder(u) /\ Kept(s, u) /\ Seen(u) = Seen(s)
    BY <1>1, <2>4, SameOrder DEF InOrder
  <2>6. InOrder(t) /\ Kept(u, t) /\ SameInput(u, t) /\ Spends(u, t)
    BY <2>1, <2>5, PrintOrder
  <2>7. t.buf = <<>> /\ t.over = s.over /\ Seen(t) = Seen(u)
    BY <2>4, <2>6 DEF SameInput, Seen
  <2>8. Kept(s, t) /\ Spends(s, t)
    BY <2>4, <2>5, <2>6, KeptOn DEF Spends, SameOutput
  <2> QED
    BY <1>4, <2>3, <2>5, <2>6, <2>7, <2>8 DEF Edits, t, g
<1>8. CASE c = "BS"
  <2> DEFINE b == IF s.buf = <<>> THEN s.buf ELSE Front(s.buf)
  <2>1. t = [s EXCEPT !.buf = b]
    BY <1>8, Zenon DEF Typed
  <2>2. g = [e EXCEPT !.line = IF e.line = <<>> THEN e.line ELSE Front(e.line)]
    BY <1>8, Zenon DEF Edit
  <2>3. g.text = e.text /\ g.line = IF e.line = <<>> THEN e.line ELSE Front(e.line)
    BY <2>2 DEF EditorState
  <2>4. b \in Seq(Char) /\ Ints(b) = g.line /\ (b = <<>> \/ Len(b) <= Len(s.buf) + 1)
    <3> HIDE DEF g
    <3>1. CASE s.buf = <<>>
      BY <1>2, <1>3, <2>3, <3>1
    <3>2. CASE s.buf # <<>>
      <4>1. b = Front(s.buf) /\ g.line = Front(e.line)
        BY <1>3, <2>3, <3>2
      <4> HIDE DEF b
      <4>2. /\ Front(s.buf) \in Seq(Char) /\ Len(Front(s.buf)) = Len(s.buf) - 1
            /\ Ints(Front(s.buf)) = Front(e.line)
        BY <1>3, <3>2
      <4>3. Len(s.buf) - 1 <= Len(s.buf) + 1
        BY <1>2
      <4> QED
        BY <4>1, <4>2, <4>3
    <3> QED
      BY <3>1, <3>2
  <2> HIDE DEF t, g, b
  <2>5. /\ t \in State /\ t.rd = s.rd /\ t.free = s.free /\ t.got = s.got
        /\ t.buf = b /\ t.over = s.over /\ SameOutput(s, t)
    BY <1>1, <2>1, <2>4, OneField
  <2>6. InOrder(t) /\ Kept(s, t) /\ Seen(t) = Seen(s) /\ Spends(s, t)
    BY <1>1, <2>5, SameOrder DEF InOrder
  <2>7. c \notin Ends
    BY <1>8 DEF Ends
  <2> QED
    BY <2>3, <2>4, <2>5, <2>6, <2>7 DEF Edits, t, g
<1>9. CASE c = "NL"
  <2> DEFINE u == Store(s, c)
  <2>1. t = tty_flush(u)
    BY <1>9, Zenon DEF Typed
  <2>2. g = [text |-> e.text \o Append(e.line, c), line |-> <<>>]
    BY <1>9, Zenon DEF Edit
  <2>3. g.text = e.text \o Append(e.line, c) /\ g.line = <<>>
    <3> HIDE DEF t, g, u
    <3> QED
      BY <2>2
  <2>4. /\ u \in State /\ u.rd = s.rd /\ u.free = s.free /\ u.got = s.got
        /\ u.buf = Append(s.buf, c) /\ SameOutput(s, u)
        /\ u.over => s.over \/ Len(s.buf) >= LINE
    BY <1>1, Stored
  <2>5. AsInt(c) = c
    BY <1>9 DEF AsInt
  <2> HIDE DEF t, g, u
  <2>6. InOrder(u) /\ Kept(s, u) /\ Seen(u) = Seen(s) /\ OneKind(u.rd)
    BY <1>1, <2>4, SameOrder DEF InOrder
  <2>7. /\ t \in State /\ OneKind(t.rd) /\ Kept(u, t)
        /\ t.buf = <<>> /\ t.over = u.over /\ SameOutput(u, t)
        /\ Seen(t) = Seen(u) \o Ints(u.buf)
    BY <2>1, <2>4, <2>6, Flushed
  <2>8. OneKind(t.wr) /\ Sent(t) = t.asked
    BY <2>6, <2>7, SameOrder
  <2>9. InOrder(t) /\ Kept(s, t) /\ Spends(s, t)
    BY <2>4, <2>6, <2>7, <2>8, KeptOn DEF InOrder, Spends, SameOutput
  <2>10. Ints(u.buf) = Append(e.line, c)
    BY <1>3, <2>4, <2>5
  <2>11. g.text = Seen(t)
    BY <2>3, <2>6, <2>7, <2>10
  <2> QED
    BY <1>4, <2>3, <2>4, <2>7, <2>9, <2>11 DEF Edits, t, g
<1>10. CASE c \notin {"^D", "^C", "BS", "NL"}
  <2>1. t = Store(s, c)
    BY <1>10, Zenon DEF Typed
  <2>2. g = [e EXCEPT !.line = Append(e.line, AsInt(c))]
    BY <1>10, Zenon DEF Edit
  <2>3. g.text = e.text /\ g.line = Append(e.line, AsInt(c))
    BY <2>2 DEF EditorState
  <2> HIDE DEF t, g
  <2>4. /\ t \in State /\ t.rd = s.rd /\ t.free = s.free /\ t.got = s.got
        /\ t.buf = Append(s.buf, c) /\ SameOutput(s, t)
        /\ t.over => s.over \/ Len(s.buf) >= LINE
    BY <1>1, <2>1, Stored
  <2>5. InOrder(t) /\ Kept(s, t) /\ Seen(t) = Seen(s) /\ Spends(s, t)
    BY <1>1, <2>4, SameOrder DEF InOrder
  <2>6. c \notin Ends /\ Len(t.buf) <= Len(s.buf) + 1
    BY <1>2, <1>10, <2>4 DEF Ends
  <2>7. Ints(t.buf) = g.line
    BY <1>3, <2>3, <2>4
  <2> QED
    BY <2>3, <2>4, <2>5, <2>6, <2>7 DEF Edits, t, g
<1> QED
  BY <1>5, <1>6, <1>7, <1>8, <1>9, <1>10

-----------------------------------------------------------------------------
(* The tasks.                                                              *)

HIGH == {"pm", "ex", "vfs", "tty"}

\* The ready tasks are those of h.
LEMMA Switched ==
  ASSUME NEW h \in Seq(HIGH), IsInjective(h), Switch(h)
  PROVE  /\ cur' \in {"user", "pm", "ex", "vfs", "tty"} /\ high' \in Seq(HIGH)
         /\ IsInjective(high') /\ cur' \notin Range(high')
         /\ cur' = "user" => high' = <<>>
         /\ \A t \in HIGH : Ready(t)' <=> t \in Range(h)
<1>1. CASE h = <<>>
  <2>1. cur' = "user" /\ high' = h
    BY <1>1 DEF Switch
  <2>2. Range(h) = {}
    BY <1>1 DEF Range
  <2> QED
    BY <1>1, <2>1, <2>2 DEF Ready, HIGH
<1>2. CASE h # <<>>
  <2>1. cur' = Head(h) /\ high' = Tail(h)
    BY <1>2 DEF Switch
  <2>2. /\ Tail(h) \in Seq(HIGH) /\ Head(h) \in HIGH /\ Head(h) \in Range(h)
        /\ Range(Tail(h)) = Range(h) \ {Head(h)} /\ IsInjective(Tail(h))
    BY <1>2, TailSet
  <2>3. Head(h) # "user" /\ Head(h) \in {"user", "pm", "ex", "vfs", "tty"}
    BY <2>2 DEF HIGH
  <2>4. \A t : Ready(t)' <=> t = Head(h) \/ t \in Range(Tail(h))
    BY <2>1 DEF Ready
  <2> QED
    BY <2>1, <2>2, <2>3, <2>4
<1> QED
  BY <1>1, <1>2

\* A task that becomes ready is put at the end of the queue.
LEMMA Queued ==
  ASSUME NEW t \in HIGH, high \in Seq(HIGH), IsInjective(high), t \notin Range(high),
         Switch(Append(high, t))
  PROVE  /\ cur' \in {"user", "pm", "ex", "vfs", "tty"} /\ high' \in Seq(HIGH)
         /\ IsInjective(high') /\ cur' \notin Range(high')
         /\ cur' = "user" => high' = <<>>
         /\ \A u \in HIGH : Ready(u)' <=> u = t \/ u \in Range(high)
<1> DEFINE h == Append(high, t)
<1>1. h \in Seq(HIGH) /\ IsInjective(h) /\ Range(h) = Range(high) \cup {t}
  BY AppendSet
<1> HIDE DEF h
<1>2. Switch(h)
  BY DEF h
<1>3. /\ cur' \in {"user", "pm", "ex", "vfs", "tty"} /\ high' \in Seq(HIGH)
      /\ IsInjective(high') /\ cur' \notin Range(high')
      /\ cur' = "user" => high' = <<>>
      /\ \A u \in HIGH : Ready(u)' <=> u \in Range(h)
  BY <1>1, <1>2, Switched
<1> QED
  BY <1>1, <1>3

\* Nothing the driver keeps has changed.
LEMMA DriverUnchanged ==
  ASSUME Queues, Lines, UNCHANGED driver
  PROVE  Queues' /\ Lines' /\ stale' = stale /\ wr_q' = wr_q
<1>1. /\ rd_q' = rd_q /\ wr_q' = wr_q /\ tbuf' = tbuf /\ overrun' = overrun /\ client' = client
      /\ stale' = stale /\ taken' = taken /\ got' = got /\ asked' = asked /\ out' = out
  BY DEF driver
<1>2. Driver' = Driver
  BY <1>1 DEF Driver
<1>3. Queues'
  BY <1>1, <1>2 DEF Queues
<1>4. Lines'
  BY <1>1, <1>2 DEF Lines, OverrunByLongLine
<1> QED
  BY <1>1, <1>3, <1>4

\* The end of a transmission, wherever it is.
One(p) == IF p THEN 1 ELSE 0

\* TxTokens as a sum over the places the token can be at.
LEMMA TokensSum ==
  /\ TxTokens = One(busy) + One(txc) + One(AtEv("TX")) + One(AtVfs("TX")) + Ended(wr_q)
  /\ TxTokens' = One(busy') + One(txc') + One(AtEv("TX")') + One(AtVfs("TX")') + Ended(wr_q')
BY DEF TxTokens, One, AtEv, AtVfs, Ended

\* A step of pm, ex or vfs that moves no message about an interrupt.
LEMMA OtherRuns ==
  ASSUME TtyInv, UNCHANGED <<ev, evmsg, vmsg, uart, driver, typed, hit>>,
         cur # "ev", cur' \in {"user", "pm", "ex", "vfs", "tty"}, high' \in Seq(HIGH),
         pm' \in {"receive", "ready", "ex", "send", "vfs"},
         vfs' = vfs \/ (vfs' \in {"pm", "done"} /\ vfs \in {"receive", "pm"}),
         Scheduled'
  PROVE  TtyInv'
<1>1. TtyTasks /\ Registers /\ Scheduled /\ Fresh /\ Queues /\ Lines /\ Tokens
  BY DEF TtyInv
<1>2. /\ ev' = ev /\ evmsg' = evmsg /\ vmsg' = vmsg /\ hit' = hit /\ cur' # "ev"
      /\ rxcie' = rxcie /\ txcie' = txcie /\ rx' = rx /\ udr' = udr /\ busy' = busy /\ txc' = txc
  BY DEF uart
<1>3. Queues' /\ Lines' /\ stale' = stale /\ wr_q' = wr_q
  BY <1>1, DriverUnchanged
<1>4. TtyTasks' /\ Registers'
  BY <1>1, <1>2, <1>3 DEF TtyTasks, Registers, HIGH
<1>5. \A m : (AtEv(m)' <=> AtEv(m)) /\ (AtVfs(m)' <=> AtVfs(m))
  BY <1>2 DEF AtEv, AtVfs
<1>6. Fresh'
  BY <1>1, <1>2, <1>3, <1>5 DEF Fresh
<1>7. TxTokens' = TxTokens
  BY <1>2, <1>3, <1>5, TokensSum DEF One
<1>8. Tokens'
  BY <1>1, <1>2, <1>7 DEF Tokens
<1> QED
  BY <1>3, <1>4, <1>6, <1>8 DEF TtyInv

\* The ready queue, and who is in it.
LEMMA QueueFacts ==
  ASSUME TtyInv
  PROVE  /\ high \in Seq(HIGH) /\ IsInjective(high) /\ cur \notin Range(high)
         /\ pm \in {"receive", "ready", "ex", "send", "vfs"}
         /\ cur = "user" => high = <<>> /\ Range(high) = {}
         /\ "pm" \in HIGH /\ "ex" \in HIGH /\ "vfs" \in HIGH /\ "tty" \in HIGH
         /\ Ready("vfs") <=> vfs \in {"int", "pm", "done"}
         /\ Ready("tty") <=> vfs = "asked"
         /\ Ready("pm") <=> pm = "ready"
         /\ vfs = "pm" => pm = "vfs"
         /\ ev = "blocked" => vfs # "receive"
<1>1. TtyTasks /\ Scheduled
  BY DEF TtyInv
<1>2. high = <<>> => Range(high) = {}
  BY DEF Range
<1> QED
  BY <1>1, <1>2 DEF TtyTasks, Scheduled, HIGH

\* A user calls pm.
LEMMA PmRunKeeps ==
  ASSUME TtyInv, PmRun
  PROVE  TtyInv'
<1>1. /\ cur = "user" /\ cur' = "pm" /\ pm = "receive" /\ pm' = "ready" /\ high' = high /\ vfs' = vfs
      /\ UNCHANGED <<ev, evmsg, vmsg, uart, driver, typed, hit>>
  BY DEF PmRun, messages
<1>2. /\ high = <<>> /\ high \in Seq(HIGH) /\ IsInjective(high) /\ Range(high) = {}
      /\ (Ready("vfs") <=> vfs \in {"int", "pm", "done"}) /\ (Ready("tty") <=> vfs = "asked")
      /\ (vfs = "pm" => pm = "vfs") /\ (ev = "blocked" => vfs # "receive")
  BY <1>1, QueueFacts
<1>3. Ready("pm")' /\ (Ready("vfs")' <=> Ready("vfs")) /\ (Ready("tty")' <=> Ready("tty"))
  BY <1>1, <1>2 DEF Ready
<1>4. Scheduled'
  BY <1>1, <1>2, <1>3 DEF Scheduled
<1> QED
  BY <1>1, <1>2, <1>4, OtherRuns

\* pm is done and receives.
LEMMA PmReceivesKeeps ==
  ASSUME TtyInv, PmReceives
  PROVE  TtyInv'
<1>1. /\ cur = "pm" /\ pm' = "receive" /\ Switch(high) /\ vfs' = vfs
      /\ UNCHANGED <<ev, evmsg, vmsg, uart, driver, typed, hit>>
  BY DEF PmReceives, messages
<1>2. /\ cur' \in {"user", "pm", "ex", "vfs", "tty"} /\ high' \in Seq(HIGH)
      /\ IsInjective(high') /\ cur' \notin Range(high')
      /\ cur' = "user" => high' = <<>>
      /\ \A t \in HIGH : Ready(t)' <=> t \in Range(high)
  BY <1>1, QueueFacts, Switched
<1>3. ~Ready("pm")' /\ (Ready("vfs")' <=> Ready("vfs")) /\ (Ready("tty")' <=> Ready("tty"))
  BY <1>1, <1>2, QueueFacts DEF Ready
<1>4. Scheduled'
  <2>1. vfs # "pm"
    BY <1>1, QueueFacts DEF Ready
  <2> QED
    BY <1>1, <1>2, <1>3, <2>1, QueueFacts DEF Scheduled
<1> QED
  BY <1>1, <1>2, <1>4, OtherRuns

\* pm waits for ex, which runs now or when it comes first in the queue.
LEMMA PmAsksExKeeps ==
  ASSUME TtyInv, PmAsksEx
  PROVE  TtyInv'
<1> DEFINE h == IF "ex" \in Range(high) THEN high ELSE Append(high, "ex")
<1>1. /\ cur = "pm" /\ pm' = "ex" /\ Switch(h) /\ vfs' = vfs
      /\ UNCHANGED <<ev, evmsg, vmsg, uart, driver, typed, hit>>
  BY DEF PmAsksEx, messages
<1>2. h \in Seq(HIGH) /\ IsInjective(h) /\ Range(h) = Range(high) \cup {"ex"}
  <2>1. CASE "ex" \in Range(high)
    BY <2>1, QueueFacts
  <2>2. CASE "ex" \notin Range(high)
    BY <2>2, QueueFacts, AppendSet
  <2> QED
    BY <2>1, <2>2
<1> HIDE DEF h
<1>3. /\ cur' \in {"user", "pm", "ex", "vfs", "tty"} /\ high' \in Seq(HIGH)
      /\ IsInjective(high') /\ cur' \notin Range(high')
      /\ cur' = "user" => high' = <<>>
      /\ \A t \in HIGH : Ready(t)' <=> t \in Range(h)
  BY <1>1, <1>2, Switched
<1>4. ~Ready("pm")' /\ (Ready("vfs")' <=> Ready("vfs")) /\ (Ready("tty")' <=> Ready("tty"))
  BY <1>1, <1>2, <1>3, QueueFacts DEF Ready
<1>5. Scheduled'
  <2>1. vfs # "pm"
    BY <1>1, QueueFacts DEF Ready
  <2> QED
    BY <1>1, <1>3, <1>4, <2>1, QueueFacts DEF Scheduled
<1> QED
  BY <1>1, <1>3, <1>5, OtherRuns

\* ex or vfs makes pm ready and runs on.
LEMMA Answered ==
  ASSUME TtyInv, cur \in {"ex", "vfs"}, pm # "ready", cur' = cur, high' = Append(high, "pm")
  PROVE  /\ high' \in Seq(HIGH) /\ IsInjective(high') /\ cur' \notin Range(high')
         /\ Ready("pm")'
         /\ Ready("vfs")' <=> Ready("vfs")
         /\ Ready("tty")' <=> Ready("tty")
<1>1. "pm" \notin Range(high)
  BY QueueFacts DEF Ready
<1>2. /\ high' \in Seq(HIGH) /\ IsInjective(high') /\ Range(high') = Range(high) \cup {"pm"}
  BY <1>1, QueueFacts, AppendSet
<1> QED
  BY <1>2, QueueFacts DEF Ready

\* ex answers pm and runs on.
LEMMA ExAnswersKeeps ==
  ASSUME TtyInv, ExAnswers
  PROVE  TtyInv'
<1>1. /\ cur = "ex" /\ cur' = cur /\ pm = "ex" /\ pm' = "ready" /\ high' = Append(high, "pm")
      /\ vfs' = vfs /\ UNCHANGED <<ev, evmsg, vmsg, uart, driver, typed, hit>>
  BY DEF ExAnswers, messages
<1>2. /\ high' \in Seq(HIGH) /\ IsInjective(high') /\ cur' \notin Range(high')
      /\ Ready("pm")' /\ (Ready("vfs")' <=> Ready("vfs")) /\ (Ready("tty")' <=> Ready("tty"))
  BY <1>1, Answered
<1>3. Scheduled'
  <2>1. vfs # "pm"
    BY <1>1, QueueFacts
  <2> QED
    BY <1>1, <1>2, <2>1, QueueFacts DEF Scheduled
<1> QED
  BY <1>1, <1>2, <1>3, OtherRuns

\* ex is back in its receive().
LEMMA ExReceivesKeeps ==
  ASSUME TtyInv, ExReceives
  PROVE  TtyInv'
<1>1. /\ cur = "ex" /\ pm' = pm /\ Switch(high) /\ vfs' = vfs
      /\ UNCHANGED <<ev, evmsg, vmsg, uart, driver, typed, hit>>
  BY DEF ExReceives, messages
<1>2. /\ cur' \in {"user", "pm", "ex", "vfs", "tty"} /\ high' \in Seq(HIGH)
      /\ IsInjective(high') /\ cur' \notin Range(high')
      /\ cur' = "user" => high' = <<>>
      /\ \A t \in HIGH : Ready(t)' <=> t \in Range(high)
  BY <1>1, QueueFacts, Switched
<1>3. /\ Ready("pm")' <=> Ready("pm")
      /\ (Ready("vfs")' <=> Ready("vfs")) /\ (Ready("tty")' <=> Ready("tty"))
  BY <1>1, <1>2, QueueFacts DEF Ready
<1>4. Scheduled'
  BY <1>1, <1>2, <1>3, QueueFacts DEF Scheduled
<1> QED
  BY <1>1, <1>2, <1>4, QueueFacts, OtherRuns

\* pm calls vfs, or waits until vfs receives.
LEMMA PmAsksVfsKeeps ==
  ASSUME TtyInv, PmAsksVfs
  PROVE  TtyInv'
<1>1. cur = "pm" /\ UNCHANGED <<ev, evmsg, vmsg, uart, driver, typed, hit>>
  BY DEF PmAsksVfs, messages
<1>2. CASE vfs = "receive"
  <2>1. vfs' = "pm" /\ pm' = "vfs" /\ Switch(Append(high, "vfs"))
    BY <1>2 DEF PmAsksVfs
  <2>2. "vfs" \notin Range(high) /\ "tty" \notin Range(high) /\ "pm" \notin Range(high)
    BY <1>1, <1>2, QueueFacts DEF Ready
  <2>3. /\ cur' \in {"user", "pm", "ex", "vfs", "tty"} /\ high' \in Seq(HIGH)
        /\ IsInjective(high') /\ cur' \notin Range(high')
        /\ cur' = "user" => high' = <<>>
        /\ \A u \in HIGH : Ready(u)' <=> u = "vfs" \/ u \in Range(high)
    BY <2>1, <2>2, QueueFacts, Queued
  <2>4. Ready("vfs")' /\ ~Ready("tty")' /\ ~Ready("pm")'
    BY <2>2, <2>3, QueueFacts
  <2>5. Scheduled'
    BY <1>1, <2>1, <2>3, <2>4 DEF Scheduled
  <2> QED
    BY <1>1, <1>2, <2>1, <2>3, <2>5, OtherRuns
<1>3. CASE vfs # "receive"
  <2>1. vfs' = vfs /\ pm' = "send" /\ Switch(high)
    BY <1>3 DEF PmAsksVfs
  <2>2. /\ cur' \in {"user", "pm", "ex", "vfs", "tty"} /\ high' \in Seq(HIGH)
        /\ IsInjective(high') /\ cur' \notin Range(high')
        /\ cur' = "user" => high' = <<>>
        /\ \A t \in HIGH : Ready(t)' <=> t \in Range(high)
    BY <2>1, QueueFacts, Switched
  <2>3. ~Ready("pm")' /\ (Ready("vfs")' <=> Ready("vfs")) /\ (Ready("tty")' <=> Ready("tty"))
    BY <1>1, <2>2, QueueFacts DEF Ready
  <2>4. vfs # "pm"
    BY <1>1, QueueFacts DEF Ready
  <2>5. Scheduled'
    BY <1>1, <2>1, <2>2, <2>3, <2>4, QueueFacts DEF Scheduled
  <2> QED
    BY <1>1, <2>1, <2>2, <2>5, OtherRuns
<1> QED
  BY <1>2, <1>3

\* A task goes to the end of the queue.
LEMMA Requeued ==
  ASSUME TtyInv, cur \in HIGH, Switch(Append(high, cur))
  PROVE  /\ cur' \in {"user", "pm", "ex", "vfs", "tty"} /\ high' \in Seq(HIGH)
         /\ IsInjective(high') /\ cur' \notin Range(high')
         /\ cur' = "user" => high' = <<>>
         /\ \A u \in HIGH : Ready(u)' <=> Ready(u)
<1>1. /\ cur' \in {"user", "pm", "ex", "vfs", "tty"} /\ high' \in Seq(HIGH)
      /\ IsInjective(high') /\ cur' \notin Range(high')
      /\ cur' = "user" => high' = <<>>
      /\ \A u \in HIGH : Ready(u)' <=> u = cur \/ u \in Range(high)
  BY QueueFacts, Queued
<1> QED
  BY <1>1 DEF Ready

\* vfs asks a driver on pm's behalf: the others that are ready run first.
LEMMA VfsAsksKeeps ==
  ASSUME TtyInv, VfsAsks
  PROVE  TtyInv'
<1>1. /\ cur = "vfs" /\ vfs = "pm" /\ Switch(Append(high, cur)) /\ pm' = pm /\ vfs' = vfs
      /\ UNCHANGED <<ev, evmsg, vmsg, uart, driver, typed, hit>>
  BY DEF VfsAsks, messages
<1>2. /\ cur' \in {"user", "pm", "ex", "vfs", "tty"} /\ high' \in Seq(HIGH)
      /\ IsInjective(high') /\ cur' \notin Range(high')
      /\ cur' = "user" => high' = <<>>
      /\ \A u \in HIGH : Ready(u)' <=> Ready(u)
  BY <1>1, QueueFacts, Requeued
<1>3. Scheduled'
  BY <1>1, <1>2, QueueFacts DEF Scheduled
<1> QED
  BY <1>1, <1>2, <1>3, QueueFacts, OtherRuns

\* vfs answers pm and runs on.
LEMMA VfsAnswersKeeps ==
  ASSUME TtyInv, VfsAnswers
  PROVE  TtyInv'
<1>1. /\ cur = "vfs" /\ cur' = cur /\ vfs = "pm" /\ vfs' = "done" /\ pm' = "ready"
      /\ high' = Append(high, "pm")
      /\ UNCHANGED <<ev, evmsg, vmsg, uart, driver, typed, hit>>
  BY DEF VfsAnswers, messages
<1>2. /\ high' \in Seq(HIGH) /\ IsInjective(high') /\ cur' \notin Range(high')
      /\ Ready("pm")' /\ (Ready("vfs")' <=> Ready("vfs")) /\ (Ready("tty")' <=> Ready("tty"))
  BY <1>1, QueueFacts, Answered
<1>3. Scheduled'
  BY <1>1, <1>2, QueueFacts DEF Scheduled
<1> QED
  BY <1>1, <1>2, <1>3, OtherRuns

\* The timer interrupt switches away from pm or ex.
LEMMA TickKeeps ==
  ASSUME TtyInv, Tick
  PROVE  TtyInv'
<1>1. /\ cur \in {"pm", "ex"} /\ Switch(Append(high, cur)) /\ pm' = pm /\ vfs' = vfs
      /\ UNCHANGED <<ev, evmsg, vmsg, uart, driver, typed, hit>>
  BY DEF Tick, messages, Open
<1>2. /\ cur' \in {"user", "pm", "ex", "vfs", "tty"} /\ high' \in Seq(HIGH)
      /\ IsInjective(high') /\ cur' \notin Range(high')
      /\ cur' = "user" => high' = <<>>
      /\ \A u \in HIGH : Ready(u)' <=> Ready(u)
  BY <1>1, QueueFacts, Requeued
<1>3. Scheduled'
  BY <1>1, <1>2, QueueFacts DEF Scheduled
<1> QED
  BY <1>1, <1>2, <1>3, QueueFacts, OtherRuns

\* A character is received, or one is out: the tasks do not notice.
LEMMA ReceiveCharKeeps ==
  ASSUME TtyInv, NEW c \in Char, ReceiveChar(c)
  PROVE  TtyInv'
<1>1. TtyTasks /\ Registers /\ Scheduled /\ Fresh /\ Queues /\ Lines /\ Tokens
  BY DEF TtyInv
<1>2. /\ Len(rx) < RXFIFO /\ rx' = Append(rx, c)
      /\ UNCHANGED <<cur, high, ev, evmsg, vfs, vmsg, pm, rxcie, txcie, udr, busy, txc, hit>>
      /\ UNCHANGED driver
  BY DEF ReceiveChar, tasks
<1>3. Queues' /\ Lines' /\ stale' = stale /\ wr_q' = wr_q
  BY <1>1, <1>2, DriverUnchanged
<1>4. rx' \in Seq(Char) /\ Len(rx') <= RXFIFO /\ rx' # <<>>
  <2>1. rx \in Seq(Char) /\ RXFIFO \in Int
    BY <1>1 DEF Registers, RXFIFO
  <2>2. Len(Append(rx, c)) = Len(rx) + 1 /\ Append(rx, c) \in Seq(Char) /\ Append(rx, c) # <<>>
    BY <2>1, AppendProperties
  <2>3. Len(rx) \in Nat
    BY <2>1
  <2> QED
    BY <1>2, <2>1, <2>2, <2>3
<1>5. TtyTasks' /\ Registers'
  BY <1>1, <1>2, <1>3, <1>4 DEF TtyTasks, Registers
<1>6. Scheduled'
  BY <1>1, <1>2 DEF Scheduled, Ready
<1>7. Fresh'
  BY <1>1, <1>2, <1>3, <1>4 DEF Fresh, AtEv, AtVfs
<1>8. TxTokens' = TxTokens
  BY <1>2, <1>3, TokensSum DEF One, AtEv, AtVfs
<1>9. Tokens'
  BY <1>1, <1>2, <1>8 DEF Tokens
<1> QED
  BY <1>3, <1>5, <1>6, <1>7, <1>9 DEF TtyInv

\* The number of ends held by wr_q is a number.
LEMMA EndedNat ==
  ASSUME TtyInv
  PROVE  Ended(wr_q) \in Nat
<1>1. wr_q \in Seq(WriteRequest) /\ OneKind(wr_q)
  <2>1. Driver \in State /\ Driver.wr = wr_q /\ OneKind(wr_q)
    BY DEF TtyInv, Queues, Driver
  <2> QED
    BY <2>1, StateFields
<1> QED
  BY <1>1, EndedSteps

\* The usart ends a transmission and raises TXC.
LEMMA TxDoneKeeps ==
  ASSUME TtyInv, TxDone
  PROVE  TtyInv'
<1>1. TtyTasks /\ Registers /\ Scheduled /\ Fresh /\ Queues /\ Lines /\ Tokens
  BY DEF TtyInv
<1>2. /\ busy /\ busy' = FALSE /\ txc' = TRUE
      /\ UNCHANGED <<cur, high, ev, evmsg, vfs, vmsg, pm, rxcie, txcie, rx, udr, hit>>
      /\ UNCHANGED driver
  BY DEF TxDone, tasks
<1>3. Queues' /\ Lines' /\ stale' = stale /\ wr_q' = wr_q
  BY <1>1, <1>2, DriverUnchanged
<1>4. TtyTasks' /\ Registers'
  <2>1. TtyTasks'
    BY <1>1, <1>2, <1>3 DEF TtyTasks
  <2>2. busy' \in BOOLEAN /\ txc' \in BOOLEAN
    BY <1>2
  <2>3. rxcie' = rxcie /\ txcie' = txcie /\ rx' = rx /\ udr' = udr
    BY <1>2
  <2>4. Registers'
    BY <1>1, <2>2, <2>3 DEF Registers
  <2> QED
    BY <2>1, <2>4
<1>5. Scheduled'
  BY <1>1, <1>2 DEF Scheduled, Ready
<1>6. Fresh'
  BY <1>1, <1>2, <1>3 DEF Fresh, AtEv, AtVfs
<1>7. TxTokens' = TxTokens
  <2>1. One(AtEv("TX")) \in {0, 1} /\ One(AtVfs("TX")) \in {0, 1} /\ Ended(wr_q) \in Nat
    BY EndedNat DEF One
  <2>2. One(AtEv("TX")') = One(AtEv("TX")) /\ One(AtVfs("TX")') = One(AtVfs("TX"))
    BY <1>2 DEF One, AtEv, AtVfs
  <2>3. One(busy) = 1 /\ One(busy') = 0 /\ One(txc') = 1 /\ One(txc) \in {0, 1}
    BY <1>2 DEF One
  <2>4. TxTokens <= 1
    BY <1>1 DEF Tokens
  <2> QED
    BY <1>3, <2>1, <2>2, <2>3, <2>4, TokensSum
<1>8. Tokens'
  BY <1>1, <1>2, <1>7 DEF Tokens
<1> QED
  BY <1>3, <1>4, <1>5, <1>6, <1>8 DEF TtyInv

\* When a user runs, vfs waits for a message.
LEMMA IdleUser ==
  ASSUME TtyInv, cur = "user"
  PROVE  vfs = "receive" /\ ev # "blocked"
<1>1. high = <<>>
  BY DEF TtyInv, Scheduled
<1>2. Range(high) = {}
  BY <1>1 DEF Range
<1>3. ~Ready("vfs") /\ ~Ready("tty")
  BY <1>2 DEF Ready
<1>4. vfs = "receive"
  BY <1>3 DEF TtyInv, Scheduled, TtyTasks
<1> QED
  BY <1>4 DEF TtyInv, Scheduled

\* usart0_event wakes up, and the task it interrupts stays ready.
LEMMA Woken ==
  ASSUME TtyInv, cur \in Unmasked, NEW m, Wakes(m)
  PROVE  /\ cur' = "ev" /\ evmsg' = m /\ ev' = ev /\ vfs' = vfs /\ vmsg' = vmsg
         /\ pm' = pm /\ high' \in Seq(HIGH) /\ IsInjective(high') /\ cur' \notin Range(high')
         /\ Ready("vfs")' <=> Ready("vfs")
         /\ Ready("tty")' <=> Ready("tty")
         /\ Ready("pm")' <=> Ready("pm")
<1>1. /\ cur' = "ev" /\ evmsg' = m /\ ev' = ev /\ vfs' = vfs /\ vmsg' = vmsg
      /\ pm' = pm /\ high' = IF cur = "user" THEN high ELSE Cons(cur, high)
  BY DEF Wakes
<1>2. /\ high \in Seq(HIGH) /\ IsInjective(high) /\ cur \notin Range(high)
      /\ cur \in {"user", "pm", "ex"}
  BY DEF TtyInv, TtyTasks, Scheduled, HIGH, Unmasked, Open
<1>3. /\ high' \in Seq(HIGH) /\ IsInjective(high')
      /\ \A t : t \in Range(high') => t \in Range(high) \/ t = cur
      /\ \A t : t \in Range(high) => t \in Range(high')
      /\ cur # "user" => cur \in Range(high')
  <2>1. CASE cur = "user"
    BY <1>1, <1>2, <2>1
  <2>2. CASE cur # "user"
    <3>1. cur \in HIGH /\ high' = Cons(cur, high)
      BY <1>1, <1>2, <2>2 DEF HIGH
    <3>2. /\ Cons(cur, high) \in Seq(HIGH) /\ Range(Cons(cur, high)) = Range(high) \cup {cur}
          /\ IsInjective(Cons(cur, high))
      BY <1>2, <3>1, ConsSet
    <3> QED
      BY <3>1, <3>2
  <2> QED
    BY <2>1, <2>2
<1>4. "ev" \notin Range(high)
  <2>1. \A t \in Range(high) : t \in HIGH
    BY <1>2 DEF Range
  <2> QED
    BY <2>1 DEF HIGH
<1> QED
  BY <1>1, <1>2, <1>3, <1>4 DEF Ready

\* A receive interrupt (tty.c:36-41): the message is about a character that is
\* there.
LEMMA RxInterruptKeeps ==
  ASSUME TtyInv, RxInterrupt
  PROVE  TtyInv'
<1>1. TtyTasks /\ Registers /\ Scheduled /\ Fresh /\ Queues /\ Lines /\ Tokens
  BY DEF TtyInv
<1>2. /\ cur \in Unmasked /\ rx # <<>> /\ ev = "wait" /\ Wakes("RX") /\ hit' = Hits
      /\ UNCHANGED driver
      /\ rxcie' = rxcie /\ txcie' = txcie /\ rx' = rx /\ udr' = udr /\ busy' = busy /\ txc' = txc
  BY DEF RxInterrupt, uart
<1>3. /\ cur' = "ev" /\ evmsg' = "RX" /\ ev' = ev /\ vfs' = vfs /\ vmsg' = vmsg
      /\ high' \in Seq(HIGH) /\ IsInjective(high') /\ cur' \notin Range(high')
      /\ Ready("vfs")' <=> Ready("vfs")
      /\ Ready("tty")' <=> Ready("tty")
      /\ pm' = pm /\ (Ready("pm")' <=> Ready("pm"))
  BY <1>2, Woken
<1>4. Queues' /\ Lines' /\ stale' = stale /\ wr_q' = wr_q
  BY <1>1, <1>2, DriverUnchanged
<1>5. cur # "ev" /\ ev # "blocked"
  BY <1>2 DEF Unmasked, Open
<1>6. /\ hit' \in BOOLEAN /\ (hit => hit')
      /\ ~hit' => ~hit /\ vfs = "receive"
  <2>1. CASE cur = "user"
    <3>1. vfs = "receive"
      BY <2>1, IdleUser
    <3> QED
      BY <1>2, <2>1, <3>1 DEF Hits
  <2>2. CASE cur \in Open
    BY <1>2, <2>2 DEF Hits
  <2> QED
    BY <1>2, <2>1, <2>2 DEF Unmasked
<1>7. TtyTasks' /\ Registers'
  <2>1. TtyTasks'
    BY <1>1, <1>3, <1>4, <1>6 DEF TtyTasks, HIGH
  <2>2. Registers'
    BY <1>1, <1>2 DEF Registers
  <2> QED
    BY <2>1, <2>2
<1>8. Scheduled'
  BY <1>1, <1>2, <1>3, <1>5 DEF Scheduled
<1>9. Fresh'
  BY <1>1, <1>2, <1>3, <1>4, <1>5, <1>6 DEF Fresh, AtEv, AtVfs
<1>10. TxTokens' = TxTokens
  <2>1. One(AtEv("TX")) = 0 /\ One(AtEv("TX")') = 0
    BY <1>3, <1>5 DEF One, AtEv
  <2>2. One(AtVfs("TX")') = One(AtVfs("TX")) /\ One(busy') = One(busy) /\ One(txc') = One(txc)
    BY <1>2, <1>3 DEF One, AtVfs
  <2> QED
    BY <1>4, <2>1, <2>2, TokensSum
<1>11. Tokens'
  BY <1>1, <1>6, <1>10 DEF Tokens
<1> QED
  BY <1>4, <1>7, <1>8, <1>9, <1>11 DEF TtyInv

\* A transmit interrupt (tty.c:42-46): it is forgotten only if usart0_event is
\* blocked, and then pm or ex was interrupted while vfs was busy.
LEMMA TxInterruptKeeps ==
  ASSUME TtyInv, TxInterrupt
  PROVE  TtyInv'
<1>1. TtyTasks /\ Registers /\ Scheduled /\ Fresh /\ Queues /\ Lines /\ Tokens
  BY DEF TtyInv
<1>2. /\ cur \in Unmasked /\ txc /\ txc' = FALSE /\ hit' = Hits
      /\ UNCHANGED driver
      /\ rxcie' = rxcie /\ txcie' = txcie /\ rx' = rx /\ udr' = udr /\ busy' = busy
  BY DEF TxInterrupt
<1>3. Queues' /\ Lines' /\ stale' = stale /\ wr_q' = wr_q
  BY <1>1, <1>2, DriverUnchanged
<1>4. cur # "ev"
  BY <1>2 DEF Unmasked, Open
<1>5. /\ hit' \in BOOLEAN /\ (hit => hit')
      /\ ~hit' => ~hit /\ vfs = "receive"
  <2>1. CASE cur = "user"
    <3>1. vfs = "receive"
      BY <2>1, IdleUser
    <3> QED
      BY <1>2, <2>1, <3>1 DEF Hits
  <2>2. CASE cur \in Open
    BY <1>2, <2>2 DEF Hits
  <2> QED
    BY <1>2, <2>1, <2>2 DEF Unmasked
<1>6. Registers'
  <2>1. txc' \in BOOLEAN
    BY <1>2
  <2>2. rxcie' = rxcie /\ txcie' = txcie /\ rx' = rx /\ udr' = udr /\ busy' = busy
    BY <1>2
  <2> QED
    BY <1>1, <2>1, <2>2 DEF Registers
<1>7. One(txc) = 1 /\ One(txc') = 0 /\ One(busy') = One(busy)
  BY <1>2 DEF One
<1>8. /\ One(busy) \in {0, 1} /\ One(AtEv("TX")) \in {0, 1} /\ One(AtVfs("TX")) \in {0, 1}
      /\ Ended(wr_q) \in Nat
  BY EndedNat DEF One
<1>9. CASE ev = "wait"
  <2>1. Wakes("TX")
    BY <1>9 DEF TxInterrupt
  <2>2. /\ cur' = "ev" /\ evmsg' = "TX" /\ ev' = ev /\ vfs' = vfs /\ vmsg' = vmsg
        /\ high' \in Seq(HIGH) /\ IsInjective(high') /\ cur' \notin Range(high')
        /\ Ready("vfs")' <=> Ready("vfs")
        /\ Ready("tty")' <=> Ready("tty")
        /\ pm' = pm /\ (Ready("pm")' <=> Ready("pm"))
    BY <1>2, <2>1, Woken
  <2>3. TtyTasks'
    BY <1>1, <1>3, <1>5, <2>2 DEF TtyTasks, HIGH
  <2>4. Scheduled'
    BY <1>1, <1>9, <2>2 DEF Scheduled
  <2>5. Fresh'
    <3>1. ~AtEv("RX")' /\ (AtVfs("RX")' <=> AtVfs("RX"))
      BY <2>2 DEF AtEv, AtVfs
    <3>2. rx' = rx /\ udr' = udr
      BY <1>2
    <3> QED
      BY <1>1, <1>3, <1>5, <1>9, <2>2, <3>1, <3>2 DEF Fresh
  <2>6. TxTokens' = TxTokens
    <3>1. One(AtEv("TX")) = 0 /\ One(AtEv("TX")') = 1 /\ One(AtVfs("TX")') = One(AtVfs("TX"))
      BY <1>4, <1>9, <2>2 DEF One, AtEv, AtVfs
    <3> QED
      BY <1>3, <1>7, <1>8, <3>1, TokensSum
  <2>7. Tokens'
    BY <1>1, <1>5, <2>6 DEF Tokens
  <2> QED
    BY <1>3, <1>6, <2>3, <2>4, <2>5, <2>7 DEF TtyInv
<1>10. CASE ev # "wait"
  <2>1. UNCHANGED <<cur, high, ev, evmsg, vfs, vmsg, pm>>
    BY <1>10 DEF TxInterrupt, tasks
  <2>2. ev = "blocked"
    BY <1>1, <1>10 DEF TtyTasks
  <2>3. hit'
    BY <1>1, <1>5, <2>2 DEF Scheduled
  <2>4. TtyTasks'
    BY <1>1, <1>3, <1>5, <2>1 DEF TtyTasks
  <2>5. Scheduled'
    BY <1>1, <2>1 DEF Scheduled, Ready
  <2>6. Fresh'
    <3>1. (AtEv("RX")' <=> AtEv("RX")) /\ (AtVfs("RX")' <=> AtVfs("RX"))
      BY <2>1 DEF AtEv, AtVfs
    <3>2. rx' = rx /\ udr' = udr
      BY <1>2
    <3> QED
      BY <1>1, <2>3, <3>1, <3>2 DEF Fresh
  <2>7. TxTokens' = TxTokens - 1
    <3>1. One(AtEv("TX")') = One(AtEv("TX")) /\ One(AtVfs("TX")') = One(AtVfs("TX"))
      BY <2>1 DEF One, AtEv, AtVfs
    <3> QED
      BY <1>3, <1>7, <1>8, <3>1, TokensSum
  <2>8. TxTokens \in Int
    BY <1>7, <1>8, TokensSum
  <2>9. Tokens'
    BY <1>1, <2>3, <2>7, <2>8 DEF Tokens
  <2> QED
    BY <1>3, <1>6, <2>4, <2>5, <2>6, <2>9 DEF TtyInv
<1> QED
  BY <1>9, <1>10

\* usart0_event sends its message, or waits until vfs receives.
LEMMA EvRunsKeeps ==
  ASSUME TtyInv, EvRuns
  PROVE  TtyInv'
<1>1. TtyTasks /\ Registers /\ Scheduled /\ Fresh /\ Queues /\ Lines /\ Tokens
  BY DEF TtyInv
<1>2. /\ cur = "ev" /\ UNCHANGED driver
      /\ evmsg' = evmsg /\ rx' = rx /\ udr' = udr /\ busy' = busy /\ txc' = txc /\ hit' = hit
      /\ pm' = pm
  BY DEF EvRuns
<1>3. Queues' /\ Lines' /\ stale' = stale /\ wr_q' = wr_q
  BY <1>1, <1>2, DriverUnchanged
<1>4. high \in Seq(HIGH) /\ IsInjective(high) /\ ev = "wait"
  BY <1>1, <1>2 DEF TtyTasks, Scheduled, HIGH
<1>5. One(busy') = One(busy) /\ One(txc') = One(txc)
  BY <1>2
<1>6. CASE vfs = "receive"
  <2>1. /\ vfs' = "int" /\ vmsg' = evmsg /\ rxcie' = TRUE /\ txcie' = TRUE
        /\ Switch(Append(high, "vfs")) /\ ev' = ev
    BY <1>6 DEF EvRuns
  <2>2. "vfs" \in HIGH /\ "tty" \in HIGH /\ "vfs" \notin Range(high) /\ "tty" \notin Range(high)
    BY <1>1, <1>6 DEF HIGH, Scheduled, Ready
  <2>3. /\ cur' \in {"user", "pm", "ex", "vfs", "tty"} /\ high' \in Seq(HIGH)
        /\ IsInjective(high') /\ cur' \notin Range(high')
        /\ cur' = "user" => high' = <<>>
        /\ \A u \in HIGH : Ready(u)' <=> u = "vfs" \/ u \in Range(high)
    BY <1>4, <2>1, <2>2, Queued
  <2>4. TtyTasks'
    BY <1>1, <1>2, <1>3, <2>1, <2>3 DEF TtyTasks, HIGH
  <2>5. Registers'
    <3>1. rxcie' \in BOOLEAN /\ txcie' \in BOOLEAN
      BY <2>1
    <3> QED
      BY <1>1, <1>2, <3>1 DEF Registers
  <2>6. Scheduled'
    <3>1. Ready("vfs")' /\ ~Ready("tty")' /\ cur' # "ev" /\ ev' # "blocked"
      BY <1>4, <2>1, <2>2, <2>3
    <3>2. Ready("pm")' <=> pm = "ready"
      BY <1>1, <1>2, <2>3 DEF Scheduled, Ready, HIGH
    <3> QED
      BY <1>2, <2>1, <2>3, <3>1, <3>2 DEF Scheduled
  <2>7. \A m : /\ AtVfs(m)' <=> AtEv(m)
               /\ ~AtEv(m)' /\ ~AtVfs(m)
    BY <1>2, <1>4, <1>6, <2>1, <2>3 DEF AtEv, AtVfs
  <2>8. Fresh'
    BY <1>1, <1>2, <1>3, <1>4, <2>1, <2>3, <2>7 DEF Fresh
  <2>9. TxTokens' = TxTokens
    <3>1. One(AtEv("TX")') = 0 /\ One(AtVfs("TX")) = 0 /\ One(AtVfs("TX")') = One(AtEv("TX"))
      BY <2>7 DEF One
    <3>2. /\ One(AtEv("TX")) \in {0, 1} /\ One(busy) \in {0, 1} /\ One(txc) \in {0, 1}
          /\ Ended(wr_q) \in Nat
      BY EndedNat DEF One
    <3> QED
      BY <1>3, <1>5, <3>1, <3>2, TokensSum
  <2>10. Tokens'
    BY <1>1, <1>2, <2>9 DEF Tokens
  <2> QED
    BY <1>3, <2>4, <2>5, <2>6, <2>8, <2>10 DEF TtyInv
<1>7. CASE vfs # "receive"
  <2>1. /\ ev' = "blocked" /\ rxcie' = (rxcie /\ evmsg # "RX") /\ txcie' = (txcie /\ evmsg # "TX")
        /\ Switch(high) /\ vfs' = vfs /\ vmsg' = vmsg
    BY <1>7 DEF EvRuns
  <2>2. /\ cur' \in {"user", "pm", "ex", "vfs", "tty"} /\ high' \in Seq(HIGH)
        /\ IsInjective(high') /\ cur' \notin Range(high')
        /\ cur' = "user" => high' = <<>>
        /\ \A t \in HIGH : Ready(t)' <=> t \in Range(high)
    BY <1>4, <2>1, Switched
  <2>3. TtyTasks'
    BY <1>1, <1>2, <1>3, <2>1, <2>2 DEF TtyTasks, HIGH
  <2>4. Registers'
    <3>1. rxcie' \in BOOLEAN /\ txcie' \in BOOLEAN
      BY <2>1
    <3> QED
      BY <1>1, <1>2, <3>1 DEF Registers
  <2>5. /\ (Ready("vfs")' <=> Ready("vfs")) /\ (Ready("tty")' <=> Ready("tty"))
        /\ Ready("pm")' <=> Ready("pm")
    BY <1>2, <2>2 DEF Ready, HIGH
  <2>6. Scheduled'
    BY <1>1, <1>2, <1>7, <2>1, <2>2, <2>5 DEF Scheduled
  <2>7. hit /\ \A m : (AtVfs(m)' <=> AtVfs(m)) /\ (AtEv(m)' <=> AtEv(m))
    BY <1>1, <1>2, <1>7, <2>1 DEF Fresh, AtEv, AtVfs
  <2>8. Fresh'
    BY <1>1, <1>2, <2>7 DEF Fresh
  <2>9. TxTokens' = TxTokens
    <3>1. One(AtEv("TX")') = One(AtEv("TX")) /\ One(AtVfs("TX")') = One(AtVfs("TX"))
      BY <2>7 DEF One
    <3> QED
      BY <1>3, <1>5, <3>1, TokensSum
  <2>10. Tokens'
    BY <1>1, <1>2, <2>9 DEF Tokens
  <2> QED
    BY <1>3, <2>3, <2>4, <2>6, <2>8, <2>10 DEF TtyInv
<1> QED
  BY <1>6, <1>7

\* do_int(): vfs passes the message on to the driver.
LEMMA VfsRunsKeeps ==
  ASSUME TtyInv, VfsRuns
  PROVE  TtyInv'
<1>1. TtyTasks /\ Registers /\ Scheduled /\ Fresh /\ Queues /\ Lines /\ Tokens
  BY DEF TtyInv
<1>2. /\ cur = "vfs" /\ vfs = "int" /\ vfs' = "asked" /\ Switch(Append(high, "tty"))
      /\ ev' = ev /\ evmsg' = evmsg /\ vmsg' = vmsg /\ pm' = pm /\ hit' = hit /\ UNCHANGED driver
      /\ rxcie' = rxcie /\ txcie' = txcie /\ rx' = rx /\ udr' = udr /\ busy' = busy /\ txc' = txc
  BY DEF VfsRuns, uart
<1>3. Queues' /\ Lines' /\ stale' = stale /\ wr_q' = wr_q
  BY <1>1, <1>2, DriverUnchanged
<1>4. /\ high \in Seq(HIGH) /\ IsInjective(high) /\ "vfs" \in HIGH /\ "tty" \in HIGH
      /\ "vfs" \notin Range(high) /\ "tty" \notin Range(high)
  BY <1>1, <1>2 DEF TtyTasks, Scheduled, HIGH, Ready
<1>5. /\ cur' \in {"user", "pm", "ex", "vfs", "tty"} /\ high' \in Seq(HIGH)
      /\ IsInjective(high') /\ cur' \notin Range(high')
      /\ cur' = "user" => high' = <<>>
      /\ \A u \in HIGH : Ready(u)' <=> u = "tty" \/ u \in Range(high)
  BY <1>2, <1>4, Queued
<1>6. TtyTasks' /\ Registers'
  BY <1>1, <1>2, <1>3, <1>5 DEF TtyTasks, Registers, HIGH
<1>7. Scheduled'
  <2>1. ~Ready("vfs")' /\ Ready("tty")' /\ cur' # "ev"
    BY <1>4, <1>5
  <2>2. Ready("pm")' <=> pm = "ready"
    BY <1>1, <1>2, <1>5 DEF Scheduled, Ready, HIGH
  <2> QED
    BY <1>1, <1>2, <1>5, <2>1, <2>2 DEF Scheduled
<1>8. \A m : (AtVfs(m)' <=> AtVfs(m)) /\ (AtEv(m)' <=> AtEv(m))
  BY <1>2, <1>5 DEF AtEv, AtVfs
<1>9. Fresh'
  BY <1>1, <1>2, <1>3, <1>5, <1>8 DEF Fresh
<1>10. TxTokens' = TxTokens
  <2>1. One(AtEv("TX")') = One(AtEv("TX")) /\ One(AtVfs("TX")') = One(AtVfs("TX"))
    BY <1>8 DEF One
  <2> QED
    BY <1>2, <1>3, <2>1, TokensSum
<1>11. Tokens'
  BY <1>1, <1>2, <1>10 DEF Tokens
<1> QED
  BY <1>3, <1>6, <1>7, <1>9, <1>11 DEF TtyInv

\* vfs is done: it takes the message that waits, or pm's, or waits for one itself.
LEMMA VfsBackKeeps ==
  ASSUME TtyInv, VfsBack
  PROVE  TtyInv'
<1>1. TtyTasks /\ Registers /\ Scheduled /\ Fresh /\ Queues /\ Lines /\ Tokens
  BY DEF TtyInv
<1>2. /\ cur = "vfs" /\ vfs = "done" /\ UNCHANGED driver
      /\ evmsg' = evmsg /\ rx' = rx /\ udr' = udr /\ busy' = busy /\ txc' = txc /\ hit' = hit
  BY DEF VfsBack
<1>3. Queues' /\ Lines' /\ stale' = stale /\ wr_q' = wr_q
  BY <1>1, <1>2, DriverUnchanged
<1>4. One(busy') = One(busy) /\ One(txc') = One(txc)
  BY <1>2
<1>5. ASSUME ev = "blocked", vfs' = "int", vmsg' = evmsg, ev' = "wait", rxcie' = TRUE,
             txcie' = TRUE, cur' = cur, high' = high, pm' = pm
      PROVE  TtyInv'
  <2>1. TtyTasks'
    BY <1>1, <1>2, <1>3, <1>5 DEF TtyTasks
  <2>2. Registers'
    <3>1. rxcie' \in BOOLEAN /\ txcie' \in BOOLEAN
      BY <1>5
    <3> QED
      BY <1>1, <1>2, <3>1 DEF Registers
  <2>3. Scheduled'
    BY <1>1, <1>2, <1>5 DEF Scheduled, Ready
  <2>4. \A m : (AtVfs(m)' <=> AtEv(m)) /\ ~AtEv(m)' /\ ~AtVfs(m)
    BY <1>2, <1>5 DEF AtEv, AtVfs
  <2>5. Fresh'
    BY <1>1, <1>2, <1>3, <1>5, <2>4 DEF Fresh
  <2>6. TxTokens' = TxTokens
    <3>1. /\ One(AtEv("TX")') = 0 /\ One(AtVfs("TX")) = 0 /\ One(AtVfs("TX")') = One(AtEv("TX"))
      BY <2>4 DEF One
    <3>2. /\ One(AtEv("TX")) \in {0, 1} /\ One(busy) \in {0, 1} /\ One(txc) \in {0, 1}
          /\ Ended(wr_q) \in Nat
      BY EndedNat DEF One
    <3> QED
      BY <1>3, <1>4, <3>1, <3>2, TokensSum
  <2>7. Tokens'
    BY <1>1, <1>2, <2>6 DEF Tokens
  <2> QED
    BY <1>3, <2>1, <2>2, <2>3, <2>5, <2>7 DEF TtyInv
<1>6. ASSUME ev' = ev, vmsg' = vmsg, rxcie' = rxcie, txcie' = txcie, vfs' \in {"receive", "pm"},
             cur' \in {"user", "pm", "ex", "vfs", "tty"}, high' \in Seq(HIGH),
             pm' \in {"receive", "ready", "ex", "send", "vfs"}, Scheduled'
      PROVE  TtyInv'
  <2>1. TtyTasks' /\ Registers'
    BY <1>1, <1>2, <1>3, <1>6 DEF TtyTasks, Registers, HIGH
  <2>2. \A m : ~AtVfs(m)' /\ ~AtVfs(m) /\ (AtEv(m)' <=> AtEv(m))
    BY <1>2, <1>6 DEF AtEv, AtVfs
  <2>3. Fresh'
    BY <1>1, <1>2, <1>3, <1>6, <2>2 DEF Fresh
  <2>4. TxTokens' = TxTokens
    <3>1. /\ One(AtVfs("TX")) = 0 /\ One(AtVfs("TX")') = 0
          /\ One(AtEv("TX")') = One(AtEv("TX"))
      BY <2>2 DEF One
    <3> QED
      BY <1>3, <1>4, <3>1, TokensSum
  <2>5. Tokens'
    BY <1>1, <1>2, <2>4 DEF Tokens
  <2> QED
    BY <1>3, <1>6, <2>1, <2>3, <2>5 DEF TtyInv
<1>7. ASSUME pm = "send", vfs' = "pm", pm' = "vfs",
             UNCHANGED <<cur, high, ev, vmsg, rxcie, txcie>>
      PROVE  TtyInv'
  <2>1. Scheduled'
    BY <1>1, <1>2, <1>7 DEF Scheduled, Ready
  <2> QED
    BY <1>2, <1>6, <1>7, <2>1, QueueFacts
<1>8. ASSUME ev # "blocked", vfs' = "receive", Switch(high),
             UNCHANGED <<ev, vmsg, pm, rxcie, txcie>>
      PROVE  TtyInv'
  <2>1. /\ cur' \in {"user", "pm", "ex", "vfs", "tty"} /\ high' \in Seq(HIGH)
        /\ IsInjective(high') /\ cur' \notin Range(high')
        /\ cur' = "user" => high' = <<>>
        /\ \A t \in HIGH : Ready(t)' <=> t \in Range(high)
    BY <1>8, QueueFacts, Switched
  <2>2. Scheduled'
    <3>1. ~Ready("vfs")' /\ ~Ready("tty")' /\ (Ready("pm")' <=> pm = "ready") /\ cur' # "ev"
      BY <1>2, <2>1, QueueFacts DEF Ready
    <3> QED
      BY <1>8, <2>1, <3>1 DEF Scheduled
  <2> QED
    BY <1>6, <1>8, <2>1, <2>2, QueueFacts
<1> QED
  BY <1>5, <1>7, <1>8 DEF VfsBack

\* The driver's state, before a step and after one that makes it t.
LEMMA DriverFields ==
  ASSUME TtyInv
  PROVE  /\ InOrder(Driver) /\ Driver.rd = rd_q /\ Driver.wr = wr_q /\ Driver.buf = tbuf
         /\ Driver.over = overrun /\ Driver.free = {} /\ Driver.got = got
         /\ Driver.asked = asked /\ Driver.out = out
<1>1. /\ Driver.rd = rd_q /\ Driver.wr = wr_q /\ Driver.buf = tbuf
      /\ Driver.over = overrun /\ Driver.free = {} /\ Driver.got = got
      /\ Driver.asked = asked /\ Driver.out = out
  BY DEF Driver
<1>2. Driver \in State /\ OneKind(rd_q) /\ OneKind(wr_q) /\ Sent(Driver) = asked
  BY DEF TtyInv, Queues, Lines
<1> HIDE DEF Driver
<1> QED
  BY <1>1, <1>2 DEF InOrder

\* The driver's state after an action that assigns t to it.
LEMMA DriverBecomes ==
  ASSUME NEW t \in State, rd_q' = t.rd, wr_q' = t.wr, tbuf' = t.buf, overrun' = t.over,
         got' = t.got, asked' = t.asked, out' = t.out
  PROVE  Driver' \in State /\ Seen(Driver') = Seen(t) /\ Sent(Driver') = Sent(t)
<1>1. /\ Driver'.rd = t.rd /\ Driver'.wr = t.wr /\ Driver'.got = t.got /\ Driver'.out = t.out
  BY DEF Driver
<1>2. /\ t.rd \in Seq(ReadRequest) /\ t.wr \in Seq(WriteRequest) /\ t.buf \in Seq(Char)
      /\ t.over \in BOOLEAN /\ {} \in SUBSET (Client \cup {NONE})
      /\ t.got \in Seq(Char \cup {EOF})
      /\ t.asked \in Seq(Client \cup Char) /\ t.out \in Seq(Client \cup Char)
  BY StateFields
<1>3. Driver' = [rd |-> t.rd, wr |-> t.wr, buf |-> t.buf, over |-> t.over,
                 free |-> {}, got |-> t.got, asked |-> t.asked, out |-> t.out]
  BY DEF Driver
<1>4. Driver' \in State
  BY <1>2, <1>3 DEF State
<1> HIDE DEF Driver
<1>5. Seen(Driver') = Seen(t) /\ Sent(Driver') = Sent(t)
  BY <1>1 DEF Seen, Sent
<1> QED
  BY <1>4, <1>5

\* readc() (tty.c:168-170): the request is answered or on hold.
LEMMA ReadKeeps ==
  ASSUME TtyInv, NEW c \in Client, Read(c)
  PROVE  TtyInv'
<1> DEFINE r == Request("READC", c, NONE)
           t == usart_serve_read(Driver, r, "RX")
<1>1. TtyTasks /\ Registers /\ Scheduled /\ Fresh /\ Queues /\ Lines /\ Tokens
  BY DEF TtyInv
<1>2. /\ rd_q' = t.rd /\ got' = t.got /\ client' = Waiting(c, "read", t)
      /\ UNCHANGED <<cur, high, ev, evmsg, vfs, vmsg, pm, rxcie, txcie, rx, udr, busy, txc>>
      /\ UNCHANGED <<wr_q, tbuf, overrun, stale, taken, asked, out, hit>>
  BY DEF Read, tasks, uart
<1>3. r \in ReadRequest /\ r.cmd = "READC" /\ r.client = c
  BY DEF ReadRequest, Request
<1>4. /\ InOrder(Driver) /\ Driver.rd = rd_q /\ Driver.wr = wr_q /\ Driver.buf = tbuf
      /\ Driver.over = overrun /\ Driver.free = {} /\ Driver.got = got
      /\ Driver.asked = asked /\ Driver.out = out
  BY DriverFields
<1> HIDE DEF r
<1>5. /\ t \in State /\ OneKind(t.rd) /\ Kept(Driver, t)
      /\ t.buf = tbuf /\ t.over = overrun /\ t.wr = wr_q /\ t.asked = asked /\ t.out = out
      /\ c \in t.free \/ OnHold(t.rd, c)
      /\ Seen(t) = Seen(Driver) /\ SameOutput(Driver, t)
  <2>1. Driver \in State /\ OneKind(Driver.rd)
    BY <1>4 DEF InOrder
  <2>2. "RX" \in {"RX", "READC"} /\ "RX" # r.cmd /\ r.cmd # "RX"
    BY <1>3
  <2>3. /\ t \in State /\ OneKind(t.rd) /\ Kept(Driver, t)
        /\ t.buf = Driver.buf /\ t.over = Driver.over /\ SameOutput(Driver, t)
        /\ r.client \in t.free \/ OnHold(t.rd, r.client)
        /\ Seen(t) = Seen(Driver)
    BY <1>3, <2>1, <2>2, ReadServed
  <2> HIDE DEF t
  <2> QED
    BY <1>3, <1>4, <2>3 DEF SameOutput
<1> HIDE DEF t
<1>6. Driver' \in State /\ Seen(Driver') = Seen(t) /\ Sent(Driver') = Sent(t)
  BY <1>2, <1>5, DriverBecomes
<1>7. Sent(t) = Sent(Driver)
  BY <1>5, SameOrder
<1>8. \A x \in Client : x \notin t.free =>
         (OnHold(rd_q, x) => OnHold(t.rd, x)) /\ (OnHold(wr_q, x) => OnHold(t.wr, x))
  BY <1>4, <1>5 DEF Kept
<1>9. Queues'
  <2>1. client' \in [Client -> {"run", "read", "write"}]
    BY <1>1, <1>2 DEF Waiting, Queues
  <2>2. ASSUME NEW x \in Client
        PROVE  /\ client'[x] = "read" => OnHold(t.rd, x)
               /\ client'[x] = "write" => OnHold(t.wr, x)
    <3>1. client'[x] = IF x \in t.free THEN "run" ELSE IF x = c THEN "read" ELSE client[x]
      BY <1>2, <2>2 DEF Waiting
    <3>2. /\ client[x] = "read" => OnHold(rd_q, x)
          /\ client[x] = "write" => OnHold(wr_q, x)
      BY <1>1, <2>2 DEF Queues
    <3>3. CASE x \in t.free
      BY <3>1, <3>3
    <3>4. CASE x \notin t.free /\ x = c
      BY <1>5, <3>1, <3>4
    <3>5. CASE x \notin t.free /\ x # c
      BY <1>8, <3>1, <3>2, <3>5
    <3> QED
      BY <3>3, <3>4, <3>5
  <2>3. OneKind(rd_q') /\ OneKind(wr_q')
    BY <1>1, <1>2, <1>5 DEF Queues
  <2>4. taken' \in Seq(Char)
    BY <1>1, <1>2 DEF Queues
  <2> QED
    BY <1>2, <1>5, <1>6, <2>1, <2>2, <2>3, <2>4 DEF Queues
<1>10. Lines'
  <2>1. Sent(Driver)' = asked'
    BY <1>1, <1>2, <1>6, <1>7 DEF Lines
  <2>2. Edited(taken)'.text = Seen(Driver)' /\ Edited(taken)'.line = Ints(tbuf)'
    BY <1>1, <1>2, <1>5, <1>6 DEF Lines
  <2>3. Recent(tbuf, taken)' /\ OverrunByLongLine'
    BY <1>1, <1>2 DEF Lines, OverrunByLongLine
  <2> QED
    BY <2>1, <2>2, <2>3 DEF Lines
<1>11. TtyTasks' /\ Registers'
  BY <1>1, <1>2 DEF TtyTasks, Registers
<1>12. Scheduled'
  BY <1>1, <1>2 DEF Scheduled, Ready
<1>13. Fresh'
  BY <1>1, <1>2 DEF Fresh, AtEv, AtVfs
<1>14. TxTokens' = TxTokens
  BY <1>2, TokensSum DEF One, AtEv, AtVfs
<1>15. Tokens'
  BY <1>1, <1>2, <1>14 DEF Tokens
<1> QED
  BY <1>9, <1>10, <1>11, <1>12, <1>13, <1>15 DEF TtyInv

\* Writing to UDR0 uses up the end of the last transmission: the transmitter
\* was free, and it is busy now.
LEMMA SpendKeeps ==
  ASSUME TtyInv, NEW t \in State, OneKind(t.wr), Spends(Driver, t),
         wr_q' = t.wr, busy' = (busy \/ t.out # out), txc' = txc, hit' = hit,
         AtEv("TX")' <=> AtEv("TX"), AtVfs("TX")' <=> AtVfs("TX")
  PROVE  Tokens' /\ busy' \in BOOLEAN
<1>1. Tokens /\ Registers
  BY DEF TtyInv
<1>2. Driver.out = out /\ Driver.wr = wr_q
  BY DriverFields
<1>3. /\ One(busy) \in {0, 1} /\ One(txc) \in {0, 1} /\ One(AtEv("TX")) \in {0, 1}
      /\ One(AtVfs("TX")) \in {0, 1} /\ Ended(wr_q) \in Nat
  BY EndedNat DEF One
<1>4. Ended(t.wr) \in Nat
  <2>1. t.wr \in Seq(WriteRequest)
    BY StateFields
  <2> QED
    BY <2>1, EndedSteps
<1>5. /\ One(txc') = One(txc) /\ One(AtEv("TX")') = One(AtEv("TX"))
      /\ One(AtVfs("TX")') = One(AtVfs("TX")) /\ Ended(wr_q') = Ended(t.wr)
  BY DEF One
<1>6. busy' \in BOOLEAN
  OBVIOUS
<1>7. TxTokens <= 1 /\ (hit \/ TxTokens = 1)
  BY <1>1 DEF Tokens
<1>8. TxTokens' = TxTokens
  <2>1. CASE t.out = out /\ Ended(t.wr) = Ended(wr_q)
    <3>1. One(busy') = One(busy)
      BY <1>1, <2>1 DEF One, Registers
    <3> QED
      BY <1>3, <1>5, <2>1, <3>1, TokensSum
  <2>2. CASE t.out # out /\ Ended(t.wr) = Ended(wr_q) - 1
    <3>1. One(busy') = 1
      BY <2>2 DEF One
    <3>2. Ended(wr_q) >= 1
      BY <1>3, <1>4, <2>2
    <3>3. One(busy) = 0
      BY <1>3, <1>7, <3>2, TokensSum
    <3> QED
      BY <1>3, <1>5, <2>2, <3>1, <3>3, TokensSum
  <2> QED
    BY <1>2, <2>1, <2>2 DEF Spends
<1>9. Tokens'
  BY <1>7, <1>8 DEF Tokens
<1> QED
  BY <1>6, <1>9

\* writec() of a client: sent, or on hold until the end of the transmission.
LEMMA WriteKeeps ==
  ASSUME TtyInv, NEW c \in Client, Write(c)
  PROVE  TtyInv'
<1> DEFINE r == Request("WRITEC", c, c)
           t == usart0_serve_write(Driver, r, "TX")
           a == Append(asked, c)
           u == [t EXCEPT !.asked = a]
<1>1. TtyTasks /\ Registers /\ Scheduled /\ Fresh /\ Queues /\ Lines /\ Tokens
  BY DEF TtyInv
<1>2. /\ wr_q' = t.wr /\ out' = t.out /\ asked' = a /\ client' = Waiting(c, "write", t)
      /\ busy' = (busy \/ t.out # out)
      /\ UNCHANGED <<cur, high, ev, evmsg, vfs, vmsg, pm, rxcie, txcie, rx, udr, txc>>
      /\ UNCHANGED <<rd_q, tbuf, overrun, stale, taken, got, hit>>
  BY DEF Write, tasks
<1>3. r \in WriteRequest /\ r.cmd = "WRITEC" /\ r.client = c /\ r.data = c
  BY DEF WriteRequest, Request
<1>4. /\ InOrder(Driver) /\ Driver.rd = rd_q /\ Driver.wr = wr_q /\ Driver.buf = tbuf
      /\ Driver.over = overrun /\ Driver.free = {} /\ Driver.got = got
      /\ Driver.asked = asked /\ Driver.out = out
  BY DriverFields
<1> HIDE DEF r
<1>5. /\ t \in State /\ OneKind(t.wr) /\ Kept(Driver, t) /\ t.asked = asked
      /\ t.rd = rd_q /\ t.buf = tbuf /\ t.over = overrun /\ t.got = got
      /\ c \in t.free \/ OnHold(t.wr, c)
      /\ Sent(t) = Append(Sent(Driver), c) /\ Spends(Driver, t)
  <2>1. Driver \in State /\ OneKind(Driver.wr)
    BY <1>4 DEF InOrder
  <2>2. "TX" \in {"TX", "WRITEC"} /\ "TX" # r.cmd
    BY <1>3
  <2>3. /\ t \in State /\ OneKind(t.wr) /\ Kept(Driver, t) /\ t.asked = Driver.asked
        /\ SameInput(Driver, t)
        /\ r.client \in t.free \/ OnHold(t.wr, r.client)
        /\ Sent(t) = Append(Sent(Driver), r.data) /\ Spends(Driver, t)
    BY <1>3, <2>1, <2>2, WriteServed DEF Spends
  <2> HIDE DEF t
  <2> QED
    BY <1>3, <1>4, <2>3 DEF SameInput
<1> HIDE DEF t
<1>6. a \in Seq(Client \cup Char)
  <2>1. asked \in Seq(Client \cup Char) /\ c \in Client \cup Char
    BY <1>4, StateFields DEF InOrder
  <2> QED
    BY <2>1, AppendProperties
<1> HIDE DEF a
<1>7. /\ u \in State /\ u.wr = t.wr /\ u.free = t.free /\ u.out = t.out
      /\ u.asked = a /\ SameInput(t, u)
  BY <1>5, <1>6, OneField
<1> HIDE DEF u
<1>8. Seen(u) = Seen(Driver) /\ Sent(u) = Sent(t) /\ u.rd = t.rd /\ u.buf = t.buf /\ u.over = t.over /\ u.got = t.got
  BY <1>4, <1>5, <1>7 DEF SameInput, Seen, Sent
<1>9. Driver' \in State /\ Seen(Driver') = Seen(u) /\ Sent(Driver') = Sent(u)
  BY <1>2, <1>5, <1>7, <1>8, DriverBecomes
<1>10. \A x \in Client : x \notin t.free =>
         (OnHold(rd_q, x) => OnHold(t.rd, x)) /\ (OnHold(wr_q, x) => OnHold(t.wr, x))
  BY <1>4, <1>5 DEF Kept
<1>11. Queues'
  <2>1. client' \in [Client -> {"run", "read", "write"}]
    BY <1>1, <1>2 DEF Waiting, Queues
  <2>2. ASSUME NEW x \in Client
        PROVE  /\ client'[x] = "read" => OnHold(t.rd, x)
               /\ client'[x] = "write" => OnHold(t.wr, x)
    <3>1. client'[x] = IF x \in t.free THEN "run" ELSE IF x = c THEN "write" ELSE client[x]
      BY <1>2, <2>2 DEF Waiting
    <3>2. /\ client[x] = "read" => OnHold(rd_q, x)
          /\ client[x] = "write" => OnHold(wr_q, x)
      BY <1>1, <2>2 DEF Queues
    <3>3. CASE x \in t.free
      BY <3>1, <3>3
    <3>4. CASE x \notin t.free /\ x = c
      BY <1>5, <3>1, <3>4
    <3>5. CASE x \notin t.free /\ x # c
      BY <1>10, <3>1, <3>2, <3>5
    <3> QED
      BY <3>3, <3>4, <3>5
  <2>3. OneKind(rd_q') /\ OneKind(wr_q')
    BY <1>1, <1>2, <1>5 DEF Queues
  <2>4. taken' \in Seq(Char)
    BY <1>1, <1>2 DEF Queues
  <2> QED
    BY <1>2, <1>5, <1>9, <2>1, <2>2, <2>3, <2>4 DEF Queues
<1>12. Lines'
  <2>1. Sent(Driver)' = asked'
    BY <1>1, <1>2, <1>5, <1>8, <1>9 DEF Lines, a
  <2>2. Edited(taken)'.text = Seen(Driver)' /\ Edited(taken)'.line = Ints(tbuf)'
    BY <1>1, <1>2, <1>8, <1>9 DEF Lines
  <2>3. Recent(tbuf, taken)' /\ OverrunByLongLine'
    BY <1>1, <1>2 DEF Lines, OverrunByLongLine
  <2> QED
    BY <2>1, <2>2, <2>3 DEF Lines
<1>13. Tokens' /\ busy' \in BOOLEAN
  <2>1. (AtEv("TX")' <=> AtEv("TX")) /\ (AtVfs("TX")' <=> AtVfs("TX"))
    BY <1>2 DEF AtEv, AtVfs
  <2> QED
    BY <1>2, <1>5, <2>1, SpendKeeps
<1>14. TtyTasks' /\ Registers'
  <2>1. TtyTasks'
    BY <1>1, <1>2 DEF TtyTasks
  <2>2. rxcie' = rxcie /\ txcie' = txcie /\ rx' = rx /\ udr' = udr /\ txc' = txc
    BY <1>2
  <2>3. Registers'
    BY <1>1, <1>13, <2>2 DEF Registers
  <2> QED
    BY <2>1, <2>3
<1>15. Scheduled'
  BY <1>1, <1>2 DEF Scheduled, Ready
<1>16. Fresh'
  <2>1. (AtEv("RX")' <=> AtEv("RX")) /\ (AtVfs("RX")' <=> AtVfs("RX"))
    BY <1>2 DEF AtEv, AtVfs
  <2>2. cur' = cur /\ ev' = ev /\ vfs' = vfs /\ rx' = rx /\ udr' = udr /\ stale' = stale /\ hit' = hit
    BY <1>2
  <2> QED
    BY <1>1, <2>1, <2>2 DEF Fresh
<1> QED
  BY <1>11, <1>12, <1>13, <1>14, <1>15, <1>16 DEF TtyInv

\* LINE characters in a row, and one more, without an end of a line.
LongLine(s) ==
  \E i \in 1..Len(s) - LINE : \A j \in i..i + LINE - 1 : s[j] \notin {"NL", "^C", "^D"}

\* How the line in tbuf and the characters typed stay related over a keystroke.
LEMMA RecentSteps ==
  ASSUME NEW b \in Seq(Char), NEW s \in Seq(Char), NEW c \in Char, Recent(b, s)
  PROVE  /\ \A d \in Seq(Char) : d = <<>> \/ (c \notin Ends /\ Len(d) <= Len(b) + 1) =>
              Recent(d, Append(s, c))
         /\ LongLine(s) \/ Len(b) >= LINE => LongLine(Append(s, c))
<1> DEFINE t == Append(s, c)
           n == Len(s)
           k == Len(b)
<1>1. t \in Seq(Char) /\ Len(t) = n + 1 /\ t[n + 1] = c /\ \A i \in 1..n : t[i] = s[i]
  BY AppendFacts
<1>2. n \in Nat /\ k \in Nat /\ k <= n /\ \A j \in (n - k + 1)..n : s[j] \notin Ends
  BY DEF Recent
<1>3. LINE \in Nat
  BY TtyAssumption
<1> HIDE DEF t, n, k
<1>4. ASSUME NEW d \in Seq(Char), d = <<>> \/ (c \notin Ends /\ Len(d) <= k + 1)
      PROVE  Recent(d, t)
  <2> DEFINE m == Len(d)
  <2>1. m \in Nat /\ (d = <<>> => m = 0)
    OBVIOUS
  <2> HIDE DEF m
  <2>2. m <= n + 1
    BY <1>2, <1>4, <2>1 DEF m
  <2>3. ASSUME NEW j \in ((n + 1) - m + 1)..(n + 1) PROVE t[j] \notin Ends
    <3>1. m > 0 /\ c \notin Ends /\ m <= k + 1
      BY <1>2, <1>4, <2>1, <2>2 DEF m
    <3>2. CASE j = n + 1
      BY <1>1, <3>1, <3>2
    <3>3. CASE j # n + 1
      <4>1. j \in (n - k + 1)..n /\ j \in 1..n
        BY <1>2, <2>1, <2>2, <3>1, <3>3
      <4> QED
        BY <1>1, <1>2, <4>1
    <3> QED
      BY <3>2, <3>3
  <2> QED
    BY <1>1, <2>2, <2>3 DEF Recent, m
<1>5. ASSUME LongLine(s) PROVE LongLine(t)
  <2>1. PICK i \in 1..n - LINE : \A j \in i..i + LINE - 1 : s[j] \notin {"NL", "^C", "^D"}
    BY <1>5 DEF LongLine, n
  <2>2. i \in 1..(n + 1) - LINE
    BY <1>2, <1>3
  <2>3. \A j \in i..i + LINE - 1 : j \in 1..n /\ t[j] = s[j]
    BY <1>1, <1>2, <1>3, <2>1
  <2> QED
    BY <1>1, <2>1, <2>2, <2>3 DEF LongLine
<1>6. ASSUME k >= LINE PROVE LongLine(t)
  <2> DEFINE i == n - LINE + 1
  <2>1. i \in 1..(n + 1) - LINE
    BY <1>2, <1>3, <1>6
  <2>2. \A j \in i..i + LINE - 1 : j \in 1..n /\ j \in (n - k + 1)..n
    BY <1>2, <1>3, <1>6
  <2>3. \A j \in i..i + LINE - 1 : t[j] \notin {"NL", "^C", "^D"}
    <3> HIDE DEF i
    <3> QED
      BY <1>1, <1>2, <2>2 DEF Ends
  <2> QED
    BY <1>1, <2>1, <2>3 DEF LongLine
<1> QED
  BY <1>4, <1>5, <1>6 DEF t, k

\* The driver is done with an interrupt: requests are answered or still on
\* hold.
LEMMA BecomesKeeps ==
  ASSUME TtyInv, NEW t, InOrder(t), Kept(Driver, t), Becomes(t), taken' \in Seq(Char)
  PROVE  Queues' /\ Sent(Driver)' = asked' /\ Seen(Driver)' = Seen(t)
<1>1. Queues
  BY DEF TtyInv
<1>2. /\ rd_q' = t.rd /\ wr_q' = t.wr /\ tbuf' = t.buf /\ overrun' = t.over
      /\ client' = [c \in Client |-> IF c \in t.free THEN "run" ELSE client[c]]
      /\ got' = t.got /\ asked' = t.asked /\ out' = t.out
  BY DEF Becomes
<1>3. t \in State /\ OneKind(t.rd) /\ OneKind(t.wr) /\ Sent(t) = t.asked
  BY DEF InOrder
<1>4. Driver' \in State /\ Seen(Driver') = Seen(t) /\ Sent(Driver') = Sent(t)
  BY <1>2, <1>3, DriverBecomes
<1>5. Driver.rd = rd_q /\ Driver.wr = wr_q
  BY DriverFields
<1>6. \A x \in Client : x \notin t.free =>
         (OnHold(rd_q, x) => OnHold(t.rd, x)) /\ (OnHold(wr_q, x) => OnHold(t.wr, x))
  BY <1>5 DEF Kept
<1>7. client' \in [Client -> {"run", "read", "write"}]
  BY <1>1, <1>2 DEF Queues
<1>8. ASSUME NEW x \in Client
      PROVE  /\ client'[x] = "read" => OnHold(t.rd, x)
             /\ client'[x] = "write" => OnHold(t.wr, x)
  <2>1. client'[x] = IF x \in t.free THEN "run" ELSE client[x]
    BY <1>2, <1>8
  <2>2. /\ client[x] = "read" => OnHold(rd_q, x)
        /\ client[x] = "write" => OnHold(wr_q, x)
    BY <1>1, <1>8 DEF Queues
  <2>3. CASE x \in t.free
    BY <2>1, <2>3
  <2>4. CASE x \notin t.free
    BY <1>6, <2>1, <2>2, <2>4
  <2> QED
    BY <2>3, <2>4
<1>9. OneKind(rd_q') /\ OneKind(wr_q')
  BY <1>2, <1>3
<1>10. Queues'
  BY <1>2, <1>4, <1>7, <1>8, <1>9 DEF Queues
<1> QED
  BY <1>2, <1>3, <1>4, <1>10

\* What the tasks are when the driver answers vfs.
LEMMA TtyAnswers ==
  ASSUME TtyInv, TtyRuns
  PROVE  /\ vfs = "asked" /\ cur' \in {"user", "pm", "ex", "vfs", "tty"} /\ high' \in Seq(HIGH)
         /\ vfs' = "done" /\ ev' = ev /\ evmsg' = evmsg /\ vmsg' = vmsg /\ pm' = pm /\ hit' = hit
         /\ rxcie' = rxcie /\ txcie' = txcie /\ txc' = txc
         /\ Scheduled'
         /\ \A m : /\ AtEv(m)' <=> AtEv(m)
                   /\ AtVfs(m) <=> vmsg = m
                   /\ ~AtVfs(m)'
<1>1. TtyTasks /\ Scheduled
  BY DEF TtyInv
<1>2. /\ cur = "tty" /\ vfs' = "done" /\ Switch(Append(high, "vfs"))
      /\ ev' = ev /\ evmsg' = evmsg /\ vmsg' = vmsg /\ pm' = pm /\ hit' = hit
      /\ rxcie' = rxcie /\ txcie' = txcie /\ txc' = txc
  BY DEF TtyRuns
<1>3. /\ vfs = "asked" /\ high \in Seq(HIGH) /\ IsInjective(high) /\ "vfs" \in HIGH /\ "tty" \in HIGH
      /\ "vfs" \notin Range(high) /\ "tty" \notin Range(high)
  BY <1>1, <1>2 DEF TtyTasks, Scheduled, HIGH, Ready
<1>4. /\ cur' \in {"user", "pm", "ex", "vfs", "tty"} /\ high' \in Seq(HIGH)
      /\ IsInjective(high') /\ cur' \notin Range(high')
      /\ cur' = "user" => high' = <<>>
      /\ \A u \in HIGH : Ready(u)' <=> u = "vfs" \/ u \in Range(high)
  BY <1>2, <1>3, Queued
<1>5. Ready("vfs")' /\ ~Ready("tty")' /\ cur' # "ev"
  BY <1>3, <1>4
<1>6. Scheduled'
  <2>1. Ready("pm")' <=> pm = "ready"
    BY <1>1, <1>2, <1>4 DEF Scheduled, Ready, HIGH
  <2> QED
    BY <1>1, <1>2, <1>4, <1>5, <2>1 DEF Scheduled
<1>7. \A m : /\ AtEv(m)' <=> AtEv(m)
             /\ AtVfs(m) <=> vmsg = m
             /\ ~AtVfs(m)'
  BY <1>2, <1>3, <1>5 DEF AtEv, AtVfs
<1> QED
  BY <1>2, <1>3, <1>4, <1>6, <1>7

\* VFS_RD_INTERRUPT (tty.c:174-212): a character is taken from UDR0 and edited
\* into the line.
LEMMA RxHandled ==
  ASSUME TtyInv, TtyRuns, vmsg = "RX"
  PROVE  TtyInv'
<1> DEFINE c == IF rx = <<>> THEN udr ELSE Head(rx)
           t == Typed(Driver, c)
           e == Edited(taken)
<1>1. TtyTasks /\ Registers /\ Scheduled /\ Fresh /\ Queues /\ Lines /\ Tokens
  BY DEF TtyInv
<1>2. /\ udr' = c /\ taken' = Append(taken, c) /\ Becomes(t)
      /\ stale' = (stale \/ rx = <<>>)
      /\ rx' = IF rx = <<>> THEN rx ELSE Tail(rx)
  BY DEF TtyRuns
<1>3. /\ vfs = "asked" /\ cur' \in {"user", "pm", "ex", "vfs", "tty"} /\ high' \in Seq(HIGH)
      /\ vfs' = "done" /\ ev' = ev /\ evmsg' = evmsg /\ vmsg' = vmsg /\ pm' = pm /\ hit' = hit
      /\ rxcie' = rxcie /\ txcie' = txcie /\ txc' = txc
      /\ Scheduled'
      /\ \A m : (AtEv(m)' <=> AtEv(m)) /\ (AtVfs(m) <=> vmsg = m) /\ ~AtVfs(m)'
  BY TtyAnswers
<1>4. rx \in Seq(Char) /\ Len(rx) <= RXFIFO /\ RXFIFO \in Int
  BY <1>1 DEF Registers, RXFIFO
<1>5. c \in Char
  <2>1. rx # <<>> \/ udr \in Char
    BY <1>1, <1>3 DEF Fresh
  <2>2. CASE rx # <<>>
    BY <1>4, <2>2
  <2>3. CASE rx = <<>>
    BY <2>1, <2>3
  <2> QED
    BY <2>2, <2>3
<1> HIDE DEF c
<1>6. /\ InOrder(Driver) /\ Driver.rd = rd_q /\ Driver.wr = wr_q /\ Driver.buf = tbuf
      /\ Driver.over = overrun /\ Driver.out = out
  BY DriverFields
<1>7. /\ taken \in Seq(Char) /\ tbuf \in Seq(Char) /\ e \in EditorState
      /\ Edited(Append(taken, c)) = Edit(e, c)
  <2>1. taken \in Seq(Char)
    BY <1>1 DEF Queues
  <2>2. tbuf \in Seq(Char)
    BY <1>6, StateFields DEF InOrder
  <2> QED
    BY <1>5, <2>1, <2>2, EditedAppend
<1>8. Edits(Driver, t, Edit(e, c), c)
  <2>1. e.text = Seen(Driver) /\ e.line = Ints(Driver.buf)
    BY <1>1, <1>6 DEF Lines
  <2> HIDE DEF e
  <2> QED
    BY <1>5, <1>6, <1>7, <2>1, TypedDoes
<1> HIDE DEF t, e
<1>9. /\ InOrder(t) /\ Kept(Driver, t) /\ Spends(Driver, t)
      /\ Edit(e, c).text = Seen(t) /\ Edit(e, c).line = Ints(t.buf)
      /\ t.over => overrun \/ Len(tbuf) >= LINE
      /\ t.buf = <<>> \/ (c \notin Ends /\ Len(t.buf) <= Len(tbuf) + 1)
      /\ t \in State /\ OneKind(t.wr)
  BY <1>6, <1>8 DEF Edits, InOrder
<1>10. taken' \in Seq(Char)
  BY <1>2, <1>5, <1>7, AppendProperties
<1>11. Queues' /\ Sent(Driver)' = asked' /\ Seen(Driver)' = Seen(t)
  BY <1>2, <1>9, <1>10, BecomesKeeps
<1>12. tbuf' = t.buf /\ overrun' = t.over /\ wr_q' = t.wr /\ busy' = (busy \/ t.out # out)
  BY <1>2 DEF Becomes
<1>13. Lines'
  <2>1. Edited(taken)'.text = Seen(Driver)' /\ Edited(taken)'.line = Ints(tbuf)'
    BY <1>2, <1>7, <1>9, <1>11, <1>12
  <2>2. Recent(tbuf, taken)'
    <3>1. Recent(tbuf, taken) /\ t.buf \in Seq(Char)
      BY <1>1, <1>9, StateFields DEF Lines
    <3>2. Recent(t.buf, Append(taken, c))
      BY <1>5, <1>7, <1>9, <3>1, RecentSteps
    <3> QED
      BY <1>2, <1>12, <3>2
  <2>3. OverrunByLongLine'
    <3>1. Recent(tbuf, taken) /\ (overrun => LongLine(taken))
      BY <1>1 DEF Lines, OverrunByLongLine, LongLine
    <3>2. t.over => LongLine(Append(taken, c))
      BY <1>5, <1>7, <1>9, <3>1, RecentSteps
    <3>3. overrun' => LongLine(taken')
      BY <1>2, <1>12, <3>2
    <3> QED
      BY <3>3 DEF OverrunByLongLine, LongLine
  <2> QED
    BY <1>11, <2>1, <2>2, <2>3 DEF Lines
<1>14. Tokens' /\ busy' \in BOOLEAN
  <2>1. (AtEv("TX")' <=> AtEv("TX")) /\ (AtVfs("TX")' <=> AtVfs("TX"))
    BY <1>3
  <2>2. txc' = txc /\ hit' = hit
    BY <1>3
  <2> QED
    BY <1>9, <1>12, <2>1, <2>2, SpendKeeps
<1>15. stale' \in BOOLEAN /\ (rx # <<>> => stale' = stale)
  <2>1. stale \in BOOLEAN
    BY <1>1 DEF TtyTasks
  <2> QED
    BY <1>2, <2>1
<1>16. rx' \in Seq(Char) /\ Len(rx') <= RXFIFO
  <2>1. CASE rx = <<>>
    BY <1>2, <1>4, <2>1
  <2>2. CASE rx # <<>>
    <3>1. rx' = Tail(rx) /\ Tail(rx) \in Seq(Char) /\ Len(Tail(rx)) = Len(rx) - 1 /\ Len(rx) \in Nat
      BY <1>2, <1>4, <2>2
    <3> QED
      BY <1>4, <3>1
  <2> QED
    BY <2>1, <2>2
<1>17. TtyTasks' /\ Registers'
  <2>1. TtyTasks'
    BY <1>1, <1>3, <1>15 DEF TtyTasks, HIGH
  <2>2. Registers'
    BY <1>1, <1>2, <1>3, <1>5, <1>14, <1>16 DEF Registers
  <2> QED
    BY <2>1, <2>2
<1>18. Fresh'
  <2>1. udr' \in Char
    BY <1>2, <1>5
  <2>2. ASSUME ~hit' PROVE ~stale' /\ ev' # "blocked" /\ ~AtEv("RX")' /\ ~AtVfs("RX")' /\ cur' # "ev"
    <3>1. ~hit /\ ~stale /\ ev # "blocked" /\ rx # <<>>
      BY <1>1, <1>3, <2>2 DEF Fresh
    <3>2. cur' # "ev" /\ ev' # "blocked"
      BY <1>3, <3>1
    <3> QED
      BY <1>3, <1>15, <3>1, <3>2 DEF AtEv
  <2> QED
    BY <2>1, <2>2 DEF Fresh
<1> QED
  BY <1>3, <1>11, <1>13, <1>14, <1>17, <1>18 DEF TtyInv

\* VFS_WR_INTERRUPT (tty.c:213-215): the next write is sent, or the end of the
\* transmission waits for one.
LEMMA TxHandled ==
  ASSUME TtyInv, TtyRuns, vmsg = "TX"
  PROVE  TtyInv'
<1> DEFINE r == Request("TX", NONE, NONE)
           t == usart0_serve_write(Driver, r, "WRITEC")
<1>1. TtyTasks /\ Registers /\ Scheduled /\ Fresh /\ Queues /\ Lines /\ Tokens
  BY DEF TtyInv
<1>2. Becomes(t) /\ rx' = rx /\ udr' = udr /\ stale' = stale /\ taken' = taken
  BY DEF TtyRuns
<1>3. /\ vfs = "asked" /\ cur' \in {"user", "pm", "ex", "vfs", "tty"} /\ high' \in Seq(HIGH)
      /\ vfs' = "done" /\ ev' = ev /\ evmsg' = evmsg /\ vmsg' = vmsg /\ pm' = pm /\ hit' = hit
      /\ rxcie' = rxcie /\ txcie' = txcie /\ txc' = txc
      /\ Scheduled'
      /\ \A m : (AtEv(m)' <=> AtEv(m)) /\ (AtVfs(m) <=> vmsg = m) /\ ~AtVfs(m)'
  BY TtyAnswers
<1>4. /\ InOrder(Driver) /\ Driver.rd = rd_q /\ Driver.wr = wr_q /\ Driver.buf = tbuf
      /\ Driver.over = overrun /\ Driver.asked = asked /\ Driver.out = out
  BY DriverFields
<1>5. r \in WriteRequest /\ r.cmd = "TX"
  BY DEF WriteRequest, Request
<1> HIDE DEF r
<1>6. /\ t \in State /\ OneKind(t.wr) /\ Kept(Driver, t) /\ t.asked = asked /\ SameInput(Driver, t)
      /\ Sent(t) = Sent(Driver)
      /\ \/ t.out = out /\ Ended(t.wr) = Ended(wr_q) + 1
         \/ t.out # out /\ Ended(t.wr) = Ended(wr_q)
  <2>1. Driver \in State /\ OneKind(Driver.wr)
    BY <1>4 DEF InOrder
  <2>2. "WRITEC" \in {"TX", "WRITEC"} /\ "WRITEC" # r.cmd /\ r.cmd # "WRITEC"
    BY <1>5
  <2>3. /\ t \in State /\ OneKind(t.wr) /\ Kept(Driver, t) /\ t.asked = Driver.asked
        /\ SameInput(Driver, t) /\ Sent(t) = Sent(Driver)
        /\ \/ t.out = Driver.out /\ Ended(t.wr) = Ended(Driver.wr) + 1
           \/ t.out # Driver.out /\ Ended(t.wr) = Ended(Driver.wr)
    BY <1>5, <2>1, <2>2, WriteServed
  <2> HIDE DEF t
  <2> QED
    BY <1>4, <2>3
<1> HIDE DEF t
<1>7. InOrder(t) /\ t.buf = tbuf /\ t.over = overrun /\ Seen(t) = Seen(Driver)
  <2>1. /\ t.rd = Driver.rd /\ t.buf = tbuf /\ t.over = overrun /\ t.got = Driver.got
    BY <1>4, <1>6 DEF SameInput
  <2>2. OneKind(t.rd) /\ Sent(t) = t.asked
    BY <1>4, <1>6, <2>1 DEF InOrder
  <2> QED
    BY <1>6, <2>1, <2>2 DEF InOrder, Seen
<1>8. taken' \in Seq(Char)
  BY <1>1, <1>2 DEF Queues
<1>9. Queues' /\ Sent(Driver)' = asked' /\ Seen(Driver)' = Seen(t)
  BY <1>2, <1>6, <1>7, <1>8, BecomesKeeps
<1>10. tbuf' = tbuf /\ overrun' = overrun /\ wr_q' = t.wr /\ busy' = (busy \/ t.out # out)
  BY <1>2, <1>7 DEF Becomes
<1>11. Lines'
  <2>1. Edited(taken)'.text = Seen(Driver)' /\ Edited(taken)'.line = Ints(tbuf)'
    BY <1>1, <1>2, <1>7, <1>9, <1>10 DEF Lines
  <2>2. Recent(tbuf, taken)' /\ OverrunByLongLine'
    BY <1>1, <1>2, <1>10 DEF Lines, OverrunByLongLine
  <2> QED
    BY <1>9, <2>1, <2>2 DEF Lines
<1>12. TxTokens' = TxTokens
  <2>1. /\ One(busy) \in {0, 1} /\ One(txc) \in {0, 1} /\ One(AtEv("TX")) \in {0, 1}
        /\ Ended(wr_q) \in Nat /\ One(AtVfs("TX")) = 1 /\ One(AtVfs("TX")') = 0
        /\ One(AtEv("TX")') = One(AtEv("TX")) /\ One(txc') = One(txc)
    BY <1>3, EndedNat DEF One
  <2>2. TxTokens <= 1
    BY <1>1 DEF Tokens
  <2>3. One(busy) = 0
    BY <2>1, <2>2, TokensSum
  <2>4. CASE t.out = out /\ Ended(t.wr) = Ended(wr_q) + 1
    <3>1. One(busy') = One(busy)
      BY <1>1, <1>10, <2>4 DEF One, Registers
    <3> QED
      BY <1>10, <2>1, <2>4, <3>1, TokensSum
  <2>5. CASE t.out # out /\ Ended(t.wr) = Ended(wr_q)
    <3>1. One(busy') = 1
      BY <1>10, <2>5 DEF One
    <3> QED
      BY <1>10, <2>1, <2>3, <2>5, <3>1, TokensSum
  <2> QED
    BY <1>6, <2>4, <2>5
<1>13. Tokens'
  BY <1>1, <1>3, <1>12 DEF Tokens
<1>14. TtyTasks' /\ Registers'
  <2>1. TtyTasks'
    BY <1>1, <1>2, <1>3 DEF TtyTasks, HIGH
  <2>2. busy' \in BOOLEAN
    BY <1>10
  <2>3. Registers'
    BY <1>1, <1>2, <1>3, <2>2 DEF Registers
  <2> QED
    BY <2>1, <2>3
<1>15. Fresh'
  <2>1. rx' = rx /\ udr' = udr /\ stale' = stale /\ hit' = hit /\ ev' = ev /\ cur' # "ev"
    BY <1>2, <1>3
  <2>2. (AtEv("RX")' <=> AtEv("RX")) /\ ~AtVfs("RX")'
    BY <1>3
  <2> QED
    BY <1>1, <2>1, <2>2 DEF Fresh
<1> QED
  BY <1>3, <1>9, <1>11, <1>13, <1>14, <1>15 DEF TtyInv

-----------------------------------------------------------------------------
(* The specification.                                                      *)

\* After the first handshake (tty.c:11-37): nothing typed, nothing asked, one
\* character being sent.
LEMMA TtyStart ==
  ASSUME TtyInit
  PROVE  TtyInv
<1>1. /\ cur = "user" /\ high = <<>> /\ ev = "wait" /\ evmsg = NONE
      /\ vfs = "receive" /\ vmsg = NONE /\ pm = "receive" /\ rx = <<>> /\ udr = NONE
      /\ rd_q = <<>> /\ wr_q = <<>> /\ tbuf = <<>> /\ client = [c \in Client |-> "run"]
      /\ taken = <<>> /\ got = <<>> /\ asked = <<>> /\ out = <<>>
  BY DEF TtyInit
<1>2. rxcie = TRUE /\ txcie = TRUE /\ busy = TRUE /\ txc = FALSE /\ overrun = FALSE
      /\ stale = FALSE /\ hit = FALSE
  BY DEF TtyInit
<1>3. Range(high) = {} /\ IsInjective(high) /\ Len(rx) = 0
  BY <1>1 DEF Range, IsInjective
<1>4. TtyTasks /\ Registers
  <2>1. hit \in BOOLEAN /\ stale \in BOOLEAN
    BY <1>2
  <2>2. TtyTasks
    BY <1>1, <2>1 DEF TtyTasks
  <2>3. rxcie \in BOOLEAN /\ txcie \in BOOLEAN /\ busy \in BOOLEAN /\ txc \in BOOLEAN
    BY <1>2
  <2>4. Registers
    BY <1>1, <1>3, <2>3 DEF Registers, RXFIFO
  <2> QED
    BY <2>2, <2>4
<1>5. Scheduled
  BY <1>1, <1>3 DEF Scheduled, Ready
<1>6. Fresh
  BY <1>1, <1>2 DEF Fresh, AtEv, AtVfs
<1>7. Driver \in State
  <2>1. /\ rd_q \in Seq(ReadRequest) /\ wr_q \in Seq(WriteRequest) /\ tbuf \in Seq(Char)
        /\ {} \in SUBSET (Client \cup {NONE})
    BY <1>1
  <2>2. /\ got \in Seq(Char \cup {EOF})
        /\ asked \in Seq(Client \cup Char) /\ out \in Seq(Client \cup Char)
    BY <1>1
  <2>3. overrun \in BOOLEAN
    BY <1>2
  <2>4. Driver = [rd |-> rd_q, wr |-> wr_q, buf |-> tbuf, over |-> overrun,
                  free |-> {}, got |-> got, asked |-> asked, out |-> out]
    BY DEF Driver
  <2> QED
    BY <2>1, <2>2, <2>3, <2>4 DEF State
<1>8. Driver.rd = <<>> /\ Driver.wr = <<>> /\ Driver.got = <<>> /\ Driver.out = <<>>
  BY <1>1 DEF Driver
<1>9. DOMAIN rd_q = {} /\ DOMAIN wr_q = {}
  BY <1>1
<1>10. Data(rd_q, "RX") = <<>> /\ Data(wr_q, "WRITEC") = <<>> /\ Places(wr_q, "TX") = {}
  <2>1. rd_q \in Seq({}) /\ wr_q \in Seq({})
    BY <1>1
  <2> QED
    BY <1>9, <2>1, DataFacts
<1>11. Queues
  <2>1. OneKind(rd_q) /\ OneKind(wr_q)
    BY <1>9 DEF OneKind
  <2>2. client \in [Client -> {"run", "read", "write"}] /\ \A c \in Client : client[c] = "run"
    BY <1>1
  <2>3. taken \in Seq(Char)
    BY <1>1
  <2> QED
    BY <1>7, <2>1, <2>2, <2>3 DEF Queues
<1>12. Lines
  <2>1. <<>> \o <<>> = <<>>
    OBVIOUS
  <2>2. Seen(Driver) = <<>> /\ Sent(Driver) = <<>>
    BY <1>1, <1>8, <1>10, <2>1 DEF Seen, Sent
  <2>3. Edited(taken) = [text |-> <<>>, line |-> <<>>]
    <3>1. taken \in Seq(Char) /\ Len(taken) = 0
      BY <1>1
    <3> QED
      BY <3>1, EditingSteps DEF Edited
  <2>4. Edited(taken).text = <<>> /\ Edited(taken).line = <<>>
    BY <2>3
  <2>5. Ints(tbuf) = <<>>
    <3>1. tbuf \in Seq(Char) /\ tbuf = <<>>
      BY <1>1
    <3> QED
      BY <3>1, IntsSteps
  <2>6. Recent(tbuf, taken)
    BY <1>1 DEF Recent
  <2>7. OverrunByLongLine
    BY <1>2 DEF OverrunByLongLine
  <2> QED
    BY <1>1, <2>2, <2>4, <2>5, <2>6, <2>7 DEF Lines
<1>13. Tokens
  <2>1. Ended(wr_q) = 0
    BY <1>10, FS_EmptySet DEF Ended
  <2>2. One(busy) = 1 /\ One(txc) = 0 /\ One(AtEv("TX")) = 0 /\ One(AtVfs("TX")) = 0
    BY <1>1, <1>2 DEF One, AtEv, AtVfs
  <2>3. TxTokens = 1
    BY <2>1, <2>2, TokensSum
  <2> QED
    BY <2>3 DEF Tokens
<1> QED
  BY <1>4, <1>5, <1>6, <1>11, <1>12, <1>13 DEF TtyInv

\* A step that changes nothing keeps the invariant.
LEMMA TtyStutters ==
  ASSUME TtyInv, UNCHANGED TtyVars
  PROVE  TtyInv'
<1>1. /\ UNCHANGED <<cur, high, ev, evmsg, vfs, vmsg, pm, hit>> /\ UNCHANGED driver
      /\ UNCHANGED <<rxcie, txcie, rx, udr, busy, txc>>
  BY DEF TtyVars, tasks, uart
<1>2. TtyTasks /\ Registers /\ Scheduled /\ Fresh /\ Queues /\ Lines /\ Tokens
  BY DEF TtyInv
<1>3. Queues' /\ Lines' /\ stale' = stale /\ wr_q' = wr_q
  BY <1>1, <1>2, DriverUnchanged
<1>4. TtyTasks' /\ Registers' /\ Scheduled' /\ Fresh'
  BY <1>1, <1>2, <1>3 DEF TtyTasks, Registers, Scheduled, Ready, Fresh, AtEv, AtVfs
<1>5. TxTokens' = TxTokens
  BY <1>1, <1>3, TokensSum DEF One, AtEv, AtVfs
<1>6. Tokens'
  BY <1>1, <1>2, <1>5 DEF Tokens
<1> QED
  BY <1>3, <1>4, <1>6 DEF TtyInv

\* TtyInv holds always.
LEMMA TtyInvariant == TtySpec => []TtyInv
<1>1. TtyInit => TtyInv
  BY TtyStart
<1>2. TtyInv /\ [TtyNext]_TtyVars => TtyInv'
  <2> SUFFICES ASSUME TtyInv, [TtyNext]_TtyVars PROVE TtyInv'
    OBVIOUS
  <2>1. ASSUME NEW c \in Client, Read(c) PROVE TtyInv'
    BY <2>1, ReadKeeps
  <2>2. ASSUME NEW c \in Client, Write(c) PROVE TtyInv'
    BY <2>2, WriteKeeps
  <2>3. ASSUME NEW c \in Char, ReceiveChar(c) PROVE TtyInv'
    BY <2>3, ReceiveCharKeeps
  <2>4. CASE TxDone
    BY <2>4, TxDoneKeeps
  <2>5. CASE RxInterrupt
    BY <2>5, RxInterruptKeeps
  <2>6. CASE TxInterrupt
    BY <2>6, TxInterruptKeeps
  <2>7. CASE EvRuns
    BY <2>7, EvRunsKeeps
  <2>8. CASE VfsRuns
    BY <2>8, VfsRunsKeeps
  <2>9. CASE TtyRuns
    <3>1. vmsg = "RX" \/ vmsg = "TX"
      BY <2>9 DEF TtyRuns
    <3> QED
      BY <2>9, <3>1, RxHandled, TxHandled
  <2>10. CASE VfsBack
    BY <2>10, VfsBackKeeps
  <2>11. CASE PmRun
    BY <2>11, PmRunKeeps
  <2>12. CASE PmReceives
    BY <2>12, PmReceivesKeeps
  <2>13. CASE PmAsksEx
    BY <2>13, PmAsksExKeeps
  <2>14. CASE ExAnswers
    BY <2>14, ExAnswersKeeps
  <2>15. CASE ExReceives
    BY <2>15, ExReceivesKeeps
  <2>16. CASE PmAsksVfs
    BY <2>16, PmAsksVfsKeeps
  <2>17. CASE VfsAsks
    BY <2>17, VfsAsksKeeps
  <2>18. CASE VfsAnswers
    BY <2>18, VfsAnswersKeeps
  <2>19. CASE Tick
    BY <2>19, TickKeeps
  <2>20. CASE UNCHANGED TtyVars
    BY <2>20, TtyStutters
  <2> QED
    BY <2>1, <2>2, <2>3, <2>4, <2>5, <2>6, <2>7, <2>8, <2>9, <2>10, <2>11, <2>12, <2>13, <2>14,
       <2>15, <2>16, <2>17, <2>18, <2>19, <2>20
    DEF TtyNext
<1> QED
  BY <1>1, <1>2, PTL DEF TtySpec

(* Output is sent once and in order, input is what a line editor makes of  *)
(* the characters read from UDR0, nobody waits for what is there, and only *)
(* a line of more than LINE characters is stored past tbuf (tty.c:53-211). *)
THEOREM ServedAlways == TtySpec => []Served
<1>1. TtyInv => Served
  <2> SUFFICES ASSUME TtyInv PROVE Served
    OBVIOUS
  <2>1. TtyTasks /\ Registers /\ Queues /\ Lines
    BY DEF TtyInv
  <2>2. /\ InOrder(Driver) /\ Driver.rd = rd_q /\ Driver.wr = wr_q /\ Driver.buf = tbuf
        /\ Driver.over = overrun /\ Driver.got = got /\ Driver.out = out
    BY DriverFields
  <2>3. /\ rd_q \in Seq(ReadRequest) /\ wr_q \in Seq(WriteRequest) /\ tbuf \in Seq(Char)
        /\ overrun \in BOOLEAN /\ out \in Seq(Client \cup Char)
    BY <2>2, StateFields DEF InOrder
  <2>4. ReadRequest \subseteq Requests /\ WriteRequest \subseteq Requests
    BY DEF ReadRequest, WriteRequest, Requests
  <2>5. rd_q \in Seq(Requests) /\ wr_q \in Seq(Requests)
    BY <2>3, <2>4
  <2>6. TtyTypeOK
    BY <2>1, <2>3, <2>5 DEF TtyTypeOK, TtyTasks, Registers, Queues
  <2>7. OutInOrder
    BY <2>1, <2>2 DEF OutInOrder, Lines, Sent
  <2>8. ReadInOrder
    <3>1. Edited(taken).text = got \o Data(rd_q, "RX")
      BY <2>1, <2>2 DEF Lines, Seen
    <3>2. Len(Edited(taken).line) = Len(tbuf)
      BY <2>1, <2>3, IntsSteps DEF Lines
    <3> QED
      BY <3>1, <3>2 DEF ReadInOrder
  <2>9. NoIdleWait
    BY <2>1 DEF NoIdleWait, Queues, OneKind, OnHold
  <2> QED
    BY <2>1, <2>6, <2>7, <2>8, <2>9 DEF Served, Lines
<1> QED
  BY <1>1, TtyInvariant, PTL

(* The end of a transmission is counted once, and it is lost, or an RX     *)
(* message finds no character, only after an interrupt came while pm or ex *)
(* ran and vfs was busy (tty.c:34-50, pm.c:532-547, ex.c:96-102).          *)
THEOREM OnlyThroughOpenAlways == TtySpec => []OnlyThroughOpen
<1>1. TtyInv => OnlyThroughOpen
  BY DEF TtyInv, Tokens, Fresh, OnlyThroughOpen
<1> QED
  BY <1>1, TtyInvariant, PTL

=============================================================================

----------------------------- MODULE SeqLemmas -----------------------------
(* What the queue operations do to a sequence, one element at a time: the  *)
(* facts the invariance proofs cite.                                       *)
EXTENDS SeqOps, WellFoundedInduction, FiniteSetTheorems, TLAPS

(* Putting an item at the front (q_front, lib/queue.c:28-42) makes it the  *)
(* first and moves every other item up by one place.                       *)
LEMMA ConsFacts ==
  ASSUME NEW S, NEW x \in S, NEW s \in Seq(S)
  PROVE  /\ Cons(x, s) \in Seq(S)
         /\ Len(Cons(x, s)) = Len(s) + 1
         /\ Cons(x, s)[1] = x
         /\ \A i \in 1..Len(s) : Cons(x, s)[i + 1] = s[i]
         /\ \A i \in 2..(Len(s) + 1) : Cons(x, s)[i] = s[i - 1]
BY DEF Cons

(* Putting an item at the end (q_end, lib/queue.c:50-64) leaves the others *)
(* where they are.                                                         *)
LEMMA AppendFacts ==
  ASSUME NEW S, NEW x \in S, NEW s \in Seq(S)
  PROVE  /\ Append(s, x) \in Seq(S)
         /\ Len(Append(s, x)) = Len(s) + 1
         /\ Append(s, x)[Len(s) + 1] = x
         /\ \A i \in 1..Len(s) : Append(s, x)[i] = s[i]
OBVIOUS

(* Removing the i-th item (q_remv, lib/queue.c:72-80) closes the gap. *)
LEMMA WithoutFacts ==
  ASSUME NEW S, NEW s \in Seq(S), NEW i \in 1..Len(s)
  PROVE  /\ Without(s, i) \in Seq(S)
         /\ Len(Without(s, i)) = Len(s) - 1
         /\ \A j \in 1..(Len(s) - 1) :
              Without(s, i)[j] = IF j < i THEN s[j] ELSE s[j + 1]
<1>1. Len(s) \in Nat /\ Len(s) - 1 \in Nat
  OBVIOUS
<1>2. \A j \in 1..(Len(s) - 1) : (IF j < i THEN s[j] ELSE s[j + 1]) \in S
  BY <1>1
<1>3. Without(s, i) \in [1..(Len(s) - 1) -> S]
  BY <1>2 DEF Without
<1>4. Without(s, i) \in Seq(S) /\ Len(Without(s, i)) = Len(s) - 1
  BY <1>1, <1>3
<1> QED
  BY <1>4 DEF Without

-----------------------------------------------------------------------------
(* The same operations seen on the set of items a queue holds, and on the  *)
(* absence of duplicates.                                                  *)

(* Q_FRONT adds the item to the items of the queue. *)
LEMMA ConsSet ==
  ASSUME NEW S, NEW x \in S, NEW s \in Seq(S)
  PROVE  /\ Cons(x, s) \in Seq(S)
         /\ Range(Cons(x, s)) = Range(s) \cup {x}
         /\ IsInjective(s) /\ x \notin Range(s) => IsInjective(Cons(x, s))
<1> DEFINE c == Cons(x, s)
<1>1. /\ c \in Seq(S) /\ Len(c) = Len(s) + 1 /\ c[1] = x
      /\ \A i \in 1..Len(s) : c[i + 1] = s[i]
      /\ \A i \in 2..(Len(s) + 1) : c[i] = s[i - 1]
  BY DEF Cons
<1>2. DOMAIN c = 1..(Len(s) + 1) /\ DOMAIN s = 1..Len(s) /\ Len(s) \in Nat
  BY <1>1
<1> HIDE DEF c
<1>3. Range(c) \subseteq Range(s) \cup {x}
  <2> SUFFICES ASSUME NEW i \in 1..(Len(s) + 1) PROVE c[i] \in Range(s) \cup {x}
    BY <1>2 DEF Range
  <2>1. CASE i = 1
    BY <1>1, <2>1
  <2>2. CASE i # 1
    <3>1. c[i] = s[i - 1] /\ i - 1 \in 1..Len(s)
      BY <1>1, <1>2, <2>2
    <3> QED
      BY <1>2, <3>1 DEF Range
  <2> QED
    BY <2>1, <2>2
<1>4. Range(s) \cup {x} \subseteq Range(c)
  <2>1. x \in Range(c)
    BY <1>1, <1>2 DEF Range
  <2>2. ASSUME NEW i \in 1..Len(s) PROVE s[i] \in Range(c)
    <3>1. i + 1 \in 1..(Len(s) + 1) /\ c[i + 1] = s[i]
      BY <1>1, <1>2
    <3> QED
      BY <1>2, <3>1 DEF Range
  <2> QED
    BY <1>2, <2>1, <2>2 DEF Range
<1>5. ASSUME IsInjective(s), x \notin Range(s) PROVE IsInjective(c)
  <2> SUFFICES ASSUME NEW i \in 1..(Len(s) + 1), NEW j \in 1..(Len(s) + 1), c[i] = c[j]
               PROVE  i = j
    BY <1>2 DEF IsInjective
  <2>1. \A k \in 1..Len(s) : s[k] # x
    BY <1>2, <1>5 DEF Range
  <2>2. \A k, l \in 1..Len(s) : s[k] = s[l] => k = l
    BY <1>2, <1>5 DEF IsInjective
  <2>3. CASE i = 1 \/ j = 1
    BY <1>1, <1>2, <2>1, <2>3
  <2>4. CASE i # 1 /\ j # 1
    <3>1. /\ i - 1 \in 1..Len(s) /\ c[i] = s[i - 1]
          /\ j - 1 \in 1..Len(s) /\ c[j] = s[j - 1]
      BY <1>1, <1>2, <2>4
    <3>2. i - 1 = j - 1
      BY <2>2, <3>1
    <3> QED
      BY <3>2
  <2> QED
    BY <2>3, <2>4
<1> QED
  BY <1>1, <1>3, <1>4, <1>5 DEF c

(* Q_END adds the item to the items of the queue. *)
LEMMA AppendSet ==
  ASSUME NEW S, NEW x \in S, NEW s \in Seq(S)
  PROVE  /\ Append(s, x) \in Seq(S)
         /\ Range(Append(s, x)) = Range(s) \cup {x}
         /\ IsInjective(s) /\ x \notin Range(s) => IsInjective(Append(s, x))
<1> DEFINE c == Append(s, x)
<1>1. /\ c \in Seq(S) /\ Len(c) = Len(s) + 1 /\ c[Len(s) + 1] = x
      /\ \A i \in 1..Len(s) : c[i] = s[i]
  BY AppendFacts
<1>2. DOMAIN c = 1..(Len(s) + 1) /\ DOMAIN s = 1..Len(s) /\ Len(s) \in Nat
  BY <1>1
<1> HIDE DEF c
<1>3. Range(c) = Range(s) \cup {x}
  BY <1>1, <1>2 DEF Range
<1>4. ASSUME IsInjective(s), x \notin Range(s) PROVE IsInjective(c)
  <2>1. \A k \in 1..Len(s) : s[k] # x
    BY <1>2, <1>4 DEF Range
  <2>2. \A k, l \in 1..Len(s) : s[k] = s[l] => k = l
    BY <1>2, <1>4 DEF IsInjective
  <2> QED
    BY <1>1, <1>2, <2>1, <2>2 DEF IsInjective
<1> QED
  BY <1>1, <1>3, <1>4 DEF c

(* Q_REMV of an item takes that item, and no other, off a queue that holds *)
(* no item twice.                                                          *)
LEMMA RemvSet ==
  ASSUME NEW S, NEW s \in Seq(S), NEW x \in Range(s), IsInjective(s)
  PROVE  /\ Q_REMV(s, x) \in Seq(S)
         /\ Range(Q_REMV(s, x)) = Range(s) \ {x}
         /\ IsInjective(Q_REMV(s, x))
<1> DEFINE i == IndexOf(s, x)
           c == Q_REMV(s, x)
           o(j) == IF j < i THEN j ELSE j + 1
<1>1. DOMAIN s = 1..Len(s) /\ Len(s) \in Nat
  OBVIOUS
<1>2. i \in 1..Len(s) /\ s[i] = x
  BY <1>1 DEF IndexOf, Range
<1> HIDE DEF i
<1>3. /\ c \in Seq(S) /\ Len(c) = Len(s) - 1
      /\ \A j \in 1..(Len(s) - 1) : c[j] = IF j < i THEN s[j] ELSE s[j + 1]
  BY <1>2, WithoutFacts DEF Q_REMV, i
<1> HIDE DEF c
<1>4. DOMAIN c = 1..(Len(s) - 1)
  BY <1>3
<1>5. \A k, l \in 1..Len(s) : s[k] = s[l] => k = l
  BY <1>1 DEF IsInjective
<1>6. \A j \in 1..(Len(s) - 1) : o(j) \in 1..Len(s) /\ o(j) # i /\ c[j] = s[o(j)]
  BY <1>1, <1>2, <1>3
<1>7. \A j, k \in 1..(Len(s) - 1) : o(j) = o(k) => j = k
  BY <1>1, <1>2
<1>8. \A k \in 1..Len(s) : k # i => \E j \in 1..(Len(s) - 1) : o(j) = k
  <2> SUFFICES ASSUME NEW k \in 1..Len(s), k # i PROVE \E j \in 1..(Len(s) - 1) : o(j) = k
    OBVIOUS
  <2>1. CASE k < i
    <3>1. k \in 1..(Len(s) - 1) /\ o(k) = k
      BY <1>1, <1>2, <2>1
    <3> QED
      BY <3>1
  <2>2. CASE k > i
    <3>1. k - 1 \in 1..(Len(s) - 1) /\ o(k - 1) = k
      BY <1>1, <1>2, <2>2
    <3> QED
      BY <3>1
  <2> QED
    BY <1>1, <1>2, <2>1, <2>2
<1> HIDE DEF o
<1>9. Range(c) \subseteq Range(s) \ {x}
  BY <1>1, <1>2, <1>4, <1>5, <1>6 DEF Range
<1>10. Range(s) \ {x} \subseteq Range(c)
  <2> SUFFICES ASSUME NEW k \in 1..Len(s), s[k] # x PROVE s[k] \in Range(c)
    BY <1>1 DEF Range
  <2>1. k # i
    BY <1>2
  <2>2. PICK j \in 1..(Len(s) - 1) : o(j) = k
    BY <1>8, <2>1
  <2> QED
    BY <1>4, <1>6, <2>2 DEF Range
<1>11. IsInjective(c)
  BY <1>4, <1>5, <1>6, <1>7 DEF IsInjective
<1> QED
  BY <1>3, <1>9, <1>10, <1>11 DEF c

(* Taking the first item off a queue (scheduler(), kernel.c:289). *)
LEMMA TailSet ==
  ASSUME NEW S, NEW s \in Seq(S), s # <<>>, IsInjective(s)
  PROVE  /\ Tail(s) \in Seq(S) /\ Head(s) \in S /\ Head(s) \in Range(s)
         /\ Range(Tail(s)) = Range(s) \ {Head(s)}
         /\ IsInjective(Tail(s))
<1> DEFINE c == Tail(s)
<1>1. /\ DOMAIN s = 1..Len(s) /\ Len(s) \in Nat /\ Len(s) >= 1 /\ Head(s) = s[1]
      /\ Head(s) \in S
  OBVIOUS
<1>2. c \in Seq(S) /\ Len(c) = Len(s) - 1 /\ \A j \in 1..(Len(s) - 1) : c[j] = s[j + 1]
  BY <1>1
<1>3. DOMAIN c = 1..(Len(s) - 1)
  BY <1>2
<1>4. \A k, l \in 1..Len(s) : s[k] = s[l] => k = l
  BY <1>1 DEF IsInjective
<1> HIDE DEF c
<1>5. \A j \in 1..(Len(s) - 1) : j + 1 \in 1..Len(s) /\ j + 1 # 1
  BY <1>1
<1>6. Range(c) \subseteq Range(s) \ {Head(s)}
  BY <1>1, <1>2, <1>3, <1>4, <1>5 DEF Range
<1>7. Range(s) \ {Head(s)} \subseteq Range(c)
  <2> SUFFICES ASSUME NEW k \in 1..Len(s), s[k] # s[1] PROVE s[k] \in Range(c)
    BY <1>1 DEF Range
  <2>1. k - 1 \in 1..(Len(s) - 1) /\ (k - 1) + 1 = k
    BY <1>1
  <2>2. c[k - 1] = s[k]
    BY <1>2, <2>1
  <2> QED
    BY <1>3, <2>1, <2>2 DEF Range
<1>8. IsInjective(c)
  <2> SUFFICES ASSUME NEW j \in 1..(Len(s) - 1), NEW k \in 1..(Len(s) - 1), c[j] = c[k]
               PROVE  j = k
    BY <1>3 DEF IsInjective
  <2>1. j + 1 = k + 1
    BY <1>2, <1>4, <1>5
  <2> QED
    BY <2>1
<1>9. Head(s) \in Range(s)
  BY <1>1 DEF Range
<1> QED
  BY <1>1, <1>2, <1>6, <1>7, <1>8, <1>9 DEF c

(* A non-empty set of naturals has a least member: what makes the first    *)
(* hit of a scan from the front well defined.                              *)
LEMMA LeastNat ==
  ASSUME NEW T, T \subseteq Nat, T # {}
  PROVE  \E x \in T : \A y \in T : x <= y
<1>1. PICK x \in T : \A y \in T : ~(<<y, x>> \in OpToRel(<, Nat))
  BY NatLessThanWellFounded, WFMin
<1>2. \A y \in T : ~(y < x)
  BY <1>1 DEF OpToRel
<1> QED
  BY <1>2

-----------------------------------------------------------------------------
(* Pick takes the places of I in increasing order, each once: Place(I, _)  *)
(* is the increasing enumeration of I.                                     *)
LEMMA PlaceFacts ==
  ASSUME NEW n \in Nat, NEW I \in SUBSET (1..n)
  PROVE  /\ IsFiniteSet(I) /\ Cardinality(I) \in Nat /\ Cardinality(I) <= n
         /\ \A k \in 1..Cardinality(I) : Place(I, k) \in I
         /\ \A k, l \in 1..Cardinality(I) : k < l => Place(I, k) < Place(I, l)
         /\ \A i \in I : \E k \in 1..Cardinality(I) : Place(I, k) = i
<1> DEFINE m == Cardinality(I)
           Upto(i) == {j \in I : j <= i}
           rank == [i \in I |-> Cardinality(Upto(i))]
<1>1. IsFiniteSet(1..n) /\ Cardinality(1..n) = n
  BY FS_Interval
<1>2. IsFiniteSet(I) /\ m \in Nat /\ m <= n
  BY <1>1, FS_Subset, FS_CardinalityType
<1>3. \A i \in I : /\ IsFiniteSet(Upto(i)) /\ Cardinality(Upto(i)) \in Nat
                   /\ Cardinality(Upto(i)) <= m
  <2> SUFFICES ASSUME NEW i \in I
               PROVE  /\ IsFiniteSet(Upto(i)) /\ Cardinality(Upto(i)) \in Nat
                      /\ Cardinality(Upto(i)) <= m
    OBVIOUS
  <2>1. Upto(i) \in SUBSET I
    OBVIOUS
  <2> HIDE DEF Upto
  <2> QED
    BY <1>2, <2>1, FS_Subset, FS_CardinalityType
<1>4. \A i \in I : i \in Upto(i) /\ Cardinality(Upto(i)) # 0
  <2> SUFFICES ASSUME NEW i \in I PROVE i \in Upto(i) /\ Cardinality(Upto(i)) # 0
    OBVIOUS
  <2>1. i \in Upto(i)
    OBVIOUS
  <2> HIDE DEF Upto
  <2> QED
    BY <1>3, <2>1, FS_EmptySet
<1>5. rank \in [I -> 1..m]
  BY <1>2, <1>3, <1>4
<1>6. ASSUME NEW i \in I, NEW j \in I, i < j PROVE rank[i] < rank[j]
  <2>1. Upto(i) \in SUBSET Upto(j) /\ j \in Upto(j) /\ j \notin Upto(i)
    <3>1. i \in Int /\ j \in Int /\ \A k \in I : k \in Int
      OBVIOUS
    <3>2. ASSUME NEW k \in I, k <= i PROVE k <= j
      BY <1>6, <3>1, <3>2
    <3>3. j <= j /\ ~(j <= i)
      BY <1>6, <3>1
    <3> QED
      BY <3>2, <3>3
  <2> HIDE DEF Upto
  <2>2. Cardinality(Upto(i)) <= Cardinality(Upto(j)) /\ Cardinality(Upto(i)) # Cardinality(Upto(j))
    BY <1>3, <2>1, FS_Subset
  <2>3. rank[i] = Cardinality(Upto(i)) /\ rank[j] = Cardinality(Upto(j))
    OBVIOUS
  <2>4. Cardinality(Upto(i)) \in Nat /\ Cardinality(Upto(j)) \in Nat
    BY <1>3
  <2> HIDE DEF rank
  <2> QED
    BY <2>2, <2>3, <2>4
<1> HIDE DEF rank
<1>7. rank \in Injection(I, 1..m)
  <2>1. \A i, j \in I : rank[i] = rank[j] => i = j
    <3> SUFFICES ASSUME NEW i \in I, NEW j \in I, i # j PROVE rank[i] # rank[j]
      OBVIOUS
    <3>1. i \in Int /\ j \in Int /\ rank[i] \in Int /\ rank[j] \in Int
      BY <1>5
    <3> QED
      BY <1>6, <3>1
  <2> QED
    BY <1>5, <2>1 DEF Injection, IsInjective
<1>8. rank \in Surjection(I, 1..m)
  <2>1. IsFiniteSet(1..m) /\ Cardinality(1..m) = m
    BY <1>2, FS_Interval
  <2> QED
    BY <1>7, <2>1, FS_Injection
<1>9. \A k \in 1..m : \E i \in I : rank[i] = k
  BY <1>8 DEF Surjection
<1>10. ASSUME NEW k \in 1..m PROVE Place(I, k) \in I /\ rank[Place(I, k)] = k
  BY <1>9 DEF Place, rank
<1>11. ASSUME NEW k \in 1..m, NEW l \in 1..m, k < l PROVE Place(I, k) < Place(I, l)
  <2>1. /\ Place(I, k) \in I /\ rank[Place(I, k)] = k
        /\ Place(I, l) \in I /\ rank[Place(I, l)] = l
    BY <1>10
  <2>2. /\ Place(I, k) \in Int /\ Place(I, l) \in Int /\ k \in Int /\ l \in Int
    <3>1. \A i \in I : i \in Int
      OBVIOUS
    <3>2. k \in Int /\ l \in Int
      BY <1>2
    <3> QED
      BY <2>1, <3>1, <3>2
  <2>3. Place(I, k) # Place(I, l)
    BY <1>11, <2>1, <2>2
  <2>4. ~(Place(I, l) < Place(I, k))
    BY <1>6, <1>11, <2>1, <2>2
  <2> QED
    BY <2>2, <2>3, <2>4
<1>12. ASSUME NEW i \in I PROVE \E k \in 1..m : Place(I, k) = i
  <2>1. rank[i] \in 1..m
    BY <1>5
  <2>2. Place(I, rank[i]) \in I /\ rank[Place(I, rank[i])] = rank[i]
    BY <1>10, <2>1
  <2>3. Place(I, rank[i]) = i
    BY <1>7, <2>2 DEF Injection, IsInjective
  <2> QED
    BY <2>1, <2>3
<1> QED
  BY <1>2, <1>10, <1>11, <1>12

(* The items a scan with removals leaves on a queue (q_forall with a       *)
(* callback that removes, lib/queue.c:97-110) are those at the places of   *)
(* I, each once.                                                           *)
LEMMA PickSet ==
  ASSUME NEW S, NEW s \in Seq(S), NEW I \in SUBSET (1..Len(s))
  PROVE  /\ Pick(s, I) \in Seq(S)
         /\ Range(Pick(s, I)) = {s[i] : i \in I}
         /\ IsInjective(s) => IsInjective(Pick(s, I))
<1> DEFINE m == Cardinality(I)
           c == Pick(s, I)
<1>1. Len(s) \in Nat /\ DOMAIN s = 1..Len(s)
  OBVIOUS
<1>2. /\ m \in Nat
      /\ \A k \in 1..m : Place(I, k) \in I
      /\ \A k, l \in 1..m : k < l => Place(I, k) < Place(I, l)
      /\ \A i \in I : \E k \in 1..m : Place(I, k) = i
  BY <1>1, PlaceFacts
<1>3. /\ c \in [1..m -> S] /\ DOMAIN c = 1..m
      /\ \A k \in 1..m : c[k] = s[Place(I, k)]
  <2>1. \A k \in 1..m : s[Place(I, k)] \in S
    <3>1. \A i \in I : s[i] \in S
      OBVIOUS
    <3> QED
      BY <1>2, <3>1
  <2>2. c = [k \in 1..m |-> s[Place(I, k)]]
    BY DEF Pick
  <2> HIDE DEF c
  <2> QED
    BY <2>1, <2>2
<1>4. c \in Seq(S)
  BY <1>2, <1>3
<1> HIDE DEF c, m
<1>5. Range(c) = {s[i] : i \in I}
  <2>1. \A x \in Range(c) : \E i \in I : x = s[i]
    <3> SUFFICES ASSUME NEW k \in 1..m PROVE \E i \in I : c[k] = s[i]
      BY <1>3 DEF Range
    <3> QED
      BY <1>2, <1>3
  <2>2. \A i \in I : s[i] \in Range(c)
    BY <1>2, <1>3 DEF Range
  <2> QED
    BY <2>1, <2>2
<1>6. ASSUME IsInjective(s) PROVE IsInjective(c)
  <2> SUFFICES ASSUME NEW k \in 1..m, NEW l \in 1..m, c[k] = c[l], k < l PROVE FALSE
    <3>1. \A k, l \in 1..m : k < l \/ l < k \/ k = l
      BY <1>2
    <3> QED
      BY <1>3, <3>1 DEF IsInjective
  <2>1. Place(I, k) = Place(I, l)
    BY <1>1, <1>2, <1>3, <1>6 DEF IsInjective
  <2>2. Place(I, k) \in I /\ Place(I, k) < Place(I, l)
    BY <1>2
  <2>3. \A i \in I : i \in Int
    OBVIOUS
  <2> QED
    <3>1. \A i \in Int : ~(i < i)
      OBVIOUS
    <3> QED
      BY <2>1, <2>2, <2>3, <3>1, Zenon
<1> QED
  BY <1>4, <1>5, <1>6 DEF c

(* Pick takes all, or nothing. *)
LEMMA PickAll ==
  ASSUME NEW S, NEW s \in Seq(S)
  PROVE  Pick(s, 1..Len(s)) = s /\ Pick(s, {}) = <<>>
<1> DEFINE n == Len(s)
<1>1. n \in Nat /\ s \in [1..n -> S] /\ Cardinality(1..n) = n
  <2>1. n \in Nat /\ s \in [1..n -> S]
    OBVIOUS
  <2>2. \A a \in Int : a \in Nat => Cardinality(1..a) = a
    BY FS_Interval
  <2> HIDE DEF n
  <2> QED
    BY <2>1, <2>2
<1>2. ASSUME NEW k \in 1..n PROVE Place(1..n, k) = k
  <2>1. ASSUME NEW i \in 1..n PROVE Cardinality({j \in 1..n : j <= i}) = i
    <3>1. {j \in 1..n : j <= i} = 1..i
      BY <1>1
    <3>2. Cardinality(1..i) = i
      BY <1>1, FS_Interval
    <3> QED
      BY <3>1, <3>2
  <2>2. \E i \in 1..n : Cardinality({j \in 1..n : j <= i}) = k
    BY <2>1
  <2> HIDE DEF n
  <2>3. Place(1..n, k) \in 1..n /\ Cardinality({j \in 1..n : j <= Place(1..n, k)}) = k
    BY <2>2, Zenon DEF Place
  <2> QED
    BY <2>1, <2>3
<1>3. Pick(s, 1..n) = [k \in 1..n |-> s[k]]
  <2>1. \A k \in 1..n : s[Place(1..n, k)] = s[k]
    BY <1>2
  <2>2. Pick(s, 1..n) = [k \in 1..n |-> s[Place(1..n, k)]]
    BY <1>1 DEF Pick
  <2> HIDE DEF n
  <2> QED
    BY <2>1, <2>2
<1>4. s = [k \in 1..n |-> s[k]]
  BY <1>1
<1>5. Pick(s, {}) = <<>>
  <2>1. Cardinality({}) = 0
    BY FS_EmptySet
  <2>2. Pick(s, {}) = [k \in 1..0 |-> s[Place({}, k)]]
    BY <2>1 DEF Pick
  <2> QED
    BY <2>2
<1> HIDE DEF n
<1>6. Pick(s, 1..n) = s
  BY <1>3, <1>4
<1> QED
  BY <1>5, <1>6 DEF n

(* Three queues share no item: together they hold each item once. *)
LEMMA JoinedInjective ==
  ASSUME NEW S, NEW a \in Seq(S), NEW b \in Seq(S), NEW c \in Seq(S),
         IsInjective(a), IsInjective(b), IsInjective(c),
         Range(a) \cap Range(b) = {}, Range(a) \cap Range(c) = {}, Range(b) \cap Range(c) = {}
  PROVE  IsInjective(a \o b \o c)
<1> DEFINE d == a \o b \o c
           i1 == Len(a)
           i2 == Len(a) + Len(b)
           i3 == Len(a) + Len(b) + Len(c)
<1>1. /\ Len(a) \in Nat /\ Len(b) \in Nat /\ Len(c) \in Nat
      /\ DOMAIN a = 1..Len(a) /\ DOMAIN b = 1..Len(b) /\ DOMAIN c = 1..Len(c)
  OBVIOUS
<1>2. /\ d \in Seq(S) /\ Len(d) = i3
      /\ \A i \in 1..i3 : d[i] = IF i <= i1 THEN a[i] ELSE IF i <= i2 THEN b[i - i1]
                                 ELSE c[i - i2]
  OBVIOUS
<1> HIDE DEF d
<1>3. DOMAIN d = 1..i3
  BY <1>2
<1>4. /\ \A i \in 1..i3 : i <= i1 => i \in 1..Len(a)
      /\ \A i \in 1..i3 : ~(i <= i1) /\ i <= i2 => i - i1 \in 1..Len(b)
      /\ \A i \in 1..i3 : ~(i <= i2) => i - i2 \in 1..Len(c) /\ ~(i <= i1)
  BY <1>1
<1>5. /\ \A i \in 1..Len(a) : a[i] \in Range(a)
      /\ \A i \in 1..Len(b) : b[i] \in Range(b)
      /\ \A i \in 1..Len(c) : c[i] \in Range(c)
  BY <1>1 DEF Range
<1>6. /\ \A i, j \in 1..Len(a) : a[i] = a[j] => i = j
      /\ \A i, j \in 1..Len(b) : b[i] = b[j] => i = j
      /\ \A i, j \in 1..Len(c) : c[i] = c[j] => i = j
  BY <1>1 DEF IsInjective
<1> SUFFICES ASSUME NEW i \in 1..i3, NEW j \in 1..i3, d[i] = d[j] PROVE i = j
  BY <1>3 DEF IsInjective, d
<1>7. CASE i <= i1
  <2>1. d[i] = a[i] /\ a[i] \in Range(a) /\ i \in 1..Len(a)
    BY <1>2, <1>4, <1>5, <1>7
  <2>2. j <= i1
    BY <1>2, <1>4, <1>5, <2>1
  <2> QED
    BY <1>2, <1>4, <1>6, <2>1, <2>2
<1>8. CASE ~(i <= i1) /\ i <= i2
  <2>1. d[i] = b[i - i1] /\ b[i - i1] \in Range(b) /\ i - i1 \in 1..Len(b)
    BY <1>2, <1>4, <1>5, <1>8
  <2>2. ~(j <= i1) /\ j <= i2
    BY <1>2, <1>4, <1>5, <2>1
  <2>3. i - i1 = j - i1
    BY <1>2, <1>4, <1>6, <2>1, <2>2
  <2> QED
    BY <1>1, <2>3
<1>9. CASE ~(i <= i2)
  <2>1. d[i] = c[i - i2] /\ c[i - i2] \in Range(c) /\ i - i2 \in 1..Len(c)
    BY <1>2, <1>4, <1>5, <1>9
  <2>2. ~(j <= i2)
    BY <1>2, <1>4, <1>5, <2>1
  <2>3. i - i2 = j - i2
    BY <1>2, <1>4, <1>6, <2>1, <2>2
  <2> QED
    BY <1>1, <2>3
<1> QED
  BY <1>7, <1>8, <1>9

-----------------------------------------------------------------------------
(* How many entries of a table F, with rows A and columns B, are f: what a *)
(* reference count of vfs must equal.                                      *)
Entries(F, A, B, f) == {u \in A \X B : F[u[1]][u[2]] = f}

(* One entry of the table is written. *)
LEMMA PointCount ==
  ASSUME NEW A, NEW B, IsFiniteSet(A), IsFiniteSet(B), NEW F, NEW G, NEW a \in A, NEW b \in B,
         NEW f, \A x \in A : \A y \in B : x # a \/ y # b => G[x][y] = F[x][y]
  PROVE  /\ IsFiniteSet(Entries(F, A, B, f)) /\ Cardinality(Entries(F, A, B, f)) \in Nat
         /\ (F[a][b] = f <=> G[a][b] = f) => Entries(G, A, B, f) = Entries(F, A, B, f)
         /\ F[a][b] # f /\ G[a][b] = f =>
              Cardinality(Entries(G, A, B, f)) = Cardinality(Entries(F, A, B, f)) + 1
         /\ F[a][b] = f /\ G[a][b] # f =>
              /\ Cardinality(Entries(G, A, B, f)) = Cardinality(Entries(F, A, B, f)) - 1
              /\ Cardinality(Entries(F, A, B, f)) # 0
<1> DEFINE P == Entries(F, A, B, f)
           Q == Entries(G, A, B, f)
           x == <<a, b>>
<1>1. /\ P = {u \in A \X B : F[u[1]][u[2]] = f}
      /\ Q = {u \in A \X B : G[u[1]][u[2]] = f}
      /\ x \in A \X B /\ x[1] = a /\ x[2] = b
  BY DEF Entries
<1>2. \A u \in A \X B : u[1] \in A /\ u[2] \in B /\ (u # x => u[1] # a \/ u[2] # b)
  <2>1. \A u \in A \X B : u[1] \in A /\ u[2] \in B /\ u = <<u[1], u[2]>>
    OBVIOUS
  <2> QED
    BY <2>1
<1>3. IsFiniteSet(P) /\ Cardinality(P) \in Nat
  <2>1. IsFiniteSet(A \X B) /\ P \in SUBSET (A \X B)
    BY <1>1, FS_Product
  <2>2. IsFiniteSet(P)
    BY <2>1, FS_Subset
  <2> QED
    BY <2>2, FS_CardinalityType
<1> HIDE DEF P, Q, x
<1>4. \A u \in A \X B : u # x => (u \in P <=> u \in Q)
  BY <1>1, <1>2
<1>5. x \in P <=> F[a][b] = f
  BY <1>1
<1>6. x \in Q <=> G[a][b] = f
  BY <1>1
<1>7. P \subseteq A \X B /\ Q \subseteq A \X B
  BY <1>1
<1>8. ASSUME x \in P <=> x \in Q PROVE Q = P
  <2>1. \A u : u \in P <=> u \in Q
    BY <1>4, <1>7, <1>8, Zenon
  <2> QED
    BY <2>1
<1>9. ASSUME x \notin P, x \in Q PROVE Cardinality(Q) = Cardinality(P) + 1
  <2>1. Q = P \cup {x}
    BY <1>4, <1>7, <1>9
  <2> QED
    BY <1>3, <1>9, <2>1, FS_AddElement
<1>10. ASSUME x \in P, x \notin Q PROVE Cardinality(Q) = Cardinality(P) - 1 /\ Cardinality(P) # 0
  <2>1. Q = P \ {x} /\ P # {}
    BY <1>4, <1>7, <1>10
  <2> QED
    BY <1>3, <1>10, <2>1, FS_RemoveElement, FS_EmptySet
<1> QED
  BY <1>3, <1>5, <1>6, <1>8, <1>9, <1>10 DEF P, Q

(* A row without f becomes a copy of row c. *)
LEMMA RowCount ==
  ASSUME NEW A, NEW B, IsFiniteSet(A), IsFiniteSet(B), NEW F, NEW G, NEW a \in A, NEW c \in A, NEW f,
         \A x \in A : x # a => G[x] = F[x], G[a] = F[c], \A y \in B : F[a][y] # f
  PROVE  Cardinality(Entries(G, A, B, f)) =
           Cardinality(Entries(F, A, B, f)) + Cardinality({y \in B : F[c][y] = f})
<1> DEFINE P == Entries(F, A, B, f)
           Q == Entries(G, A, B, f)
           Y == {y \in B : F[c][y] = f}
           R == {u \in Q : u[1] = a}
           g == [y \in Y |-> <<a, y>>]
<1>1. /\ P = {u \in A \X B : F[u[1]][u[2]] = f}
      /\ Q = {u \in A \X B : G[u[1]][u[2]] = f}
  BY DEF Entries
<1>2. \A u \in A \X B : u[1] \in A /\ u[2] \in B /\ u = <<u[1], u[2]>>
  OBVIOUS
<1>3. IsFiniteSet(P) /\ IsFiniteSet(Q) /\ IsFiniteSet(Y)
  <2>1. IsFiniteSet(A \X B) /\ P \in SUBSET (A \X B) /\ Q \in SUBSET (A \X B) /\ Y \in SUBSET B
    BY <1>1, FS_Product
  <2> HIDE DEF P, Q, Y
  <2> QED
    BY <2>1, FS_Subset
<1>4. Q = P \cup R /\ P \cap R = {}
  <2>1. \A u \in P : u[1] # a /\ u \in Q
    BY <1>1, <1>2
  <2>2. \A u \in Q : u[1] # a => u \in P
    BY <1>1, <1>2
  <2> HIDE DEF P, Q
  <2> QED
    BY <2>1, <2>2
<1>5. g \in Bijection(Y, R)
  <2>1. \A y \in Y : <<a, y>> \in R
    BY <1>1
  <2>2. \A u \in R : u[2] \in Y /\ u = <<a, u[2]>>
    BY <1>1, <1>2
  <2> HIDE DEF Y, R
  <2>3. g \in [Y -> R] /\ \A y \in Y : g[y] = <<a, y>>
    BY <2>1
  <2>4. \A y, z \in Y : g[y] = g[z] => y = z
    BY <2>3
  <2>5. \A u \in R : \E y \in Y : g[y] = u
    BY <2>2, <2>3
  <2> HIDE DEF g
  <2> QED
    BY <2>3, <2>4, <2>5 DEF Bijection, Injection, Surjection, IsInjective
<1>6. Cardinality(R) = Cardinality(Y) /\ IsFiniteSet(R)
  <2> HIDE DEF Y, R, g
  <2>1. ExistsBijection(Y, R)
    BY <1>5 DEF ExistsBijection
  <2> QED
    BY <1>3, <2>1, FS_Bijection
<1> HIDE DEF P, Q, R, Y
<1>7. Cardinality(Q) = Cardinality(P) + Cardinality(R) - Cardinality(P \cap R)
  BY <1>3, <1>4, <1>6, FS_Union
<1>8. Cardinality(P) \in Nat /\ Cardinality(R) \in Nat /\ Cardinality(P \cap R) = 0
  BY <1>3, <1>4, <1>6, FS_CardinalityType, FS_EmptySet
<1> QED
  BY <1>6, <1>7, <1>8 DEF P, Q, Y
=============================================================================

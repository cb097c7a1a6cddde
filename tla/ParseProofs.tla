---------------------------- MODULE ParseProofs ----------------------------
(***************************************************************************)
(* usr/sh.c: a line of any length reaches the program as it was typed, in  *)
(* buffers of any size, unless it is too long for the job's buffer or has  *)
(* too many arguments (execute() and parse_args() do not test that).  No   *)
(* recursion over the line is needed: the invariant says what the part up  *)
(* to t has come to.                                                       *)
(***************************************************************************)
EXTENDS Parse, SeqLemmas

\* The positions of S before p.
Upto(S, p) == {b \in S : b < p}

\* A '<' or '>' among the first p characters stands apart: no word behind it
\* is an argument.
Ended(p) == \E k \in 1..p : Apart(k)

\* parse_args() has not begun.
Fresh == t = 0 /\ state = "NONE" /\ args = NoArgs /\ stin = -1 /\ stout = -1

\* The buffer: before t only the words are left.
Buffer ==
  /\ Len(Kept) < MAX_JOBLEN /\ t \in 0..Len(Kept)
  /\ \A k \in 0..Len(Kept) :
       cmd[k] = IF k < Len(Kept) /\ (k >= t \/ Kept[k + 1] = "a") THEN Kept[k + 1] ELSE ZERO

\* The state is about the last character before t that is no blank; only a
\* blank behind an argument's word makes it "NONE" again.
State ==
  /\ state \in {"NONE", "LETTER", "SIN", "SOUT"}
  /\ state = "SIN" <=> Follows(t + 1, "<")
  /\ state = "SOUT" <=> Follows(t + 1, ">")
  /\ t = 0 => state = "NONE"
  /\ t > 0 /\ Kept[t] = "a" => state = "LETTER"
  /\ t > 0 /\ Kept[t] = Blank /\ ~Ended(t) => state # "LETTER"
  /\ state = "NONE" => ~Ended(t)

\* The file names, as far as the line has been looked at.
Files ==
  /\ stin = Latest(Upto(Named("<"), t)) /\ stout = Latest(Upto(Named(">"), t))
  /\ stin \in -1..(t - 1) /\ stout \in -1..(t - 1)

\* The arguments, as far as the line has been looked at.
Begun == Cardinality(Upto(Arguments, t))

Args ==
  /\ Begun <= MAX_ARGS + 1
  /\ Begun = IF Ended(t) \/ state = "NONE" THEN i ELSE i + 1
  /\ \A k \in 0..MAX_ARGS :
       IF k < Begun
       THEN args[k] \in Arguments /\ Cardinality(Upto(Arguments, args[k])) = k
       ELSE args[k] = -1

Parsing == Buffer /\ State /\ Files /\ Args

ParseInv ==
  /\ LineTypeOK /\ keys \in Seq(Char)
  /\ phase \in {"read", "job"} =>
       Fresh /\ \A k \in 0..(Len(Kept) - 1) : cmdline[k] = Kept[k + 1]
  /\ phase = "read" => i = Len(Kept)
  /\ phase = "job" => i = 0 /\ cmdline[Len(Kept)] = ZERO
  /\ phase \in {"parse", "done"} => Parsing
  /\ phase = "done" => t = Len(Kept) /\ args[MAX_ARGS] = -1
  /\ phase = "overrun" => Len(Kept) >= MAX_JOBLEN \/ Cardinality(Arguments) > MAX_ARGS

-----------------------------------------------------------------------------
(* The line.                                                               *)

\* What getcmd() keeps of what was typed.
LEMMA KeptFacts ==
  ASSUME keys \in Seq(Char)
  PROVE  /\ Kept \in Seq(Char)
         /\ Len(Kept) = IF Len(keys) <= MAX_CMDLINE - 2 THEN Len(keys) ELSE MAX_CMDLINE - 2
         /\ \A k \in 1..Len(Kept) : Kept[k] = keys[k]
<1> DEFINE m == Min({Len(keys), MAX_CMDLINE - 2})
<1>1. m = IF Len(keys) <= MAX_CMDLINE - 2 THEN Len(keys) ELSE MAX_CMDLINE - 2
  BY ParseAssumption DEF Min
<1>2. m \in 0..Len(keys)
  BY ParseAssumption, <1>1
<1> HIDE DEF m
<1>3. Kept = SubSeq(keys, 1, m)
  BY DEF Kept, m
<1> QED
  BY <1>1, <1>2, <1>3

\* Where words begin.
LEMMA BeginsFacts ==
  ASSUME keys \in Seq(Char)
  PROVE  /\ Begins \subseteq 0..(Len(Kept) - 1) /\ IsFiniteSet(Begins)
         /\ \A k \in 0..(Len(Kept) - 1) :
              k \in Begins <=> Kept[k + 1] = "a" /\ (k = 0 \/ Kept[k] # "a")
<1>1. Len(Kept) \in Nat
  BY KeptFacts
<1>2. Begins \subseteq 0..(Len(Kept) - 1)
  BY <1>1 DEF Begins
<1>3. IsFiniteSet(Begins)
  <2>1. 0 \in Int /\ Len(Kept) - 1 \in Int
    BY <1>1
  <2>2. IsFiniteSet(0..(Len(Kept) - 1))
    BY <2>1, FS_Interval
  <2> QED
    BY <1>2, <2>2, FS_Subset
<1>4. ASSUME NEW k \in 0..(Len(Kept) - 1)
      PROVE  k \in Begins <=> Kept[k + 1] = "a" /\ (k = 0 \/ Kept[k] # "a")
  <2>1. k \in Begins <=> \E n \in 1..Len(Kept) :
          k = n - 1 /\ Kept[n] = "a" /\ (n = 1 \/ Kept[n - 1] # "a")
    BY DEF Begins
  <2>2. \A n \in 1..Len(Kept) : k = n - 1 <=> n = k + 1
    BY <1>1
  <2>3. k + 1 \in 1..Len(Kept) /\ (k + 1) - 1 = k /\ (k + 1 = 1 <=> k = 0)
    BY <1>1
  <2> QED
    BY <2>1, <2>2, <2>3
<1> QED
  BY <1>2, <1>3, <1>4

\* One character further, the positions of S are those before and it.
LEMMA UptoSteps ==
  ASSUME NEW S, S \subseteq Nat, IsFiniteSet(S), NEW p \in Nat
  PROVE  /\ Upto(S, p) \subseteq Nat /\ IsFiniteSet(Upto(S, p))
         /\ Cardinality(Upto(S, p)) \in Nat /\ Cardinality(Upto(S, p)) <= Cardinality(S)
         /\ Cardinality(S) \in Nat
         /\ Upto(S, 0) = {} /\ Cardinality(Upto(S, 0)) = 0
         /\ p \in S => /\ Upto(S, p + 1) = Upto(S, p) \cup {p} /\ p \notin Upto(S, p)
                       /\ Cardinality(Upto(S, p + 1)) = Cardinality(Upto(S, p)) + 1
         /\ p \notin S => Upto(S, p + 1) = Upto(S, p)
<1>1. Upto(S, p) \subseteq S
  BY DEF Upto
<1>2. IsFiniteSet(Upto(S, p)) /\ Cardinality(Upto(S, p)) <= Cardinality(S)
  BY <1>1, FS_Subset
<1>3. Upto(S, 0) = {}
  <2>1. \A b \in S : ~(b < 0)
    OBVIOUS
  <2> QED
    BY <2>1 DEF Upto
<1>4. \A b \in S : b < p + 1 <=> b < p \/ b = p
  OBVIOUS
<1>5. Upto(S, p + 1) = IF p \in S THEN Upto(S, p) \cup {p} ELSE Upto(S, p)
  BY <1>4 DEF Upto
<1>6. p \notin Upto(S, p)
  BY DEF Upto
<1>7. Cardinality(Upto(S, p) \cup {p}) = Cardinality(Upto(S, p)) + 1
  BY <1>2, <1>6, FS_AddElement
<1>8. Cardinality(Upto(S, p)) \in Nat /\ Cardinality(Upto(S, 0)) = 0 /\ Cardinality(S) \in Nat
  BY <1>2, <1>3, FS_CardinalityType, FS_EmptySet
<1> QED
  BY <1>1, <1>2, <1>3, <1>5, <1>6, <1>7, <1>8

\* No two positions of S have the same number of them before.
LEMMA RankUnique ==
  ASSUME NEW S, S \subseteq Nat, IsFiniteSet(S), NEW a \in S, NEW b \in S,
         Cardinality(Upto(S, a)) = Cardinality(Upto(S, b))
  PROVE  a = b
<1>1. ASSUME NEW x \in S, NEW y \in S, x < y
      PROVE  Cardinality(Upto(S, x)) # Cardinality(Upto(S, y))
  <2>1. x \in Nat /\ y \in Nat
    OBVIOUS
  <2>2. /\ IsFiniteSet(Upto(S, y)) /\ Cardinality(Upto(S, x)) \in Nat
        /\ Cardinality(Upto(S, x + 1)) = Cardinality(Upto(S, x)) + 1
        /\ Cardinality(Upto(S, y)) \in Nat
    BY <2>1, UptoSteps
  <2>3. \A w \in S : w < x + 1 => w < y
    BY <1>1, <2>1
  <2>4. Upto(S, x + 1) \subseteq Upto(S, y)
    BY <2>3 DEF Upto
  <2>5. Cardinality(Upto(S, x + 1)) <= Cardinality(Upto(S, y))
    BY <2>2, <2>4, FS_Subset
  <2> QED
    BY <2>2, <2>5
<1>2. a \in Nat /\ b \in Nat
  OBVIOUS
<1> QED
  BY <1>1, <1>2

\* Arguments and file names are words of the line.
LEMMA WordSets ==
  ASSUME keys \in Seq(Char)
  PROVE  /\ Arguments \subseteq Begins /\ Arguments \subseteq Nat /\ IsFiniteSet(Arguments)
         /\ \A c : Named(c) \subseteq Begins /\ Named(c) \subseteq Nat /\ IsFiniteSet(Named(c))
<1>1. Begins \subseteq Nat /\ IsFiniteSet(Begins)
  BY BeginsFacts, KeptFacts
<1>2. Arguments \subseteq Begins /\ \A c : Named(c) \subseteq Begins
  BY DEF Arguments, Named
<1> QED
  BY <1>1, <1>2, FS_Subset

\* One character further, what it follows.
LEMMA FollowsSteps ==
  ASSUME keys \in Seq(Char), NEW p \in 0..(Len(Kept) - 1), NEW c \in Redirect
  PROVE  Follows(p + 2, c) <=>
           Kept[p + 1] = c \/ (Kept[p + 1] = Blank /\ Follows(p + 1, c))
<1>1. Len(Kept) \in Nat /\ p + 2 - 1 = p + 1 /\ p + 1 - 1 = p
  BY KeptFacts
<1>2. Follows(p + 2, c) <=>
        \E j \in 1..(p + 1) : Kept[j] = c /\ \A n \in (j + 1)..(p + 1) : Kept[n] = Blank
  BY <1>1 DEF Follows
<1>3. Follows(p + 1, c) <=>
        \E j \in 1..p : Kept[j] = c /\ \A n \in (j + 1)..p : Kept[n] = Blank
  BY <1>1 DEF Follows
<1>4. ASSUME Follows(p + 2, c)
      PROVE  Kept[p + 1] = c \/ (Kept[p + 1] = Blank /\ Follows(p + 1, c))
  <2>1. PICK j \in 1..(p + 1) : Kept[j] = c /\ \A n \in (j + 1)..(p + 1) : Kept[n] = Blank
    BY <1>2, <1>4
  <2>2. CASE j = p + 1
    BY <2>1, <2>2
  <2>3. CASE j # p + 1
    <3>1. j \in 1..p /\ p + 1 \in (j + 1)..(p + 1)
          /\ \A n \in (j + 1)..p : n \in (j + 1)..(p + 1)
      BY <1>1, <2>3
    <3> QED
      BY <1>3, <2>1, <3>1
  <2> QED
    BY <2>2, <2>3
<1>5. ASSUME Kept[p + 1] = c
      PROVE  Follows(p + 2, c)
  <2>1. p + 1 \in 1..(p + 1) /\ (p + 1 + 1)..(p + 1) = {}
    OBVIOUS
  <2> QED
    BY <1>2, <1>5, <2>1
<1>6. ASSUME Kept[p + 1] = Blank, Follows(p + 1, c)
      PROVE  Follows(p + 2, c)
  <2>1. PICK j \in 1..p : Kept[j] = c /\ \A n \in (j + 1)..p : Kept[n] = Blank
    BY <1>3, <1>6
  <2>2. j \in 1..(p + 1) /\ \A n \in (j + 1)..(p + 1) : n \in (j + 1)..p \/ n = p + 1
    OBVIOUS
  <2> QED
    BY <1>2, <1>6, <2>1, <2>2
<1> QED
  BY <1>4, <1>5, <1>6

\* Nothing comes before the first character.
LEMMA FollowsNothing ==
  ASSUME NEW c
  PROVE  ~Follows(1, c)
BY DEF Follows

\* A word that begins later is the latest.
LEMMA LatestSteps ==
  /\ Latest({}) = -1
  /\ \A S \in SUBSET Int : \A p \in Int : (\A x \in S : x < p) => Latest(S \cup {p}) = p
<1>1. ASSUME NEW S \in SUBSET Int, NEW p \in Int, \A x \in S : x < p
      PROVE  Latest(S \cup {p}) = p
  <2>1. \A y \in S \cup {p} : p >= y
    BY <1>1
  <2>2. \A x \in S \cup {p} : (\A y \in S \cup {p} : x >= y) => x = p
    BY <1>1
  <2>3. Max(S \cup {p}) = p
    BY <2>1, <2>2 DEF Max
  <2> QED
    BY <2>3 DEF Latest
<1> QED
  BY <1>1 DEF Latest

\* One character further, whether the arguments have ended.
LEMMA EndedSteps ==
  ASSUME NEW p \in Nat
  PROVE  /\ Ended(p + 1) <=> Ended(p) \/ Apart(p + 1)
         /\ ~Ended(0)
<1>1. \A k : k \in 1..(p + 1) <=> k \in 1..p \/ k = p + 1
  OBVIOUS
<1> QED
  BY <1>1 DEF Ended

\* What state says of the character before t.
LEMMA StateSays ==
  ASSUME keys \in Seq(Char), Buffer, State, t < Len(Kept)
  PROVE  /\ ~Ended(t) /\ Kept[t + 1] \in Redirect => (Apart(t + 1) <=> state = "NONE")
         /\ Kept[t + 1] = "a" => (t \in Arguments <=> state = "NONE")
<1>1. t \in 0..(Len(Kept) - 1) /\ Len(Kept) \in Nat /\ Kept \in Seq(Char)
  BY KeptFacts DEF Buffer
<1>2. /\ state \in {"NONE", "LETTER", "SIN", "SOUT"}
      /\ state = "SIN" <=> Follows(t + 1, "<")
      /\ state = "SOUT" <=> Follows(t + 1, ">")
      /\ t = 0 => state = "NONE"
      /\ t > 0 /\ Kept[t] = "a" => state = "LETTER"
      /\ t > 0 /\ Kept[t] = Blank /\ ~Ended(t) => state # "LETTER"
      /\ state = "NONE" => ~Ended(t)
  BY DEF State
<1>3. t > 0 => Kept[t] \in {"a", Blank, "<", ">"}
  BY <1>1 DEF Char, Redirect
<1>4. t > 0 => /\ Kept[t] = "<" => Follows(t + 1, "<")
               /\ Kept[t] = ">" => Follows(t + 1, ">")
  <2> SUFFICES ASSUME t > 0
               PROVE  /\ Kept[t] = "<" => Follows(t + 1, "<")
                      /\ Kept[t] = ">" => Follows(t + 1, ">")
    OBVIOUS
  <2>1. t - 1 \in 0..(Len(Kept) - 1) /\ (t - 1) + 1 = t /\ (t - 1) + 2 = t + 1
    BY <1>1
  <2>2. \A c \in Redirect : Follows((t - 1) + 2, c) <=>
          Kept[(t - 1) + 1] = c \/ (Kept[(t - 1) + 1] = Blank /\ Follows((t - 1) + 1, c))
    BY <2>1, FollowsSteps
  <2>3. "<" \in Redirect /\ ">" \in Redirect
    BY DEF Redirect
  <2> QED
    BY <2>1, <2>2, <2>3
<1>5. \A c \in Redirect : c = "<" \/ c = ">"
  BY DEF Redirect
<1>6. "<" \in Redirect /\ ">" \in Redirect
  BY DEF Redirect
<1>7. t \in Int /\ t >= 0 /\ (t + 1) - 1 = t /\ (t + 1 = 1 <=> t = 0) /\ (t = 0 \/ t > 0)
  BY <1>1
<1>8. ASSUME ~Ended(t), Kept[t + 1] \in Redirect
      PROVE  Apart(t + 1) <=> state = "NONE"
  <2>1. Apart(t + 1) <=> t = 0 \/ (Kept[t] = Blank /\ \A c \in Redirect : ~Follows(t + 1, c))
    BY <1>7, <1>8 DEF Apart
  <2>2. (\A c \in Redirect : ~Follows(t + 1, c)) <=> state \notin {"SIN", "SOUT"}
    BY <1>2, <1>5, <1>6
  <2>3. CASE t = 0
    BY <1>2, <2>1, <2>3
  <2>4. CASE t > 0
    <3>1. Kept[t] = Blank => state # "LETTER"
      BY <1>2, <1>8, <2>4
    <3>2. state = "NONE" => Kept[t] = Blank
      BY <1>2, <1>3, <1>4, <2>4
    <3> QED
      BY <1>2, <1>7, <2>1, <2>2, <2>4, <3>1, <3>2
  <2> QED
    BY <1>7, <2>3, <2>4
<1>9. ASSUME Kept[t + 1] = "a"
      PROVE  t \in Arguments <=> state = "NONE"
  <2>1. t \in Begins <=> t = 0 \/ Kept[t] # "a"
    BY <1>1, <1>9, BeginsFacts
  <2>2. t \in Arguments <=> /\ t \in Begins /\ ~Ended(t)
                           /\ \A c \in Redirect : ~(t \in Begins /\ Follows(t + 1, c))
    BY DEF Arguments, Named, Ended
  <2>3. CASE state = "NONE"
    <3>1. t \in Begins
      BY <1>2, <1>7, <2>1, <2>3
    <3> QED
      BY <1>2, <1>5, <2>2, <2>3, <3>1
  <2>4. CASE state \in {"SIN", "SOUT"}
    BY <1>2, <1>6, <2>2, <2>4
  <2>5. CASE state = "LETTER"
    <3>1. SUFFICES ASSUME ~Ended(t)
          PROVE  t \notin Begins
      BY <2>2, <2>5
    <3>2. t > 0 /\ Kept[t] # Blank
      BY <1>2, <1>7, <2>5, <3>1
    <3>3. Kept[t] = "a"
      BY <1>2, <1>3, <1>4, <2>5, <3>2
    <3> QED
      BY <1>7, <2>1, <3>2, <3>3
  <2> QED
    BY <1>2, <2>3, <2>4, <2>5
<1> QED
  BY <1>8, <1>9

-----------------------------------------------------------------------------
(* The steps.                                                              *)

\* Once the line has been read it stays the same.
LEMMA LineFixed ==
  ASSUME keys' = keys
  PROVE  /\ Kept' = Kept /\ Arguments' = Arguments
         /\ Named("<")' = Named("<") /\ Named(">")' = Named(">")
         /\ \A k, c : Follows(k, c)' <=> Follows(k, c)
         /\ \A k : Apart(k)' <=> Apart(k)
         /\ \A p : Ended(p)' <=> Ended(p)
<1>1. Kept' = Kept
  BY DEF Kept
<1>2. Begins' = Begins
  BY <1>1 DEF Begins
<1>3. \A k, c : Follows(k, c)' <=> Follows(k, c)
  BY <1>1 DEF Follows
<1>4. \A c : Named(c)' = Named(c)
  BY <1>2, <1>3 DEF Named
<1>5. \A k : Apart(k)' <=> Apart(k)
  BY <1>1, <1>3 DEF Apart
<1>6. Arguments' = Arguments
  BY <1>2, <1>4, <1>5 DEF Arguments
<1>7. \A p : Ended(p)' <=> Ended(p)
  BY <1>5 DEF Ended
<1> QED
  BY <1>1, <1>3, <1>4, <1>5, <1>6, <1>7

\* The character at t is the one that was typed.
LEMMA LooksAt ==
  ASSUME keys \in Seq(Char), Buffer
  PROVE  /\ cmd[t] # ZERO => t \in 0..(Len(Kept) - 1) /\ cmd[t] = Kept[t + 1]
         /\ cmd[t] = ZERO => t = Len(Kept)
         /\ cmd[t] \in Char \cup {ZERO}
         /\ t \in 0..Len(Kept) /\ Len(Kept) \in Nat /\ Len(Kept) < MAX_JOBLEN
<1>1. Kept \in Seq(Char) /\ Len(Kept) \in Nat
  BY KeptFacts
<1>2. t \in 0..Len(Kept) /\ Len(Kept) < MAX_JOBLEN
  BY DEF Buffer
<1>3. cmd[t] = IF t < Len(Kept) THEN Kept[t + 1] ELSE ZERO
  BY <1>1, <1>2 DEF Buffer
<1>4. t < Len(Kept) => Kept[t + 1] \in Char
  BY <1>1, <1>2
<1>5. ZERO \notin Char
  BY DEF ZERO, Char, Blank, Redirect
<1> QED
  BY <1>1, <1>2, <1>3, <1>4, <1>5

\* A character is left behind: what is no letter is cut out.
LEMMA BufferSteps ==
  ASSUME LineTypeOK, keys \in Seq(Char), Buffer, keys' = keys, t' = t + 1,
         cmd[t] # ZERO, IF cmd[t] = "a" THEN cmd' = cmd ELSE Cut
  PROVE  Buffer'
<1> DEFINE n == Len(Kept)
<1>1. /\ t \in 0..(n - 1) /\ cmd[t] = Kept[t + 1] /\ n \in Nat /\ n < MAX_JOBLEN
  BY LooksAt
<1>2. Kept' = Kept
  BY LineFixed
<1>3. MAX_JOBLEN \in Nat /\ cmd \in [0..(MAX_JOBLEN - 1) -> Char \cup {ZERO, JUNK}]
  BY ParseAssumption DEF LineTypeOK
<1>4. ASSUME NEW k \in 0..n
      PROVE  cmd'[k] = IF k < n /\ (k >= t + 1 \/ Kept[k + 1] = "a") THEN Kept[k + 1] ELSE ZERO
  <2>1. cmd[k] = IF k < n /\ (k >= t \/ Kept[k + 1] = "a") THEN Kept[k + 1] ELSE ZERO
    BY DEF Buffer
  <2>2. cmd'[k] = IF k = t /\ Kept[k + 1] # "a" THEN ZERO ELSE cmd[k]
    <3>1. k \in 0..(MAX_JOBLEN - 1)
      BY <1>1, <1>3
    <3> QED
      BY <1>1, <1>3, <3>1 DEF Cut
  <2>3. CASE k = t
    BY <1>1, <2>1, <2>2, <2>3
  <2>4. CASE k # t
    <3>1. k >= t <=> k >= t + 1
      BY <1>1, <2>4
    <3> QED
      BY <2>1, <2>2, <2>4, <3>1
  <2> QED
    BY <2>3, <2>4
<1>5. t + 1 \in 0..n
  BY <1>1
<1> QED
  BY <1>1, <1>2, <1>4, <1>5 DEF Buffer

\* A file name of kind c is found at t, or stays the one it was.
LEMMA FileSteps ==
  ASSUME keys \in Seq(Char), NEW c, NEW f, NEW g, t \in Nat,
         f = Latest(Upto(Named(c), t)), f \in -1..(t - 1),
         g = IF t \in Named(c) THEN t ELSE f
  PROVE  g = Latest(Upto(Named(c), t + 1)) /\ g \in -1..t
<1> DEFINE S == Named(c)
<1>1. S \subseteq Nat /\ IsFiniteSet(S)
  BY WordSets
<1> HIDE DEF S
<1>2. /\ t \in S => Upto(S, t + 1) = Upto(S, t) \cup {t}
      /\ t \notin S => Upto(S, t + 1) = Upto(S, t)
  BY <1>1, UptoSteps
<1>3. Upto(S, t) \subseteq S /\ \A x \in Upto(S, t) : x < t
  BY DEF Upto
<1>8. \A x \in S : x \in Int
  BY <1>1
<1>4. Upto(S, t) \in SUBSET Int /\ t \in Int
  BY <1>3, <1>8
<1>5. Latest(Upto(S, t) \cup {t}) = t
  BY <1>3, <1>4, LatestSteps
<1>6. /\ f = Latest(Upto(S, t))
      /\ g = IF t \in S THEN t ELSE f
  BY DEF S
<1>7. g = Latest(Upto(S, t + 1)) /\ g \in -1..t
  <2>1. CASE t \in S
    <3>1. g = t /\ g = Latest(Upto(S, t + 1))
      BY <1>2, <1>5, <1>6, <2>1
    <3> QED
      BY <3>1
  <2>2. CASE t \notin S
    <3>1. g = f /\ g = Latest(Upto(S, t + 1))
      BY <1>2, <1>6, <2>2
    <3>2. f \in -1..t
      OBVIOUS
    <3> QED
      BY <3>1, <3>2
  <2> QED
    BY <2>1, <2>2
<1> QED
  BY <1>7 DEF S

\* What is no letter begins no word.
LEMMA NoWordHere ==
  ASSUME keys \in Seq(Char), NEW p \in 0..(Len(Kept) - 1), Kept[p + 1] # "a"
  PROVE  p \notin Arguments /\ p \notin Named("<") /\ p \notin Named(">")
<1>1. p \notin Begins
  BY BeginsFacts
<1> QED
  BY <1>1, WordSets

\* case '<' and '>' of parse_args() (sh.c:43-44).
LEMMA RedirectKeeps ==
  ASSUME LineTypeOK, keys \in Seq(Char), Parsing, ParseRedirect
  PROVE  Parsing'
<1>1. /\ keys' = keys /\ t' = t + 1 /\ i' = i /\ args' = args /\ stin' = stin /\ stout' = stout
      /\ Cut /\ cmd[t] \in {"<", ">"} /\ state' = IF cmd[t] = "<" THEN "SIN" ELSE "SOUT"
  BY DEF ParseRedirect, Next1, Redirect
<1>2. /\ t \in 0..(Len(Kept) - 1) /\ cmd[t] = Kept[t + 1] /\ Len(Kept) \in Nat /\ t < Len(Kept)
      /\ t \in Nat
  BY <1>1, LooksAt DEF Parsing, ZERO
<1>3. Buffer'
  BY <1>1, BufferSteps DEF Parsing, ZERO
<1>4. /\ Kept' = Kept /\ Arguments' = Arguments
      /\ Named("<")' = Named("<") /\ Named(">")' = Named(">")
      /\ \A k, c : Follows(k, c)' <=> Follows(k, c)
      /\ \A p : Ended(p)' <=> Ended(p)
  BY <1>1, LineFixed
<1>5. Kept[t + 1] # "a" /\ Kept[t + 1] # Blank /\ Kept[t + 1] \in Redirect
  BY <1>1, <1>2 DEF Redirect, Blank
<1>6. t \notin Arguments /\ t \notin Named("<") /\ t \notin Named(">")
  BY <1>2, <1>5, NoWordHere
<1>7. State'
  <2>1. /\ Follows(t + 2, "<") <=> Kept[t + 1] = "<"
        /\ Follows(t + 2, ">") <=> Kept[t + 1] = ">"
    BY <1>2, <1>5, FollowsSteps DEF Redirect
  <2>2. (t + 1) + 1 = t + 2 /\ t' # 0
    BY <1>1, <1>2
  <2>3. /\ (Follows(t + 1, "<"))' <=> Kept[t + 1] = "<"
        /\ (Follows(t + 1, ">"))' <=> Kept[t + 1] = ">"
    BY <1>1, <1>4, <2>1, <2>2
  <2>4. Kept'[t'] # "a" /\ Kept'[t'] # Blank
    BY <1>1, <1>4, <1>5
  <2> QED
    BY <1>1, <1>2, <2>2, <2>3, <2>4 DEF State
<1>8. Files'
  <2>1. /\ stin = Latest(Upto(Named("<"), t + 1)) /\ stin \in -1..t
        /\ stout = Latest(Upto(Named(">"), t + 1)) /\ stout \in -1..t
    BY <1>2, <1>6, FileSteps DEF Parsing, Files
  <2>2. t' - 1 = t
    BY <1>1, <1>2
  <2> QED
    BY <1>1, <1>4, <2>1, <2>2 DEF Files, Upto
<1>9. Args'
  <2>1. Upto(Arguments, t + 1) = Upto(Arguments, t)
    BY <1>2, <1>6, UptoSteps, WordSets
  <2>2. Begun' = Begun
    BY <1>1, <1>4, <2>1 DEF Begun, Upto
  <2>3. (Ended(t) \/ state = "NONE") <=> Ended(t + 1)
    BY <1>2, <1>5, EndedSteps, StateSays DEF Parsing, State
  <2>4. (Ended(t))' <=> Ended(t + 1)
    BY <1>1, <1>4
  <2>5. state' # "NONE"
    BY <1>1
  <2>6. \A k \in 0..MAX_ARGS : Cardinality(Upto(Arguments, args[k]))' = Cardinality(Upto(Arguments, args[k]))
    BY <1>1, <1>4 DEF Upto
  <2>7. /\ Begun' <= MAX_ARGS + 1
        /\ Begun' = IF (Ended(t))' \/ state' = "NONE" THEN i' ELSE i' + 1
    BY <1>1, <2>2, <2>3, <2>4, <2>5 DEF Parsing, Args
  <2>8. ASSUME NEW k \in 0..MAX_ARGS
        PROVE  IF k < Begun'
               THEN args'[k] \in Arguments' /\ Cardinality(Upto(Arguments, args[k]))' = k
               ELSE args'[k] = -1
    BY <1>1, <1>4, <2>2, <2>6 DEF Parsing, Args
  <2> QED
    BY <2>7, <2>8 DEF Args
<1> QED
  BY <1>3, <1>7, <1>8, <1>9 DEF Parsing

\* case ' ' and '\t' of parse_args() (sh.c:45-54).
LEMMA BlankKeeps ==
  ASSUME LineTypeOK, keys \in Seq(Char), Parsing, ParseBlank
  PROVE  Parsing' /\ i' \in 0..(MAX_ARGS + 1)
<1>1. /\ keys' = keys /\ t' = t + 1 /\ args' = args /\ stin' = stin /\ stout' = stout
      /\ Cut /\ cmd[t] = Blank /\ i <= MAX_ARGS
      /\ IF args[i] >= 0 /\ state = "LETTER" THEN i' = i + 1 /\ state' = "NONE"
         ELSE i' = i /\ state' = state
  BY DEF ParseBlank, Next1
<1>2. /\ t \in 0..(Len(Kept) - 1) /\ cmd[t] = Kept[t + 1] /\ Len(Kept) \in Nat /\ t < Len(Kept)
      /\ t \in Nat
  <2>1. cmd[t] # ZERO
    BY <1>1 DEF ZERO, Blank
  <2>2. t \in 0..(Len(Kept) - 1) /\ cmd[t] = Kept[t + 1] /\ Len(Kept) \in Nat
    BY <2>1, LooksAt DEF Parsing
  <2> QED
    BY <2>2
<1>3. Buffer'
  BY <1>1, BufferSteps DEF Parsing, ZERO, Blank
<1>4. /\ Kept' = Kept /\ Arguments' = Arguments
      /\ Named("<")' = Named("<") /\ Named(">")' = Named(">")
      /\ \A k, c : Follows(k, c)' <=> Follows(k, c)
      /\ \A p : Ended(p)' <=> Ended(p)
  BY <1>1, LineFixed
<1>5. Kept[t + 1] # "a" /\ Kept[t + 1] = Blank /\ Kept[t + 1] \notin Redirect
  BY <1>1, <1>2 DEF Redirect, Blank
<1>6. t \notin Arguments /\ t \notin Named("<") /\ t \notin Named(">")
  BY <1>2, <1>5, NoWordHere
<1>7. (Ended(t))' <=> Ended(t)
  <2>1. ~Apart(t + 1)
    BY <1>5 DEF Apart
  <2>2. Ended(t + 1) <=> Ended(t)
    BY <1>2, <2>1, EndedSteps
  <2> QED
    BY <1>1, <1>4, <2>2
<1>8. /\ i \in 0..MAX_ARGS /\ MAX_ARGS \in Nat /\ Begun <= MAX_ARGS + 1
      /\ Begun = IF Ended(t) \/ state = "NONE" THEN i ELSE i + 1
      /\ \A k \in 0..MAX_ARGS :
           IF k < Begun
           THEN args[k] \in Arguments /\ Cardinality(Upto(Arguments, args[k])) = k
           ELSE args[k] = -1
  <2>1. i \in 0..(MAX_ARGS + 1) /\ MAX_ARGS \in Nat
    BY ParseAssumption DEF LineTypeOK, ParseBlank
  <2> QED
    BY <1>1, <2>1 DEF Parsing, Args
<1>9. /\ state = "LETTER" /\ ~Ended(t) => i' = i + 1 /\ state' = "NONE"
      /\ ~(state = "LETTER" /\ ~Ended(t)) => i' = i /\ state' = state
  <2>1. CASE state = "LETTER" /\ ~Ended(t)
    <3>1. Begun = i + 1 /\ i < Begun
      BY <1>8, <2>1
    <3>2. args[i] \in Nat
      BY <1>8, <3>1, WordSets
    <3> QED
      BY <1>1, <2>1, <3>2
  <2>2. CASE state = "LETTER" /\ Ended(t)
    <3>1. args[i] = -1
      BY <1>8, <2>2
    <3> QED
      BY <1>1, <2>2, <3>1
  <2>3. CASE state # "LETTER"
    BY <1>1, <2>3
  <2> QED
    BY <2>1, <2>2, <2>3
<1>10. State'
  <2>1. /\ Follows(t + 2, "<") <=> Follows(t + 1, "<")
        /\ Follows(t + 2, ">") <=> Follows(t + 1, ">")
    BY <1>2, <1>5, FollowsSteps DEF Redirect, Blank
  <2>2. (t + 1) + 1 = t + 2 /\ t' # 0
    BY <1>1, <1>2
  <2>3. /\ (Follows(t + 1, "<"))' <=> Follows(t + 1, "<")
        /\ (Follows(t + 1, ">"))' <=> Follows(t + 1, ">")
    BY <1>1, <1>4, <2>1, <2>2
  <2>4. Kept'[t'] # "a"
    BY <1>1, <1>4, <1>5
  <2>5. /\ state \in {"NONE", "LETTER", "SIN", "SOUT"}
        /\ state = "SIN" <=> Follows(t + 1, "<")
        /\ state = "SOUT" <=> Follows(t + 1, ">")
        /\ state = "NONE" => ~Ended(t)
    BY DEF Parsing, State
  <2>6. /\ state' \in {"NONE", "LETTER", "SIN", "SOUT"}
        /\ (state' = "SIN" <=> state = "SIN") /\ (state' = "SOUT" <=> state = "SOUT")
        /\ state' = "NONE" => ~Ended(t)
        /\ ~Ended(t) => state' # "LETTER"
    BY <1>9, <2>5
  <2> QED
    BY <1>7, <2>2, <2>3, <2>4, <2>5, <2>6 DEF State
<1>11. Files'
  <2>1. /\ stin = Latest(Upto(Named("<"), t + 1)) /\ stin \in -1..t
        /\ stout = Latest(Upto(Named(">"), t + 1)) /\ stout \in -1..t
    BY <1>2, <1>6, FileSteps DEF Parsing, Files
  <2>2. t' - 1 = t
    BY <1>1, <1>2
  <2> QED
    BY <1>1, <1>4, <2>1, <2>2 DEF Files, Upto
<1>12. Args'
  <2>1. Upto(Arguments, t + 1) = Upto(Arguments, t)
    BY <1>2, <1>6, UptoSteps, WordSets
  <2>2. Begun' = Begun
    BY <1>1, <1>4, <2>1 DEF Begun, Upto
  <2>3. state \in {"NONE", "LETTER", "SIN", "SOUT"} /\ (state = "NONE" => ~Ended(t))
    BY DEF Parsing, State
  <2>4. Begun' = IF (Ended(t))' \/ state' = "NONE" THEN i' ELSE i' + 1
    BY <1>7, <1>8, <1>9, <2>2, <2>3
  <2>5. \A k \in 0..MAX_ARGS : Cardinality(Upto(Arguments, args[k]))' = Cardinality(Upto(Arguments, args[k]))
    BY <1>1, <1>4 DEF Upto
  <2>6. ASSUME NEW k \in 0..MAX_ARGS
        PROVE  IF k < Begun'
               THEN args'[k] \in Arguments' /\ Cardinality(Upto(Arguments, args[k]))' = k
               ELSE args'[k] = -1
    BY <1>1, <1>4, <1>8, <2>2, <2>5
  <2> QED
    BY <1>8, <2>2, <2>4, <2>6 DEF Args
<1>13. i' \in 0..(MAX_ARGS + 1)
  BY <1>8, <1>9
<1> QED
  BY <1>3, <1>10, <1>11, <1>12, <1>13 DEF Parsing

\* The default case of parse_args() (sh.c:55-65).
LEMMA LetterKeeps ==
  ASSUME LineTypeOK, keys \in Seq(Char), Parsing, ParseLetter
  PROVE  Parsing' /\ args' \in [0..MAX_ARGS -> -1..(MAX_JOBLEN - 1)]
<1>1. /\ keys' = keys /\ t' = t + 1 /\ i' = i /\ cmd' = cmd /\ cmd[t] = "a"
      /\ args' = IF state = "NONE" THEN [args EXCEPT ![i] = t] ELSE args
      /\ stin' = IF state = "SIN" THEN t ELSE stin
      /\ stout' = IF state = "SOUT" THEN t ELSE stout
      /\ state' = "LETTER" /\ (state = "NONE" => i <= MAX_ARGS)
  BY DEF ParseLetter, Next1
<1>2. /\ t \in 0..(Len(Kept) - 1) /\ cmd[t] = Kept[t + 1] /\ Len(Kept) \in Nat /\ t < Len(Kept)
      /\ t \in Nat /\ Len(Kept) < MAX_JOBLEN /\ Kept[t + 1] = "a"
  <2>1. cmd[t] # ZERO
    BY <1>1 DEF ZERO
  <2>2. /\ t \in 0..(Len(Kept) - 1) /\ cmd[t] = Kept[t + 1] /\ Len(Kept) \in Nat
        /\ Len(Kept) < MAX_JOBLEN
    BY <2>1, LooksAt DEF Parsing
  <2> QED
    BY <1>1, <2>2
<1>3. Buffer'
  BY <1>1, BufferSteps DEF Parsing, ZERO
<1>4. /\ Kept' = Kept /\ Arguments' = Arguments
      /\ Named("<")' = Named("<") /\ Named(">")' = Named(">")
      /\ \A k, c : Follows(k, c)' <=> Follows(k, c)
      /\ \A p : Ended(p)' <=> Ended(p)
  BY <1>1, LineFixed
<1>5. Kept[t + 1] # Blank /\ Kept[t + 1] \notin Redirect
  BY <1>2 DEF Redirect, Blank
<1>6. (Ended(t))' <=> Ended(t)
  <2>1. ~Apart(t + 1)
    BY <1>5 DEF Apart
  <2>2. Ended(t + 1) <=> Ended(t)
    BY <1>2, <2>1, EndedSteps
  <2> QED
    BY <1>1, <1>4, <2>2
<1>7. /\ state \in {"NONE", "LETTER", "SIN", "SOUT"}
      /\ state = "SIN" <=> Follows(t + 1, "<")
      /\ state = "SOUT" <=> Follows(t + 1, ">")
      /\ t > 0 /\ Kept[t] = "a" => state = "LETTER"
      /\ state = "NONE" => ~Ended(t)
  BY DEF Parsing, State
<1>8. t \in Arguments <=> state = "NONE"
  BY <1>2, StateSays DEF Parsing
<1>9. State'
  <2>1. ~Follows(t + 2, "<") /\ ~Follows(t + 2, ">")
    BY <1>2, <1>5, FollowsSteps DEF Redirect
  <2>2. (t + 1) + 1 = t + 2 /\ t' # 0
    BY <1>1, <1>2
  <2>3. ~(Follows(t + 1, "<"))' /\ ~(Follows(t + 1, ">"))'
    BY <1>1, <1>4, <2>1, <2>2
  <2>4. Kept'[t'] # Blank
    BY <1>1, <1>4, <1>5
  <2> QED
    BY <1>1, <2>2, <2>3, <2>4 DEF State
<1>10. Files'
  <2>1. t \in Begins <=> t = 0 \/ Kept[t] # "a"
    BY <1>2, BeginsFacts
  <2>2. state \in {"SIN", "SOUT"} => t \in Begins
    BY <1>2, <1>7, <2>1
  <2>3. (t \in Named("<") <=> state = "SIN") /\ (t \in Named(">") <=> state = "SOUT")
    BY <1>7, <2>2 DEF Named
  <2>4. /\ stin' = Latest(Upto(Named("<"), t + 1)) /\ stin' \in -1..t
        /\ stout' = Latest(Upto(Named(">"), t + 1)) /\ stout' \in -1..t
    BY <1>1, <1>2, <2>3, FileSteps DEF Parsing, Files
  <2>5. t' - 1 = t
    BY <1>1, <1>2
  <2> QED
    BY <1>1, <1>4, <2>4, <2>5 DEF Files, Upto
<1>11. /\ i \in 0..(MAX_ARGS + 1) /\ MAX_ARGS \in Nat /\ MAX_JOBLEN \in Nat
       /\ args \in [0..MAX_ARGS -> -1..(MAX_JOBLEN - 1)]
       /\ Begun <= MAX_ARGS + 1
       /\ Begun = IF Ended(t) \/ state = "NONE" THEN i ELSE i + 1
       /\ \A k \in 0..MAX_ARGS :
            IF k < Begun
            THEN args[k] \in Arguments /\ Cardinality(Upto(Arguments, args[k])) = k
            ELSE args[k] = -1
  <2>1. i \in 0..(MAX_ARGS + 1)
    BY ParseAssumption DEF LineTypeOK, ParseLetter
  <2> QED
    BY ParseAssumption, <2>1 DEF LineTypeOK, Parsing, Args
<1>12. /\ t \in Arguments => Cardinality(Upto(Arguments, t + 1)) = Begun + 1
       /\ t \notin Arguments => Cardinality(Upto(Arguments, t + 1)) = Begun
  BY <1>2, UptoSteps, WordSets DEF Begun
<1>13. Begun' = Cardinality(Upto(Arguments, t + 1))
  BY <1>1, <1>4 DEF Begun, Upto
<1>15. CASE state = "NONE"
  <2>1. /\ args' = [args EXCEPT ![i] = t] /\ Begun = i /\ Begun' = i + 1 /\ ~Ended(t)
        /\ i \in 0..MAX_ARGS
    BY <1>1, <1>7, <1>8, <1>11, <1>12, <1>13, <1>15
  <2>2. args' \in [0..MAX_ARGS -> -1..(MAX_JOBLEN - 1)]
    BY <1>2, <1>11, <2>1
  <2>3. ASSUME NEW k \in 0..MAX_ARGS
        PROVE  IF k < Begun'
               THEN args'[k] \in Arguments /\ Cardinality(Upto(Arguments, args'[k])) = k
               ELSE args'[k] = -1
    <3>1. args'[k] = IF k = i THEN t ELSE args[k]
      BY <1>11, <2>1
    <3>2. CASE k = i
      <4>1. Cardinality(Upto(Arguments, t)) = i
        BY <2>1 DEF Begun
      <4> QED
        BY <1>8, <1>11, <1>15, <2>1, <3>1, <3>2, <4>1
    <3>3. CASE k # i
      <4>1. k < Begun' <=> k < Begun
        BY <1>11, <2>1, <3>3
      <4> QED
        BY <1>11, <3>1, <3>3, <4>1
    <3> QED
      BY <3>2, <3>3
  <2>4. \A k \in 0..MAX_ARGS :
          Cardinality(Upto(Arguments, args[k]))' = Cardinality(Upto(Arguments, args'[k]))
    BY <1>4 DEF Upto
  <2>5. Begun' <= MAX_ARGS + 1 /\ Begun' = IF (Ended(t))' \/ state' = "NONE" THEN i' ELSE i' + 1
    BY <1>1, <1>6, <1>11, <2>1
  <2>6. Args'
    BY <1>4, <2>3, <2>4, <2>5 DEF Args
  <2> QED
    BY <1>3, <1>9, <1>10, <2>2, <2>6 DEF Parsing
<1>16. CASE state # "NONE"
  <2>1. args' = args /\ Begun' = Begun
    BY <1>1, <1>8, <1>12, <1>13, <1>16
  <2>2. \A k \in 0..MAX_ARGS :
          Cardinality(Upto(Arguments, args[k]))' = Cardinality(Upto(Arguments, args[k]))
    BY <1>4, <2>1 DEF Upto
  <2>3. Begun' <= MAX_ARGS + 1 /\ Begun' = IF (Ended(t))' \/ state' = "NONE" THEN i' ELSE i' + 1
    BY <1>1, <1>6, <1>11, <1>16, <2>1
  <2>4. ASSUME NEW k \in 0..MAX_ARGS
        PROVE  IF k < Begun'
               THEN args'[k] \in Arguments' /\ Cardinality(Upto(Arguments, args[k]))' = k
               ELSE args'[k] = -1
    BY <1>4, <1>11, <2>1, <2>2
  <2>5. Args'
    BY <2>3, <2>4 DEF Args
  <2> QED
    BY <1>3, <1>9, <1>10, <1>11, <2>1, <2>5 DEF Parsing
<1> QED
  BY <1>15, <1>16

\* The end of the line in its buffer.
LEMMA LineEnds ==
  ASSUME LineTypeOK, keys \in Seq(Char), cmdline[Len(Kept)] = ZERO,
         \A k \in 0..(Len(Kept) - 1) : cmdline[k] = Kept[k + 1]
  PROVE  Strlen = Len(Kept)
<1> DEFINE n == Len(Kept)
           Z == {k \in 0..(MAX_CMDLINE - 1) : cmdline[k] = ZERO}
<1>1. n \in Nat /\ n <= MAX_CMDLINE - 2 /\ MAX_CMDLINE \in Nat /\ Kept \in Seq(Char)
  BY ParseAssumption, KeptFacts
<1>2. n \in Z
  BY <1>1
<1>3. \A k \in Z : n <= k
  <2>1. SUFFICES ASSUME NEW k \in 0..(n - 1)
        PROVE  cmdline[k] # ZERO
    BY <1>1
  <2>2. Kept[k + 1] \in Char
    BY <1>1
  <2> QED
    BY <2>2 DEF ZERO, Char, Blank, Redirect
<1>4. Z \subseteq Nat
  BY <1>1
<1>5. Strlen = Min(Z)
  BY DEF Strlen
<1> HIDE DEF Z
<1>6. \A x \in Z : (\A y \in Z : x <= y) => x = n
  BY <1>1, <1>2, <1>3, <1>4
<1> QED
  BY <1>2, <1>3, <1>5, <1>6 DEF Min

\* execute() copies the line into the job's buffer (sh.c:188-191).
LEMMA CopyKeeps ==
  ASSUME ParseInv, CopyJob
  PROVE  Parsing' /\ cmd' \in [0..(MAX_JOBLEN - 1) -> Char \cup {ZERO, JUNK}]
<1> DEFINE n == Len(Kept)
<1>1. /\ LineTypeOK /\ keys \in Seq(Char) /\ Fresh /\ i = 0 /\ phase = "job"
      /\ \A k \in 0..(n - 1) : cmdline[k] = Kept[k + 1]
      /\ cmdline[n] = ZERO
  BY DEF ParseInv, CopyJob
<1>2. Strlen = n /\ n \in Nat /\ n < MAX_JOBLEN /\ n <= MAX_CMDLINE - 2
      /\ MAX_JOBLEN \in Nat /\ MAX_CMDLINE \in Nat /\ MAX_ARGS \in Nat
  BY ParseAssumption, <1>1, LineEnds, KeptFacts DEF CopyJob
<1>3. /\ keys' = keys /\ i' = 0 /\ t' = 0 /\ state' = "NONE" /\ args' = NoArgs
      /\ stin' = -1 /\ stout' = -1
  BY <1>1 DEF CopyJob, parser, Fresh
<1>4. cmd' = [k \in 0..(MAX_JOBLEN - 1) |-> IF k <= n THEN cmdline[k] ELSE JUNK]
  BY <1>2 DEF CopyJob
<1>5. Kept' = Kept /\ \A k, c : Follows(k, c)' <=> Follows(k, c)
  BY <1>3, LineFixed
<1>6. Buffer'
  <2>1. ASSUME NEW k \in 0..n
        PROVE  cmd'[k] = IF k < n THEN Kept[k + 1] ELSE ZERO
    <3>1. k \in 0..(MAX_JOBLEN - 1) /\ k <= n
      BY <1>2
    <3>2. cmd'[k] = cmdline[k]
      BY <1>4, <3>1
    <3>3. CASE k < n
      <4>1. k \in 0..(n - 1)
        BY <1>2, <3>3
      <4> QED
        BY <1>1, <3>2, <3>3, <4>1
    <3>4. CASE ~(k < n)
      <4>1. k = n
        BY <1>2, <3>4
      <4> QED
        BY <1>1, <3>2, <3>4, <4>1
    <3> QED
      BY <3>3, <3>4
  <2>2. t' \in 0..n /\ \A k \in 0..n : k >= t'
    BY <1>2, <1>3
  <2> QED
    BY <1>2, <1>5, <2>1, <2>2 DEF Buffer
<1>7. ~(Ended(t))'
  BY <1>3 DEF Ended
<1>8. State'
  <2>1. t' + 1 = 1
    BY <1>3
  <2>2. ~(Follows(t + 1, "<"))' /\ ~(Follows(t + 1, ">"))'
    BY <1>5, <2>1, FollowsNothing
  <2> QED
    BY <1>3, <1>7, <2>2 DEF State
<1>9. \A S : S \subseteq Nat => Upto(S, 0) = {}
  <2>1. ASSUME NEW S, S \subseteq Nat
        PROVE  Upto(S, 0) = {}
    <3>1. \A b \in S : ~(b < 0)
      BY <2>1
    <3> QED
      BY <3>1 DEF Upto
  <2> QED
    BY <2>1
<1>10. /\ Arguments' = Arguments /\ Named("<")' = Named("<") /\ Named(">")' = Named(">")
       /\ Arguments \subseteq Nat /\ Named("<") \subseteq Nat /\ Named(">") \subseteq Nat
  BY <1>1, <1>3, LineFixed, WordSets
<1>11. Files'
  <2>1. (Upto(Named("<"), t))' = {} /\ (Upto(Named(">"), t))' = {}
    BY <1>3, <1>9, <1>10 DEF Upto
  <2>2. Latest({}) = -1 /\ -1 \in -1..(0 - 1)
    BY LatestSteps
  <2> QED
    BY <1>3, <2>1, <2>2 DEF Files
<1>12. Args'
  <2>1. (Upto(Arguments, t))' = {}
    BY <1>3, <1>9, <1>10 DEF Upto
  <2>2. Begun' = 0
    BY <2>1, FS_EmptySet DEF Begun
  <2>3. \A k \in 0..MAX_ARGS : args'[k] = -1 /\ ~(k < 0)
    BY <1>2, <1>3 DEF NoArgs
  <2> QED
    BY <1>2, <1>3, <2>2, <2>3 DEF Args
<1>13. cmd' \in [0..(MAX_JOBLEN - 1) -> Char \cup {ZERO, JUNK}]
  <2>1. ASSUME NEW k \in 0..(MAX_JOBLEN - 1), k <= n
        PROVE  cmdline[k] \in Char \cup {ZERO, JUNK}
    <3>1. k \in 0..(MAX_CMDLINE - 1)
      BY <1>2, <2>1
    <3> QED
      BY <1>1, <3>1 DEF LineTypeOK
  <2> QED
    BY <1>4, <2>1
<1> QED
  BY <1>6, <1>8, <1>11, <1>12, <1>13 DEF Parsing

\* getcmd() stores a character, or drops it at the end of the buffer (sh.c:209-219).
LEMMA CharKeeps ==
  ASSUME ParseInv, NEW c \in Char, GetChar(c)
  PROVE  ParseInv'
<1> DEFINE n == Len(Kept)
           m == Len(Kept')
<1>1. /\ keys' = Append(keys, c) /\ t' = t /\ i' = Back(Back(i) + 1) /\ args' = args
      /\ stin' = stin /\ stout' = stout /\ state' = state /\ cmd' = cmd
      /\ cmdline' = [cmdline EXCEPT ![Back(i)] = c] /\ phase = "read" /\ phase' = "read"
  BY DEF GetChar, parser
<1>2. /\ keys \in Seq(Char) /\ n \in Nat /\ MAX_CMDLINE \in Nat /\ MAX_CMDLINE >= 2
      /\ n = IF Len(keys) <= MAX_CMDLINE - 2 THEN Len(keys) ELSE MAX_CMDLINE - 2
      /\ \A k \in 1..n : Kept[k] = keys[k]
      /\ LineTypeOK
  BY ParseAssumption, KeptFacts DEF ParseInv
<1>3. /\ i = n /\ Fresh /\ \A k \in 0..(n - 1) : cmdline[k] = Kept[k + 1]
  BY <1>1 DEF ParseInv
<1>4. /\ keys' \in Seq(Char) /\ Len(keys') = Len(keys) + 1 /\ keys'[Len(keys) + 1] = c
      /\ \A k \in 1..Len(keys) : keys'[k] = keys[k]
  BY <1>1, <1>2
<1>5. /\ m \in Nat /\ m = IF Len(keys') <= MAX_CMDLINE - 2 THEN Len(keys') ELSE MAX_CMDLINE - 2
      /\ \A k \in 1..m : Kept'[k] = keys'[k]
  <2>1. \A s \in Seq(Char) : Min({Len(s), MAX_CMDLINE - 2}) =
           IF Len(s) <= MAX_CMDLINE - 2 THEN Len(s) ELSE MAX_CMDLINE - 2
    BY <1>2 DEF Min
  <2> DEFINE w == Min({Len(keys'), MAX_CMDLINE - 2})
  <2>2. w = IF Len(keys') <= MAX_CMDLINE - 2 THEN Len(keys') ELSE MAX_CMDLINE - 2
    BY <1>4, <2>1
  <2>3. Kept' = SubSeq(keys', 1, w)
    BY DEF Kept
  <2>4. w \in 0..Len(keys')
    BY <1>2, <1>4, <2>2
  <2> HIDE DEF w
  <2>5. Len(SubSeq(keys', 1, w)) = w /\ \A k \in 1..w : SubSeq(keys', 1, w)[k] = keys'[k]
    BY <1>4, <2>4
  <2> QED
    BY <2>2, <2>3, <2>4, <2>5
<1> HIDE DEF n, m
<1>6. Back(i) = n /\ n \in 0..(MAX_CMDLINE - 2)
  BY <1>2, <1>3 DEF Back
<1>7. i' = m /\ m \in 0..(MAX_CMDLINE - 2)
  BY <1>1, <1>2, <1>4, <1>5, <1>6 DEF Back
<1>8. cmdline' \in [0..(MAX_CMDLINE - 1) -> Char \cup {ZERO, JUNK}]
  BY <1>1, <1>2 DEF LineTypeOK
<1>9. ASSUME NEW k \in 0..(m - 1)
      PROVE  cmdline'[k] = Kept'[k + 1]
  <2>1. cmdline'[k] = IF k = n THEN c ELSE cmdline[k]
    <3>1. k \in 0..(MAX_CMDLINE - 1)
      BY <1>2, <1>7
    <3> QED
      BY <1>1, <1>2, <1>6, <3>1 DEF LineTypeOK
  <2>2. k + 1 \in 1..m /\ Kept'[k + 1] = keys'[k + 1] /\ (m = n + 1 \/ m = n)
        /\ (m = n + 1 => n = Len(keys)) /\ n <= Len(keys)
    BY <1>2, <1>4, <1>5
  <2>3. CASE k = n
    BY <1>2, <1>4, <1>5, <2>1, <2>2, <2>3
  <2>4. CASE k # n
    <3>1. k \in 0..(n - 1) /\ k + 1 \in 1..n /\ k + 1 \in 1..Len(keys)
      BY <1>2, <1>5, <2>2, <2>4
    <3> QED
      BY <1>2, <1>3, <1>4, <2>1, <2>2, <2>4, <3>1
  <2> QED
    BY <2>3, <2>4
<1>10. LineTypeOK'
  <2>1. /\ cmd' \in [0..(MAX_JOBLEN - 1) -> Char \cup {ZERO, JUNK}]
        /\ args' \in [0..MAX_ARGS -> -1..(MAX_JOBLEN - 1)]
        /\ t' \in 0..(MAX_JOBLEN - 1) /\ state' \in {"NONE", "LETTER", "SIN", "SOUT"}
    BY <1>1, <1>2 DEF LineTypeOK
  <2> QED
    BY <1>1, <1>7, <1>8, <2>1 DEF LineTypeOK
<1>11. Fresh'
  BY <1>1, <1>3 DEF Fresh, NoArgs
<1> QED
  BY <1>1, <1>4, <1>7, <1>9, <1>10, <1>11 DEF ParseInv, m

\* getcmd() ends the line (sh.c:213-222).
LEMMA NewlineKeeps ==
  ASSUME ParseInv, GetNewline
  PROVE  ParseInv'
<1> DEFINE n == Len(Kept)
<1>1. /\ keys' = keys /\ t' = t /\ i' = 0 /\ args' = args
      /\ stin' = stin /\ stout' = stout /\ state' = state /\ cmd' = cmd
      /\ cmdline' = [cmdline EXCEPT ![Back(i)] = ZERO] /\ phase = "read" /\ phase' = "job"
  BY DEF GetNewline, parser
<1>2. /\ keys \in Seq(Char) /\ n \in Nat /\ MAX_CMDLINE \in Nat /\ n <= MAX_CMDLINE - 2
      /\ LineTypeOK /\ i = n /\ Fresh /\ MAX_ARGS \in Nat
      /\ \A k \in 0..(n - 1) : cmdline[k] = Kept[k + 1]
  BY ParseAssumption, <1>1, KeptFacts DEF ParseInv
<1>3. Back(i) = n
  BY <1>2 DEF Back
<1>4. Kept' = Kept
  BY <1>1 DEF Kept
<1>5. \A k \in 0..(MAX_CMDLINE - 1) : cmdline'[k] = IF k = n THEN ZERO ELSE cmdline[k]
  BY <1>1, <1>2, <1>3 DEF LineTypeOK
<1>6. cmdline'[n] = ZERO
  BY <1>2, <1>5
<1>7. \A k \in 0..(n - 1) : cmdline'[k] = Kept[k + 1]
  BY <1>2, <1>5
<1>8. LineTypeOK'
  <2>1. cmdline' \in [0..(MAX_CMDLINE - 1) -> Char \cup {ZERO, JUNK}]
    BY <1>1, <1>2 DEF LineTypeOK
  <2>2. /\ cmd' \in [0..(MAX_JOBLEN - 1) -> Char \cup {ZERO, JUNK}]
        /\ args' \in [0..MAX_ARGS -> -1..(MAX_JOBLEN - 1)]
        /\ t' \in 0..(MAX_JOBLEN - 1) /\ state' \in {"NONE", "LETTER", "SIN", "SOUT"}
    BY <1>1, <1>2 DEF LineTypeOK
  <2>3. i' \in 0..(MAX_ARGS + 1)
    BY <1>1, <1>2
  <2> QED
    BY <1>1, <2>1, <2>2, <2>3 DEF LineTypeOK
<1>9. Fresh'
  BY <1>1, <1>2 DEF Fresh, NoArgs
<1> QED
  BY <1>1, <1>2, <1>4, <1>6, <1>7, <1>8, <1>9 DEF ParseInv

\* No more arguments are found than the line has.
LEMMA BegunBound ==
  ASSUME keys \in Seq(Char), t \in Nat
  PROVE  Begun \in Nat /\ Begun <= Cardinality(Arguments) /\ Cardinality(Arguments) \in Nat
BY UptoSteps, WordSets DEF Begun

\* Going beyond the array of arguments takes too many of them (sh.c:48, 57).
LEMMA TooManyArgs ==
  ASSUME ParseInv, phase = "parse", i > MAX_ARGS \/ args[MAX_ARGS] # -1
  PROVE  Cardinality(Arguments) > MAX_ARGS
<1>1. /\ Parsing /\ keys \in Seq(Char) /\ LineTypeOK /\ t \in Nat
  BY DEF ParseInv, Parsing, Buffer
<1>2. Begun \in Nat /\ Begun <= Cardinality(Arguments) /\ Cardinality(Arguments) \in Nat
  BY <1>1, BegunBound
<1>3. MAX_ARGS \in Nat /\ i \in Nat
  BY ParseAssumption, <1>1 DEF LineTypeOK
<1>4. Begun = i \/ Begun = i + 1
  BY <1>1 DEF Parsing, Args
<1>5. MAX_ARGS \in 0..MAX_ARGS /\ (args[MAX_ARGS] # -1 => MAX_ARGS < Begun)
  BY <1>1, <1>3 DEF Parsing, Args
<1> QED
  BY <1>2, <1>3, <1>4, <1>5

\* A step of parse_args() that keeps what has been found keeps the types.
LEMMA ParserTypes ==
  ASSUME LineTypeOK, keys \in Seq(Char), Parsing, phase = "parse", phase' = "parse",
         keys' = keys, cmdline' = cmdline, Cut \/ cmd' = cmd, Parsing',
         args' \in [0..MAX_ARGS -> -1..(MAX_JOBLEN - 1)], i' \in 0..(MAX_ARGS + 1)
  PROVE  ParseInv'
<1>1. keys' \in Seq(Char)
  OBVIOUS
<1>2. cmd' \in [0..(MAX_JOBLEN - 1) -> Char \cup {ZERO, JUNK}]
  BY DEF LineTypeOK, Cut
<1>3. t' \in 0..(MAX_JOBLEN - 1)
  <2>1. Kept' = Kept /\ Len(Kept) \in Nat /\ MAX_JOBLEN \in Nat
    BY ParseAssumption, KeptFacts, LineFixed
  <2>2. t' \in 0..Len(Kept) /\ Len(Kept) < MAX_JOBLEN
    BY <2>1 DEF Parsing, Buffer
  <2> QED
    BY <2>1, <2>2
<1>4. state' \in {"NONE", "LETTER", "SIN", "SOUT"}
  BY DEF Parsing, State
<1>5. cmdline' \in [0..(MAX_CMDLINE - 1) -> Char \cup {ZERO, JUNK}]
  BY DEF LineTypeOK
<1>6. LineTypeOK'
  BY <1>2, <1>3, <1>4, <1>5 DEF LineTypeOK
<1> QED
  BY <1>1, <1>6 DEF ParseInv

-----------------------------------------------------------------------------
(* The specification.                                                      *)

\* No line in a buffer that holds anything.
LEMMA ParseStart ==
  ASSUME LineInit
  PROVE  ParseInv
<1>1. /\ phase = "read" /\ keys = <<>> /\ cmdline = [k \in 0..(MAX_CMDLINE - 1) |-> JUNK]
      /\ cmd = [k \in 0..(MAX_JOBLEN - 1) |-> JUNK]
      /\ i = 0 /\ t = 0 /\ state = "NONE" /\ args = NoArgs /\ stin = -1 /\ stout = -1
  BY DEF LineInit
<1>2. keys \in Seq(Char) /\ Len(keys) = 0
  BY <1>1
<1>3. Len(Kept) = 0
  BY ParseAssumption, <1>2, KeptFacts
<1>4. LineTypeOK
  <2>1. /\ cmdline \in [0..(MAX_CMDLINE - 1) -> Char \cup {ZERO, JUNK}]
        /\ cmd \in [0..(MAX_JOBLEN - 1) -> Char \cup {ZERO, JUNK}]
    BY <1>1
  <2>2. args \in [0..MAX_ARGS -> -1..(MAX_JOBLEN - 1)]
    BY ParseAssumption, <1>1 DEF NoArgs
  <2>3. 0 \in 0..(MAX_CMDLINE - 2) /\ 0 \in 0..(MAX_JOBLEN - 1)
    BY ParseAssumption
  <2> QED
    BY <1>1, <2>1, <2>2, <2>3 DEF LineTypeOK
<1>5. \A k \in 0..(Len(Kept) - 1) : cmdline[k] = Kept[k + 1]
  BY <1>3
<1> QED
  BY <1>1, <1>2, <1>3, <1>4, <1>5 DEF ParseInv, Fresh

\* Every step keeps the invariant.
LEMMA ParseStepKeeps ==
  ASSUME ParseInv, [LineNext]_linevars
  PROVE  ParseInv'
<1>1. LineTypeOK /\ keys \in Seq(Char) /\ (phase \in {"parse", "done"} => Parsing)
  BY DEF ParseInv
<1>2. CASE \E c \in Char : GetChar(c)
  BY <1>2, CharKeeps
<1>3. CASE GetNewline
  BY <1>3, NewlineKeeps
<1>4. CASE CopyJob
  <2>1. /\ phase = "job" /\ phase' = "parse" /\ keys' = keys /\ cmdline' = cmdline
        /\ i' = i /\ t' = t /\ state' = state /\ args' = args
    BY <1>4 DEF CopyJob, parser
  <2>2. Parsing' /\ cmd' \in [0..(MAX_JOBLEN - 1) -> Char \cup {ZERO, JUNK}]
    BY <1>4, CopyKeeps
  <2>3. LineTypeOK'
    BY <1>1, <2>1, <2>2 DEF LineTypeOK
  <2> QED
    BY <1>1, <2>1, <2>2, <2>3 DEF ParseInv
<1>5. CASE ParseRedirect
  <2>1. /\ phase = "parse" /\ phase' = "parse" /\ keys' = keys /\ cmdline' = cmdline /\ Cut
        /\ args' = args /\ i' = i
    BY <1>5 DEF ParseRedirect, Next1
  <2>2. args' \in [0..MAX_ARGS -> -1..(MAX_JOBLEN - 1)] /\ i' \in 0..(MAX_ARGS + 1)
    BY <1>1, <2>1 DEF LineTypeOK
  <2>3. Parsing'
    BY <1>1, <1>5, <2>1, RedirectKeeps
  <2> QED
    BY <1>1, <2>1, <2>2, <2>3, ParserTypes
<1>6. CASE ParseBlank
  <2>1. /\ phase = "parse" /\ phase' = "parse" /\ keys' = keys /\ cmdline' = cmdline /\ Cut
        /\ args' = args
    BY <1>6 DEF ParseBlank, Next1
  <2>2. args' \in [0..MAX_ARGS -> -1..(MAX_JOBLEN - 1)]
    BY <1>1, <2>1 DEF LineTypeOK
  <2>3. Parsing' /\ i' \in 0..(MAX_ARGS + 1)
    BY <1>1, <1>6, <2>1, BlankKeeps
  <2> QED
    BY <1>1, <2>1, <2>2, <2>3, ParserTypes
<1>7. CASE ParseLetter
  <2>1. /\ phase = "parse" /\ phase' = "parse" /\ keys' = keys /\ cmdline' = cmdline
        /\ cmd' = cmd /\ i' = i
    BY <1>7 DEF ParseLetter, Next1
  <2>2. i' \in 0..(MAX_ARGS + 1)
    BY <1>1, <2>1 DEF LineTypeOK
  <2>3. Parsing' /\ args' \in [0..MAX_ARGS -> -1..(MAX_JOBLEN - 1)]
    BY <1>1, <1>7, <2>1, LetterKeeps
  <2> QED
    BY <1>1, <2>1, <2>2, <2>3, ParserTypes
<1>8. ASSUME keys' = keys, cmdline' = cmdline, cmd' = cmd, i' = i, t' = t, state' = state,
             args' = args, stin' = stin, stout' = stout
      PROVE  /\ Parsing => Parsing'
             /\ Fresh => Fresh'
             /\ Kept' = Kept /\ Arguments' = Arguments
             /\ phase' = phase \/ (phase # "read" /\ phase' \in {"done", "overrun"}) => LineTypeOK'
  <2>1. /\ Kept' = Kept /\ Arguments' = Arguments
        /\ Named("<")' = Named("<") /\ Named(">")' = Named(">")
        /\ \A k, c : Follows(k, c)' <=> Follows(k, c)
        /\ \A p : Ended(p)' <=> Ended(p)
    BY <1>8, LineFixed
  <2>2. Buffer => Buffer'
    BY <1>8, <2>1 DEF Buffer
  <2>3. State => State'
    BY <1>8, <2>1 DEF State
  <2>4. Files => Files'
    BY <1>8, <2>1 DEF Files, Upto
  <2>5. Args => Args'
    BY <1>8, <2>1 DEF Args, Begun, Upto
  <2>6. Fresh => Fresh'
    BY <1>8 DEF Fresh, NoArgs
  <2>7. phase' = phase \/ (phase # "read" /\ phase' \in {"done", "overrun"}) => LineTypeOK'
    BY <1>1, <1>8 DEF LineTypeOK
  <2> QED
    BY <2>1, <2>2, <2>3, <2>4, <2>5, <2>6, <2>7 DEF Parsing
<1>9. CASE JobOverrun
  <2>1. /\ phase = "job" /\ phase' = "overrun" /\ Strlen >= MAX_JOBLEN
        /\ keys' = keys /\ cmdline' = cmdline /\ cmd' = cmd /\ i' = i /\ t' = t
        /\ state' = state /\ args' = args /\ stin' = stin /\ stout' = stout
    BY <1>9 DEF JobOverrun, parser
  <2>2. Strlen = Len(Kept)
    BY <1>1, <2>1, LineEnds DEF ParseInv
  <2>3. LineTypeOK' /\ Kept' = Kept
    BY <1>8, <2>1
  <2> QED
    BY <1>1, <2>1, <2>2, <2>3 DEF ParseInv
<1>10. CASE ArgsOverrun
  <2>1. /\ phase = "parse" /\ phase' = "overrun" /\ i > MAX_ARGS
        /\ keys' = keys /\ cmdline' = cmdline /\ cmd' = cmd /\ i' = i /\ t' = t
        /\ state' = state /\ args' = args /\ stin' = stin /\ stout' = stout
    BY <1>10 DEF ArgsOverrun, parser
  <2>2. Cardinality(Arguments) > MAX_ARGS
    BY <2>1, TooManyArgs
  <2>3. LineTypeOK' /\ Arguments' = Arguments
    BY <1>8, <2>1
  <2> QED
    BY <1>1, <2>1, <2>2, <2>3 DEF ParseInv
<1>11. CASE ParseEnd
  <2>1. /\ phase = "parse" /\ cmd[t] = ZERO
        /\ phase' = IF args[MAX_ARGS] = -1 THEN "done" ELSE "overrun"
        /\ keys' = keys /\ cmdline' = cmdline /\ cmd' = cmd /\ i' = i /\ t' = t
        /\ state' = state /\ args' = args /\ stin' = stin /\ stout' = stout
    BY <1>11 DEF ParseEnd, parser
  <2>2. LineTypeOK' /\ Arguments' = Arguments /\ Kept' = Kept /\ Parsing'
    BY <1>1, <1>8, <2>1
  <2>3. t = Len(Kept)
    BY <1>1, <2>1, LooksAt DEF Parsing
  <2>4. args[MAX_ARGS] # -1 => Cardinality(Arguments) > MAX_ARGS
    BY <2>1, TooManyArgs
  <2>5. CASE args[MAX_ARGS] = -1
    BY <1>1, <2>1, <2>2, <2>3, <2>5 DEF ParseInv
  <2>6. CASE args[MAX_ARGS] # -1
    BY <1>1, <2>1, <2>2, <2>4, <2>6 DEF ParseInv
  <2> QED
    BY <2>5, <2>6
<1>12. CASE UNCHANGED linevars
  <2>1. /\ phase' = phase /\ keys' = keys /\ cmdline' = cmdline /\ cmd' = cmd /\ i' = i /\ t' = t
        /\ state' = state /\ args' = args /\ stin' = stin /\ stout' = stout
    BY <1>12 DEF linevars
  <2>2. /\ Parsing => Parsing'
        /\ Fresh => Fresh'
        /\ LineTypeOK' /\ Kept' = Kept /\ Arguments' = Arguments
    BY <1>8, <2>1
  <2> QED
    BY <2>1, <2>2 DEF ParseInv
<1> QED
  BY <1>2, <1>3, <1>4, <1>5, <1>6, <1>7, <1>9, <1>10, <1>11, <1>12 DEF LineNext

\* A name or an argument ends where its word does: the first '\0' behind p is
\* behind letters only.
LEMMA CutAfterWord ==
  ASSUME keys \in Seq(Char), Buffer, t = Len(Kept), NEW p \in 0..(Len(Kept) - 1),
         NEW e, e = Min({k \in p..(MAX_JOBLEN - 1) : cmd[k] = ZERO}),
         NEW k \in p..(e - 1)
  PROVE  Kept[k + 1] = "a"
<1> DEFINE n == Len(Kept)
           Z == {x \in p..(MAX_JOBLEN - 1) : cmd[x] = ZERO}
<1>1. n \in Nat /\ n < MAX_JOBLEN /\ MAX_JOBLEN \in Nat
  BY ParseAssumption, KeptFacts DEF Buffer
<1>2. \A x \in 0..n :
        cmd[x] = IF x < n /\ (x >= n \/ Kept[x + 1] = "a") THEN Kept[x + 1] ELSE ZERO
  BY DEF Buffer
<1>3. n \in Z
  <2>1. n \in p..(MAX_JOBLEN - 1) /\ n \in 0..n /\ ~(n < n)
    BY <1>1
  <2> QED
    BY <1>2, <2>1
<1>4. Z \subseteq Nat
  BY <1>1
<1>5. \A x \in p..(MAX_JOBLEN - 1) : cmd[x] = ZERO => x \in Z
  OBVIOUS
<1>6. e = Min(Z)
  OBVIOUS
<1> HIDE DEF Z
<1>7. e \in Z /\ \A y \in Z : e <= y
  <2>1. \E x \in Z : \A y \in Z : x <= y
    BY <1>3, <1>4, LeastNat
  <2> QED
    BY <1>6, <2>1 DEF Min
<1>8. e \in Nat /\ e <= n
  BY <1>3, <1>4, <1>7
<1>9. k \in p..(MAX_JOBLEN - 1) /\ k \in 0..n /\ k < e /\ k < n
  BY <1>1, <1>8
<1>10. k \notin Z
  BY <1>4, <1>7, <1>8, <1>9
<1>11. cmd[k] # ZERO
  BY <1>5, <1>9, <1>10
<1> QED
  BY <1>1, <1>2, <1>9, <1>11

\* The invariant says that the line is parsed right.
LEMMA ParsedRight ==
  ASSUME ParseInv
  PROVE  LineParsed
<1> DEFINE n == Len(Kept)
<1>1. /\ keys \in Seq(Char) /\ LineTypeOK
      /\ phase \in {"parse", "done"} => Parsing
      /\ phase = "done" => t = n /\ args[MAX_ARGS] = -1
  BY DEF ParseInv
<1>2. n \in Nat /\ MAX_JOBLEN \in Nat /\ MAX_ARGS \in Nat
  BY ParseAssumption, <1>1, KeptFacts
<1>3. LineKept
  <2> SUFFICES ASSUME phase = "job"
               PROVE  (\A k \in 1..n : cmdline[k - 1] = Kept[k]) /\ cmdline[n] = ZERO
    BY DEF LineKept
  <2>1. (\A k \in 0..(n - 1) : cmdline[k] = Kept[k + 1]) /\ cmdline[n] = ZERO
    BY DEF ParseInv
  <2>2. ASSUME NEW k \in 1..n
        PROVE  cmdline[k - 1] = Kept[k]
    <3>1. k - 1 \in 0..(n - 1) /\ (k - 1) + 1 = k
      BY <1>2
    <3> QED
      BY <2>1, <3>1
  <2> QED
    BY <2>1, <2>2
<1>4. JobFits
  <2>1. JUNK \notin Char \cup {ZERO}
    BY DEF JUNK, ZERO, Char, Blank, Redirect
  <2>2. phase \in {"parse", "done"} => n < MAX_JOBLEN /\ cmd[t] # JUNK
    BY <1>1, <2>1, LooksAt DEF Parsing
  <2> QED
    BY <2>2 DEF JobFits, ParseInv
<1>5. ASSUME phase = "done"
      PROVE  /\ \A S : S \subseteq Begins => Upto(S, t) = S
             /\ Begun = Cardinality(Arguments)
  <2>1. Begins \subseteq 0..(n - 1) /\ t = n
    BY <1>1, <1>5, BeginsFacts
  <2>2. \A b \in Begins : b < t
    BY <1>2, <2>1
  <2>3. \A S : S \subseteq Begins => Upto(S, t) = S
    BY <2>2 DEF Upto
  <2> QED
    BY <1>1, <2>3, WordSets DEF Begun
<1>6. JobFound
  <2>1. SUFFICES ASSUME phase = "done"
        PROVE  /\ stin = Latest(Named("<")) /\ stout = Latest(Named(">"))
               /\ Cardinality(Arguments) <= MAX_ARGS
               /\ \A k \in 0..MAX_ARGS :
                    args[k] = IF k < Cardinality(Arguments)
                       THEN CHOOSE b \in Arguments : Cardinality({x \in Arguments : x < b}) = k
                       ELSE -1
    BY DEF JobFound
  <2>2. stin = Latest(Named("<")) /\ stout = Latest(Named(">"))
    BY <1>1, <1>5, <2>1, WordSets DEF Parsing, Files
  <2>3. \A k \in 0..MAX_ARGS :
          IF k < Cardinality(Arguments)
          THEN args[k] \in Arguments /\ Cardinality(Upto(Arguments, args[k])) = k
          ELSE args[k] = -1
    BY <1>1, <1>5, <2>1 DEF Parsing, Args
  <2>4. Arguments \subseteq Nat /\ IsFiniteSet(Arguments)
    BY <1>1, WordSets
  <2>5. Cardinality(Arguments) <= MAX_ARGS
    <3>1. MAX_ARGS \in 0..MAX_ARGS /\ args[MAX_ARGS] = -1 /\ -1 \notin Arguments
      BY <1>1, <1>2, <2>1, <2>4
    <3>2. ~(MAX_ARGS < Cardinality(Arguments))
      BY <2>3, <3>1
    <3>3. Cardinality(Arguments) \in Nat
      BY <2>4, FS_CardinalityType
    <3> QED
      BY <1>2, <3>2, <3>3
  <2>6. ASSUME NEW k \in 0..MAX_ARGS
        PROVE  args[k] = IF k < Cardinality(Arguments)
                 THEN CHOOSE b \in Arguments : Cardinality({x \in Arguments : x < b}) = k
                 ELSE -1
    <3>1. CASE k < Cardinality(Arguments)
      <4>1. args[k] \in Arguments /\ Cardinality(Upto(Arguments, args[k])) = k
        BY <2>3, <3>1
      <4>2. \A b \in Arguments : Cardinality(Upto(Arguments, b)) = k => b = args[k]
        BY <2>4, <4>1, RankUnique
      <4>3. (CHOOSE b \in Arguments : Cardinality(Upto(Arguments, b)) = k) = args[k]
        BY <4>1, <4>2
      <4> QED
        BY <3>1, <4>3 DEF Upto
    <3>2. CASE ~(k < Cardinality(Arguments))
      BY <2>3, <3>2
    <3> QED
      BY <3>1, <3>2
  <2> QED
    BY <2>2, <2>5, <2>6
<1>7. WordsCut
  <2>1. SUFFICES ASSUME phase = "done",
                        NEW p \in {args[k] : k \in 0..MAX_ARGS} \cup {stin, stout}, p >= 0,
                        NEW e, e = Min({k \in p..(MAX_JOBLEN - 1) : cmd[k] = ZERO}),
                        NEW k \in p..(e - 1)
                 PROVE  Kept[k + 1] = "a"
    BY DEF WordsCut
  <2>2. Parsing /\ t = n
    BY <1>1, <2>1
  <2>3. p \in 0..(n - 1)
    <3>1. CASE p \in {stin, stout}
      <4>1. p \in -1..(n - 1)
        BY <2>2, <3>1 DEF Parsing, Files
      <4> QED
        BY <2>1, <4>1
    <3>2. CASE p \in {args[j] : j \in 0..MAX_ARGS}
      <4>1. PICK j \in 0..MAX_ARGS : p = args[j]
        BY <3>2
      <4>2. p # -1
        BY <2>1
      <4>3. p \in Arguments
        BY <2>2, <4>1, <4>2 DEF Parsing, Args
      <4> QED
        BY <1>1, <4>3, BeginsFacts, WordSets
    <3> QED
      BY <2>1, <3>1, <3>2
  <2> QED
    BY <1>1, <2>1, <2>2, <2>3, CutAfterWord DEF Parsing
<1> QED
  BY <1>1, <1>3, <1>4, <1>6, <1>7 DEF LineParsed

(* Whatever is typed, of whatever length, and whatever the sizes of the    *)
(* buffers and of the argument array: what exec_job() finds in its copy of *)
(* the line (sh.c:190-194, 91-97) is exactly the arguments, in order, and  *)
(* the file names of the line getcmd() kept (sh.c:205-226), each ending    *)
(* where its word does; and only a line of MAX_JOBLEN characters or more   *)
(* or of more than MAX_ARGS arguments goes beyond an array.                *)
THEOREM LineAlwaysParsed == LineSpec => []LineParsed
<1>1. LineInit => ParseInv
  BY ParseStart
<1>2. ParseInv /\ [LineNext]_linevars => ParseInv'
  BY ParseStepKeeps
<1>3. ParseInv => LineParsed
  BY ParsedRight
<1> QED
  BY <1>1, <1>2, <1>3, PTL DEF LineSpec

=============================================================================

------------------------------ MODULE TSProofs ------------------------------
(***************************************************************************)
(* The clock and the delays of the time server, for any number of clients, *)
(* any radix of the clock and any width of an int.                         *)
(***************************************************************************)
EXTENDS TS, SeqLemmas

-----------------------------------------------------------------------------
(* Arithmetic of a counter that wraps, and of a clock's digits.            *)

LEMMA WrapUp ==
  ASSUME NEW m \in Nat \ {0}, NEW a \in 0..(m - 1)
  PROVE  (a + 1) % m = IF a + 1 = m THEN 0 ELSE a + 1
OBVIOUS

LEMMA WrapDown ==
  ASSUME NEW m \in Nat \ {0}, NEW a \in 1..(m - 1)
  PROVE  (a - 1) % m = a - 1
OBVIOUS

(* An int other than 0 is no multiple of the width. *)
LEMMA WrapInt ==
  ASSUME NEW m \in Nat \ {0}, NEW n \in (1 - m)..(m - 1), n # 0
  PROVE  n % m \in 1..(m - 1)
OBVIOUS

(* A digit a of radix T in front of a number x below K. *)
LEMMA Radix ==
  ASSUME NEW T \in Nat \ {0}, NEW K \in Nat \ {0}, NEW a \in 0..(T - 1), NEW x \in 0..(K - 1)
  PROVE  /\ T * K \in Nat \ {0} /\ a + T * x \in 0..(T * K - 1)
         /\ a + 1 # T => a + 1 + T * x # T * K
         /\ a + 1 = T => a + 1 + T * x = T * (x + 1)
         /\ T * (x + 1) = T * K <=> x + 1 = K
         /\ T * 0 = 0
OBVIOUS

-----------------------------------------------------------------------------
(* The seconds a time of day stands for, and the seconds of a day. *)
Seconds(t) == t.sec + SecMax * (t.min + MinMax * t.hour)
DaySeconds == SecMax * (MinMax * HourMax)

(* step_timer() is the successor, across every carry, and the last second  *)
(* of the day is followed by the first (ts.c:102-111).                     *)
LEMMA StepTimer ==
  ASSUME NEW t \in Time
  PROVE  /\ step_timer(t) \in Time
         /\ Seconds(t) \in 0..(DaySeconds - 1) /\ DaySeconds \in Nat \ {0}
         /\ Seconds(step_timer(t)) = IF Seconds(t) + 1 = DaySeconds THEN 0 ELSE Seconds(t) + 1
<1>1. /\ SecMax \in Nat \ {0} /\ MinMax \in Nat \ {0} /\ HourMax \in Nat \ {0}
      /\ t.sec \in 0..(SecMax - 1) /\ t.min \in 0..(MinMax - 1) /\ t.hour \in 0..(HourMax - 1)
  BY TimeAssumption DEF Time
<1> DEFINE x == t.min + MinMax * t.hour
           K == MinMax * HourMax
<1>2. /\ K \in Nat \ {0} /\ x \in 0..(K - 1)
      /\ t.min + 1 # MinMax => t.min + 1 + MinMax * t.hour # K
      /\ t.min + 1 = MinMax => x + 1 = MinMax * (t.hour + 1)
      /\ MinMax * (t.hour + 1) = K <=> t.hour + 1 = HourMax
      /\ MinMax * 0 = 0
  <2>1. t.min + 1 + MinMax * t.hour = x + 1
    BY <1>1
  <2>2. /\ K \in Nat \ {0} /\ x \in 0..(K - 1)
        /\ t.min + 1 # MinMax => t.min + 1 + MinMax * t.hour # K
        /\ t.min + 1 = MinMax => t.min + 1 + MinMax * t.hour = MinMax * (t.hour + 1)
        /\ MinMax * (t.hour + 1) = K <=> t.hour + 1 = HourMax
        /\ MinMax * 0 = 0
    BY <1>1, Radix
  <2> HIDE DEF x
  <2> QED
    BY <2>1, <2>2
<1>3. x \in Int /\ t.min + 1 + MinMax * t.hour = x + 1
  BY <1>1
<1> HIDE DEF x, K
<1>4. /\ SecMax * K \in Nat \ {0} /\ t.sec + SecMax * x \in 0..(SecMax * K - 1)
      /\ t.sec + 1 # SecMax => t.sec + 1 + SecMax * x # SecMax * K
      /\ t.sec + 1 = SecMax => t.sec + 1 + SecMax * x = SecMax * (x + 1)
      /\ SecMax * (x + 1) = SecMax * K <=> x + 1 = K
      /\ SecMax * 0 = 0
  BY <1>1, <1>2, Radix
<1>5. Seconds(t) = t.sec + SecMax * x /\ DaySeconds = SecMax * K
  BY DEF Seconds, DaySeconds, x, K
<1>6. CASE t.sec + 1 # SecMax
  <2> DEFINE r == [t EXCEPT !.sec = @ + 1]
  <2>1. r.sec = t.sec + 1 /\ r.min = t.min /\ r.hour = t.hour /\ r \in Time
    BY <1>1, <1>6 DEF Time
  <2>2. step_timer(t) = r
    BY <1>6 DEF step_timer
  <2> HIDE DEF r
  <2>3. Seconds(r) = t.sec + 1 + SecMax * x
    BY <2>1 DEF Seconds, x
  <2>4. t.sec + 1 + SecMax * x = (t.sec + SecMax * x) + 1
    BY <1>1, <1>3
  <2> QED
    BY <1>4, <1>5, <1>6, <2>1, <2>2, <2>3, <2>4
<1>7. CASE t.sec + 1 = SecMax /\ t.min + 1 # MinMax
  <2> DEFINE r == [sec |-> 0, min |-> t.min + 1, hour |-> t.hour]
  <2>1. r.sec = 0 /\ r.min = t.min + 1 /\ r.hour = t.hour /\ r \in Time
    BY <1>1, <1>7 DEF Time
  <2>2. step_timer(t) = r
    BY <1>7 DEF step_timer
  <2> HIDE DEF r
  <2>3. Seconds(r) = 0 + SecMax * (x + 1)
    BY <1>3, <2>1 DEF Seconds
  <2>4. x + 1 # K
    BY <1>2, <1>3, <1>7
  <2>5. Seconds(t) + 1 = SecMax * (x + 1) /\ SecMax * (x + 1) \in Int
    BY <1>1, <1>3, <1>4, <1>5, <1>7
  <2> QED
    BY <1>4, <1>5, <1>7, <2>1, <2>2, <2>3, <2>4, <2>5
<1>8. CASE t.sec + 1 = SecMax /\ t.min + 1 = MinMax /\ t.hour + 1 # HourMax
  <2> DEFINE r == [sec |-> 0, min |-> 0, hour |-> t.hour + 1]
  <2>1. r.sec = 0 /\ r.min = 0 /\ r.hour = t.hour + 1 /\ r \in Time
    BY <1>1, <1>8 DEF Time
  <2>2. step_timer(t) = r
    BY <1>8 DEF step_timer
  <2> HIDE DEF r
  <2>3. Seconds(r) = 0 + SecMax * (0 + MinMax * (t.hour + 1))
    BY <2>1 DEF Seconds
  <2>4. x + 1 # K /\ x + 1 = MinMax * (t.hour + 1) /\ x + 1 = 0 + (x + 1)
    BY <1>2, <1>3, <1>8
  <2>5. Seconds(t) + 1 = SecMax * (x + 1) /\ SecMax * (x + 1) \in Int
    BY <1>1, <1>3, <1>4, <1>5, <1>8
  <2> QED
    BY <1>4, <1>5, <1>8, <2>1, <2>2, <2>3, <2>4, <2>5
<1>9. CASE t.sec + 1 = SecMax /\ t.min + 1 = MinMax /\ t.hour + 1 = HourMax
  <2>1. Midnight \in Time /\ Midnight.sec = 0 /\ Midnight.min = 0 /\ Midnight.hour = 0
    BY <1>1 DEF Time, Midnight
  <2>2. step_timer(t) = Midnight
    BY <1>9 DEF step_timer
  <2>3. Seconds(Midnight) = 0
    BY <1>2, <1>4, <2>1 DEF Seconds
  <2>4. x + 1 = K
    BY <1>2, <1>9
  <2>5. Seconds(t) + 1 = SecMax * (x + 1)
    BY <1>1, <1>3, <1>4, <1>5, <1>9
  <2> QED
    BY <1>4, <1>5, <2>1, <2>2, <2>3, <2>4, <2>5
<1> QED
  BY <1>6, <1>7, <1>8, <1>9

-----------------------------------------------------------------------------
\* A timer's owner sleeps in its delay() and has no other timer; what it
\* has slept and what its timer has left are what it asked for.
Timers ==
  /\ \A i, j \in 1..Len(ts_wait_q) : ts_wait_q[i].client = ts_wait_q[j].client => i = j
  /\ \A i \in 1..Len(ts_wait_q) :
       LET c == ts_wait_q[i].client
       IN /\ client[c] = "sleep" /\ request[c].cmd = "DELAY"
          /\ slept[c] + ts_wait_q[i].delay = request[c].ticks % IntMod
  /\ \A c \in Client : ~Timed(c) => slept[c] = 0

\* The clock reads the ticks since boot.
Clock == elapsed = ticks + TicksPerSec * Seconds(uptime)

\* The inductive invariant.
TInv == TypeOK /\ Clock /\ Timers

LEMMA DayFacts ==
  /\ Day = TicksPerSec * DaySeconds /\ TicksPerSec \in Nat /\ TicksPerSec > 1
  /\ IntMod \in Nat \ {0} /\ DaySeconds \in Nat \ {0} /\ Day \in Nat /\ Day > 1
<1>1. /\ TicksPerSec \in Nat /\ TicksPerSec > 1 /\ SecMax \in Nat \ {0} /\ MinMax \in Nat \ {0}
      /\ HourMax \in Nat \ {0} /\ IntMod \in Nat \ {0}
  BY TimeAssumption
<1>2. MinMax * HourMax \in Nat \ {0} /\ DaySeconds \in Nat \ {0}
  BY <1>1 DEF DaySeconds
<1>3. Day = TicksPerSec * DaySeconds
  BY <1>1 DEF Day, DaySeconds
<1>4. TicksPerSec * DaySeconds \in Nat /\ TicksPerSec * DaySeconds > 1
  BY <1>1, <1>2
<1> QED
  BY <1>1, <1>2, <1>3, <1>4

LEMMA TSInit == Init => TInv
<1> SUFFICES ASSUME Init PROVE TInv
  OBVIOUS
<1>1. Midnight \in Time /\ Seconds(Midnight) = 0
  <2>1. /\ SecMax \in Nat \ {0} /\ MinMax \in Nat \ {0} /\ HourMax \in Nat \ {0}
    BY TimeAssumption
  <2>2. Midnight \in Time
    BY <2>1 DEF Time, Midnight
  <2>3. MinMax * 0 = 0 /\ SecMax * 0 = 0
    BY <2>1
  <2> QED
    BY <2>2, <2>3 DEF Midnight, Seconds
<1>2. TypeOK
  <2>1. Idle \in Request
    BY DEF Idle, Request
  <2>2. /\ ts_wait_q \in Seq(Timer) /\ elapsed \in 0..(Day - 1) /\ ticks \in 0..(TicksPerSec - 1)
        /\ 0 \in 0..(IntMod - 1)
    BY DayFacts DEF Init
  <2> QED
    BY <1>1, <2>1, <2>2 DEF Init, TypeOK
<1>3. Clock
  BY <1>1, DayFacts DEF Init, Clock
<1>4. Timers
  BY DEF Init, Timers
<1> QED
  BY <1>2, <1>3, <1>4 DEF TInv

(* What a tick does to the queue of timers: the ones with one tick left    *)
(* are gone, the others have one less, and no timer is passed over         *)
(* although q_forall removes them on the way (ts.c:67-76, queue.c:97-110). *)
LEMMA TickQueue ==
  ASSUME TInv
  PROVE  LET q == managedelay(ts_wait_q)
             R == Remaining(q)
         IN
         /\ R \in Seq(Timer)
         /\ \A k \in 1..Len(R) : \E i \in 1..Len(ts_wait_q) :
              /\ R[k].client = ts_wait_q[i].client /\ ts_wait_q[i].delay # 1
              /\ R[k].delay = ts_wait_q[i].delay - 1
         /\ \A k, l \in 1..Len(R) : R[k].client = R[l].client => k = l
         /\ \A i \in 1..Len(ts_wait_q) : ts_wait_q[i].delay # 1 =>
              \E k \in 1..Len(R) : R[k].client = ts_wait_q[i].client
         /\ Expired(q) = {c \in Client : \E i \in 1..Len(ts_wait_q) :
                                 ts_wait_q[i].client = c /\ ts_wait_q[i].delay = 1}
<1> DEFINE Q == ts_wait_q
           q == managedelay(Q)
           R == Remaining(q)
           n == Len(Q)
           I == {i \in 1..n : q[i].delay # 0}
           m == Cardinality(I)
<1> HIDE DEF q, R, I, m, n, Q
<1>1. /\ Q \in Seq(Timer) /\ n \in Nat /\ \A i \in 1..n : Q[i] \in Timer
      /\ \A i, j \in 1..n : Q[i].client = Q[j].client => i = j
  <2>1. Q \in Seq(Timer)
    BY DEF TInv, TypeOK, Q
  <2>2. \A i, j \in 1..n : Q[i].client = Q[j].client => i = j
    BY DEF TInv, Timers, Q, n
  <2> QED
    BY <2>1, <2>2 DEF n
<1>2. \A i \in 1..n : Q[i].client \in Client /\ Q[i].delay \in 1..(IntMod - 1)
  BY <1>1 DEF Timer
<1>3. \A i \in 1..n : (Q[i].delay - 1) % IntMod = Q[i].delay - 1
  BY <1>2, DayFacts, WrapDown
<1>4. ASSUME NEW i \in 1..n
      PROVE  /\ q[i].client = Q[i].client /\ q[i].delay = Q[i].delay - 1
             /\ Q[i].delay # 1 => q[i] \in Timer
  <2> DEFINE w == Q[i]
             v == q[i]
  <2>1. v = CountDown(w) /\ w \in Timer /\ (w.delay - 1) % IntMod = w.delay - 1
    BY <1>1, <1>3 DEF managedelay, q, n
  <2> HIDE DEF w, v
  <2>2. w.client \in Client /\ w.delay \in 1..(IntMod - 1)
    BY <2>1 DEF Timer
  <2>3. v = [w EXCEPT !.delay = w.delay - 1]
    BY <2>1 DEF CountDown
  <2>4. v = [client |-> w.client, delay |-> w.delay - 1]
    BY <2>1, <2>3 DEF Timer
  <2>5. v.client = w.client /\ v.delay = w.delay - 1
    BY <2>4
  <2>6. ASSUME w.delay # 1 PROVE v \in Timer
    <3>1. w.delay - 1 \in 1..(IntMod - 1)
      BY <2>2, <2>6, DayFacts
    <3> QED
      BY <2>2, <2>4, <3>1 DEF Timer
  <2> QED
    BY <2>5, <2>6 DEF w, v
<1>5. Len(q) = n /\ DOMAIN q = 1..n
  BY <1>1 DEF managedelay, q, n
<1>6. /\ m \in Nat
      /\ \A k \in 1..m : Place(I, k) \in I
      /\ \A k, l \in 1..m : k < l => Place(I, k) < Place(I, l)
      /\ \A i \in I : \E k \in 1..m : Place(I, k) = i
  <2>1. I \in SUBSET (1..n)
    BY DEF I
  <2> QED
    BY <1>1, <2>1, PlaceFacts DEF m
<1>7. R = [k \in 1..m |-> q[Place(I, k)]]
  BY <1>5, Zenon DEF Remaining, Pick, R, I, m
<1>8. \A i \in 1..n : i \in I <=> Q[i].delay # 1
  BY <1>2, <1>4 DEF I
<1>9. I \subseteq 1..n
  BY DEF I
<1>10. Len(R) = m /\ \A k \in 1..m : R[k] = q[Place(I, k)]
  BY <1>6, <1>7
<1>11. R \in Seq(Timer)
  <2>1. \A i \in I : q[i] \in Timer
    BY <1>4, <1>8, <1>9
  <2>2. R \in [1..m -> Timer]
    BY <1>6, <1>7, <2>1
  <2> QED
    BY <1>6, <2>2
<1>12. ASSUME NEW k \in 1..m
       PROVE  \E i \in 1..n : /\ R[k].client = Q[i].client /\ Q[i].delay # 1
                              /\ R[k].delay = Q[i].delay - 1
  <2> DEFINE i == Place(I, k)
  <2>1. i \in I /\ R[k] = q[i]
    BY <1>6, <1>10
  <2>2. i \in 1..n
    BY <1>9, <2>1
  <2> HIDE DEF i
  <2>3. Q[i].delay # 1
    BY <1>8, <2>1, <2>2
  <2>4. q[i].client = Q[i].client /\ q[i].delay = Q[i].delay - 1
    BY <1>4, <2>2
  <2>5. R[k].client = Q[i].client /\ R[k].delay = Q[i].delay - 1
    BY <2>1, <2>4
  <2> QED
    BY <2>2, <2>3, <2>5
<1>13. ASSUME NEW k \in 1..m, NEW l \in 1..m, R[k].client = R[l].client PROVE k = l
  <2>1. Place(I, k) \in 1..n /\ Place(I, l) \in 1..n
    BY <1>6, <1>9
  <2>2. Place(I, k) = Place(I, l)
    BY <1>1, <1>4, <1>10, <1>13, <2>1
  <2>3. ~(k < l) /\ ~(l < k)
    BY <1>6, <2>1, <2>2
  <2> QED
    BY <1>6, <2>3
<1>14. ASSUME NEW i \in 1..n, Q[i].delay # 1 PROVE \E k \in 1..m : R[k].client = Q[i].client
  BY <1>4, <1>6, <1>8, <1>10, <1>14
<1>15. Expired(q) = {c \in Client : \E i \in 1..n : Q[i].client = c /\ Q[i].delay = 1}
  <2>1. Expired(q) = {q[i].client : i \in {j \in 1..n : q[j].delay = 0}}
    BY <1>5 DEF Expired
  <2>2. \A i \in 1..n : q[i].delay = 0 <=> Q[i].delay = 1
    BY <1>2, <1>4
  <2> QED
    BY <1>2, <1>4, <2>1, <2>2
<1> QED
  BY <1>10, <1>11, <1>12, <1>13, <1>14, <1>15 DEF Q, n, q, R

(* A step that disturbs no sleeping client and no timer. *)
LEMMA KeepTimers ==
  ASSUME TInv, ts_wait_q' = ts_wait_q, slept' = slept,
         \A c \in Client : client[c] = "sleep" => client'[c] = "sleep" /\ request'[c] = request[c]
  PROVE  Timers'
<1>1. \A i \in 1..Len(ts_wait_q) : ts_wait_q[i].client \in Client
  <2>1. \A i \in 1..Len(ts_wait_q) : ts_wait_q[i] \in Timer
    BY DEF TInv, TypeOK
  <2> QED
    BY <2>1 DEF Timer
<1>2. \A c \in Client : ~Timed(c)' => slept'[c] = 0
  BY DEF TInv, Timers, Timed
<1>3. \A i \in 1..Len(ts_wait_q) :
        LET c == ts_wait_q[i].client
        IN /\ client'[c] = "sleep" /\ request'[c].cmd = "DELAY"
           /\ slept'[c] + ts_wait_q[i].delay = request'[c].ticks % IntMod
  BY <1>1 DEF TInv, Timers
<1> QED
  BY <1>2, <1>3 DEF TInv, Timers

\* The clients that sleep go on sleeping; the types are kept.
Undisturbed ==
  /\ client' \in [Client -> {"run", "ask", "sleep"}]
  /\ request' \in [Client -> Request]
  /\ \A c \in Client : client[c] = "sleep" => client'[c] = "sleep" /\ request'[c] = request[c]

LEMMA AnswerFacts ==
  ASSUME TypeOK, NEW c \in Client, client[c] = "ask", Answer(c)
  PROVE  Undisturbed
<1>1. Idle \in Request
  BY DEF Idle, Request
<1> QED
  BY <1>1 DEF TypeOK, Answer, Undisturbed

(* Any step but a tick and a delay() that gets a timer. *)
LEMMA QuietInv ==
  ASSUME TInv,
         \/ Overflow \/ TickEvent
         \/ \E c \in Client : \/ ServeGet(c) \/ ServeSet(c) \/ \E r \in Request : Call(c, r)
                              \/ ServeDelay(c) /\ ts_wait_q' = ts_wait_q
  PROVE  TInv' /\ Undisturbed /\ elapsed' = elapsed
<1>1. TypeOK /\ Clock
  BY DEF TInv
<1>2. /\ ticks' = ticks /\ uptime' = uptime /\ elapsed' = elapsed
      /\ ts_wait_q' = ts_wait_q /\ slept' = slept
  BY DEF Overflow, TickEvent, ServeGet, ServeSet, Call, ServeDelay, clocks
<1>3. tov' \in BOOLEAN /\ tickd' \in {"wait", "tick"}
  BY <1>1 DEF TypeOK, Overflow, TickEvent, ServeGet, ServeSet, Call, ServeDelay
<1>4. Undisturbed /\ globtime' \in Time
  <2>1. CASE Overflow \/ TickEvent
    BY <1>1, <2>1 DEF Overflow, TickEvent, TypeOK, Undisturbed, clocks
  <2>2. ASSUME NEW c \in Client, NEW r \in Request, Call(c, r)
        PROVE  Undisturbed /\ globtime' \in Time
    BY <1>1, <2>2 DEF Call, TypeOK, Undisturbed, clocks
  <2>3. ASSUME NEW c \in Client, ServeGet(c)
        PROVE  Undisturbed /\ globtime' \in Time
    BY <1>1, <2>3, AnswerFacts DEF ServeGet, TypeOK, clocks
  <2>4. ASSUME NEW c \in Client, ServeSet(c)
        PROVE  Undisturbed /\ globtime' \in Time
    <3>1. request[c] \in Request /\ request[c].cmd = "SET" /\ globtime' = request[c].time
      BY <1>1, <2>4 DEF TypeOK, ServeSet
    <3>2. request[c].time \in TimeChoice
      BY <3>1 DEF Request
    <3> QED
      BY <1>1, <2>4, <3>1, <3>2, AnswerFacts, TimeAssumption DEF ServeSet
  <2>5. ASSUME NEW c \in Client, ServeDelay(c), ts_wait_q' = ts_wait_q
        PROVE  Undisturbed /\ globtime' \in Time
    <3>1. CASE Answer(c)
      BY <1>1, <2>5, <3>1, AnswerFacts DEF ServeDelay, TypeOK, clocks
    <3>2. CASE client' = [client EXCEPT ![c] = "sleep"] /\ request' = request
      BY <1>1, <2>5, <3>2 DEF ServeDelay, TypeOK, clocks, Undisturbed
    <3> QED
      BY <2>5, <3>1, <3>2 DEF ServeDelay
  <2> QED
    BY <2>1, <2>2, <2>3, <2>4, <2>5
<1>5. TypeOK'
  BY <1>1, <1>2, <1>3, <1>4 DEF TypeOK, Undisturbed
<1>6. Clock'
  BY <1>1, <1>2 DEF Clock, Seconds
<1>7. Timers'
  BY <1>2, <1>4, KeepTimers DEF Undisturbed
<1> QED
  BY <1>2, <1>4, <1>5, <1>6, <1>7 DEF TInv

(* delay() with a timer: the client asked for n ticks and has slept none. *)
LEMMA DelayInv ==
  ASSUME TInv, NEW c \in Client, ServeDelay(c), ts_wait_q' # ts_wait_q
  PROVE  TInv' /\ Undisturbed /\ elapsed' = elapsed
<1> DEFINE n == request[c].ticks
           w == [client |-> c, delay |-> n % IntMod]
           Q == ts_wait_q
<1>1. TypeOK /\ Clock /\ Timers
  BY DEF TInv
<1>2. /\ client[c] = "ask" /\ request[c].cmd = "DELAY" /\ n # 0
      /\ client' = [client EXCEPT ![c] = "sleep"] /\ request' = request
      /\ ts_wait_q' = Append(Q, w)
      /\ tov' = tov /\ tickd' = tickd /\ slept' = slept
      /\ ticks' = ticks /\ uptime' = uptime /\ globtime' = globtime /\ elapsed' = elapsed
  BY DEF ServeDelay, clocks
<1>3. n % IntMod \in 1..(IntMod - 1)
  <2>1. request[c] \in Request
    BY <1>1 DEF TypeOK
  <2>2. n \in DelayChoice
    BY <1>2, <2>1 DEF Request
  <2> HIDE DEF n
  <2> QED
    BY <1>2, <2>2, WrapInt, TimeAssumption, DayFacts
<1>4. w \in Timer /\ w.client = c /\ w.delay = n % IntMod
  BY <1>3 DEF Timer
<1> HIDE DEF w
<1>5. Q \in Seq(Timer) /\ Len(Q) \in Nat /\ \A i \in 1..Len(Q) : Q[i].client \in Client
  <2>1. Q \in Seq(Timer)
    BY <1>1 DEF TypeOK
  <2>2. \A i \in 1..Len(Q) : Q[i] \in Timer
    BY <2>1
  <2> QED
    BY <2>1, <2>2 DEF Timer
<1>6. /\ ts_wait_q' \in Seq(Timer) /\ Len(ts_wait_q') = Len(Q) + 1
      /\ ts_wait_q'[Len(Q) + 1] = w /\ \A i \in 1..Len(Q) : ts_wait_q'[i] = Q[i]
  BY <1>2, <1>4, <1>5
<1>7. \A i \in 1..Len(Q) : Q[i].client # c
  BY <1>1, <1>2 DEF Timers
<1>8. \A i \in 1..(Len(Q) + 1) : i \in 1..Len(Q) \/ i = Len(Q) + 1
  BY <1>5
<1>9. Undisturbed
  BY <1>1, <1>2 DEF TypeOK, Undisturbed
<1>10. TypeOK'
  BY <1>1, <1>2, <1>6, <1>9 DEF TypeOK, Undisturbed
<1>11. Timers'
  <2>1. \A i, j \in 1..(Len(Q) + 1) : ts_wait_q'[i].client = ts_wait_q'[j].client => i = j
    <3>1. \A i, j \in 1..Len(Q) : Q[i].client = Q[j].client => i = j
      BY <1>1 DEF Timers
    <3> QED
      BY <1>4, <1>6, <1>7, <1>8, <3>1
  <2>2. slept[c] = 0
    BY <1>1, <1>7 DEF Timers, Timed
  <2>3. client'[c] = "sleep" /\ slept[c] + w.delay = n % IntMod
    BY <1>1, <1>2, <1>3, <1>4, <2>2 DEF TypeOK
  <2>4. ASSUME NEW i \in 1..(Len(Q) + 1), NEW d, d = ts_wait_q'[i].client
        PROVE  /\ client'[d] = "sleep" /\ request[d].cmd = "DELAY"
               /\ slept[d] + ts_wait_q'[i].delay = request[d].ticks % IntMod
    <3>1. CASE i = Len(Q) + 1
      BY <1>2, <1>4, <1>6, <2>3, <2>4, <3>1
    <3>2. CASE i \in 1..Len(Q)
      <4>1. d = Q[i].client /\ d \in Client /\ d # c /\ ts_wait_q'[i].delay = Q[i].delay
        BY <1>5, <1>6, <1>7, <2>4, <3>2
      <4>2. /\ client[d] = "sleep" /\ request[d].cmd = "DELAY"
            /\ slept[d] + Q[i].delay = request[d].ticks % IntMod
        BY <1>1, <3>2, <4>1 DEF Timers
      <4> QED
        BY <1>1, <1>2, <4>1, <4>2 DEF TypeOK
    <3> QED
      BY <1>8, <3>1, <3>2
  <2>5. ASSUME NEW d \in Client, slept[d] # 0 PROVE Timed(d)'
    <3>1. PICK i \in 1..Len(Q) : Q[i].client = d
      BY <1>1, <2>5 DEF Timers, Timed
    <3>2. i \in 1..(Len(Q) + 1) /\ ts_wait_q'[i].client = d
      BY <1>5, <1>6, <3>1
    <3> QED
      BY <1>6, <3>2 DEF Timed
  <2> QED
    BY <1>2, <1>6, <2>1, <2>4, <2>5 DEF Timers
<1>12. Clock'
  BY <1>1, <1>2 DEF Clock, Seconds
<1> QED
  BY <1>2, <1>9, <1>10, <1>11, <1>12 DEF TInv

(* A tick moves the clock by one. *)
LEMMA TickClock ==
  ASSUME TInv, ServeTick
  PROVE  /\ Clock' /\ elapsed' # elapsed /\ elapsed' \in 0..(Day - 1)
         /\ ticks' \in 0..(TicksPerSec - 1) /\ uptime' \in Time /\ globtime' \in Time
<1> DEFINE T == TicksPerSec
           S == Seconds(uptime)
           K == DaySeconds
<1>1. /\ T \in Nat /\ T > 1 /\ K \in Nat \ {0} /\ Day = T * K /\ Day \in Nat /\ Day > 1
  BY DayFacts
<1>2. /\ ticks \in 0..(T - 1) /\ elapsed \in 0..(Day - 1) /\ elapsed = ticks + T * S
      /\ uptime \in Time /\ globtime \in Time
  BY DEF TInv, TypeOK, Clock
<1>3. /\ ticks' = (ticks + 1) % T /\ elapsed' = (elapsed + 1) % Day
      /\ uptime' = IF ticks' = 0 THEN step_timer(uptime) ELSE uptime
      /\ globtime' = IF ticks' = 0 THEN step_timer(globtime) ELSE globtime
  BY DEF ServeTick
<1>4. /\ step_timer(uptime) \in Time /\ step_timer(globtime) \in Time /\ S \in 0..(K - 1)
      /\ Seconds(step_timer(uptime)) = IF S + 1 = K THEN 0 ELSE S + 1
  BY <1>2, StepTimer
<1>5. ticks' = IF ticks + 1 = T THEN 0 ELSE ticks + 1
  BY <1>1, <1>2, <1>3, WrapUp
<1>6. elapsed' = IF elapsed + 1 = Day THEN 0 ELSE elapsed + 1
  BY <1>1, <1>2, <1>3, WrapUp
<1>7. Seconds(uptime)' = Seconds(uptime')
  BY DEF Seconds
<1> HIDE DEF S, K, T
<1>8. /\ ticks + 1 # T => ticks + 1 + T * S # T * K
      /\ ticks + 1 = T => ticks + 1 + T * S = T * (S + 1)
      /\ T * (S + 1) = T * K <=> S + 1 = K
      /\ T * 0 = 0 /\ T * S \in Int /\ T * (S + 1) \in Int
  BY <1>1, <1>2, <1>4, Radix
<1>9. elapsed + 1 = ticks + 1 + T * S
  BY <1>2, <1>8
<1>10. CASE ticks + 1 # T
  <2>1. ticks' = ticks + 1 /\ uptime' = uptime /\ elapsed' = elapsed + 1
    BY <1>1, <1>2, <1>3, <1>5, <1>6, <1>8, <1>9, <1>10
  <2>2. elapsed' = ticks' + T * S
    BY <1>9, <2>1
  <2> QED
    BY <1>1, <1>2, <1>3, <1>4, <1>5, <1>6, <1>7, <1>10, <2>1, <2>2 DEF Clock, S, T
<1>11. CASE ticks + 1 = T
  <2>1. ticks' = 0 /\ uptime' = step_timer(uptime) /\ elapsed + 1 = T * (S + 1)
    BY <1>3, <1>5, <1>8, <1>9, <1>11
  <2>2. elapsed' = 0 + T * Seconds(uptime')
    <3>1. CASE S + 1 = K
      BY <1>1, <1>4, <1>6, <1>8, <2>1, <3>1
    <3>2. CASE S + 1 # K
      BY <1>1, <1>4, <1>6, <1>8, <2>1, <3>2
    <3> QED
      BY <3>1, <3>2
  <2>3. Clock'
    BY <1>7, <2>1, <2>2 DEF Clock, T
  <2> QED
    BY <1>1, <1>2, <1>3, <1>4, <1>6, <2>1, <2>3 DEF T
<1> QED
  BY <1>10, <1>11

(* TS_TICK: the clock, then every timer. *)
LEMMA TickInv ==
  ASSUME TInv, ServeTick
  PROVE  /\ TInv' /\ elapsed' # elapsed
         /\ \A c \in Client : Timed(c) =>
              (client'[c] = "run" <=> (slept[c] + 1) % IntMod = request[c].ticks % IntMod)
<1> DEFINE Q == ts_wait_q
           R == ts_wait_q'
           E == Expired(managedelay(Q))
<1>1. TypeOK /\ Timers
  BY DEF TInv
<1>2. /\ tickd' = "wait" /\ tov' = tov /\ R = Remaining(managedelay(Q))
      /\ client' = [c \in Client |-> IF c \in E THEN "run" ELSE client[c]]
      /\ slept' = [c \in Client |-> IF Timed(c) /\ c \notin E
                                   THEN (slept[c] + 1) % IntMod ELSE 0]
      /\ request' = [c \in Client |-> IF c \in E THEN Idle ELSE request[c]]
  BY DEF ServeTick
<1>3. /\ R \in Seq(Timer)
      /\ \A k \in 1..Len(R) : \E i \in 1..Len(Q) :
           /\ R[k].client = Q[i].client /\ Q[i].delay # 1
           /\ R[k].delay = Q[i].delay - 1
      /\ \A k, l \in 1..Len(R) : R[k].client = R[l].client => k = l
      /\ \A i \in 1..Len(Q) : Q[i].delay # 1 => \E k \in 1..Len(R) : R[k].client = Q[i].client
      /\ E = {c \in Client : \E i \in 1..Len(Q) : Q[i].client = c /\ Q[i].delay = 1}
  BY <1>2, TickQueue
<1>4. E \subseteq Client /\ \A i \in 1..Len(Q) : Q[i].client \in E <=> Q[i].delay = 1
  <2>1. \A i \in 1..Len(Q) : Q[i] \in Timer
    BY <1>1 DEF TypeOK
  <2>2. \A i \in 1..Len(Q) : Q[i].client \in Client
    BY <2>1 DEF Timer
  <2>3. \A i, j \in 1..Len(Q) : Q[i].client = Q[j].client => i = j
    BY <1>1 DEF Timers
  <2> QED
    BY <1>3, <2>2, <2>3
<1> HIDE DEF E
<1>5. /\ client' \in [Client -> {"run", "ask", "sleep"}] /\ request' \in [Client -> Request]
      /\ \A c \in Client : c \in E => client'[c] = "run"
      /\ \A c \in Client : c \notin E => client'[c] = client[c] /\ request'[c] = request[c]
  <2>1. Idle \in Request
    BY DEF Idle, Request
  <2> QED
    BY <1>1, <1>2, <2>1 DEF TypeOK
<1>6. ASSUME NEW i \in 1..Len(Q), NEW c \in Client, c = Q[i].client
      PROVE  /\ client[c] = "sleep" /\ request[c].cmd = "DELAY" /\ Timed(c)
             /\ slept[c] \in Nat /\ Q[i].delay \in 1..(IntMod - 1)
             /\ slept[c] + Q[i].delay = request[c].ticks % IntMod
             /\ request[c].ticks % IntMod \in 0..(IntMod - 1)
             /\ (slept[c] + 1) % IntMod = slept[c] + 1
  <2>1. /\ client[c] = "sleep" /\ request[c].cmd = "DELAY"
        /\ slept[c] + Q[i].delay = request[c].ticks % IntMod
    BY <1>1, <1>6 DEF Timers
  <2>2. request[c] \in Request /\ slept[c] \in 0..(IntMod - 1) /\ Q[i] \in Timer
    BY <1>1 DEF TypeOK
  <2>3. request[c].ticks \in DelayChoice
    BY <2>1, <2>2 DEF Request
  <2>4. request[c].ticks % IntMod \in 0..(IntMod - 1)
    <3>1. ASSUME NEW m \in Nat \ {0}, NEW n \in Int PROVE n % m \in 0..(m - 1)
      OBVIOUS
    <3>2. request[c].ticks \in Int
      <4>1. DelayChoice \subseteq Int
        BY TimeAssumption
      <4> QED
        BY <2>3, <4>1
    <3> QED
      BY <3>1, <3>2, DayFacts
  <2>5. Q[i].delay \in 1..(IntMod - 1)
    BY <2>2 DEF Timer
  <2>6. (slept[c] + 1) % IntMod = slept[c] + 1
    <3> DEFINE a == slept[c]
               d == Q[i].delay
               g == request[c].ticks % IntMod
    <3>1. a \in 0..(IntMod - 1) /\ d \in 1..(IntMod - 1) /\ g \in 0..(IntMod - 1) /\ a + d = g
      BY <2>1, <2>2, <2>4, <2>5
    <3> HIDE DEF a, d, g
    <3>2. a + 1 # IntMod
      BY <3>1, DayFacts
    <3>3. (a + 1) % IntMod = IF a + 1 = IntMod THEN 0 ELSE a + 1
      BY <3>1, DayFacts, WrapUp
    <3> QED
      BY <3>2, <3>3 DEF a
  <2> QED
    BY <1>6, <2>1, <2>2, <2>4, <2>5, <2>6 DEF Timed
<1>7. slept' \in [Client -> 0..(IntMod - 1)]
  <2>1. \A c \in Client : (slept[c] + 1) % IntMod \in 0..(IntMod - 1)
    <3>1. \A c \in Client : slept[c] \in 0..(IntMod - 1)
      BY <1>1 DEF TypeOK
    <3>2. \A m \in Nat \ {0} : \A a \in 0..(m - 1) : (a + 1) % m \in 0..(m - 1)
      OBVIOUS
    <3> QED
      BY <3>1, <3>2, DayFacts
  <2> QED
    BY <1>2, <2>1, DayFacts
<1>8. TypeOK'
  BY <1>1, <1>2, <1>3, <1>5, <1>7, TickClock DEF TypeOK
<1>9. ASSUME NEW k \in 1..Len(R), NEW c, c = R[k].client
      PROVE  /\ client'[c] = "sleep" /\ request'[c].cmd = "DELAY"
             /\ slept'[c] + R[k].delay = request'[c].ticks % IntMod
  <2>1. PICK i \in 1..Len(Q) : /\ c = Q[i].client /\ Q[i].delay # 1
                               /\ R[k].delay = Q[i].delay - 1
    BY <1>3, <1>9
  <2>2. c \in Client /\ c \notin E
    <3>1. R[k] \in Timer
      BY <1>3
    <3> QED
      BY <1>4, <1>9, <2>1, <3>1 DEF Timer
  <2>3. /\ client[c] = "sleep" /\ request[c].cmd = "DELAY" /\ Timed(c)
        /\ slept[c] \in Nat /\ Q[i].delay \in 1..(IntMod - 1)
        /\ slept[c] + Q[i].delay = request[c].ticks % IntMod
        /\ (slept[c] + 1) % IntMod = slept[c] + 1
    BY <1>6, <2>1, <2>2
  <2>4. slept'[c] = slept[c] + 1
    BY <1>2, <2>2, <2>3
  <2>5. (slept[c] + 1) + (Q[i].delay - 1) = slept[c] + Q[i].delay
    <3> DEFINE a == slept[c]
               d == Q[i].delay
    <3>1. a \in Nat /\ d \in Nat
      BY <2>3, DayFacts
    <3> HIDE DEF a, d
    <3>2. (a + 1) + (d - 1) = a + d
      BY <3>1
    <3> QED
      BY <3>2 DEF a, d
  <2> QED
    BY <1>5, <2>1, <2>2, <2>3, <2>4, <2>5
<1>10. ASSUME NEW c \in Client, ~Timed(c)' PROVE slept'[c] = 0
  <2> SUFFICES ASSUME Timed(c), c \notin E PROVE FALSE
    BY <1>2
  <2>1. PICK i \in 1..Len(Q) : Q[i].client = c
    BY DEF Timed
  <2>2. PICK k \in 1..Len(R) : R[k].client = c
    BY <1>3, <1>4, <2>1
  <2> QED
    BY <1>10, <2>2 DEF Timed
<1>11. Timers'
  BY <1>3, <1>9, <1>10 DEF Timers
<1>12. ASSUME NEW c \in Client, Timed(c)
       PROVE  client'[c] = "run" <=> (slept[c] + 1) % IntMod = request[c].ticks % IntMod
  <2>1. PICK i \in 1..Len(Q) : c = Q[i].client
    BY <1>12 DEF Timed
  <2>2. /\ client[c] = "sleep" /\ slept[c] \in Nat /\ Q[i].delay \in 1..(IntMod - 1)
        /\ slept[c] + Q[i].delay = request[c].ticks % IntMod
        /\ (slept[c] + 1) % IntMod = slept[c] + 1
    BY <1>6, <2>1
  <2>3. client'[c] = "run" <=> Q[i].delay = 1
    BY <1>4, <1>5, <2>1, <2>2
  <2> DEFINE a == slept[c]
             d == Q[i].delay
             g == request[c].ticks % IntMod
  <2>4. a \in Nat /\ d \in Nat /\ a + d = g /\ (a + 1) % IntMod = a + 1
    BY <2>2, DayFacts
  <2> HIDE DEF a, d, g
  <2>5. (a + 1) % IntMod = g <=> d = 1
    BY <2>4
  <2> QED
    BY <2>3, <2>5 DEF a, d, g
<1> QED
  BY <1>8, <1>11, <1>12, TickClock DEF TInv

(* Every step keeps the invariant. *)
LEMMA TSNext ==
  ASSUME TInv, [Next]_vars
  PROVE  TInv'
<1>1. CASE ServeTick
  BY <1>1, TickInv
<1>2. CASE \E c \in Client : ServeDelay(c) /\ ts_wait_q' # ts_wait_q
  BY <1>2, DelayInv
<1>3. CASE \/ Overflow \/ TickEvent
           \/ \E c \in Client : \/ ServeGet(c) \/ ServeSet(c) \/ \E r \in Request : Call(c, r)
                                \/ ServeDelay(c) /\ ts_wait_q' = ts_wait_q
  BY <1>3, QuietInv
<1>4. CASE UNCHANGED vars
  BY <1>4 DEF vars, TInv, TypeOK, Clock, Timers, Timed, Seconds
<1> QED
  BY <1>1, <1>2, <1>3, <1>4 DEF Next

(* The time server's inductive invariant, for any number of clients, any   *)
(* radix of the clock and any width of an int.                             *)
THEOREM TSInvariant == Spec => []TInv
<1>1. TInv /\ [Next]_vars => TInv'
  BY TSNext
<1> QED
  BY <1>1, TSInit, PTL DEF Spec

(* uptime and ticks read the number of ticks since boot, modulo a day      *)
(* (ts.c:102-111, 151-155).                                                *)
THEOREM UptimeAlwaysExact == Spec => []UptimeExact
<1>1. TInv => UptimeExact
  BY DEF TInv, Clock, Seconds, UptimeExact
<1> QED
  BY <1>1, TSInvariant, PTL

(* A delay ends at the tick it asked for, neither earlier nor later        *)
(* (ts.c:51-76, 142-147, 157).                                             *)
THEOREM DelayAlwaysExact == Spec => DelayExact
<1> DEFINE A == \A c \in Client : Timed(c) =>
                  (client'[c] = "run" <=>
                     /\ elapsed' # elapsed
                     /\ (slept[c] + 1) % IntMod = request[c].ticks % IntMod)
<1>1. TInv /\ [Next]_vars => [A]_vars
  <2> SUFFICES ASSUME TInv, Next PROVE A
    OBVIOUS
  <2>1. CASE ServeTick
    BY <2>1, TickInv
  <2>2. CASE ~ServeTick
    <3>1. Undisturbed /\ elapsed' = elapsed
      BY <2>2, DelayInv, QuietInv DEF Next
    <3>2. \A c \in Client : Timed(c) => client[c] = "sleep"
      BY DEF TInv, Timers, Timed
    <3> QED
      BY <3>1, <3>2 DEF Undisturbed
  <2> QED
    BY <2>1, <2>2
<1> QED
  BY <1>1, TSInvariant, PTL DEF Spec, DelayExact
=============================================================================

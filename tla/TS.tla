--------------------------------- MODULE TS ---------------------------------
(***************************************************************************)
(* servers/ts.c: the time server.  tickd waits for the overflow of timer 1 *)
(* and sends a TS_TICK to ts, which keeps the clocks and the clients that  *)
(* called delay().                                                         *)
(*                                                                         *)
(* ts runs with interrupts off and at the highest priority, and whomever   *)
(* it answers is blocked in sendrec() to it, so handling a message is one  *)
(* action.  tickd runs with interrupts off too: from waitevent() to its    *)
(* sendrec() it is one action, and it is back in waitevent(), with the     *)
(* interrupt enabled, before any other interrupt is taken.                 *)
(***************************************************************************)
EXTENDS SeqOps

CONSTANTS Client,
          TicksPerSec, SecMax, MinMax, HourMax,   \* 30, 60, 60, 24
          IntMod,         \* 2^16, the values of an int
          DelayChoice,    \* arguments given to delay()
          TimeChoice      \* arguments given to settime()

Time == [sec : 0..(SecMax - 1), min : 0..(MinMax - 1), hour : 0..(HourMax - 1)]
Midnight == [sec |-> 0, min |-> 0, hour |-> 0]

\* A delay is an int: no multiple of 2^16 but 0.
ASSUME TimeAssumption ==
  /\ {TicksPerSec, SecMax, MinMax, HourMax, IntMod} \subseteq Nat \ {0}
  /\ TicksPerSec # 1
  /\ DelayChoice \subseteq (1 - IntMod)..(IntMod - 1)
  /\ TimeChoice \subseteq Time

VARIABLES tov,         \* TOV1: an overflow nobody has taken yet
          tickd,       \* "wait": in waitevent(); "tick": in sendrec()
          ticks, uptime, globtime, ts_wait_q,     \* the locals of ts()
          client,      \* what each client does: "run", "ask" or "sleep"
          request,     \* its message while it asks or sleeps, else Idle
          elapsed,     \* TS_TICKs served since boot, modulo a day
          slept        \* TS_TICKs served since a client's delay() was taken

vars == <<tov, tickd, ticks, uptime, globtime, ts_wait_q, client, request,
          elapsed, slept>>

clocks == <<ticks, uptime, globtime, elapsed>>

Request == [cmd : {"DELAY"}, ticks : DelayChoice]
           \cup [cmd : {"GET"}] \cup [cmd : {"SET"}, time : TimeChoice]

Idle == [cmd |-> "GET"]

\* tswait_t.
Timer == [client : Client, delay : 1..(IntMod - 1)]

Day == TicksPerSec * SecMax * MinMax * HourMax

Init ==
  /\ tov = FALSE
  /\ tickd = "wait"
  /\ ticks = 0 /\ uptime = Midnight /\ globtime = Midnight
  /\ ts_wait_q = <<>>
  /\ client = [c \in Client |-> "run"]
  /\ request = [c \in Client |-> Idle]
  /\ elapsed = 0
  /\ slept = [c \in Client |-> 0]

-----------------------------------------------------------------------------
\* Mutation: the seconds restart from 1.
step_timer_from_one(t) ==
  IF t.sec + 1 # SecMax THEN [t EXCEPT !.sec = @ + 1]
  ELSE IF t.min + 1 # MinMax THEN [sec |-> 1, min |-> t.min + 1, hour |-> t.hour]
  ELSE IF t.hour + 1 # HourMax THEN [sec |-> 1, min |-> 0, hour |-> t.hour + 1]
  ELSE Midnight

step_timer(t) ==
  IF t.sec + 1 # SecMax THEN [t EXCEPT !.sec = @ + 1]
  ELSE IF t.min + 1 # MinMax THEN [sec |-> 0, min |-> t.min + 1, hour |-> t.hour]
  ELSE IF t.hour + 1 # HourMax THEN [sec |-> 0, min |-> 0, hour |-> t.hour + 1]
  ELSE Midnight

\* ts_managedelay() on one timer: an int that wraps.
CountDown(w) == [w EXCEPT !.delay = (@ - 1) % IntMod]

\* Mutation: the timer behind one that has expired is passed over.
managedelay_skips(q) ==
  [i \in 1..Len(q) |-> IF i > 1 /\ CountDown(q[i - 1]).delay = 0 THEN q[i]
                       ELSE CountDown(q[i])]

\* q_forall(&ts_wait_q, ts_managedelay): every timer counts down, the ones
\* that reach 0 are removed on the way.
managedelay(q) == [i \in 1..Len(q) |-> CountDown(q[i])]

Remaining(q) == Pick(q, {i \in 1..Len(q) : q[i].delay # 0})
Expired(q) == {q[i].client : i \in {j \in 1..Len(q) : q[j].delay = 0}}
Timed(c) == \E i \in 1..Len(ts_wait_q) : ts_wait_q[i].client = c

-----------------------------------------------------------------------------
\* The timer overflows; a second overflow before the first is taken is lost.
Overflow ==
  /\ ~tov
  /\ tov' = TRUE
  /\ UNCHANGED <<tickd, clocks, ts_wait_q, client, request, slept>>

\* Mutation: tickd goes back to waitevent() without sending.
TickEvent_silent ==
  /\ tov /\ tickd = "wait"
  /\ tov' = FALSE
  /\ UNCHANGED <<tickd, clocks, ts_wait_q, client, request, slept>>

\* The interrupt wakes tickd, which clears TOV1 and sends TS_TICK.
TickEvent ==
  /\ tov /\ tickd = "wait"
  /\ tov' = FALSE
  /\ tickd' = "tick"
  /\ UNCHANGED <<clocks, ts_wait_q, client, request, slept>>

\* delay(), getuptime(), gettime(), settime(): the request is sent.
Call(c, r) ==
  /\ client[c] = "run"
  /\ client' = [client EXCEPT ![c] = "ask"]
  /\ request' = [request EXCEPT ![c] = r]
  /\ UNCHANGED <<tov, tickd, clocks, ts_wait_q, slept>>

\* TS_TICK: the clocks, then the delays; tickd is answered and waits again.
ServeTick ==
  LET q == managedelay(ts_wait_q)
  IN /\ tickd = "tick"
     /\ ticks' = (ticks + 1) % TicksPerSec
     /\ uptime' = IF ticks' = 0 THEN step_timer(uptime) ELSE uptime
     /\ globtime' = IF ticks' = 0 THEN step_timer(globtime) ELSE globtime
     /\ elapsed' = (elapsed + 1) % Day
     /\ ts_wait_q' = Remaining(q)
     /\ client' = [c \in Client |-> IF c \in Expired(q) THEN "run" ELSE client[c]]
     /\ slept' = [c \in Client |-> IF Timed(c) /\ c \notin Expired(q)
                                  THEN (slept[c] + 1) % IntMod ELSE 0]
     /\ request' = [c \in Client |-> IF c \in Expired(q) THEN Idle ELSE request[c]]
     /\ tickd' = "wait"
     /\ UNCHANGED tov

\* send(client, &msg).
Answer(c) ==
  /\ client' = [client EXCEPT ![c] = "run"]
  /\ request' = [request EXCEPT ![c] = Idle]

\* TS_DELAY of no ticks is answered at once; else addtswait(), which may find
\* no memory, and then nobody will answer the client.
ServeDelay(c) ==
  LET n == request[c].ticks
  IN /\ client[c] = "ask" /\ request[c].cmd = "DELAY"
     /\ \/ /\ n = 0
           /\ Answer(c)
           /\ UNCHANGED ts_wait_q
        \/ /\ n # 0
           /\ client' = [client EXCEPT ![c] = "sleep"]
           /\ ts_wait_q' \in {Append(ts_wait_q, [client |-> c, delay |-> n % IntMod]),
                              ts_wait_q}
           /\ UNCHANGED request
     /\ UNCHANGED <<tov, tickd, clocks, slept>>

\* TS_GET_UPTIME and TS_GET_GLOBTIME.
ServeGet(c) ==
  /\ client[c] = "ask" /\ request[c].cmd = "GET"
  /\ Answer(c)
  /\ UNCHANGED <<tov, tickd, clocks, ts_wait_q, slept>>

\* TS_SET_GLOBTIME.
ServeSet(c) ==
  /\ client[c] = "ask" /\ request[c].cmd = "SET"
  /\ Answer(c)
  /\ globtime' = request[c].time
  /\ UNCHANGED <<tov, tickd, ticks, uptime, elapsed, ts_wait_q, slept>>

Next ==
  \/ Overflow \/ TickEvent \/ ServeTick
  \/ \E c \in Client : \/ ServeDelay(c) \/ ServeGet(c) \/ ServeSet(c)
                       \/ \E r \in Request : Call(c, r)

\* The timer runs, and tickd and ts have the highest priority.
Fairness == WF_vars(Overflow) /\ WF_vars(TickEvent) /\ WF_vars(ServeTick)

Spec == Init /\ [][Next]_vars /\ Fairness

-----------------------------------------------------------------------------
(* Types of the server's variables; the clocks are times of day.           *)
TypeOK ==
  /\ tov \in BOOLEAN
  /\ tickd \in {"wait", "tick"}
  /\ ticks \in 0..(TicksPerSec - 1)
  /\ uptime \in Time /\ globtime \in Time
  /\ ts_wait_q \in Seq(Timer)
  /\ client \in [Client -> {"run", "ask", "sleep"}]
  /\ request \in [Client -> Request]
  /\ elapsed \in 0..(Day - 1)
  /\ slept \in [Client -> 0..(IntMod - 1)]

(* uptime and ticks are the number of ticks since boot, across every       *)
(* carry of step_timer() and whatever settime() and delay() do between.    *)
UptimeExact ==
  /\ TypeOK
  /\ elapsed = ticks + TicksPerSec * (uptime.sec + SecMax * (uptime.min + MinMax * uptime.hour))

(* delay(n) ends at the n-th tick after it was taken, neither earlier nor  *)
(* later, whichever timers expire in the same tick and are removed from    *)
(* the queue while it is scanned.  A negative n counts through the whole   *)
(* range of an int: n modulo 2^16 ticks.                                   *)
DelayExact ==
  [][\A c \in Client : Timed(c) =>
       (client'[c] = "run" <=> /\ elapsed' # elapsed
                               /\ (slept[c] + 1) % IntMod = request[c].ticks % IntMod)]_vars

(* A client on ts_wait_q is let go some day, as long as the timer runs.    *)
DelayEnds == \A c \in Client : Timed(c) ~> client[c] = "run"
=============================================================================

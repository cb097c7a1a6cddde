-------------------------------- MODULE Sema --------------------------------
(***************************************************************************)
(* servers/sema.c: the semaphore server (written, and left out of the      *)
(* build: README.md calls it unused).                                      *)
(*                                                                         *)
(* semasrv() handles one message at a time, and whomever it answers is     *)
(* blocked in sendrec() to it, so handling a message is one action.  Its   *)
(* heap holds as many sema_t as there are addresses in Sema, and          *)
(* MaxWaiting client_t.  Requests are received in any order.  Callers keep *)
(* one rule: deletesema() does not race another call on the same semaphore *)
(* that is still on its way, for the server would use freed memory.        *)
(***************************************************************************)
EXTENDS Integers, Sequences, SequencesExt, FiniteSetsExt

CONSTANTS Client,
          Sema,         \* addresses of semaphores
          NULL,
          MaxWaiting,   \* bound: client_t the heap has room for
          MaxValue,     \* bound: values of a semaphore; the code adds to an
                        \* unsigned int without a test
          InitVal       \* arguments of createsema()

\* A sema_t on the heap.
Semaphore == [value : 0..MaxValue, client_q : Seq(Client)]

ASSUME SemaAssumption ==
  /\ NULL \notin Sema \cup Client \cup Semaphore
  /\ {MaxWaiting, MaxValue} \subseteq Nat /\ InitVal \subseteq 0..MaxValue

Cmd == {"CREATE", "DELETE", "WAIT", "SIGNAL", "GET"}

VARIABLES sema,      \* sema_q: each semaphore's value and client_q, or NULL
          client,    \* "run", "ask": sending, "wait": in sendrec() for the answer
          request,   \* its message until it runs again, else Nothing
          credit     \* history: the first value, and the signals, less those let in

SemaVars == <<sema, client, request, credit>>

Nothing == [cmd |-> "GET", sema |-> NULL, val |-> 0]

SemaInit ==
  /\ sema = [s \in Sema |-> NULL]
  /\ client = [c \in Client |-> "run"]
  /\ request = [c \in Client |-> Nothing]
  /\ credit = [s \in Sema |-> 0]

-----------------------------------------------------------------------------
Live == {s \in Sema : sema[s] # NULL}

\* kmalloc() finds room for a client_t.
kmalloc == FoldSet(LAMBDA s, n : n + Len(sema[s].client_q), 0, Live) < MaxWaiting

\* newsema() of value val.
newsema(val) == [value |-> val, client_q |-> <<>>]

\* Mutation: the last unit can be taken again and again.
decreasesema_keeps(sm) == [sm EXCEPT !.value = IF @ > 1 THEN @ - 1 ELSE @]

\* decreasesema().
decreasesema(sm) == [sm EXCEPT !.value = IF @ # 0 THEN @ - 1 ELSE @]

\* increasesema().
increasesema(sm) == [sm EXCEPT !.value = @ + 1]

\* Mutation: who comes last is first.
addclient_front(sm, c) == [sm EXCEPT !.client_q = Cons(c, @)]

\* addclient() of a semaphore there is, with memory.
addclient(sm, c) == [sm EXCEPT !.client_q = Append(@, c)]

\* Mutation: nobody is seen waiting.
waiter_none(s) == NULL

\* waiter(): the first client waiting, or NULL.
waiter(s) == IF s = NULL THEN NULL
             ELSE IF sema[s].client_q = <<>> THEN NULL ELSE Head(sema[s].client_q)

\* removeclient() of the first one waiting.
removeclient(sm) == [sm EXCEPT !.client_q = Tail(@)]

-----------------------------------------------------------------------------
\* No other call on s is on its way, and cmd does not delete it, or else.
MayAsk(s, cmd) ==
  \A d \in Client : client[d] = "ask" /\ request[d].sema = s /\ s # NULL
                      => "DELETE" \notin {cmd, request[d].cmd}

\* createsema(), deletesema(), waitsema(), signalsema(), getsema(): the
\* message is sent.
Ask(c, cmd, s, val) ==
  /\ client[c] = "run"
  /\ s \in Live \cup {NULL} /\ MayAsk(s, cmd)
  /\ cmd = "CREATE" => s = NULL
  /\ cmd # "CREATE" => val = 0
  /\ client' = [client EXCEPT ![c] = "ask"]
  /\ request' = [request EXCEPT ![c] = [cmd |-> cmd, sema |-> s, val |-> val]]
  /\ UNCHANGED <<sema, credit>>

\* The server receives the message of c.
Served(c, cmd) == client[c] = "ask" /\ request[c].cmd = cmd

\* All of C go on.
Go(C) ==
  /\ client' = [d \in Client |-> IF d \in C THEN "run" ELSE client[d]]
  /\ request' = [d \in Client |-> IF d \in C THEN Nothing ELSE request[d]]

\* c is not answered.
Stays(c) == client' = [client EXCEPT ![c] = "wait"] /\ UNCHANGED request

\* SEMA_CREATE.
ServeCreate(c) ==
  /\ Served(c, "CREATE")
  /\ IF Live # Sema
     THEN \E s \in Sema \ Live :
            /\ sema' = [sema EXCEPT ![s] = newsema(request[c].val)]
            /\ credit' = [credit EXCEPT ![s] = request[c].val]
     ELSE UNCHANGED <<sema, credit>>
  /\ Go({c})

\* SEMA_DELETE: with a waiter there is no answer.
ServeDelete(c) ==
  LET s == request[c].sema
  IN /\ Served(c, "DELETE")
     /\ IF waiter(s) # NULL THEN Stays(c) /\ UNCHANGED <<sema, credit>>
        ELSE /\ sema' = IF s = NULL THEN sema ELSE [sema EXCEPT ![s] = NULL]
             /\ credit' = IF s = NULL THEN credit ELSE [credit EXCEPT ![s] = 0]
             /\ Go({c})

\* SEMA_WAIT of no semaphore: no answer ever.
ServeWaitNull(c) ==
  /\ Served(c, "WAIT") /\ request[c].sema = NULL
  /\ Stays(c) /\ UNCHANGED <<sema, credit>>

\* SEMA_WAIT: without memory the client waits, and is on no queue.
ServeWait(c) ==
  LET s == request[c].sema
  IN /\ Served(c, "WAIT") /\ s # NULL
     /\ IF sema[s].value # 0
        THEN /\ Go({c})
             /\ sema' = [sema EXCEPT ![s] = decreasesema(@)]
             /\ credit' = [credit EXCEPT ![s] = @ - 1]
        ELSE /\ Stays(c)
             /\ sema' = [sema EXCEPT ![s] =
                  IF kmalloc THEN addclient(decreasesema(@), c) ELSE decreasesema(@)]
             /\ UNCHANGED credit

\* SEMA_SIGNAL: the first client waiting goes on, or the value grows.  The
\* signaller is not answered, it goes on when the message is received.
ServeSignal(c) ==
  LET s == request[c].sema
      w == waiter(s)
  IN /\ Served(c, "SIGNAL")
     /\ IF s = NULL THEN Go({c}) /\ UNCHANGED <<sema, credit>>
        ELSE IF w # NULL
        THEN /\ sema' = [sema EXCEPT ![s] = removeclient(@)]
             /\ Go({c, w})
             /\ UNCHANGED credit
        ELSE /\ sema[s].value < MaxValue
             /\ sema' = [sema EXCEPT ![s] = increasesema(@)]
             /\ credit' = [credit EXCEPT ![s] = @ + 1]
             /\ Go({c})

\* SEMA_GET: getvalue().
ServeGet(c) == Served(c, "GET") /\ Go({c}) /\ UNCHANGED <<sema, credit>>

Serve(c) ==
  \/ ServeCreate(c) \/ ServeDelete(c) \/ ServeWait(c) \/ ServeWaitNull(c)
  \/ ServeSignal(c) \/ ServeGet(c)

SemaNext ==
  \E c \in Client :
    \/ Serve(c)
    \/ \E cmd \in Cmd, s \in Sema \cup {NULL}, v \in InitVal : Ask(c, cmd, s, v)

\* The server goes on as long as there are messages.
Fairness == \A c \in Client : WF_SemaVars(Serve(c))

SemaSpec == SemaInit /\ [][SemaNext]_SemaVars /\ Fairness

-----------------------------------------------------------------------------
(* Types of the semaphores and the messages; a value is never negative.    *)
SemaTypeOK ==
  /\ sema \in [Sema -> Semaphore \cup {NULL}]
  /\ credit \in [Sema -> 0..MaxValue]
  /\ client \in [Client -> {"run", "ask", "wait"}]
  /\ request \in [Client -> [cmd : Cmd, sema : Sema \cup {NULL}, val : 0..MaxValue]]

(* Over any sequence of calls, a semaphore lets in as many clients as its  *)
(* first value and its signals allow, and no more: its value is what is    *)
(* left of them.                                                           *)
Balance == SemaTypeOK /\ \A s \in Live : sema[s].value = credit[s]

(* Nobody waits at a semaphore that is open, whichever of wait and signal  *)
(* came first; who is on a queue is blocked, and there once.               *)
NoIdleWaiter ==
  \A s \in Live :
    LET q == sema[s].client_q
    IN /\ sema[s].value > 0 => q = <<>>
       /\ IsInjective(q)
       /\ \A c \in Range(q) : client[c] = "wait" /\ request[c].sema = s

SignalOn(s) == \E c \in Client : ServeSignal(c) /\ request[c].sema = s
WaitsAt(c, s) == s \in Live /\ c \in Range(sema[s].client_q)

(* A client on the queue of a semaphore that is signalled again and again  *)
(* gets in, however often the others come back for it.                     *)
NoStarvation ==
  \A c \in Client, s \in Sema :
    []<><<SignalOn(s)>>_SemaVars => (WaitsAt(c, s) ~> client[c] = "run")

(* sema.c:152, "SEMA_DELETE,  /* No reply needed */": who calls            *)
(* deletesema() goes on.                                                   *)
DeleteReturns ==
  \A c \in Client : (client[c] = "ask" /\ request[c].cmd = "DELETE") ~> client[c] = "run"
=============================================================================

--------------------------- MODULE ServerProofs ---------------------------
(***************************************************************************)
(* Proofs about two servers that share no state: the semaphore server      *)
(* (Sema), and the file server over the memory device (Files).             *)
(***************************************************************************)
EXTENDS Sema, Files, SeqLemmas

(***************************************************************************)
(* The semaphore server's invariants, for any number of clients and        *)
(* semaphores.                                                             *)
(*                                                                         *)
(* Neither Balance nor NoIdleWaiter is inductive: the server trusts the    *)
(* address in a message, so a message that is on its way must name a       *)
(* semaphore that is still there when it is received.  Addressed says so,  *)
(* and DeleteAlone is the callers' rule that makes it last.                *)
(***************************************************************************)

\* A message on its way names a semaphore there is, or none.
Addressed ==
  \A c \in Client : client[c] = "ask" =>
    /\ request[c].sema \in Live \cup {NULL}
    /\ request[c].cmd = "CREATE" => request[c].sema = NULL

\* A deletesema() on its way is the only call on its semaphore.
DeleteAlone ==
  \A c, d \in Client :
    /\ client[c] = "ask" /\ client[d] = "ask" /\ c # d
    /\ request[c].sema = request[d].sema /\ request[c].sema # NULL
    => request[c].cmd # "DELETE"

SemaInv == Balance /\ NoIdleWaiter /\ Addressed /\ DeleteAlone

-----------------------------------------------------------------------------
(* What each function of sema.c does to a sema_t. *)
LEMMA SemaphoreFacts ==
  ASSUME NEW sm \in Semaphore
  PROVE  /\ sm # NULL /\ sm.value \in 0..MaxValue /\ sm.client_q \in Seq(Client)
         /\ decreasesema(sm) \in Semaphore
         /\ decreasesema(sm).value = IF sm.value # 0 THEN sm.value - 1 ELSE 0
         /\ decreasesema(sm).client_q = sm.client_q
         /\ sm.value < MaxValue => increasesema(sm) \in Semaphore
         /\ increasesema(sm).value = sm.value + 1
         /\ increasesema(sm).client_q = sm.client_q
         /\ \A c \in Client : /\ addclient(sm, c) \in Semaphore
                              /\ addclient(sm, c).value = sm.value
                              /\ addclient(sm, c).client_q = Append(sm.client_q, c)
         /\ sm.client_q # <<>> => /\ removeclient(sm) \in Semaphore
                                  /\ removeclient(sm).value = sm.value
                                  /\ removeclient(sm).client_q = Tail(sm.client_q)
<1>1. sm # NULL /\ sm.value \in 0..MaxValue /\ sm.client_q \in Seq(Client)
  <2>1. sm # NULL
    BY SemaAssumption
  <2> QED
    BY <2>1 DEF Semaphore
<1>2. MaxValue \in Nat
  BY SemaAssumption
<1>3. ASSUME NEW v \in Int
      PROVE  /\ v \in 0..MaxValue => [sm EXCEPT !.value = v] \in Semaphore
             /\ [sm EXCEPT !.value = v].value = v
             /\ [sm EXCEPT !.value = v].client_q = sm.client_q
  BY <1>1 DEF Semaphore
<1>4. ASSUME NEW q \in Seq(Client)
      PROVE  /\ [sm EXCEPT !.client_q = q] \in Semaphore
             /\ [sm EXCEPT !.client_q = q].value = sm.value
             /\ [sm EXCEPT !.client_q = q].client_q = q
  BY <1>1 DEF Semaphore
<1>5. /\ decreasesema(sm) \in Semaphore
      /\ decreasesema(sm).value = IF sm.value # 0 THEN sm.value - 1 ELSE 0
      /\ decreasesema(sm).client_q = sm.client_q
  <2> DEFINE v == IF sm.value # 0 THEN sm.value - 1 ELSE sm.value
  <2>1. v \in 0..MaxValue /\ v = IF sm.value # 0 THEN sm.value - 1 ELSE 0
    BY <1>1, <1>2
  <2>2. decreasesema(sm) = [sm EXCEPT !.value = v]
    BY Zenon DEF decreasesema
  <2> HIDE DEF v
  <2> QED
    BY <1>2, <1>3, <2>1, <2>2
<1>6. /\ sm.value < MaxValue => increasesema(sm) \in Semaphore
      /\ increasesema(sm).value = sm.value + 1
      /\ increasesema(sm).client_q = sm.client_q
  <2>1. sm.value + 1 \in Int /\ (sm.value < MaxValue => sm.value + 1 \in 0..MaxValue)
    BY <1>1, <1>2
  <2> QED
    BY <1>3, <2>1 DEF increasesema
<1>7. ASSUME NEW c \in Client
      PROVE  /\ addclient(sm, c) \in Semaphore
             /\ addclient(sm, c).value = sm.value
             /\ addclient(sm, c).client_q = Append(sm.client_q, c)
  <2>1. Append(sm.client_q, c) \in Seq(Client)
    BY <1>1
  <2> QED
    BY <1>4, <2>1 DEF addclient
<1>8. ASSUME sm.client_q # <<>>
      PROVE  /\ removeclient(sm) \in Semaphore
             /\ removeclient(sm).value = sm.value
             /\ removeclient(sm).client_q = Tail(sm.client_q)
  <2>1. Tail(sm.client_q) \in Seq(Client)
    BY <1>1, <1>8
  <2> QED
    BY <1>4, <2>1 DEF removeclient
<1> QED
  BY <1>1, <1>5, <1>6, <1>7, <1>8

(* A new semaphore has the value asked for and an empty queue. *)
LEMMA NewSemaphore ==
  ASSUME NEW v \in 0..MaxValue
  PROVE  /\ newsema(v) \in Semaphore /\ newsema(v) # NULL
         /\ newsema(v).value = v /\ newsema(v).client_q = <<>>
<1>1. <<>> \in Seq(Client)
  OBVIOUS
<1>2. newsema(v) \in Semaphore /\ newsema(v).value = v /\ newsema(v).client_q = <<>>
  BY <1>1 DEF Semaphore, newsema
<1> QED
  BY <1>2, SemaAssumption

(* What SemaTypeOK says of the parts of a message. *)
LEMMA TypeFacts ==
  ASSUME SemaTypeOK
  PROVE  /\ sema \in [Sema -> Semaphore \cup {NULL}]
         /\ credit \in [Sema -> 0..MaxValue]
         /\ \A s \in Live : s \in Sema /\ sema[s] \in Semaphore
         /\ client \in [Client -> {"run", "ask", "wait"}]
         /\ request \in [Client -> [cmd : Cmd, sema : Sema \cup {NULL}, val : 0..MaxValue]]
         /\ \A c \in Client : /\ request[c].cmd \in Cmd
                              /\ request[c].sema \in Sema \cup {NULL}
                              /\ request[c].val \in 0..MaxValue
BY DEF SemaTypeOK, Live

(* Nothing is a message. *)
LEMMA NothingFacts ==
  /\ Nothing \in [cmd : Cmd, sema : Sema \cup {NULL}, val : 0..MaxValue]
BY SemaAssumption DEF Nothing, Cmd

(* The clients that go on keep no message; nothing changes for the others. *)
LEMMA GoFacts ==
  ASSUME SemaTypeOK, NEW C \in SUBSET Client, Go(C)
  PROVE  /\ client' \in [Client -> {"run", "ask", "wait"}]
         /\ request' \in [Client -> [cmd : Cmd, sema : Sema \cup {NULL}, val : 0..MaxValue]]
         /\ \A d \in C : client'[d] = "run"
         /\ \A d \in Client \ C : client'[d] = client[d] /\ request'[d] = request[d]
BY TypeFacts, NothingFacts DEF Go

(* A client that is not answered keeps its message. *)
LEMMA StaysFacts ==
  ASSUME SemaTypeOK, NEW c \in Client, Stays(c)
  PROVE  /\ client' \in [Client -> {"run", "ask", "wait"}] /\ request' = request
         /\ client'[c] = "wait"
         /\ \A d \in Client \ {c} : client'[d] = client[d]
BY TypeFacts DEF Stays

-----------------------------------------------------------------------------
(* A step that takes clients out of the server's hands and gives it no new *)
(* message keeps the callers' rule.                                        *)
LEMMA DeleteAloneKept ==
  ASSUME DeleteAlone, \A d \in Client : client'[d] = "ask" =>
                        client[d] = "ask" /\ request'[d] = request[d]
  PROVE  DeleteAlone'
BY DEF DeleteAlone

(* Calls of createsema() to getsema(). *)
LEMMA AskInv ==
  ASSUME SemaInv, NEW c \in Client, NEW cmd \in Cmd, NEW s \in Sema \cup {NULL},
         NEW v \in InitVal, Ask(c, cmd, s, v)
  PROVE  SemaInv'
<1> DEFINE r == [cmd |-> cmd, sema |-> s, val |-> v]
<1>1. SemaTypeOK
  BY DEF SemaInv, Balance
<1>2. r \in [cmd : Cmd, sema : Sema \cup {NULL}, val : 0..MaxValue]
  BY SemaAssumption
<1>3. /\ client[c] = "run" /\ sema' = sema /\ credit' = credit
      /\ client' = [client EXCEPT ![c] = "ask"] /\ request' = [request EXCEPT ![c] = r]
      /\ s \in Live \cup {NULL} /\ MayAsk(s, cmd) /\ (cmd = "CREATE" => s = NULL)
  BY DEF Ask
<1>4. /\ client' \in [Client -> {"run", "ask", "wait"}]
      /\ request' \in [Client -> [cmd : Cmd, sema : Sema \cup {NULL}, val : 0..MaxValue]]
      /\ client'[c] = "ask" /\ request'[c].cmd = cmd /\ request'[c].sema = s
      /\ \A d \in Client \ {c} : client'[d] = client[d] /\ request'[d] = request[d]
  BY <1>1, <1>2, <1>3, TypeFacts
<1> HIDE DEF r
<1>5. Live' = Live /\ SemaTypeOK'
  BY <1>1, <1>3, <1>4 DEF SemaTypeOK, Live
<1>6. Balance'
  BY <1>3, <1>5 DEF SemaInv, Balance
<1>7. NoIdleWaiter'
  <2> SUFFICES ASSUME NEW t \in Live
               PROVE  LET q == sema[t].client_q
                      IN /\ sema[t].value > 0 => q = <<>>
                         /\ IsInjective(q)
                         /\ \A d \in Range(q) : client'[d] = "wait" /\ request'[d].sema = t
    BY <1>3, <1>5 DEF NoIdleWaiter
  <2>1. Range(sema[t].client_q) \subseteq Client
    BY <1>1, TypeFacts, SemaphoreFacts DEF Range
  <2>2. c \notin Range(sema[t].client_q)
    BY <1>3 DEF SemaInv, NoIdleWaiter
  <2> QED
    BY <1>4, <2>1, <2>2 DEF SemaInv, NoIdleWaiter
<1>8. Addressed'
  BY <1>3, <1>4, <1>5 DEF SemaInv, Addressed
<1>9. DeleteAlone'
  BY <1>3, <1>4 DEF SemaInv, DeleteAlone, MayAsk
<1> QED
  BY <1>6, <1>7, <1>8, <1>9 DEF SemaInv

(* A message that is received and changes no semaphore. *)
LEMMA QuietInv ==
  ASSUME SemaInv, NEW c \in Client, client[c] = "ask", Go({c}) \/ Stays(c),
         UNCHANGED <<sema, credit>>
  PROVE  SemaInv'
<1>1. SemaTypeOK
  BY DEF SemaInv, Balance
<1>2. /\ client' \in [Client -> {"run", "ask", "wait"}]
      /\ request' \in [Client -> [cmd : Cmd, sema : Sema \cup {NULL}, val : 0..MaxValue]]
      /\ client'[c] # "ask"
      /\ \A d \in Client \ {c} : client'[d] = client[d] /\ request'[d] = request[d]
  BY <1>1, GoFacts, StaysFacts, TypeFacts
<1>3. Live' = Live /\ SemaTypeOK'
  BY <1>1, <1>2 DEF SemaTypeOK, Live
<1>4. Balance'
  BY <1>3 DEF SemaInv, Balance
<1>5. NoIdleWaiter'
  <2> SUFFICES ASSUME NEW t \in Live
               PROVE  LET q == sema[t].client_q
                      IN /\ sema[t].value > 0 => q = <<>>
                         /\ IsInjective(q)
                         /\ \A d \in Range(q) : client'[d] = "wait" /\ request'[d].sema = t
    BY <1>3 DEF NoIdleWaiter
  <2>1. Range(sema[t].client_q) \subseteq Client
    BY <1>1, TypeFacts, SemaphoreFacts DEF Range
  <2>2. c \notin Range(sema[t].client_q)
    BY DEF SemaInv, NoIdleWaiter
  <2> QED
    BY <1>2, <2>1, <2>2 DEF SemaInv, NoIdleWaiter
<1>6. Addressed'
  BY <1>2, <1>3 DEF SemaInv, Addressed
<1>7. DeleteAlone'
  BY <1>2, DeleteAloneKept DEF SemaInv
<1> QED
  BY <1>4, <1>5, <1>6, <1>7 DEF SemaInv

(* A step that leaves semaphore s as sm and takes no client off another    *)
(* queue: what has to be shown of sm and of the clients.                   *)
LEMMA UpdateInv ==
  ASSUME SemaInv, NEW s \in Sema, NEW sm \in Semaphore,
         sema' = [sema EXCEPT ![s] = sm],
         credit' \in [Sema -> 0..MaxValue], credit'[s] = sm.value,
         \A t \in Sema \ {s} : credit'[t] = credit[t],
         client' \in [Client -> {"run", "ask", "wait"}],
         request' \in [Client -> [cmd : Cmd, sema : Sema \cup {NULL}, val : 0..MaxValue]],
         \A d \in Client : client'[d] = "ask" => client[d] = "ask" /\ request'[d] = request[d],
         \A t \in Live \ {s} : \A d \in Range(sema[t].client_q) :
           client'[d] = client[d] /\ request'[d] = request[d],
         sm.value > 0 => sm.client_q = <<>>,
         IsInjective(sm.client_q),
         \A d \in Range(sm.client_q) : client'[d] = "wait" /\ request'[d].sema = s
  PROVE  SemaInv'
<1>1. SemaTypeOK
  BY DEF SemaInv, Balance
<1>2. /\ sema' \in [Sema -> Semaphore \cup {NULL}] /\ sema'[s] = sm /\ sm # NULL
      /\ \A t \in Sema \ {s} : sema'[t] = sema[t]
      /\ Live' = Live \cup {s} /\ Live \subseteq Sema
  BY <1>1, TypeFacts, SemaphoreFacts DEF Live
<1>3. Balance'
  <2>1. SemaTypeOK'
    BY <1>2 DEF SemaTypeOK
  <2> QED
    BY <1>2, <2>1 DEF SemaInv, Balance
<1>4. NoIdleWaiter'
  BY <1>2 DEF SemaInv, NoIdleWaiter
<1>5. Addressed'
  BY <1>2 DEF SemaInv, Addressed
<1>6. DeleteAlone'
  BY DeleteAloneKept DEF SemaInv
<1> QED
  BY <1>3, <1>4, <1>5, <1>6 DEF SemaInv

(* Who is on a queue is blocked, and on no other. *)
LEMMA QueueFacts ==
  ASSUME SemaInv, NEW t \in Live
  PROVE  /\ sema[t] \in Semaphore /\ IsInjective(sema[t].client_q)
         /\ sema[t].client_q \in Seq(Client) /\ t \in Sema
         /\ credit[t] = sema[t].value /\ sema[t].value \in 0..MaxValue
         /\ sema[t].value > 0 => sema[t].client_q = <<>>
         /\ \A d \in Range(sema[t].client_q) :
              d \in Client /\ client[d] = "wait" /\ request[d].sema = t
<1>1. sema[t] \in Semaphore /\ sema[t].client_q \in Seq(Client) /\ t \in Sema
      /\ sema[t].value \in 0..MaxValue
  BY TypeFacts, SemaphoreFacts DEF SemaInv, Balance
<1>2. Range(sema[t].client_q) \subseteq Client
  BY <1>1 DEF Range
<1> QED
  BY <1>1, <1>2 DEF SemaInv, Balance, NoIdleWaiter

-----------------------------------------------------------------------------
(* SEMA_CREATE. *)
LEMMA CreateInv ==
  ASSUME SemaInv, NEW c \in Client, ServeCreate(c)
  PROVE  SemaInv'
<1>1. SemaTypeOK /\ client[c] = "ask" /\ Go({c})
  BY DEF SemaInv, Balance, ServeCreate, Served
<1>2. CASE Live = Sema
  BY <1>1, <1>2, QuietInv DEF ServeCreate
<1>3. CASE Live # Sema
  <2> DEFINE v == request[c].val
  <2>1. PICK n \in Sema \ Live : /\ sema' = [sema EXCEPT ![n] = newsema(v)]
                                /\ credit' = [credit EXCEPT ![n] = v]
    BY <1>3 DEF ServeCreate
  <2>2. v \in 0..MaxValue
    BY <1>1, TypeFacts
  <2> HIDE DEF v
  <2>3. newsema(v) \in Semaphore /\ newsema(v).value = v /\ newsema(v).client_q = <<>>
    BY <2>2, NewSemaphore
  <2>4. /\ credit' \in [Sema -> 0..MaxValue] /\ credit'[n] = v
        /\ \A t \in Sema \ {n} : credit'[t] = credit[t]
    BY <1>1, <2>1, <2>2, TypeFacts
  <2>5. /\ client' \in [Client -> {"run", "ask", "wait"}]
        /\ request' \in [Client -> [cmd : Cmd, sema : Sema \cup {NULL}, val : 0..MaxValue]]
        /\ client'[c] = "run"
        /\ \A d \in Client \ {c} : client'[d] = client[d] /\ request'[d] = request[d]
    BY <1>1, GoFacts
  <2>6. \A t \in Live \ {n} : \A d \in Range(sema[t].client_q) :
          client'[d] = client[d] /\ request'[d] = request[d]
    BY <1>1, <2>5, QueueFacts
  <2>7. IsInjective(<<>>) /\ Range(<<>>) = {}
    BY DEF IsInjective, Range
  <2> QED
    BY <2>1, <2>3, <2>4, <2>5, <2>6, <2>7, UpdateInv
<1> QED
  BY <1>2, <1>3

(* SEMA_DELETE. *)
LEMMA DeleteInv ==
  ASSUME SemaInv, NEW c \in Client, ServeDelete(c)
  PROVE  SemaInv'
<1> DEFINE s == request[c].sema
<1>1. SemaTypeOK /\ client[c] = "ask" /\ request[c].cmd = "DELETE" /\ s \in Live \cup {NULL}
  BY DEF SemaInv, Balance, ServeDelete, Served, Addressed
<1>2. CASE waiter(s) # NULL \/ s = NULL
  BY <1>1, <1>2, QuietInv DEF ServeDelete
<1>3. CASE waiter(s) = NULL /\ s # NULL
  <2>1. /\ sema' = [sema EXCEPT ![s] = NULL] /\ credit' = [credit EXCEPT ![s] = 0]
        /\ Go({c}) /\ s \in Live
    BY <1>1, <1>3 DEF ServeDelete
  <2>2. /\ client' \in [Client -> {"run", "ask", "wait"}]
        /\ request' \in [Client -> [cmd : Cmd, sema : Sema \cup {NULL}, val : 0..MaxValue]]
        /\ client'[c] = "run"
        /\ \A d \in Client \ {c} : client'[d] = client[d] /\ request'[d] = request[d]
    BY <1>1, <2>1, GoFacts
  <2> HIDE DEF s
  <2>3. /\ sema' \in [Sema -> Semaphore \cup {NULL}]
        /\ credit' \in [Sema -> 0..MaxValue]
        /\ \A t \in Live \ {s} : sema'[t] = sema[t] /\ credit'[t] = credit[t]
        /\ Live' = Live \ {s} /\ Live \subseteq Sema
    BY <1>1, <2>1, TypeFacts, SemaAssumption DEF Live
  <2>4. Balance'
    <3>1. SemaTypeOK'
      BY <2>2, <2>3 DEF SemaTypeOK
    <3> QED
      BY <2>3, <3>1 DEF SemaInv, Balance
  <2>5. NoIdleWaiter'
    <3> SUFFICES ASSUME NEW t \in Live \ {s}
                 PROVE  LET q == sema[t].client_q
                        IN /\ sema[t].value > 0 => q = <<>>
                           /\ IsInjective(q)
                           /\ \A d \in Range(q) : client'[d] = "wait" /\ request'[d].sema = t
      BY <2>3 DEF NoIdleWaiter
    <3> QED
      BY <1>1, <2>2, QueueFacts
  <2>6. Addressed'
    <3> SUFFICES ASSUME NEW d \in Client, client'[d] = "ask"
                 PROVE  /\ request'[d].sema \in (Live \ {s}) \cup {NULL}
                        /\ request'[d].cmd = "CREATE" => request'[d].sema = NULL
      BY <2>3 DEF Addressed
    <3>1. d # c /\ client[d] = "ask" /\ request'[d] = request[d]
      BY <2>2
    <3>2. request[d].sema # s
      BY <1>1, <1>3, <3>1 DEF SemaInv, DeleteAlone, s
    <3> QED
      BY <3>1, <3>2 DEF SemaInv, Addressed
  <2>7. DeleteAlone'
    BY <2>2, DeleteAloneKept DEF SemaInv
  <2> QED
    BY <2>4, <2>5, <2>6, <2>7 DEF SemaInv
<1> QED
  BY <1>2, <1>3

(* SEMA_WAIT of a semaphore. *)
LEMMA WaitInv ==
  ASSUME SemaInv, NEW c \in Client, ServeWait(c)
  PROVE  SemaInv'
<1> DEFINE s == request[c].sema
<1>1. SemaTypeOK /\ client[c] = "ask" /\ s \in Live
  BY DEF SemaInv, Balance, ServeWait, Served, Addressed
<1>2. /\ sema[s] \in Semaphore /\ s \in Sema /\ sema[s].client_q \in Seq(Client)
      /\ credit[s] = sema[s].value /\ sema[s].value \in 0..MaxValue
      /\ IsInjective(sema[s].client_q)
      /\ sema[s].value > 0 => sema[s].client_q = <<>>
      /\ \A d \in Range(sema[s].client_q) :
            d \in Client /\ client[d] = "wait" /\ request[d].sema = s
  BY <1>1, QueueFacts
<1> DEFINE lower == decreasesema(sema[s])
<1>3. /\ lower \in Semaphore /\ lower.client_q = sema[s].client_q
      /\ lower.value = IF sema[s].value # 0 THEN sema[s].value - 1 ELSE 0
  BY <1>2, SemaphoreFacts
<1>4. CASE sema[s].value # 0
  <2>1. Go({c}) /\ sema' = [sema EXCEPT ![s] = lower] /\ credit' = [credit EXCEPT ![s] = @ - 1]
    BY <1>4 DEF ServeWait
  <2>2. /\ client' \in [Client -> {"run", "ask", "wait"}]
        /\ request' \in [Client -> [cmd : Cmd, sema : Sema \cup {NULL}, val : 0..MaxValue]]
        /\ client'[c] = "run"
        /\ \A d \in Client \ {c} : client'[d] = client[d] /\ request'[d] = request[d]
    BY <1>1, <2>1, GoFacts
  <2>3. \A t \in Live : \A d \in Range(sema[t].client_q) :
          client'[d] = client[d] /\ request'[d] = request[d]
    BY <1>1, <2>2, QueueFacts
  <2> HIDE DEF s, lower
  <2>4. /\ credit' \in [Sema -> 0..MaxValue] /\ credit'[s] = lower.value
        /\ \A t \in Sema \ {s} : credit'[t] = credit[t]
    <3>1. sema[s].value - 1 \in 0..MaxValue /\ lower.value = sema[s].value - 1
      BY <1>2, <1>3, <1>4, SemaAssumption
    <3>2. credit' = [credit EXCEPT ![s] = sema[s].value - 1]
      BY <1>2, <2>1
    <3> QED
      BY <1>1, <1>2, <3>1, <3>2, TypeFacts
  <2>5. lower.client_q = <<>> /\ IsInjective(<<>>) /\ Range(<<>>) = {}
    BY <1>2, <1>3, <1>4 DEF IsInjective, Range
  <2> QED
    BY <1>1, <1>2, <1>3, <2>1, <2>2, <2>3, <2>4, <2>5, UpdateInv
<1>5. CASE sema[s].value = 0
  <2> DEFINE sm == IF kmalloc THEN addclient(lower, c) ELSE lower
  <2>1. Stays(c) /\ sema' = [sema EXCEPT ![s] = sm] /\ credit' = credit
    BY <1>5 DEF ServeWait
  <2>2. /\ client' \in [Client -> {"run", "ask", "wait"}] /\ request' = request
        /\ client'[c] = "wait"
        /\ \A d \in Client \ {c} : client'[d] = client[d]
    BY <1>1, <2>1, StaysFacts
  <2>3. \A t \in Live : \A d \in Range(sema[t].client_q) :
          client'[d] = client[d] /\ request'[d] = request[d]
    BY <1>1, <2>2, QueueFacts
  <2>4. c \notin Range(sema[s].client_q) /\ request[c].sema = s
    BY <1>1, <1>2
  <2> HIDE DEF s, lower
  <2>5. /\ sm \in Semaphore /\ sm.value = 0 /\ IsInjective(sm.client_q)
        /\ Range(sm.client_q) \subseteq Range(sema[s].client_q) \cup {c}
    <3>1. CASE kmalloc
      <4>1. /\ sm \in Semaphore /\ sm.value = 0 /\ sm.client_q = Append(sema[s].client_q, c)
        BY <1>3, <1>5, <3>1, SemaphoreFacts
      <4> HIDE DEF sm
      <4>2. /\ IsInjective(Append(sema[s].client_q, c))
            /\ Range(Append(sema[s].client_q, c)) = Range(sema[s].client_q) \cup {c}
        BY <1>2, <2>4, AppendSet
      <4> QED
        BY <4>1, <4>2
    <3>2. CASE ~kmalloc
      BY <1>2, <1>3, <1>5, <3>2
    <3> QED
      BY <3>1, <3>2
  <2> HIDE DEF sm
  <2>6. \A d \in Range(sm.client_q) : client'[d] = "wait" /\ request'[d].sema = s
    BY <1>2, <2>2, <2>3, <2>4, <2>5, <1>1
  <2>7. /\ credit' \in [Sema -> 0..MaxValue] /\ credit'[s] = sm.value
        /\ request' \in [Client -> [cmd : Cmd, sema : Sema \cup {NULL}, val : 0..MaxValue]]
    BY <1>1, <1>2, <1>5, <2>1, <2>2, <2>5, TypeFacts
  <2>8. \A d \in Client : client'[d] = "ask" => client[d] = "ask" /\ request'[d] = request[d]
    BY <2>2
  <2>9. s \in Sema /\ \A t \in Sema \ {s} : credit'[t] = credit[t]
    BY <1>2, <2>1
  <2>10. sema' = [sema EXCEPT ![s] = sm] /\ (sm.value > 0 => sm.client_q = <<>>)
    BY <2>1, <2>5
  <2> QED
    BY <2>2, <2>3, <2>5, <2>6, <2>7, <2>8, <2>9, <2>10, UpdateInv
<1> QED
  BY <1>4, <1>5

(* SEMA_SIGNAL. *)
LEMMA SignalInv ==
  ASSUME SemaInv, NEW c \in Client, ServeSignal(c)
  PROVE  SemaInv'
<1> DEFINE s == request[c].sema
           q == sema[s].client_q
<1>1. SemaTypeOK /\ client[c] = "ask" /\ s \in Live \cup {NULL}
  BY DEF SemaInv, Balance, ServeSignal, Served, Addressed
<1>2. CASE s = NULL
  BY <1>1, <1>2, QuietInv DEF ServeSignal
<1>3. ASSUME s # NULL
      PROVE  /\ s \in Live /\ sema[s] \in Semaphore /\ s \in Sema
             /\ q \in Seq(Client) /\ IsInjective(q)
             /\ credit[s] = sema[s].value /\ sema[s].value \in 0..MaxValue
             /\ sema[s].value > 0 => q = <<>>
             /\ \A d \in Range(q) : d \in Client /\ client[d] = "wait" /\ request[d].sema = s
  BY <1>1, <1>3, QueueFacts
<1>4. CASE s # NULL /\ waiter(s) # NULL
  <2> DEFINE w == waiter(s)
             sm == removeclient(sema[s])
  <2>1. sema' = [sema EXCEPT ![s] = sm] /\ Go({c, w}) /\ credit' = credit
    BY <1>4 DEF ServeSignal
  <2>2. q # <<>> /\ w = Head(q)
    BY <1>4 DEF waiter
  <2>3. /\ w \in Range(q) /\ w \in Client /\ IsInjective(Tail(q))
        /\ Range(Tail(q)) = Range(q) \ {w}
    BY <1>3, <1>4, <2>2, TailSet
  <2>4. sm \in Semaphore /\ sm.value = sema[s].value /\ sm.client_q = Tail(q)
    BY <1>3, <1>4, <2>2, SemaphoreFacts
  <2> HIDE DEF w, sm
  <2>5. /\ client' \in [Client -> {"run", "ask", "wait"}]
        /\ request' \in [Client -> [cmd : Cmd, sema : Sema \cup {NULL}, val : 0..MaxValue]]
        /\ client'[c] = "run" /\ client'[w] = "run"
        /\ \A d \in Client \ {c, w} : client'[d] = client[d] /\ request'[d] = request[d]
    BY <1>1, <2>1, <2>3, GoFacts
  <2>6. request[w].sema = s
    BY <1>3, <1>4, <2>3
  <2>7. \A t \in Live \ {s} : \A d \in Range(sema[t].client_q) :
          client'[d] = client[d] /\ request'[d] = request[d]
    BY <1>1, <2>5, <2>6, QueueFacts
  <2> HIDE DEF s, q
  <2>8. \A d \in Range(Tail(q)) : client'[d] = "wait" /\ request'[d].sema = s
    BY <1>1, <1>3, <1>4, <2>3, <2>5
  <2>9. sm.value = 0
    BY <1>3, <1>4, <2>2, <2>4
  <2>10. credit' \in [Sema -> 0..MaxValue] /\ credit'[s] = sm.value
    BY <1>1, <1>3, <1>4, <2>1, <2>4, TypeFacts
  <2>11. \A d \in Client : client'[d] = "ask" => client[d] = "ask" /\ request'[d] = request[d]
    BY <2>5
  <2>12. s \in Sema /\ \A t \in Sema \ {s} : credit'[t] = credit[t]
    BY <1>3, <1>4, <2>1
  <2>13. sema' = [sema EXCEPT ![s] = sm] /\ (sm.value > 0 => sm.client_q = <<>>)
    BY <2>1, <2>9
  <2>14. /\ IsInjective(sm.client_q)
         /\ \A d \in Range(sm.client_q) : client'[d] = "wait" /\ request'[d].sema = s
    BY <2>3, <2>4, <2>8
  <2> QED
    BY <2>4, <2>5, <2>7, <2>10, <2>11, <2>12, <2>13, <2>14, UpdateInv
<1>5. CASE s # NULL /\ waiter(s) = NULL
  <2> DEFINE sm == increasesema(sema[s])
  <2>1. /\ sema' = [sema EXCEPT ![s] = sm] /\ Go({c}) /\ sema[s].value < MaxValue
        /\ credit' = [credit EXCEPT ![s] = @ + 1]
    BY <1>5 DEF ServeSignal
  <2>2. q = <<>>
    <3> SUFFICES ASSUME q # <<>> PROVE FALSE
      OBVIOUS
    <3>1. Head(q) = NULL
      BY <1>5 DEF waiter
    <3>2. Head(q) \in Client
      BY <1>3, <1>5
    <3> QED
      BY <3>1, <3>2, SemaAssumption
  <2>3. sm \in Semaphore /\ sm.value = sema[s].value + 1 /\ sm.client_q = <<>>
    BY <1>3, <1>5, <2>1, <2>2, SemaphoreFacts
  <2>4. /\ client' \in [Client -> {"run", "ask", "wait"}]
        /\ request' \in [Client -> [cmd : Cmd, sema : Sema \cup {NULL}, val : 0..MaxValue]]
        /\ client'[c] = "run"
        /\ \A d \in Client \ {c} : client'[d] = client[d] /\ request'[d] = request[d]
    BY <1>1, <2>1, GoFacts
  <2>5. \A t \in Live : \A d \in Range(sema[t].client_q) :
          client'[d] = client[d] /\ request'[d] = request[d]
    BY <1>1, <2>4, QueueFacts
  <2> HIDE DEF s, sm
  <2>6. /\ credit' \in [Sema -> 0..MaxValue] /\ credit'[s] = sm.value
        /\ \A t \in Sema \ {s} : credit'[t] = credit[t]
    <3>1. sema[s].value + 1 \in 0..MaxValue
      BY <1>3, <1>5, <2>1, SemaAssumption
    <3>2. credit' = [credit EXCEPT ![s] = sema[s].value + 1]
      BY <1>3, <1>5, <2>1
    <3> QED
      BY <1>1, <1>3, <1>5, <2>3, <3>1, <3>2, TypeFacts
  <2>7. IsInjective(<<>>) /\ Range(<<>>) = {}
    BY DEF IsInjective, Range
  <2> QED
    BY <1>3, <1>5, <2>1, <2>3, <2>4, <2>5, <2>6, <2>7, UpdateInv
<1> QED
  BY <1>2, <1>4, <1>5

-----------------------------------------------------------------------------
(* The invariant holds when semasrv() enters its loop. *)
LEMMA SemaStart == SemaInit => SemaInv
<1> SUFFICES ASSUME SemaInit PROVE SemaInv
  OBVIOUS
<1>1. Live = {} /\ SemaTypeOK
  BY NothingFacts, SemaAssumption DEF SemaInit, Live, SemaTypeOK
<1> QED
  BY <1>1 DEF SemaInit, SemaInv, Balance, NoIdleWaiter, Addressed, DeleteAlone

(* Every step keeps the invariant. *)
LEMMA SemaStep == SemaInv /\ [SemaNext]_SemaVars => SemaInv'
<1> SUFFICES ASSUME SemaInv, [SemaNext]_SemaVars PROVE SemaInv'
  OBVIOUS
<1>1. CASE UNCHANGED SemaVars
  BY <1>1 DEF SemaVars, SemaInv, Balance, SemaTypeOK, NoIdleWaiter, Addressed, DeleteAlone, Live
<1>2. ASSUME NEW c \in Client, Serve(c) PROVE SemaInv'
  <2>1. CASE ServeWaitNull(c)
    BY <2>1, QuietInv DEF ServeWaitNull, Served
  <2>2. CASE ServeGet(c)
    BY <2>2, QuietInv DEF ServeGet, Served
  <2> QED
    BY <1>2, <2>1, <2>2, CreateInv, DeleteInv, WaitInv, SignalInv DEF Serve
<1> QED
  BY <1>1, <1>2, AskInv DEF SemaNext

(* SemaInv is an invariant of the server. *)
THEOREM SemaInvariant == SemaSpec => []SemaInv
BY SemaStart, SemaStep, PTL DEF SemaSpec

(* Every semaphore lets in as many clients as its first value and its      *)
(* signals allow (semasrv(), servers/sema.c), however many clients and     *)
(* semaphores there are.                                                   *)
THEOREM AlwaysBalanced == SemaSpec => []Balance
<1>1. SemaInv => Balance
  BY DEF SemaInv
<1> QED
  BY <1>1, SemaInvariant, PTL

(* Nobody waits at an open semaphore, and the queue holds blocked clients, *)
(* each once: neither a wakeup lost between wait and signal, nor one too   *)
(* many (removeclient(), addclient() of servers/sema.c).                   *)
THEOREM NeverIdleWaiter == SemaSpec => []NoIdleWaiter
<1>1. SemaInv => NoIdleWaiter
  BY DEF SemaInv
<1> QED
  BY <1>1, SemaInvariant, PTL

(* A message the server receives names a semaphore that has not been       *)
(* freed: find-by-address in servers/sema.c is sound under the callers'    *)
(* rule about deletesema().                                                *)
THEOREM AlwaysAddressed == SemaSpec => []Addressed
<1>1. SemaInv => Addressed
  BY DEF SemaInv
<1> QED
  BY <1>1, SemaInvariant, PTL

-----------------------------------------------------------------------------
(***************************************************************************)
(* File positions and the references of memfile's nodes, for any number of *)
(* tasks, descriptors, filps, nodes and entries.                           *)
(***************************************************************************)

FilpRec == [dev : 0..(MAX_DEV - 1), ino : Nat, refcnt : Nat, pos : Nat]

\* The invariant's parts, of any tables F, P and N of descriptors, filps and
\* nodes and any history V.
Counted(F, P) == \A f \in Filp : P[f].refcnt = Cardinality(Entries(F, Pid, Fd, f))

On(P, i) == {f \in Filp : P[f].refcnt > 0 /\ P[f].dev = MEMFILE /\ P[f].ino = i}

NodesCount(P, N) ==
  \A i \in MfIno : IF N[i] = NONE THEN Cardinality(On(P, i)) = 0
                   ELSE N[i].refcnt = Cardinality(On(P, i))

Positions(P, V) ==
  \A f \in Filp : P[f].refcnt > 0 /\ P[f].dev = MEMFILE =>
    P[f].pos = V[f] /\ P[f].pos <= LIMIT /\ P[f].ino \in MfIno

FInv == TypeOK /\ Counted(fd, filp) /\ NodesCount(filp, nodes) /\ Positions(filp, moved)

-----------------------------------------------------------------------------
LEMMA Sizes ==
  /\ Fd \subseteq Nat /\ Filp \subseteq Nat /\ MfIno \subseteq Nat /\ 0 \in MfIno
  /\ IsFiniteSet(Fd) /\ IsFiniteSet(Filp) /\ IsFiniteSet(Pid) /\ -1 \notin Filp
  /\ LIMIT \in Nat /\ LIMIT >= 1 /\ NONE \notin MfNode /\ MAX_DEV \in Nat /\ MAX_DEV > 2
<1>1. /\ MAX_FD \in Nat /\ MAX_FILP \in Nat /\ MF_MAX_NODES \in Nat \ {0} /\ MF_MAX_ENTRIES \in Nat \ {0}
      /\ MAX_DEV \in Nat /\ MAX_DEV > 2
  BY FilesAssumption
<1>2. IsFiniteSet(Fd) /\ IsFiniteSet(Filp)
  BY <1>1, FS_Interval DEF Fd, Filp
<1>3. LIMIT \in Nat /\ LIMIT >= 1
  BY <1>1 DEF LIMIT
<1> QED
  BY <1>1, <1>2, <1>3, FilesAssumption DEF Fd, Filp, MfIno

LEMMA LowestFacts ==
  ASSUME NEW S, S \subseteq Nat
  PROVE  Lowest(S) \in S \/ Lowest(S) = -1
<1>1. CASE S = {}
  BY <1>1 DEF Lowest
<1>2. CASE S # {}
  <2>1. \E x \in S : \A y \in S : x <= y
    BY <1>2, LeastNat
  <2> QED
    BY <1>2, <2>1 DEF Lowest, Min
<1> QED
  BY <1>1, <1>2

(* find_empty_fd(), find_empty_filp() and mf_create_node() find what is    *)
(* free.                                                                   *)
LEMMA FindEmpty ==
  ASSUME TypeOK, NEW c \in Pid
  PROVE  /\ find_empty_fd(c) >= 0 => find_empty_fd(c) \in Fd /\ fd[c][find_empty_fd(c)] = -1
         /\ find_empty_filp >= 0 => find_empty_filp \in Filp /\ filp[find_empty_filp].refcnt = 0
<1> DEFINE S == {i \in Fd : fd[c][i] < 0}
           T == {f \in Filp : filp[f].refcnt = 0}
<1>1. S \subseteq Nat /\ T \subseteq Nat
  BY Sizes
<1>2. /\ Lowest(S) \in S \/ Lowest(S) = -1
      /\ Lowest(T) \in T \/ Lowest(T) = -1
  <2> HIDE DEF S, T
  <2> QED
    BY <1>1, LowestFacts
<1>3. \A i \in S : i \in Fd /\ fd[c][i] = -1
  <2> SUFFICES ASSUME NEW i \in S PROVE i \in Fd /\ fd[c][i] = -1
    OBVIOUS
  <2>1. i \in Fd /\ fd[c][i] \in Filp \cup {-1} /\ fd[c][i] < 0
    BY DEF TypeOK
  <2>2. fd[c][i] \in Nat \/ fd[c][i] = -1
    BY <2>1, Sizes
  <2> HIDE DEF S
  <2> QED
    BY <2>1, <2>2
<1>4. \A f \in T : f \in Filp /\ filp[f].refcnt = 0
  OBVIOUS
<1>5. find_empty_fd(c) = Lowest(S) /\ find_empty_filp = Lowest(T)
  BY DEF find_empty_fd, find_empty_filp
<1> HIDE DEF S, T
<1> QED
  BY <1>2, <1>3, <1>4, <1>5

LEMMA FreeNode ==
  ASSUME NEW N, mf_free(N) # -1
  PROVE  mf_free(N) \in MfIno /\ N[mf_free(N)] = NONE
<1> DEFINE S == {i \in MfIno : N[i] = NONE}
<1>1. ~\A i \in MfIno : N[i] # NONE
  BY DEF mf_free
<1>2. S # {} /\ S \subseteq Nat
  BY <1>1, Sizes
<1>3. mf_free(N) = Min(S)
  BY <1>1 DEF mf_free
<1>4. \A i \in S : i \in MfIno /\ N[i] = NONE
  OBVIOUS
<1> HIDE DEF S
<1>5. \E x \in S : \A y \in S : x <= y
  BY <1>2, LeastNat
<1>6. Min(S) \in S
  BY <1>5 DEF Min
<1> QED
  BY <1>3, <1>4, <1>6

-----------------------------------------------------------------------------
(* One descriptor changes, from one filp or none to another or none.       *)
OneDescriptor(F, G, a, b) ==
  /\ a \in Pid /\ b \in Fd
  /\ \A x \in Pid : \A y \in Fd : x # a \/ y # b => G[x][y] = F[x][y]

LEMMA CountOne ==
  ASSUME NEW F, NEW G, NEW a, NEW b, OneDescriptor(F, G, a, b), NEW g
  PROVE  /\ (F[a][b] = g <=> G[a][b] = g) => Entries(G, Pid, Fd, g) = Entries(F, Pid, Fd, g)
         /\ F[a][b] # g /\ G[a][b] = g =>
              Cardinality(Entries(G, Pid, Fd, g)) = Cardinality(Entries(F, Pid, Fd, g)) + 1
         /\ F[a][b] = g /\ G[a][b] # g =>
              /\ Cardinality(Entries(G, Pid, Fd, g)) = Cardinality(Entries(F, Pid, Fd, g)) - 1
              /\ Cardinality(Entries(F, Pid, Fd, g)) # 0
<1>1. IsFiniteSet(Pid) /\ IsFiniteSet(Fd)
  BY Sizes
<1>2. a \in Pid /\ b \in Fd /\ \A x \in Pid : \A y \in Fd : x # a \/ y # b => G[x][y] = F[x][y]
  BY DEF OneDescriptor
<1> QED
  BY <1>1, <1>2, PointCount

(* A descriptor gets a filp, which counts one more (do_open(), do_dup()).  *)
Attaching(F, G, P, R, a, b, f) ==
  /\ Counted(F, P) /\ OneDescriptor(F, G, a, b) /\ f \in Filp
  /\ F[a][b] = -1 /\ G[a][b] = f
  /\ R[f].refcnt = P[f].refcnt + 1 /\ \A g \in Filp : g # f => R[g].refcnt = P[g].refcnt

LEMMA Attached ==
  ASSUME NEW F, NEW G, NEW P, NEW R, NEW a, NEW b, NEW f, Attaching(F, G, P, R, a, b, f)
  PROVE  Counted(G, R)
<1> SUFFICES ASSUME NEW g \in Filp PROVE R[g].refcnt = Cardinality(Entries(G, Pid, Fd, g))
  BY DEF Counted
<1> DEFINE n == F[a][b]
           m == G[a][b]
<1>1. /\ (n = g <=> m = g) => Entries(G, Pid, Fd, g) = Entries(F, Pid, Fd, g)
      /\ n # g /\ m = g => Cardinality(Entries(G, Pid, Fd, g)) = Cardinality(Entries(F, Pid, Fd, g)) + 1
  BY CountOne DEF Attaching
<1>2. n # g /\ m = f
  BY Sizes DEF Attaching
<1>3. P[g].refcnt = Cardinality(Entries(F, Pid, Fd, g))
  BY DEF Attaching, Counted
<1>4. R[f].refcnt = P[f].refcnt + 1 /\ (g # f => R[g].refcnt = P[g].refcnt)
  BY DEF Attaching
<1> HIDE DEF n, m
<1> QED
  BY <1>1, <1>2, <1>3, <1>4

(* A descriptor is closed, and its filp, which counted it, counts one less *)
(* (do_close()).                                                           *)
Detaching(F, G, P, R, a, b, f) ==
  /\ Counted(F, P) /\ OneDescriptor(F, G, a, b) /\ f \in Filp
  /\ F[a][b] = f /\ G[a][b] = -1
  /\ R[f].refcnt = P[f].refcnt - 1 /\ \A g \in Filp : g # f => R[g].refcnt = P[g].refcnt

LEMMA Detached ==
  ASSUME NEW F, NEW G, NEW P, NEW R, NEW a, NEW b, NEW f, Detaching(F, G, P, R, a, b, f)
  PROVE  Counted(G, R)
<1> SUFFICES ASSUME NEW g \in Filp PROVE R[g].refcnt = Cardinality(Entries(G, Pid, Fd, g))
  BY DEF Counted
<1> DEFINE n == F[a][b]
           m == G[a][b]
<1>1. /\ (n = g <=> m = g) => Entries(G, Pid, Fd, g) = Entries(F, Pid, Fd, g)
      /\ n = g /\ m # g => Cardinality(Entries(G, Pid, Fd, g)) = Cardinality(Entries(F, Pid, Fd, g)) - 1
  BY CountOne DEF Detaching
<1>2. m # g /\ n = f
  BY Sizes DEF Detaching
<1>3. P[g].refcnt = Cardinality(Entries(F, Pid, Fd, g))
  BY DEF Detaching, Counted
<1>4. R[f].refcnt = P[f].refcnt - 1 /\ (g # f => R[g].refcnt = P[g].refcnt)
  BY DEF Detaching
<1> HIDE DEF n, m
<1> QED
  BY <1>1, <1>2, <1>3, <1>4

LEMMA UsedCounted ==
  ASSUME NEW F, NEW P, Counted(F, P), NEW a \in Pid, NEW b \in Fd, NEW f \in Filp, F[a][b] = f
  PROVE  P[f].refcnt > 0 /\ P[f].refcnt \in Nat
<1> DEFINE E == Entries(F, Pid, Fd, f)
<1>1. IsFiniteSet(E) /\ Cardinality(E) \in Nat
  BY Sizes, PointCount
<1>2. <<a, b>> \in E
  BY DEF Entries
<1> HIDE DEF E
<1>3. Cardinality(E) # 0
  BY <1>1, <1>2, FS_EmptySet
<1> QED
  BY <1>1, <1>3 DEF Counted, E

-----------------------------------------------------------------------------
(* The filps open on a node. *)
LEMMA OnFacts ==
  ASSUME NEW P, NEW i
  PROVE  IsFiniteSet(On(P, i)) /\ Cardinality(On(P, i)) \in Nat
<1>1. On(P, i) \in SUBSET Filp /\ IsFiniteSet(Filp)
  BY Sizes DEF On
<1> QED
  BY <1>1, FS_Subset, FS_CardinalityType

(* Only f may have changed, and it was not open on memfile, nor is it. *)
LEMMA OnSame ==
  ASSUME NEW P, NEW R, NEW i,
         \A g \in Filp : (P[g].refcnt > 0 /\ P[g].dev = MEMFILE /\ P[g].ino = i)
                           <=> (R[g].refcnt > 0 /\ R[g].dev = MEMFILE /\ R[g].ino = i)
  PROVE  On(R, i) = On(P, i)
<1>1. \A g : g \in On(R, i) <=> g \in On(P, i)
  BY DEF On
<1> QED
  BY <1>1

LEMMA OnNew ==
  ASSUME NEW P, NEW R, NEW f \in Filp, ~(P[f].refcnt > 0), R[f].refcnt > 0, R[f].dev = MEMFILE,
         \A g \in Filp : g # f => R[g] = P[g]
  PROVE  /\ Cardinality(On(R, R[f].ino)) = Cardinality(On(P, R[f].ino)) + 1
         /\ \A j : j # R[f].ino => On(R, j) = On(P, j)
<1> DEFINE i == R[f].ino
           A == On(P, i)
           B == On(R, i)
<1>1. f \in B /\ f \notin A /\ \A g : g # f => (g \in B <=> g \in A)
  BY DEF On
<1>2. IsFiniteSet(A)
  BY OnFacts
<1>3. ASSUME NEW j, j # i PROVE On(R, j) = On(P, j)
  <2>1. \A g : g \in On(R, j) <=> g \in On(P, j)
    BY <1>3 DEF On
  <2> QED
    BY <2>1
<1> HIDE DEF A, B
<1>4. B = A \cup {f}
  BY <1>1
<1>5. Cardinality(B) = Cardinality(A) + 1
  BY <1>1, <1>2, <1>4, FS_AddElement
<1> QED
  BY <1>3, <1>5 DEF A, B

LEMMA OnGone ==
  ASSUME NEW P, NEW R, NEW f \in Filp, P[f].refcnt > 0, P[f].dev = MEMFILE, ~(R[f].refcnt > 0),
         \A g \in Filp : g # f => R[g] = P[g]
  PROVE  /\ Cardinality(On(P, P[f].ino)) # 0
         /\ Cardinality(On(R, P[f].ino)) = Cardinality(On(P, P[f].ino)) - 1
         /\ \A j : j # P[f].ino => On(R, j) = On(P, j)
<1> DEFINE i == P[f].ino
           A == On(P, i)
           B == On(R, i)
<1>1. f \in A /\ f \notin B /\ \A g : g # f => (g \in B <=> g \in A)
  BY DEF On
<1>2. IsFiniteSet(A)
  BY OnFacts
<1>3. ASSUME NEW j, j # i PROVE On(R, j) = On(P, j)
  <2>1. \A g : g \in On(R, j) <=> g \in On(P, j)
    BY <1>3 DEF On
  <2> QED
    BY <2>1
<1> HIDE DEF A, B
<1>4. B = A \ {f}
  BY <1>1
<1>5. Cardinality(B) = Cardinality(A) - 1 /\ Cardinality(A) # 0
  BY <1>1, <1>2, <1>4, FS_RemoveElement, FS_EmptySet
<1> QED
  BY <1>3, <1>5 DEF A, B
-----------------------------------------------------------------------------
(* What memfile's operations make of a node table.                         *)
NodeTable == [MfIno -> MfNode \cup {NONE}]

\* N and M differ at most in node i.
OneNode(N, M, i) == \A j \in MfIno : j # i => M[j] = N[j]

LEMMA NodeFields ==
  ASSUME NEW n \in MfNode
  PROVE  /\ n.refcnt \in Nat /\ n.links \in Nat /\ n.dir \in BOOLEAN
         /\ n.size \in 0..LIMIT /\ n.file \in [0..LIMIT -> Int] /\ n # NONE
BY Sizes DEF MfNode

LEMMA FilledNode ==
  ASSUME NEW n \in MfNode, NEW size \in 0..LIMIT, NEW file \in [0..LIMIT -> Int]
  PROVE  Filled(n, size, file) \in MfNode /\ Filled(n, size, file).refcnt = n.refcnt
BY NodeFields DEF Filled, MfNode

LEMMA Grabbed ==
  ASSUME NEW N \in NodeTable, NEW i \in MfIno, N[i] # NONE
  PROVE  /\ mf_grab(N, i) \in NodeTable /\ OneNode(N, mf_grab(N, i), i)
         /\ mf_grab(N, i)[i] # NONE /\ mf_grab(N, i)[i].refcnt = N[i].refcnt + 1
<1> DEFINE n == N[i]
           m == [n EXCEPT !.refcnt = @ + 1]
<1>1. n \in MfNode
  BY DEF NodeTable
<1>2. mf_grab(N, i) = [N EXCEPT ![i] = m]
  BY DEF mf_grab
<1> HIDE DEF n
<1>3. m \in MfNode /\ m.refcnt = n.refcnt + 1
  BY <1>1 DEF MfNode
<1> HIDE DEF m
<1>4. m # NONE
  BY <1>3, Sizes
<1> QED
  BY <1>2, <1>3, <1>4 DEF NodeTable, OneNode, n

LEMMA Released ==
  ASSUME NEW N \in NodeTable, NEW i \in MfIno, N[i] # NONE, N[i].refcnt > 0
  PROVE  /\ mf_release(N, i) \in NodeTable /\ OneNode(N, mf_release(N, i), i)
         /\ IF mf_release(N, i)[i] = NONE THEN N[i].refcnt = 1
            ELSE mf_release(N, i)[i].refcnt = N[i].refcnt - 1
<1> DEFINE n == N[i]
           m == [n EXCEPT !.refcnt = @ - 1]
           r == IF m.refcnt # 0 \/ m.links # 0 THEN m ELSE NONE
<1>1. n \in MfNode
  BY DEF NodeTable
<1>2. mf_release(N, i) = [N EXCEPT ![i] = r]
  BY DEF mf_release
<1>3. n.refcnt > 0
  OBVIOUS
<1> HIDE DEF n
<1>4. m \in MfNode /\ m.refcnt = n.refcnt - 1 /\ n.refcnt \in Nat
  BY <1>1, <1>3 DEF MfNode
<1> HIDE DEF m
<1>5. m # NONE
  BY <1>4, Sizes
<1>6. r \in MfNode \cup {NONE} /\ IF r = NONE THEN n.refcnt = 1 ELSE r.refcnt = n.refcnt - 1
  <2>1. CASE m.refcnt # 0 \/ m.links # 0
    BY <1>4, <1>5, <2>1
  <2>2. CASE ~(m.refcnt # 0 \/ m.links # 0)
    BY <1>4, <2>2
  <2> QED
    BY <2>1, <2>2
<1> HIDE DEF r
<1> QED
  BY <1>2, <1>6 DEF NodeTable, OneNode, n

LEMMA BlankNode ==
  ASSUME NEW dir \in BOOLEAN
  PROVE  Blank(dir) \in MfNode /\ Blank(dir).refcnt = 0 /\ Blank(dir).size = 0
<1> DEFINE file == [k \in 0..LIMIT |-> IF dir /\ k % 2 = 1 THEN -1 ELSE 0]
<1>1. file \in [0..LIMIT -> Int]
  OBVIOUS
<1>2. Blank(dir) = [refcnt |-> 0, links |-> 0, dir |-> dir, size |-> 0, file |-> file]
  BY DEF Blank
<1> HIDE DEF file
<1> QED
  BY <1>1, <1>2, Sizes DEF MfNode

LEMMA Created ==
  ASSUME NEW N \in NodeTable, NEW i \in MfIno, mf_free(N) = i, NEW M,
         M = mf_count_link(mf_create_node(N, FALSE), i)
  PROVE  M \in NodeTable /\ OneNode(N, M, i) /\ M[i] # NONE /\ M[i].refcnt = 0
<1> DEFINE b == Blank(FALSE)
           m == [b EXCEPT !.links = @ + 1]
<1>1. b \in MfNode /\ b.refcnt = 0
  BY BlankNode
<1> HIDE DEF b
<1>2. m \in MfNode /\ m.refcnt = 0
  BY <1>1 DEF MfNode
<1>3. mf_create_node(N, FALSE) = [N EXCEPT ![i] = b]
  BY DEF mf_create_node, b
<1>4. mf_create_node(N, FALSE)[i] = b
  BY <1>3 DEF NodeTable
<1>5. M = [mf_create_node(N, FALSE) EXCEPT ![i] = m]
  BY <1>4 DEF mf_count_link
<1> HIDE DEF m
<1>6. m # NONE
  BY <1>2, Sizes
<1> QED
  BY <1>2, <1>3, <1>5, <1>6 DEF NodeTable, OneNode

LEMMA RootIsNode == RootNode \in MfNode /\ RootNode.refcnt = 0
<1> DEFINE b == Blank(TRUE)
           l == mf_link(b, Dot, 0)
<1>1. b \in MfNode /\ b.refcnt = 0 /\ b.size = 0
  BY BlankNode
<1> HIDE DEF b
<1> DEFINE i == Min({e \in Entry : b.file[2 * e + 1] = -1})
           half == [b.file EXCEPT ![2 * i] = Dot]
           file == [half EXCEPT ![2 * i + 1] = 0]
<1>2. file \in [0..LIMIT -> Int]
  <2>1. b.file \in [0..LIMIT -> Int]
    BY <1>1, NodeFields
  <2>2. ASSUME NEW g \in [0..LIMIT -> Int], NEW u \in Int, NEW x \in Int
        PROVE  [g EXCEPT ![u] = x] \in [0..LIMIT -> Int]
    OBVIOUS
  <2>3. i \in Int
    <3> DEFINE S == {e \in Entry : b.file[2 * e + 1] = -1}
    <3>1. b.file[1] = -1 /\ 0 \in Entry
      BY Sizes, FilesAssumption DEF b, Blank, Entry
    <3>2. 0 \in S /\ S \subseteq Nat /\ \A x \in S : x \in Int
      BY <3>1 DEF Entry
    <3> HIDE DEF S
    <3>3. \E x \in S : \A y \in S : x <= y
      BY <3>2, LeastNat
    <3>4. Min(S) \in S
      BY <3>3 DEF Min
    <3>5. Min(S) \in Int
      BY <3>2, <3>4
    <3> QED
      BY <3>5 DEF S
  <2> HIDE DEF i
  <2>4. 2 * i \in Int /\ 2 * i + 1 \in Int /\ Dot \in Int
    BY <2>3 DEF Dot
  <2>5. half \in [0..LIMIT -> Int]
    BY <2>1, <2>2, <2>4
  <2> HIDE DEF half
  <2> QED
    BY <2>2, <2>4, <2>5
<1>3. l = Filled(b, b.size + 1, file)
  BY DEF mf_link
<1>4. b.size + 1 \in 0..LIMIT
  BY <1>1, Sizes
<1> HIDE DEF file
<1>5. l \in MfNode /\ l.refcnt = 0
  BY <1>1, <1>2, <1>3, <1>4, FilledNode
<1> HIDE DEF l
<1>6. RootNode = [l EXCEPT !.links = 1]
  BY DEF RootNode, l, b
<1> QED
  BY <1>5, <1>6 DEF MfNode

-----------------------------------------------------------------------------
(* The first filp on a node counts there (do_open()).                      *)
Taking(P, R, N, M, f, i) ==
  /\ NodesCount(P, N) /\ f \in Filp /\ i \in MfIno /\ OneNode(N, M, i)
  /\ ~(P[f].refcnt > 0) /\ R[f].refcnt > 0 /\ R[f].dev = MEMFILE /\ R[f].ino = i
  /\ \A g \in Filp : g # f => R[g] = P[g]
  /\ N[i] # NONE /\ M[i] # NONE /\ M[i].refcnt = N[i].refcnt + 1

LEMMA Taken ==
  ASSUME NEW P, NEW R, NEW N, NEW M, NEW f, NEW i, Taking(P, R, N, M, f, i)
  PROVE  NodesCount(R, M)
<1>1. Cardinality(On(R, i)) = Cardinality(On(P, i)) + 1 /\ \A j : j # i => On(R, j) = On(P, j)
  BY OnNew DEF Taking
<1>2. N[i].refcnt = Cardinality(On(P, i)) /\ M[i] # NONE /\ M[i].refcnt = N[i].refcnt + 1
  BY DEF Taking, NodesCount
<1> SUFFICES ASSUME NEW j \in MfIno
             PROVE  IF M[j] = NONE THEN Cardinality(On(R, j)) = 0
                    ELSE M[j].refcnt = Cardinality(On(R, j))
  BY DEF NodesCount
<1>3. CASE j = i
  BY <1>1, <1>2, <1>3
<1>4. CASE j # i
  <2>1. M[j] = N[j] /\ On(R, j) = On(P, j)
    BY <1>1, <1>4 DEF Taking, OneNode
  <2> QED
    BY <2>1 DEF Taking, NodesCount
<1> QED
  BY <1>3, <1>4

(* The last use of a filp ends, and its node counts one less (do_close()). *)
Leaving(P, R, N, M, f, i) ==
  /\ NodesCount(P, N) /\ f \in Filp /\ i \in MfIno /\ OneNode(N, M, i)
  /\ P[f].refcnt > 0 /\ P[f].dev = MEMFILE /\ P[f].ino = i /\ ~(R[f].refcnt > 0)
  /\ \A g \in Filp : g # f => R[g] = P[g]
  /\ IF M[i] = NONE THEN N[i].refcnt = 1 ELSE M[i].refcnt = N[i].refcnt - 1

(* A node that a filp is open on is there, and counts it. *)
LEMMA UsedNode ==
  ASSUME NEW P, NEW N, NodesCount(P, N), NEW f \in Filp, NEW i \in MfIno,
         P[f].refcnt > 0, P[f].dev = MEMFILE, P[f].ino = i
  PROVE  N[i] # NONE /\ N[i].refcnt = Cardinality(On(P, i)) /\ N[i].refcnt > 0
<1>1. f \in On(P, i)
  BY DEF On
<1>2. Cardinality(On(P, i)) \in Nat /\ Cardinality(On(P, i)) # 0
  BY <1>1, OnFacts, FS_EmptySet
<1> QED
  BY <1>2 DEF NodesCount

LEMMA Left ==
  ASSUME NEW P, NEW R, NEW N, NEW M, NEW f, NEW i, Leaving(P, R, N, M, f, i)
  PROVE  NodesCount(R, M)
<1>1. Cardinality(On(R, i)) = Cardinality(On(P, i)) - 1 /\ \A j : j # i => On(R, j) = On(P, j)
  BY OnGone DEF Leaving
<1>2. N[i] # NONE /\ N[i].refcnt = Cardinality(On(P, i))
  BY UsedNode DEF Leaving
<1>3. IF M[i] = NONE THEN N[i].refcnt = 1 ELSE M[i].refcnt = N[i].refcnt - 1
  BY DEF Leaving
<1>4. Cardinality(On(P, i)) \in Nat
  BY OnFacts
<1> SUFFICES ASSUME NEW j \in MfIno
             PROVE  IF M[j] = NONE THEN Cardinality(On(R, j)) = 0
                    ELSE M[j].refcnt = Cardinality(On(R, j))
  BY DEF NodesCount
<1>5. CASE j = i
  BY <1>1, <1>2, <1>3, <1>4, <1>5
<1>6. CASE j # i
  <2>1. M[j] = N[j] /\ On(R, j) = On(P, j)
    BY <1>1, <1>6 DEF Leaving, OneNode
  <2> QED
    BY <2>1 DEF Leaving, NodesCount
<1> QED
  BY <1>5, <1>6

(* Neither the filps on the nodes change nor what the nodes count. *)
Keeping(P, R, N, M) ==
  /\ NodesCount(P, N)
  /\ \A g \in Filp : \A i \in MfIno : (P[g].refcnt > 0 /\ P[g].dev = MEMFILE /\ P[g].ino = i)
                           <=> (R[g].refcnt > 0 /\ R[g].dev = MEMFILE /\ R[g].ino = i)
  /\ \A i \in MfIno : \/ M[i] = N[i]
                      \/ N[i] # NONE /\ M[i] # NONE /\ M[i].refcnt = N[i].refcnt
                      \/ N[i] = NONE /\ M[i] # NONE /\ M[i].refcnt = 0

LEMMA Kept ==
  ASSUME NEW P, NEW R, NEW N, NEW M, Keeping(P, R, N, M)
  PROVE  NodesCount(R, M)
<1> SUFFICES ASSUME NEW j \in MfIno
             PROVE  IF M[j] = NONE THEN Cardinality(On(R, j)) = 0
                    ELSE M[j].refcnt = Cardinality(On(R, j))
  BY DEF NodesCount
<1>1. On(R, j) = On(P, j)
  BY OnSame DEF Keeping
<1>2. IF N[j] = NONE THEN Cardinality(On(P, j)) = 0 ELSE N[j].refcnt = Cardinality(On(P, j))
  BY DEF Keeping, NodesCount
<1>3. \/ M[j] = N[j]
      \/ N[j] # NONE /\ M[j] # NONE /\ M[j].refcnt = N[j].refcnt
      \/ N[j] = NONE /\ M[j] # NONE /\ M[j].refcnt = 0
  BY DEF Keeping
<1> QED
  BY <1>1, <1>2, <1>3

-----------------------------------------------------------------------------
(* The invariant holds at the start, and every request keeps it.           *)
LEMMA FInvInit ==
  ASSUME Init
  PROVE  FInv
<1>1. TypeOK
  <2>1. nodes \in [MfIno -> MfNode \cup {NONE}]
    BY RootIsNode DEF Init
  <2>2. filp \in [Filp -> FilpRec]
    BY Sizes DEF Init, FilpRec
  <2> QED
    BY <2>1, <2>2, Sizes DEF Init, TypeOK, FilpRec, PIPE, MEMFILE, TTY
<1>2. Counted(fd, filp)
  <2> SUFFICES ASSUME NEW f \in Filp PROVE filp[f].refcnt = Cardinality(Entries(fd, Pid, Fd, f))
    BY DEF Counted
  <2>1. ASSUME NEW u \in Entries(fd, Pid, Fd, f) PROVE FALSE
    <3>1. PICK a \in Pid, b \in Fd : u = <<a, b>> /\ fd[a][b] = f
      BY DEF Entries
    <3> QED
      BY <3>1, Sizes DEF Init
  <2>2. Entries(fd, Pid, Fd, f) = {}
    BY <2>1
  <2> QED
    BY <2>2, FS_EmptySet DEF Init
<1>3. NodesCount(filp, nodes)
  <2> SUFFICES ASSUME NEW i \in MfIno
               PROVE  IF nodes[i] = NONE THEN Cardinality(On(filp, i)) = 0
                      ELSE nodes[i].refcnt = Cardinality(On(filp, i))
    BY DEF NodesCount
  <2>1. \A f \in Filp : filp[f].refcnt = 0
    BY DEF Init
  <2>2. On(filp, i) = {}
    BY <2>1 DEF On
  <2>3. Cardinality(On(filp, i)) = 0
    BY <2>2, FS_EmptySet
  <2>4. nodes[i] = NONE \/ nodes[i].refcnt = 0
    BY RootIsNode DEF Init
  <2> QED
    BY <2>3, <2>4
<1>4. Positions(filp, moved)
  <2>1. \A f \in Filp : filp[f].refcnt = 0
    BY DEF Init
  <2> QED
    BY <2>1 DEF Positions
<1> QED
  BY <1>1, <1>2, <1>3, <1>4 DEF FInv

LEMMA StepMkDev ==
  ASSUME FInv, MkDev
  PROVE  FInv'
<1> DEFINE S == (0..(MAX_DEV - 1)) \ devtab
<1>1. S \subseteq Nat /\ S \subseteq 0..(MAX_DEV - 1)
  BY Sizes
<1>2. find_empty_devtab = Lowest(S)
  BY DEF find_empty_devtab
<1> HIDE DEF S
<1>3. Lowest(S) \in S \/ Lowest(S) = -1
  BY <1>1, LowestFacts
<1>4. devtab' = devtab \cup {Lowest(S)} /\ Lowest(S) >= 0
  BY <1>2 DEF MkDev
<1>5. Lowest(S) \in 0..(MAX_DEV - 1)
  <2>1. Lowest(S) # -1
    BY <1>4
  <2> QED
    BY <1>1, <1>3, <2>1
<1>6. devtab' \subseteq 0..(MAX_DEV - 1)
  BY <1>4, <1>5 DEF FInv, TypeOK
<1>7. fd' = fd /\ filp' = filp /\ nodes' = nodes /\ moved' = moved
  BY DEF MkDev
<1> QED
  BY <1>6, <1>7 DEF FInv, TypeOK

LEMMA StepStat ==
  ASSUME FInv, NEW path, Stat(path)
  PROVE  FInv'
<1>1. devtab' = devtab /\ fd' = fd /\ filp' = filp /\ nodes' = nodes /\ moved' = moved
  BY DEF Stat
<1> QED
  BY <1>1 DEF FInv, TypeOK

LEMMA StepMknod ==
  ASSUME FInv, NEW path, Mknod(path)
  PROVE  FInv'
<1> DEFINE ino == mf_free(nodes)
<1>1. devtab' = devtab /\ fd' = fd /\ filp' = filp /\ moved' = moved
  BY DEF Mknod
<1>2. \/ nodes' = nodes
      \/ ino # -1 /\ nodes' = mf_count_link(mf_create_node(nodes, FALSE), ino)
  BY DEF Mknod
<1>3. CASE nodes' = nodes
  BY <1>1, <1>3 DEF FInv, TypeOK
<1>4. CASE ino # -1 /\ nodes' = mf_count_link(mf_create_node(nodes, FALSE), ino)
  <2>1. ino \in MfIno /\ nodes[ino] = NONE
    BY <1>4, FreeNode
  <2>2. nodes \in NodeTable
    BY DEF FInv, TypeOK, NodeTable
  <2>3. /\ nodes' \in NodeTable /\ OneNode(nodes, nodes', ino)
        /\ nodes'[ino] # NONE /\ nodes'[ino].refcnt = 0
    BY <1>4, <2>1, <2>2, Created
  <2> HIDE DEF ino
  <2>4. Keeping(filp, filp, nodes, nodes')
    BY <2>1, <2>3 DEF FInv, Keeping, OneNode
  <2>5. NodesCount(filp, nodes')
    BY <2>4, Kept
  <2> QED
    BY <1>1, <2>3, <2>5 DEF FInv, TypeOK, NodeTable
<1> QED
  BY <1>2, <1>3, <1>4

LEMMA StepHold ==
  ASSUME FInv, NEW c \in Pid, NEW i \in Fd, Hold(c, i)
  PROVE  FInv'
<1> DEFINE f == fd[c][i]
<1>1. f >= 0 /\ f \in Filp
  BY Sizes DEF FInv, TypeOK, Hold, OpenOn
<1>2. filp[f].dev # MEMFILE
  BY DEF Hold, OpenOn, TTY, MEMFILE
<1>3. /\ filp' = [filp EXCEPT ![f].pos = @ + @]
      /\ devtab' = devtab /\ fd' = fd /\ nodes' = nodes /\ moved' = moved
  BY DEF Hold
<1> HIDE DEF f
<1>4. filp \in [Filp -> FilpRec]
  BY DEF FInv, TypeOK, FilpRec
<1>5. filp' \in [Filp -> FilpRec]
  BY <1>1, <1>3, <1>4 DEF FilpRec
<1>6. /\ \A g \in Filp : g # f => filp'[g] = filp[g]
      /\ \A g \in Filp : /\ filp'[g].refcnt = filp[g].refcnt /\ filp'[g].dev = filp[g].dev
                         /\ filp'[g].ino = filp[g].ino
  BY <1>1, <1>3, <1>4 DEF FilpRec
<1>7. TypeOK'
  BY <1>3, <1>5 DEF FInv, TypeOK, FilpRec
<1>8. Counted(fd', filp')
  BY <1>3, <1>6 DEF FInv, Counted
<1>9. NodesCount(filp', nodes')
  <2>1. Keeping(filp, filp', nodes, nodes')
    BY <1>3, <1>6 DEF FInv, Keeping
  <2> QED
    BY <2>1, Kept
<1>10. Positions(filp', moved')
  BY <1>2, <1>3, <1>6 DEF FInv, Positions
<1> QED
  BY <1>7, <1>8, <1>9, <1>10 DEF FInv

(* A request that opens a filp f that was free, for descriptor b.          *)
LEMMA StepOpen ==
  ASSUME FInv, NEW c \in Pid, NEW dev \in 0..(MAX_DEV - 1), NEW ino \in Nat, Open(c, dev, ino)
  PROVE  FInv'
<1> DEFINE n == find_empty_fd(c)
           f == find_empty_filp
<1>1. n \in Fd /\ fd[c][n] = -1 /\ f \in Filp /\ filp[f].refcnt = 0
  BY FindEmpty DEF FInv, Open
<1>2. \/ UNCHANGED <<fd, filp, nodes, moved>>
      \/ filp' = Opened(f, dev, ino, FALSE) /\ UNCHANGED <<fd, nodes, moved>>
      \/ /\ dev = MEMFILE => ino \in MfIno /\ nodes[ino] # NONE
         /\ nodes' = IF dev = MEMFILE THEN mf_grab(nodes, ino) ELSE nodes
         /\ filp' = Opened(f, dev, ino, TRUE)
         /\ fd' = [fd EXCEPT ![c][n] = f]
         /\ moved' = [moved EXCEPT ![f] = 0]
  BY DEF Open
<1>3. devtab' = devtab
  BY DEF Open
<1> HIDE DEF n, f
<1>4. /\ filp \in [Filp -> FilpRec] /\ nodes \in NodeTable /\ moved \in [Filp -> Nat]
      /\ fd \in [Pid -> [Fd -> Filp \cup {-1}]]
  BY DEF FInv, TypeOK, FilpRec, NodeTable
<1>5. CASE UNCHANGED <<fd, filp, nodes, moved>>
  BY <1>3, <1>5 DEF FInv, TypeOK
<1>6. CASE filp' = Opened(f, dev, ino, FALSE) /\ UNCHANGED <<fd, nodes, moved>>
  <2>1. /\ filp' \in [Filp -> FilpRec] /\ filp'[f].refcnt = 0
        /\ \A g \in Filp : g # f => filp'[g] = filp[g]
    BY <1>1, <1>4, <1>6 DEF Opened, FilpRec
  <2>2. fd' = fd /\ nodes' = nodes /\ moved' = moved
    BY <1>6
  <2>3. TypeOK'
    BY <1>3, <2>1, <2>2 DEF FInv, TypeOK, FilpRec
  <2>4. Counted(fd', filp')
    BY <1>1, <2>1, <2>2 DEF FInv, Counted
  <2>5. ~(filp[f].refcnt > 0) /\ ~(filp'[f].refcnt > 0)
    BY <1>1, <2>1
  <2>6. Keeping(filp, filp', nodes, nodes')
    BY <2>1, <2>2, <2>5 DEF FInv, Keeping
  <2>7. Positions(filp', moved')
    BY <2>1, <2>2, <2>5 DEF FInv, Positions
  <2> QED
    BY <2>3, <2>4, <2>6, <2>7, Kept DEF FInv
<1>7. CASE /\ dev = MEMFILE => ino \in MfIno /\ nodes[ino] # NONE
           /\ nodes' = IF dev = MEMFILE THEN mf_grab(nodes, ino) ELSE nodes
           /\ filp' = Opened(f, dev, ino, TRUE)
           /\ fd' = [fd EXCEPT ![c][n] = f]
           /\ moved' = [moved EXCEPT ![f] = 0]
  <2>1. /\ filp' \in [Filp -> FilpRec] /\ filp'[f].refcnt = 1 /\ filp'[f].dev = dev
        /\ filp'[f].ino = ino /\ filp'[f].pos = 0
        /\ \A g \in Filp : g # f => filp'[g] = filp[g]
    BY <1>1, <1>4, <1>7 DEF Opened, FilpRec
  <2>2. moved' \in [Filp -> Nat] /\ moved'[f] = 0 /\ \A g \in Filp : g # f => moved'[g] = moved[g]
    BY <1>1, <1>4, <1>7
  <2>3. fd' \in [Pid -> [Fd -> Filp \cup {-1}]] /\ fd'[c][n] = f /\ OneDescriptor(fd, fd', c, n)
    BY <1>1, <1>4, <1>7 DEF OneDescriptor
  <2>4. nodes' \in NodeTable /\ NodesCount(filp', nodes')
    <3>1. CASE dev = MEMFILE
      <4>1. nodes' = mf_grab(nodes, ino) /\ ino \in MfIno /\ nodes[ino] # NONE
        BY <1>7, <3>1
      <4>2. /\ nodes' \in NodeTable /\ OneNode(nodes, nodes', ino)
            /\ nodes'[ino] # NONE /\ nodes'[ino].refcnt = nodes[ino].refcnt + 1
        BY <1>4, <4>1, Grabbed
      <4>3. Taking(filp, filp', nodes, nodes', f, ino)
        BY <1>1, <2>1, <3>1, <4>1, <4>2 DEF FInv, Taking
      <4> QED
        BY <4>2, <4>3, Taken
    <3>2. CASE dev # MEMFILE
      <4>1. nodes' = nodes
        BY <1>7, <3>2
      <4>2. ~(filp[f].refcnt > 0) /\ filp'[f].dev # MEMFILE
        BY <1>1, <2>1, <3>2
      <4>3. Keeping(filp, filp', nodes, nodes')
        BY <2>1, <4>1, <4>2 DEF FInv, Keeping
      <4> QED
        BY <1>4, <4>1, <4>3, Kept
    <3> QED
      BY <3>1, <3>2
  <2>5. TypeOK'
    BY <1>3, <2>1, <2>2, <2>3, <2>4 DEF FInv, TypeOK, FilpRec, NodeTable
  <2>6. Counted(fd', filp')
    <3>1. Attaching(fd, fd', filp, filp', c, n, f)
      BY <1>1, <2>1, <2>3 DEF FInv, Attaching
    <3> QED
      BY <3>1, Attached
  <2>7. Positions(filp', moved')
    <3>1. dev = MEMFILE => ino \in MfIno
      BY <1>7
    <3> QED
      BY <2>1, <2>2, <3>1, Sizes DEF FInv, Positions
  <2> QED
    BY <2>4, <2>5, <2>6, <2>7 DEF FInv
<1> QED
  BY <1>2, <1>5, <1>6, <1>7

LEMMA StepPipeEnd ==
  ASSUME FInv, NEW c \in Pid, PipeEnd(c)
  PROVE  FInv'
<1> DEFINE n == find_empty_fd(c)
           f == find_empty_filp
<1>1. n \in Fd /\ fd[c][n] = -1 /\ f \in Filp /\ filp[f].refcnt = 0
  BY FindEmpty DEF FInv, PipeEnd
<1>2. /\ filp' = [filp EXCEPT ![f] = [dev |-> PIPE, ino |-> 0, refcnt |-> 1, pos |-> filp[f].pos]]
      /\ fd' = [fd EXCEPT ![c][n] = f]
      /\ devtab' = devtab /\ nodes' = nodes /\ moved' = moved
  BY DEF PipeEnd
<1> HIDE DEF n, f
<1>3. /\ filp \in [Filp -> FilpRec] /\ fd \in [Pid -> [Fd -> Filp \cup {-1}]]
  BY DEF FInv, TypeOK, FilpRec
<1>4. /\ filp' \in [Filp -> FilpRec] /\ filp'[f].refcnt = 1 /\ filp'[f].dev # MEMFILE
      /\ \A g \in Filp : g # f => filp'[g] = filp[g]
  BY <1>1, <1>2, <1>3, Sizes DEF FilpRec, PIPE, MEMFILE
<1>5. fd' \in [Pid -> [Fd -> Filp \cup {-1}]] /\ fd'[c][n] = f /\ OneDescriptor(fd, fd', c, n)
  BY <1>1, <1>2, <1>3 DEF OneDescriptor
<1>6. Keeping(filp, filp', nodes, nodes')
  BY <1>1, <1>2, <1>4 DEF FInv, Keeping
<1>7. Attaching(fd, fd', filp, filp', c, n, f)
  BY <1>1, <1>4, <1>5 DEF FInv, Attaching
<1>8. TypeOK'
  BY <1>2, <1>4, <1>5 DEF FInv, TypeOK, FilpRec
<1>9. Positions(filp', moved')
  BY <1>2, <1>4 DEF FInv, Positions
<1> QED
  BY <1>6, <1>7, <1>8, <1>9, Kept, Attached DEF FInv

LEMMA StepDup ==
  ASSUME FInv, NEW c \in Pid, NEW i \in Fd, Dup(c, i)
  PROVE  FInv'
<1> DEFINE n == find_empty_fd(c)
           f == fd[c][i]
<1>1. n \in Fd /\ fd[c][n] = -1
  BY FindEmpty DEF FInv, Dup
<1>2. f \in Filp
  BY Sizes DEF FInv, TypeOK, Dup
<1>3. filp[f].refcnt > 0
  BY <1>2, UsedCounted DEF FInv
<1>4. /\ filp' = [filp EXCEPT ![f].refcnt = @ + 1]
      /\ fd' = [fd EXCEPT ![c][n] = f]
      /\ devtab' = devtab /\ nodes' = nodes /\ moved' = moved
  BY DEF Dup
<1> HIDE DEF n, f
<1>5. /\ filp \in [Filp -> FilpRec] /\ fd \in [Pid -> [Fd -> Filp \cup {-1}]]
  BY DEF FInv, TypeOK, FilpRec
<1>6. /\ filp' \in [Filp -> FilpRec] /\ filp'[f].refcnt = filp[f].refcnt + 1
      /\ filp'[f].refcnt > 0
      /\ \A g \in Filp : g # f => filp'[g] = filp[g]
      /\ filp'[f].dev = filp[f].dev /\ filp'[f].ino = filp[f].ino /\ filp'[f].pos = filp[f].pos
  BY <1>2, <1>3, <1>4, <1>5 DEF FilpRec
<1>7. fd' \in [Pid -> [Fd -> Filp \cup {-1}]] /\ fd'[c][n] = f /\ OneDescriptor(fd, fd', c, n)
  BY <1>1, <1>2, <1>4, <1>5 DEF OneDescriptor
<1>8. Keeping(filp, filp', nodes, nodes')
  BY <1>3, <1>4, <1>6 DEF FInv, Keeping
<1>9. Attaching(fd, fd', filp, filp', c, n, f)
  BY <1>1, <1>2, <1>6, <1>7 DEF FInv, Attaching
<1>10. TypeOK'
  BY <1>4, <1>6, <1>7 DEF FInv, TypeOK, FilpRec
<1>11. Positions(filp', moved')
  BY <1>3, <1>4, <1>6 DEF FInv, Positions
<1> QED
  BY <1>8, <1>9, <1>10, <1>11, Kept, Attached DEF FInv

LEMMA StepClose ==
  ASSUME FInv, NEW c \in Pid, NEW i \in Fd, Close(c, i)
  PROVE  FInv'
<1> DEFINE f == fd[c][i]
<1>1. f \in Filp
  BY Sizes DEF FInv, TypeOK, Close
<1>2. filp[f].refcnt > 0
  BY <1>1, UsedCounted DEF FInv
<1>3. /\ filp' = [filp EXCEPT ![f].refcnt = @ - 1]
      /\ fd' = [fd EXCEPT ![c][i] = -1]
      /\ devtab' = devtab /\ moved' = moved
  BY DEF Close
<1>4. nodes' = IF filp'[f].refcnt = 0 /\ filp[f].dev = MEMFILE
               THEN mf_release(nodes, filp[f].ino) ELSE nodes
  BY DEF Close
<1>5. /\ filp \in [Filp -> FilpRec] /\ fd \in [Pid -> [Fd -> Filp \cup {-1}]] /\ nodes \in NodeTable
  BY DEF FInv, TypeOK, FilpRec, NodeTable
<1>6. fd' \in [Pid -> [Fd -> Filp \cup {-1}]] /\ fd[c][i] = f /\ fd'[c][i] = -1
      /\ OneDescriptor(fd, fd', c, i)
  BY <1>3, <1>5 DEF OneDescriptor
<1> HIDE DEF f
<1>7. /\ filp' \in [Filp -> FilpRec] /\ filp'[f].refcnt = filp[f].refcnt - 1
      /\ filp'[f].refcnt \in Nat
      /\ \A g \in Filp : g # f => filp'[g] = filp[g]
      /\ filp'[f].dev = filp[f].dev /\ filp'[f].ino = filp[f].ino /\ filp'[f].pos = filp[f].pos
  BY <1>1, <1>2, <1>3, <1>5 DEF FilpRec
<1>8. devtab' = devtab /\ moved' = moved
  BY <1>3
<1>9. Detaching(fd, fd', filp, filp', c, i, f)
  BY <1>1, <1>6, <1>7 DEF FInv, Detaching
<1>10. Positions(filp', moved')
  BY <1>2, <1>7, <1>8 DEF FInv, Positions
<1>11. nodes' \in NodeTable /\ NodesCount(filp', nodes')
  <2>1. CASE filp'[f].refcnt = 0 /\ filp[f].dev = MEMFILE
    <3> DEFINE j == filp[f].ino
    <3>1. j \in MfIno
      BY <1>1, <1>2, <2>1 DEF FInv, Positions
    <3>2. nodes' = mf_release(nodes, j)
      BY <1>4, <2>1
    <3>3. filp[f].ino = j
      OBVIOUS
    <3> HIDE DEF j
    <3>4. nodes[j] # NONE /\ nodes[j].refcnt > 0
      BY <1>1, <1>2, <2>1, <3>1, <3>3, UsedNode DEF FInv
    <3>5. /\ nodes' \in NodeTable /\ OneNode(nodes, nodes', j)
          /\ IF nodes'[j] = NONE THEN nodes[j].refcnt = 1 ELSE nodes'[j].refcnt = nodes[j].refcnt - 1
      BY <1>5, <3>1, <3>2, <3>4, Released
    <3>6. Leaving(filp, filp', nodes, nodes', f, j)
      BY <1>1, <1>2, <1>7, <2>1, <3>1, <3>3, <3>5 DEF FInv, Leaving
    <3> QED
      BY <3>5, <3>6, Left
  <2>2. CASE ~(filp'[f].refcnt = 0 /\ filp[f].dev = MEMFILE)
    <3>1. nodes' = nodes
      BY <1>4, <2>2
    <3>2. filp[f].dev = MEMFILE => filp'[f].refcnt > 0
      <4> DEFINE k == filp'[f].refcnt
      <4>1. k \in Nat /\ (filp[f].dev = MEMFILE => k # 0)
        BY <1>7, <2>2
      <4> HIDE DEF k
      <4>2. filp[f].dev = MEMFILE => k > 0
        BY <4>1
      <4> QED
        BY <4>2 DEF k
    <3>3. Keeping(filp, filp', nodes, nodes')
      BY <1>2, <1>7, <3>1, <3>2 DEF FInv, Keeping
    <3> QED
      BY <1>5, <3>1, <3>3, Kept
  <2> QED
    BY <2>1, <2>2
<1>12. TypeOK'
  BY <1>6, <1>7, <1>8, <1>11 DEF FInv, TypeOK, FilpRec, NodeTable
<1> QED
  BY <1>9, <1>10, <1>11, <1>12, Detached DEF FInv

-----------------------------------------------------------------------------
(* What memfile answers to a read or a write: the node with the same       *)
(* references, and one byte, or none at the end.                           *)
Answered(n, pos, w) ==
  /\ w.node \in MfNode /\ w.node.refcnt = n.refcnt
  /\ \/ w.data = EOF /\ w.bnum = 0
     \/ w.data # EOF /\ w.bnum = 1 /\ pos < LIMIT

LEMMA ReadAnswered ==
  ASSUME NEW n \in MfNode, NEW pos \in Nat
  PROVE  Answered(n, pos, mf_readc(n, pos))
<1>1. n.size \in 0..LIMIT /\ n.file \in [0..LIMIT -> Int] /\ LIMIT \in Nat /\ EOF \notin Int
  BY NodeFields, Sizes, FilesAssumption
<1>2. CASE pos >= LIMIT \/ pos >= n.size
  BY <1>2 DEF mf_readc, Answered
<1>3. CASE ~(pos >= LIMIT \/ pos >= n.size)
  <2>1. pos < LIMIT /\ pos \in 0..LIMIT
    BY <1>1, <1>3
  <2>2. n.file[pos] # EOF
    BY <1>1, <2>1
  <2> QED
    BY <1>3, <2>1, <2>2 DEF mf_readc, Answered
<1> QED
  BY <1>2, <1>3

LEMMA WriteAnswered ==
  ASSUME NEW n \in MfNode, NEW pos \in Nat, NEW d \in Data
  PROVE  Answered(n, pos, mf_writec(n, pos, d))
<1>1. n.file \in [0..LIMIT -> Int] /\ LIMIT \in Nat /\ EOF \notin Int /\ d \in Int
  BY NodeFields, Sizes, FilesAssumption
<1>2. CASE pos >= LIMIT
  BY <1>2 DEF mf_writec, Answered
<1>3. CASE ~(pos >= LIMIT)
  <2> DEFINE file == [n.file EXCEPT ![pos] = d]
  <2>1. pos < LIMIT /\ pos + 1 \in 0..LIMIT /\ d # EOF
    BY <1>1, <1>3
  <2>2. file \in [0..LIMIT -> Int]
    BY <1>1
  <2>3. mf_writec(n, pos, d) = [node |-> Filled(n, pos + 1, file), data |-> d, bnum |-> 1]
    BY <1>3 DEF mf_writec
  <2> HIDE DEF file
  <2>4. Filled(n, pos + 1, file) \in MfNode /\ Filled(n, pos + 1, file).refcnt = n.refcnt
    BY <2>1, <2>2, FilledNode
  <2> QED
    BY <2>1, <2>3, <2>4 DEF Answered
<1> QED
  BY <1>2, <1>3

LEMMA StepAdvance ==
  ASSUME FInv, NEW f \in Filp, filp[f].refcnt > 0, filp[f].dev = MEMFILE, NEW w,
         Answered(nodes[filp[f].ino], filp[f].pos, w), Advance(f, w)
  PROVE  FInv'
<1> DEFINE j == filp[f].ino
           m == w.node
           k == w.bnum
<1>1. j \in MfIno /\ filp[f].pos = moved[f]
  BY DEF FInv, Positions
<1>2. nodes[j] # NONE
  BY <1>1, UsedNode DEF FInv
<1>3. /\ m \in MfNode /\ m # NONE /\ m.refcnt = nodes[j].refcnt
      /\ \/ w.data = EOF /\ k = 0
         \/ w.data # EOF /\ k = 1 /\ filp[f].pos < LIMIT
  BY Sizes DEF Answered
<1>4. /\ nodes' = [nodes EXCEPT ![j] = m]
      /\ filp' = [filp EXCEPT ![f].pos = @ + k]
      /\ moved' = [moved EXCEPT ![f] = IF w.data = EOF THEN @ ELSE @ + 1]
      /\ devtab' = devtab /\ fd' = fd
  BY DEF Advance
<1>5. /\ filp \in [Filp -> FilpRec] /\ nodes \in NodeTable /\ moved \in [Filp -> Nat]
  BY DEF FInv, TypeOK, FilpRec, NodeTable
<1>6. k \in Nat /\ (IF w.data = EOF THEN moved[f] ELSE moved[f] + 1) = moved[f] + k
  BY <1>3, <1>5
<1> HIDE DEF j, m, k
<1>7. /\ filp' \in [Filp -> FilpRec] /\ filp'[f].pos = filp[f].pos + k
      /\ \A g \in Filp : g # f => filp'[g] = filp[g]
      /\ \A g \in Filp : /\ filp'[g].refcnt = filp[g].refcnt /\ filp'[g].dev = filp[g].dev
                         /\ filp'[g].ino = filp[g].ino
  BY <1>4, <1>5, <1>6 DEF FilpRec
<1>8. moved' \in [Filp -> Nat] /\ moved'[f] = moved[f] + k /\ \A g \in Filp : g # f => moved'[g] = moved[g]
  BY <1>4, <1>5, <1>6
<1>9. nodes' \in NodeTable /\ nodes'[j] = m /\ \A i \in MfIno : i # j => nodes'[i] = nodes[i]
  BY <1>1, <1>3, <1>4, <1>5 DEF NodeTable
<1>10. devtab' = devtab /\ fd' = fd
  BY <1>4
<1>11. TypeOK'
  BY <1>7, <1>8, <1>9, <1>10 DEF FInv, TypeOK, FilpRec, NodeTable
<1>12. Counted(fd', filp')
  BY <1>7, <1>10 DEF FInv, Counted
<1>13. Keeping(filp, filp', nodes, nodes')
  BY <1>2, <1>3, <1>7, <1>9 DEF FInv, Keeping
<1>14. filp'[f].pos = moved'[f] /\ filp'[f].pos <= LIMIT
  <2>1. filp[f].pos <= LIMIT /\ filp[f].pos \in Nat /\ LIMIT \in Nat
    BY <1>5, Sizes DEF FInv, Positions, FilpRec
  <2> QED
    BY <1>1, <1>3, <1>7, <1>8, <2>1
<1>15. Positions(filp', moved')
  BY <1>7, <1>8, <1>14 DEF FInv, Positions
<1> QED
  BY <1>11, <1>12, <1>13, <1>15, Kept DEF FInv

LEMMA StepReadWrite ==
  ASSUME FInv, NEW c \in Pid, NEW i \in Fd, Readc(c, i) \/ \E d \in Data : Writec(c, i, d)
  PROVE  FInv'
<1> DEFINE f == fd[c][i]
           n == nodes[filp[f].ino]
           pos == filp[f].pos
<1>1. f >= 0 /\ filp[f].dev = MEMFILE
  BY DEF Readc, Writec, OpenOn
<1>2. f \in Filp
  BY <1>1, Sizes DEF FInv, TypeOK
<1>3. filp[f].refcnt > 0
  BY <1>2, UsedCounted DEF FInv
<1>4. \/ Advance(f, mf_readc(n, pos))
      \/ \E d \in Data : Advance(f, mf_writec(n, pos, d))
  BY DEF Readc, Writec
<1> HIDE DEF f
<1>5. n \in MfNode /\ pos \in Nat
  <2>1. filp[f].ino \in MfIno
    BY <1>1, <1>2, <1>3 DEF FInv, Positions
  <2>2. n # NONE
    BY <1>1, <1>2, <1>3, <2>1, UsedNode DEF FInv
  <2>3. n \in MfNode \cup {NONE} /\ pos \in Nat
    BY <1>2, <2>1 DEF FInv, TypeOK
  <2> QED
    BY <2>2, <2>3
<1>6. PICK w : Answered(n, pos, w) /\ Advance(f, w)
  BY <1>4, <1>5, ReadAnswered, WriteAnswered
<1> QED
  BY <1>1, <1>2, <1>3, <1>6, StepAdvance

LEMMA FInvNext ==
  ASSUME FInv, [Next]_vars
  PROVE  FInv'
<1>1. CASE UNCHANGED vars
  BY <1>1 DEF vars, FInv, TypeOK
<1>2. CASE MkDev
  BY <1>2, StepMkDev
<1>3. CASE \E path \in Path : Stat(path) \/ Mknod(path)
  BY <1>3, StepStat, StepMknod
<1>4. ASSUME NEW c \in Pid, PipeEnd(c) PROVE FInv'
  BY <1>4, StepPipeEnd
<1>5. ASSUME NEW c \in Pid, NEW ino \in 0..MF_MAX_NODES, Open(c, MEMFILE, ino) PROVE FInv'
  <2>1. MEMFILE \in 0..(MAX_DEV - 1) /\ ino \in Nat
    BY Sizes, FilesAssumption DEF MEMFILE
  <2> QED
    BY <1>5, <2>1, StepOpen
<1>6. ASSUME NEW c \in Pid, NEW dev \in 0..(MAX_DEV - 1) \ {MEMFILE}, Open(c, dev, 0) PROVE FInv'
  <2>1. dev \in 0..(MAX_DEV - 1) /\ 0 \in Nat
    OBVIOUS
  <2> QED
    BY <1>6, <2>1, StepOpen
<1>7. ASSUME NEW c \in Pid, NEW i \in Fd,
             Dup(c, i) \/ Close(c, i) \/ Readc(c, i) \/ Hold(c, i) \/ \E d \in Data : Writec(c, i, d)
      PROVE  FInv'
  BY <1>7, StepDup, StepClose, StepReadWrite, StepHold
<1> QED
  BY <1>1, <1>2, <1>3, <1>4, <1>5, <1>6, <1>7 DEF Next

-----------------------------------------------------------------------------
(* In every run of vfs with memfile, a filp counts the descriptors that    *)
(* use it and a node the filps open on it; the filps in use are on nodes   *)
(* that are there, at the position their history says.                     *)
THEOREM FilesInvariant == Spec => []FInv
<1>1. Init => FInv
  BY FInvInit
<1>2. FInv /\ [Next]_vars => FInv'
  BY FInvNext
<1> QED
  BY <1>1, <1>2, PTL DEF Spec

(* do_rw() keeps the position of an open file exact and inside the file's  *)
(* array, whatever pos and bnum shared one word for before (vfs.h:71).     *)
THEOREM PositionsAlwaysExact == Spec => []PosExact
<1>1. FInv => PosExact
  BY DEF FInv, Positions, PosExact, InUse
<1> QED
  BY <1>1, FilesInvariant, PTL

(* VFS_INODE_GRAB and VFS_INODE_RELEASE balance: memfile never frees a     *)
(* node that a file is open on, and keeps none for a file that is closed.  *)
THEOREM NodesAlwaysCounted == Spec => []NodeCounted
<1>1. ASSUME FInv, NEW i \in MfIno
      PROVE  LET users == Cardinality({f \in Filp : InUse(f) /\ filp[f].ino = i})
             IN IF nodes[i] = NONE THEN users = 0 ELSE nodes[i].refcnt = users
  <2>1. {f \in Filp : InUse(f) /\ filp[f].ino = i} = On(filp, i)
    BY DEF InUse, On
  <2> QED
    BY <1>1, <2>1 DEF FInv, NodesCount
<1>2. FInv => NodeCounted
  BY <1>1 DEF NodeCounted
<1> QED
  BY <1>2, FilesInvariant, PTL

=============================================================================

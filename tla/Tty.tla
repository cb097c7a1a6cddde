--------------------------------- MODULE Tty ---------------------------------
(***************************************************************************)
(* drivers/tty.c with the interrupt messages of servers/vfs.c: the         *)
(* terminal on USART 0.                                                    *)
(*                                                                         *)
(* usart0_event (priority RT) waits for the receive and transmit           *)
(* interrupts and sends a message to vfs for each; vfs and the driver      *)
(* tty_usart0 (priority HIGH) handle it.  These three run with interrupts  *)
(* off (kirqdis()), and so do the other drivers; user tasks do not, and of *)
(* priority HIGH pm and ex do not.  An interrupt that finds usart0_event   *)
(* outside waitevent() is dropped (module Kernel, Interrupt).              *)
(*                                                                         *)
(* A user's request is one action: users run when no server is ready, so   *)
(* nothing comes between the request and the answer or VFS_HOLD.  The      *)
(* handling of an interrupt is split where another HIGH task can run.      *)
(***************************************************************************)
EXTENDS SeqOps

CONSTANTS Client,     \* user tasks; what one writes is its own name
          Letter,     \* characters with no special meaning
          LINE,       \* size of tbuf, 128 in the code
          MaxTyped, MaxAsked,   \* bounds: characters received and written
          NONE,       \* NULL: no client, no data
          EOF

ASSUME TtyAssumption ==
  LINE \in Nat /\ MaxTyped \in Nat /\ MaxAsked \in Nat /\ NONE \notin Client

\* Ctrl-C, Ctrl-D, backspace, newline ('\r' is handled alike), and 0xFF.
Special == {"^C", "^D", "BS", "NL", "FF"}
Char == Letter \cup Special

VARIABLES cur, high,    \* the running task; the ready queue of priority HIGH
          ev, evmsg,    \* usart0_event: waits, or is blocked in send(vfs)
          vfs, vmsg,    \* vfs: where it is, and the interrupt it handles
          pm,           \* pm: receives, is ready, or waits for ex or vfs
          rxcie, txcie, \* interrupt enable bits of UCSR0B
          rx, udr,      \* receiver: characters not read, the last one read
          busy, txc,    \* transmitter: sending, and its TXC flag
          rd_q, wr_q,   \* requests and interrupts on hold in the driver
          tbuf,         \* the line so far; idx is its length
          overrun,      \* something was stored behind tbuf
          client,       \* "run", "read" or "write": what the user waits for
          stale,        \* history: an RX message found no character in UDR0
          hit,          \* history: pm or ex was interrupted while vfs was busy
          typed,        \* how many characters were received
          taken, got, asked, out   \* histories: read from UDR0, delivered to
                                   \* readers, to be sent, written to UDR0

tasks == <<cur, high, ev, evmsg, vfs, vmsg, pm>>
uart == <<rxcie, txcie, rx, udr, busy, txc>>
driver == <<rd_q, wr_q, tbuf, overrun, client, stale, taken, got, asked, out>>
TtyVars == <<tasks, uart, driver, typed, hit>>

\* The driver has done its first handshake with usart0_event, which has put
\* the first newline into UDR0.
TtyInit ==
  /\ cur = "user" /\ high = <<>>
  /\ ev = "wait" /\ evmsg = NONE
  /\ vfs = "receive" /\ vmsg = NONE /\ pm = "receive"
  /\ rxcie = TRUE /\ txcie = TRUE
  /\ rx = <<>> /\ udr = NONE
  /\ busy = TRUE /\ txc = FALSE
  /\ rd_q = <<>> /\ wr_q = <<>>
  /\ tbuf = <<>> /\ overrun = FALSE
  /\ client = [c \in Client |-> "run"]
  /\ stale = FALSE /\ hit = FALSE
  /\ typed = 0 /\ taken = <<>> /\ got = <<>> /\ asked = <<>> /\ out = <<>>

-----------------------------------------------------------------------------
(* The driver's functions, on a record of its state; free are the clients  *)
(* that are answered.                                                      *)

Request(cmd, c, d) == [cmd |-> cmd, client |-> c, data |-> d]

Driver == [rd |-> rd_q, wr |-> wr_q, buf |-> tbuf, over |-> overrun,
           free |-> {}, got |-> got, asked |-> asked, out |-> out]

\* Mutation: a write waits even if the transmitter is free.
usart0_serve_write_holds(s, r, cmd) ==
  LET w == Head(s.wr)
  IN IF s.wr # <<>> /\ w.cmd = cmd /\ r.cmd = "TX"
     THEN [s EXCEPT !.wr = Tail(@), !.out = Append(@, w.data), !.free = @ \cup {w.client}]
     ELSE [s EXCEPT !.wr = Append(@, r)]

\* Mutation: the data of the wrong one of the two messages is sent.
usart0_serve_write_swapped(s, r, cmd) ==
  LET w == Head(s.wr)
      served == IF r.cmd = "TX" THEN r ELSE w
  IN IF s.wr # <<>> /\ w.cmd = cmd
     THEN [s EXCEPT !.wr = Tail(@), !.out = Append(@, served.data),
                    !.free = @ \cup {served.client}]
     ELSE [s EXCEPT !.wr = Append(@, r)]

\* usart0_serve_write(): a write meets a transmit interrupt that waits
\* (cmd = "TX"), or an interrupt a write; otherwise r is put on hold.
usart0_serve_write(s, r, cmd) ==
  LET w == Head(s.wr)
      served == IF r.cmd = "TX" THEN w ELSE r
  IN IF s.wr # <<>> /\ w.cmd = cmd
     THEN [s EXCEPT !.wr = Tail(@), !.out = Append(@, served.data),
                    !.free = @ \cup {served.client}]
     ELSE [s EXCEPT !.wr = Append(@, r)]

\* usart0_print_char(): a write nobody waits for.
usart0_print_char(s, d) ==
  [usart0_serve_write(s, Request("WRITEC", NONE, d), "TX") EXCEPT !.asked = Append(@, d)]

\* usart_serve_read(): a read meets a character that waits (cmd = "RX"), or
\* a character a read.
usart_serve_read(s, r, cmd) ==
  LET w == Head(s.rd)
  IN IF s.rd # <<>> /\ w.cmd = cmd
     THEN [s EXCEPT !.rd = Tail(@),
                    !.free = @ \cup {(IF r.cmd = "RX" THEN w ELSE r).client},
                    !.got = Append(@, (IF r.cmd = "RX" THEN r ELSE w).data)]
     ELSE [s EXCEPT !.rd = Append(@, r)]

\* usart_reply_char(), with the VFS_REPEAT message it sends for a reader.
usart_reply_char(s, d) == usart_serve_read(s, Request("RX", NONE, d), "READC")

\* (int) buf[i]: a char is signed, and 0xFF is EOF.
AsInt(c) == IF c = "FF" THEN EOF ELSE c

\* tty_flush(): the driver's state after the i-th turn of its loop, and after
\* all of it.
Flushing(s) ==
  LET turn[i \in 0..Len(s.buf)] ==
        IF i = 0 THEN s ELSE usart_reply_char(turn[i - 1], AsInt(s.buf[i]))
  IN turn

tty_flush(s) == [Flushing(s)[Len(s.buf)] EXCEPT !.buf = <<>>]

\* tbuf[idx++] = c.
Store(s, c) == [s EXCEPT !.buf = Append(@, c), !.over = @ \/ Len(s.buf) >= LINE]

\* VFS_RD_INTERRUPT in tty mode: the character is edited into the line.
Typed(s, c) ==
  CASE c = "^D" /\ s.buf = <<>> -> usart_reply_char(s, EOF)
    [] c = "^D" /\ s.buf # <<>> -> tty_flush(usart0_print_char(s, "NL"))
    [] c = "^C" -> usart0_print_char([s EXCEPT !.buf = <<>>], "NL")
    [] c = "BS" -> [s EXCEPT !.buf = IF @ = <<>> THEN @ ELSE Front(@)]
    [] c = "NL" -> tty_flush(Store(s, c))
    [] OTHER -> Store(s, c)

\* The driver's state becomes s; writing to UDR0 starts the transmitter.
Becomes(s) ==
  /\ rd_q' = s.rd /\ wr_q' = s.wr /\ tbuf' = s.buf /\ overrun' = s.over
  /\ client' = [c \in Client |-> IF c \in s.free THEN "run" ELSE client[c]]
  /\ got' = s.got /\ asked' = s.asked /\ out' = s.out
  /\ busy' = (busy \/ s.out # out)

-----------------------------------------------------------------------------
(* Users.  readc() and writec(): do_rw() asks the driver, and answers      *)
(* unless the request is on hold.                                          *)

\* The clients: c waits unless the driver frees it.
Waiting(c, what, s) ==
  [x \in Client |-> IF x \in s.free THEN "run" ELSE IF x = c THEN what ELSE client[x]]

Read(c) ==
  LET s == usart_serve_read(Driver, Request("READC", c, NONE), "RX")
  IN /\ cur = "user" /\ client[c] = "run" /\ ~overrun
     /\ rd_q' = s.rd /\ got' = s.got
     /\ client' = Waiting(c, "read", s)
     /\ UNCHANGED <<tasks, uart, wr_q, tbuf, overrun, stale, taken, asked, out, typed, hit>>

Write(c) ==
  LET s == usart0_serve_write(Driver, Request("WRITEC", c, c), "TX")
  IN /\ cur = "user" /\ client[c] = "run" /\ ~overrun
     /\ Len(asked) < MaxAsked
     /\ wr_q' = s.wr /\ out' = s.out
     /\ asked' = Append(asked, c)
     /\ busy' = (busy \/ s.out # out)
     /\ client' = Waiting(c, "write", s)
     /\ UNCHANGED <<tasks, rxcie, txcie, rx, udr, txc, rd_q, tbuf, overrun, stale, taken, got>>
     /\ UNCHANGED <<typed, hit>>

-----------------------------------------------------------------------------
(* The receiver, the transmitter and the interrupts.                       *)

\* The receiver holds two characters; one that comes when it is full is lost.
RXFIFO == 2

ReceiveChar(c) ==
  /\ Len(rx) < RXFIFO /\ typed < MaxTyped /\ ~overrun
  /\ rx' = Append(rx, c)
  /\ typed' = typed + 1
  /\ UNCHANGED <<tasks, rxcie, txcie, udr, busy, txc, driver, hit>>

TxDone ==
  /\ busy
  /\ busy' = FALSE /\ txc' = TRUE
  /\ UNCHANGED <<tasks, rxcie, txcie, rx, udr, driver, typed, hit>>

\* Mutation: vfs does not call kirqdis().
Unmasked_vfs == {"user", "pm", "ex", "vfs"}

\* The tasks that run with interrupts enabled; Open are the servers among them.
Open == {"pm", "ex"}
Unmasked == {"user"} \cup Open

\* The handler task becomes CURRENT; the other is put in front of its queue.
Wakes(what) ==
  /\ cur' = "ev" /\ evmsg' = what
  /\ high' = IF cur = "user" THEN high ELSE Cons(cur, high)
  /\ UNCHANGED <<ev, vfs, vmsg, pm>>

Hits == hit \/ (cur \in Open /\ vfs # "receive")

\* RXC stays set until UDR0 is read: an interrupt that is dropped comes again.
RxInterrupt ==
  /\ cur \in Unmasked /\ rxcie /\ rx # <<>> /\ ~overrun
  /\ ev = "wait"
  /\ Wakes("RX")
  /\ hit' = Hits
  /\ UNCHANGED <<uart, driver, typed>>

\* Executing the handler clears TXC, whether somebody waits or not.
TxInterrupt ==
  /\ cur \in Unmasked /\ txcie /\ txc /\ ~overrun
  /\ txc' = FALSE
  /\ IF ev = "wait" THEN Wakes("TX") ELSE UNCHANGED tasks
  /\ hit' = Hits
  /\ UNCHANGED <<rxcie, txcie, rx, udr, busy, driver, typed>>

-----------------------------------------------------------------------------
(* What the tasks do about it.  h is the ready queue of priority HIGH.     *)

Switch(h) ==
  /\ cur' = IF h = <<>> THEN "user" ELSE Head(h)
  /\ high' = IF h = <<>> THEN h ELSE Tail(h)

\* usart0_event: disables the interrupt, sends, enables both and waits.
EvRuns ==
  /\ cur = "ev"
  /\ \/ /\ vfs = "receive"
        /\ vfs' = "int" /\ vmsg' = evmsg
        /\ rxcie' = TRUE /\ txcie' = TRUE
        /\ Switch(Append(high, "vfs"))
        /\ UNCHANGED ev
     \/ /\ vfs # "receive"
        /\ ev' = "blocked"
        /\ rxcie' = (rxcie /\ evmsg # "RX")
        /\ txcie' = (txcie /\ evmsg # "TX")
        /\ Switch(high)
        /\ UNCHANGED <<vfs, vmsg>>
  /\ UNCHANGED <<evmsg, pm, rx, udr, busy, txc, driver, typed, hit>>

\* do_int(): vfs asks the driver.
VfsRuns ==
  /\ cur = "vfs" /\ vfs = "int"
  /\ vfs' = "asked"
  /\ Switch(Append(high, "tty"))
  /\ UNCHANGED <<ev, evmsg, vmsg, pm, uart, driver, typed, hit>>

\* The driver handles the interrupt.  UDR0 gives the last character again
\* when there is no new one.
TtyRuns ==
  /\ cur = "tty"
  /\ vfs' = "done"
  /\ Switch(Append(high, "vfs"))
  /\ \/ /\ vmsg = "RX"
        /\ LET c == IF rx = <<>> THEN udr ELSE Head(rx)
           IN /\ udr' = c
              /\ taken' = Append(taken, c)
              /\ Becomes(Typed(Driver, c))
        /\ stale' = (stale \/ rx = <<>>)
        /\ rx' = IF rx = <<>> THEN rx ELSE Tail(rx)
     \/ /\ vmsg = "TX"
        /\ Becomes(usart0_serve_write(Driver, Request("TX", NONE, NONE), "WRITEC"))
        /\ UNCHANGED <<rx, udr, stale, taken>>
  /\ UNCHANGED <<ev, evmsg, vmsg, pm, rxcie, txcie, txc, typed, hit>>

\* vfs is back in its receive(TASK_ANY): usart0_event may wait there, or pm.
VfsBack ==
  /\ cur = "vfs" /\ vfs = "done"
  /\ \/ /\ ev = "blocked"
        /\ vfs' = "int" /\ vmsg' = evmsg /\ ev' = "wait"
        /\ rxcie' = TRUE /\ txcie' = TRUE
        /\ UNCHANGED <<cur, high, pm>>
     \/ /\ pm = "send"
        /\ vfs' = "pm" /\ pm' = "vfs"
        /\ UNCHANGED <<cur, high, ev, vmsg, rxcie, txcie>>
     \/ /\ ev # "blocked" /\ pm # "send"
        /\ vfs' = "receive"
        /\ Switch(high)
        /\ UNCHANGED <<ev, vmsg, pm, rxcie, txcie>>
  /\ UNCHANGED <<evmsg, rx, udr, busy, txc, driver, typed, hit>>

-----------------------------------------------------------------------------
(* pm and ex, and what vfs does for pm: only matters who runs and is ready. *)

messages == <<ev, evmsg, vmsg>>

\* A user's request.
PmRun ==
  /\ cur = "user" /\ pm = "receive" /\ ~overrun
  /\ cur' = "pm" /\ pm' = "ready"
  /\ UNCHANGED <<high, vfs, messages, uart, driver, typed, hit>>

PmReceives ==
  /\ cur = "pm"
  /\ pm' = "receive"
  /\ Switch(high)
  /\ UNCHANGED <<vfs, messages, uart, driver, typed, hit>>

\* ex_getprg(): ex is in its receive(), unless it was preempted on its way there.
PmAsksEx ==
  /\ cur = "pm"
  /\ pm' = "ex"
  /\ Switch(IF "ex" \in Range(high) THEN high ELSE Append(high, "ex"))
  /\ UNCHANGED <<vfs, messages, uart, driver, typed, hit>>

ExAnswers ==
  /\ cur = "ex" /\ pm = "ex"
  /\ pm' = "ready" /\ high' = Append(high, "pm")
  /\ UNCHANGED <<cur, vfs, messages, uart, driver, typed, hit>>

ExReceives ==
  /\ cur = "ex" /\ pm # "ex"
  /\ Switch(high)
  /\ UNCHANGED <<pm, vfs, messages, uart, driver, typed, hit>>

\* vfs_createtask() and vfs_deletetask().
PmAsksVfs ==
  /\ cur = "pm"
  /\ \/ /\ vfs = "receive"
        /\ vfs' = "pm" /\ pm' = "vfs"
        /\ Switch(Append(high, "vfs"))
     \/ /\ vfs # "receive"
        /\ pm' = "send"
        /\ Switch(high)
        /\ UNCHANGED vfs
  /\ UNCHANGED <<messages, uart, driver, typed, hit>>

\* vfs asks a driver, which answers with interrupts off: others that are
\* ready run first.
VfsAsks ==
  /\ cur = "vfs" /\ vfs = "pm"
  /\ Switch(Append(high, "vfs"))
  /\ UNCHANGED <<pm, vfs, messages, uart, driver, typed, hit>>

VfsAnswers ==
  /\ cur = "vfs" /\ vfs = "pm"
  /\ vfs' = "done"
  /\ pm' = "ready" /\ high' = Append(high, "pm")
  /\ UNCHANGED <<cur, messages, uart, driver, typed, hit>>

\* The timer's handler preempts: the task goes to the end of its queue.
Tick ==
  /\ cur \in Open
  /\ Switch(Append(high, cur))
  /\ UNCHANGED <<pm, vfs, messages, uart, driver, typed, hit>>

-----------------------------------------------------------------------------

TtyNext ==
  \/ \E c \in Client : Read(c) \/ Write(c)
  \/ \E c \in Char : ReceiveChar(c)
  \/ TxDone \/ RxInterrupt \/ TxInterrupt
  \/ EvRuns \/ VfsRuns \/ TtyRuns \/ VfsBack
  \/ PmRun \/ PmReceives \/ PmAsksEx \/ PmAsksVfs
  \/ ExAnswers \/ ExReceives \/ VfsAsks \/ VfsAnswers \/ Tick

\* A ready task of the highest priority runs, a character that is being sent
\* gets out.  TXC stays set, so the interrupt is taken if tasks that leave
\* interrupts enabled run again and again.  pm, ex and vfs at work for them
\* get on, however often they are preempted.
Fairness ==
  /\ WF_TtyVars(EvRuns \/ VfsRuns \/ TtyRuns \/ VfsBack)
  /\ WF_TtyVars(TxDone) /\ SF_TtyVars(TxInterrupt)
  /\ SF_TtyVars(PmReceives \/ ExAnswers \/ ExReceives \/ VfsAnswers)

TtySpec == TtyInit /\ [][TtyNext]_TtyVars /\ Fairness

-----------------------------------------------------------------------------
(* Properties.                                                             *)

Requests == [cmd : {"RX", "TX", "READC", "WRITEC"}, client : Client \cup {NONE},
             data : Client \cup Char \cup {EOF, NONE}]

(* Types of the driver's state, its tasks and the USART's registers.       *)
TtyTypeOK ==
  /\ cur \in {"user", "pm", "ex", "ev", "vfs", "tty"}
  /\ high \in Seq({"pm", "ex", "vfs", "tty"})
  /\ ev \in {"wait", "blocked"} /\ evmsg \in {"RX", "TX", NONE}
  /\ vfs \in {"receive", "int", "asked", "pm", "done"} /\ vmsg \in {"RX", "TX", NONE}
  /\ pm \in {"receive", "ready", "ex", "send", "vfs"}
  /\ {rxcie, txcie, busy, txc, overrun, stale, hit} \subseteq BOOLEAN
  /\ rx \in Seq(Char) /\ Len(rx) <= RXFIFO /\ udr \in Char \cup {NONE}
  /\ rd_q \in Seq(Requests) /\ wr_q \in Seq(Requests)
  /\ tbuf \in Seq(Char) /\ out \in Seq(Client \cup Char)
  /\ client \in [Client -> {"run", "read", "write"}]

\* Where the requests for cmd are on hold.
Places(q, cmd) == {i \in DOMAIN q : q[i].cmd = cmd}

\* The places where the end of a transmission can be.
TxTokens ==
  LET Here(p) == IF p THEN 1 ELSE 0
  IN Here(busy) + Here(txc)
       + Here(evmsg = "TX" /\ (cur = "ev" \/ ev = "blocked"))
       + Here(vmsg = "TX" /\ vfs \in {"int", "asked"})
       + Cardinality(Places(wr_q, "TX"))

\* The data of those requests on hold, in order.
Data(q, cmd) ==
  LET those == Pick(q, Places(q, cmd))
  IN [i \in DOMAIN those |-> those[i].data]

\* What is written to UDR0, followed by the writes on hold, is what was
\* asked for, in order: the users' writes and the newlines the driver
\* prints itself share wr_q with the interrupts.
OutInOrder == out \o Data(wr_q, "WRITEC") = asked

\* Reference: what a line editor makes of a character; text is what readers
\* see, line what can still be edited.
Edit(e, c) ==
  CASE c = "^D" -> IF e.line = <<>> THEN [e EXCEPT !.text = Append(@, EOF)]
                   ELSE [text |-> e.text \o e.line, line |-> <<>>]
    [] c = "^C" -> [e EXCEPT !.line = <<>>]
    [] c = "BS" -> [e EXCEPT !.line = IF @ = <<>> THEN @ ELSE Front(@)]
    [] c = "NL" -> [text |-> e.text \o Append(e.line, c), line |-> <<>>]
    [] OTHER -> [e EXCEPT !.line = Append(@, AsInt(c))]

\* What it makes of the first i characters of s, and of all of them.
Editing(s) ==
  LET e[i \in 0..Len(s)] ==
        IF i = 0 THEN [text |-> <<>>, line |-> <<>>] ELSE Edit(e[i - 1], s[i])
  IN e

Edited(s) == Editing(s)[Len(s)]

\* What was delivered and what rd_q holds for the next reader is what the
\* line editor makes of the characters read from UDR0.
ReadInOrder ==
  LET e == Edited(taken)
  IN got \o Data(rd_q, "RX") = e.text /\ Len(tbuf) = Len(e.line)

\* rd_q never holds a character and a reader, wr_q never a writer and a
\* transmitter that is free.
NoIdleWait ==
  /\ \A i, j \in DOMAIN rd_q : rd_q[i].cmd = rd_q[j].cmd
  /\ \A i, j \in DOMAIN wr_q : wr_q[i].cmd = wr_q[j].cmd
  /\ \A c \in Client :
       /\ client[c] = "read" => \E i \in DOMAIN rd_q : rd_q[i].client = c
       /\ client[c] = "write" => \E i \in DOMAIN wr_q : wr_q[i].client = c

\* tbuf is exceeded only by a line of more than its size: LINE + 1
\* characters in a row without newline, Ctrl-C or Ctrl-D (tty.c:207).
OverrunByLongLine ==
  overrun =>
    \E i \in 1..Len(taken) - LINE :
      \A j \in i..i + LINE - 1 : taken[j] \notin {"NL", "^C", "^D"}

(* What the driver promises its users: each byte written is sent once and  *)
(* in order, readers get what a line editor makes of the characters read   *)
(* from UDR0, with nothing lost, doubled or out of order, nobody waits for *)
(* what is there, and only a line that is too long is stored past tbuf.    *)
Served == TtyTypeOK /\ OutInOrder /\ ReadInOrder /\ NoIdleWait /\ OverrunByLongLine

(* The end of a transmission is never counted twice, so the driver never   *)
(* writes to UDR0 while it sends; and it is never forgotten, nor does an   *)
(* RX message find UDR0 empty, unless an interrupt came while pm or ex ran *)
(* and vfs was not back in its receive(): the tasks between the interrupt  *)
(* and UDR0 keep interrupts off, those two do not (tty.c:34-50, pm.c:532-  *)
(* 547, ex.c:96-102).                                                      *)
OnlyThroughOpen == TxTokens <= 1 /\ (hit \/ (TxTokens = 1 /\ ~stale))

(* tty.c:175, "UDR0; Clear RX interrupt flag": every RX message finds the  *)
(* character it was sent for.                                              *)
ReadFresh == ~stale

(* The end of a transmission is always somewhere.                          *)
TxRemembered == TxTokens = 1

(* A write ends: each writec() returns, whatever is typed meanwhile, until *)
(* somebody types past the end of tbuf or a transmit interrupt is lost     *)
(* while pm or ex runs.                                                    *)
WriteEnds ==
  \A c \in Client : client[c] = "write" ~> (client[c] = "run" \/ overrun \/ TxTokens = 0)
=============================================================================

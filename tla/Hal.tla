--------------------------------- MODULE Hal ---------------------------------
(***************************************************************************)
(* kernel/hal.h, kernel/hal.c and the naked functions of kernel/kernel.c:  *)
(* how the processor gets from a task into the kernel and back.            *)
(*                                                                         *)
(* An interrupt can come before every step of a task, also between the     *)
(* instructions of a kernel call, so those are steps of their own; what    *)
(* runs with the I flag clear is one step.  Stacks hold bytes, the top one *)
(* last.  A byte is a tuple that says where it comes from, so a register   *)
(* that comes back with another's byte is noticed.  What the kernel does   *)
(* between re-entry and the next switch is module Kernel's; here it writes *)
(* to saved contexts and picks any task that is neither blocked nor gone.  *)
(***************************************************************************)
EXTENDS SeqOps

CONSTANTS Tasks,     \* the number of tasks; the first one is the idle task
          NoExitFn   \* tasks set up without an exit function

ASSUME HalAssumption == Tasks \in Nat \ {0} /\ NoExitFn \subseteq 1..Tasks

Task == 1..Tasks
IdleTask == 1

\* Registers r0 to r31 are 0..31.
SREG == 32
RetHigh == 33
RetLow == 34
Reg == 0..SREG

\* Places in the code a task, or the kernel, can be at.
ENTRY == 0     \* first instruction of the task's function
USER == 1      \* in C code
PUSHED == 2    \* KERNEL_CALL: r16 pushed
LOADED == 3    \* KERNEL_CALL: the code in r16
TRAP == 4      \* in swtrap(), before cli
AFTER == 5     \* KERNEL_CALL: back from swtrap()
EXITFN == 6    \* mexit()
EXITTASK == 7  \* exittask()
RESTORED == 8  \* switch_from_kernel(): before RET or RETI
KERNEL == 9    \* the kernel's re-entry point
WILD == 10     \* anywhere else

InTask == {ENTRY, USER, PUSHED, LOADED, TRAP, AFTER, EXITFN, EXITTASK, RESTORED}

\* Bytes: a task's own value of a register, the kernel's, the flags, a call
\* code, half of a code address, an argument, a result, or what malloc()
\* left.
Own(t, r) == <<"own", t, r>>
Mine(r) == <<"kernel", 0, r>>
Flags(i) == <<"flags", i, 0>>
CallCode(c) == <<"call", c, 0>>
High(p) == <<"high", p, 0>>
Low(p) == <<"low", p, 0>>
Args(t, r) == <<"args", t, r>>
Zero == <<"zero", 0, 0>>
Result(r) == <<"result", 0, r>>
Junk == <<"junk", 0, 0>>

\* Call codes: calls that block the task, with and without a change of code
\* by the kernel, one that wakes another, one that lets another run,
\* kirqdis(), kirqen(), and the last call of a task.
WAIT == 1
SENDREC == 2
SEND == 3
YIELD == 4
IRQDIS == 5
IRQEN == 6
EXIT == 7
RECEIVE == 8    \* what SENDREC is changed to

VARIABLES regs,       \* the processor's registers
          pc,
          sp,         \* whose stack SP points into: a task's, or 0 the kernel's
          stack,      \* of the kernel and the tasks
          current,
          irqdis,     \* tasks with TASK_FLAG_IRQDIS
          blocked,    \* tasks that wait for an event or a message
          gone,
          event,      \* is eventcode something else than EVENT_NONE?
          code        \* the call each task is making, 0 for none

HalVars == <<regs, pc, sp, stack, current, irqdis, blocked, gone, event, code>>

-----------------------------------------------------------------------------
(* The order of the pushes, of the pops and of the fields.                 *)

SaveOrder == <<31, SREG>> \o [i \in 1..31 |-> 31 - i]

\* Mutation: the pops in the order of the pushes, for the first two.
RestoreOrder_flags == [i \in 1..31 |-> i - 1] \o <<31, SREG>>

RestoreOrder == [i \in 1..31 |-> i - 1] \o <<SREG, 31>>

\* cpu_context_t, from its lowest address.
cpu_context == [i \in 1..31 |-> i - 1] \o <<SREG, 31, RetHigh, RetLow>>

\* Field f of the context on top of stack s: GET_CTXT() is sp + 1.
At(s, f) == Len(s) + 1 - IndexOf(cpu_context, f)
Field(s, f) == s[At(s, f)]

\* GETP0, SETP0, GET_KCALLCODE.
SETP0(s) == [[s EXCEPT ![At(s, 24)] = Result(24)] EXCEPT ![At(s, 25)] = Result(25)]
GET_KCALLCODE(s) == Field(s, 16)
SET_KCALLCODE(s, c) == [s EXCEPT ![At(s, 16)] = CallCode(c)]

Pushed(s, bytes) == s \o bytes
Popped(s, n) == SubSeq(s, 1, Len(s) - n)

\* call pushes the low byte of the return address first, ret pops the high.
Address(p) == <<Low(p), High(p)>>
Returned(s) == LET hi == s[Len(s)] lo == s[Len(s) - 1]
               IN IF hi = High(hi[2]) /\ lo = Low(hi[2]) THEN hi[2] ELSE WILD

SAVE_CONTEXT(s, rg) == Pushed(s, [i \in 1..Len(SaveOrder) |-> rg[SaveOrder[i]]])
RESTORE_CONTEXT(s) ==
  [r \in Reg |-> s[Len(s) + 1 - IndexOf(RestoreOrder, r)]]

ContextSize == Len(SaveOrder)

-----------------------------------------------------------------------------
\* Mutation: the exit function under exittask().
do_setuptask_exits(t, flags) ==
  LET byte(f) == IF f = RetHigh THEN High(ENTRY) ELSE IF f = RetLow THEN Low(ENTRY)
                 ELSE IF f \in {24, 25} THEN Args(t, f) ELSE IF f = 1 THEN Zero
                 ELSE IF f = SREG THEN flags ELSE Junk
      exits == (IF t \in NoExitFn THEN <<>> ELSE Address(EXITFN)) \o Address(EXITTASK)
  IN Pushed(exits, [i \in 1..Len(cpu_context) |->
                      byte(cpu_context[Len(cpu_context) + 1 - i])])

\* do_setuptask(): the exit functions and a context, of which the argument,
\* the entry point and r1 are written and the rest is what malloc() left,
\* the flags included.
do_setuptask(t, flags) ==
  LET byte(f) == IF f = RetHigh THEN High(ENTRY) ELSE IF f = RetLow THEN Low(ENTRY)
                 ELSE IF f \in {24, 25} THEN Args(t, f) ELSE IF f = 1 THEN Zero
                 ELSE IF f = SREG THEN flags ELSE Junk
      exits == Address(EXITTASK) \o IF t \in NoExitFn THEN <<>> ELSE Address(EXITFN)
  IN Pushed(exits, [i \in 1..Len(cpu_context) |->
                      byte(cpu_context[Len(cpu_context) + 1 - i])])

\* kernel() before its first switch: the tasks are set up.
HalInit ==
  /\ regs = [r \in Reg |-> IF r = SREG THEN Flags(0) ELSE Mine(r)]
  /\ pc = KERNEL /\ sp = 0
  /\ \E f \in [Task -> {Flags(0), Flags(1)}] :
       stack = [t \in 0..Tasks |-> IF t = 0 THEN <<>> ELSE do_setuptask(t, f[t])]
  /\ current \in Task
  /\ irqdis = {} /\ blocked = {} /\ gone = {}
  /\ event = TRUE      \* nothing to handle yet, as after an event
  /\ code = [t \in Task |-> 0]

Push(bytes) == stack' = [stack EXCEPT ![sp] = Pushed(@, bytes)]
Kernelspace == <<irqdis, blocked, gone, current, event>>

\* switchtokernel(), on stack s with registers rg: save, change stacks,
\* restore what the kernel saved, return there.
switchtokernel(s, rg) ==
  LET k == stack[0]
  IN /\ regs' = RESTORE_CONTEXT(k)
     /\ pc' = Returned(Popped(k, ContextSize))
     /\ sp' = 0
     /\ stack' = [[stack EXCEPT ![current] = SAVE_CONTEXT(s, rg)]
                         EXCEPT ![0] = Popped(k, ContextSize + 2)]

\* switch_from_kernel() to t, up to its return; the tasks' stacks are s.
switch_from_kernel(t, s) ==
  /\ regs' = RESTORE_CONTEXT(s[t])
  /\ pc' = RESTORED
  /\ sp' = t
  /\ stack' = [[s EXCEPT ![0] = SAVE_CONTEXT(Pushed(@, Address(KERNEL)), regs)]
                  EXCEPT ![t] = Popped(@, ContextSize)]
  /\ current' = t

-----------------------------------------------------------------------------
(* Steps of the task on the processor.                                     *)

\* Mutation: interrupts are on for everybody.
Return_reti ==
  /\ pc = RESTORED
  /\ pc' = Returned(stack[sp])
  /\ stack' = [stack EXCEPT ![sp] = Popped(@, 2)]
  /\ regs' = [regs EXCEPT ![SREG] = Flags(1)]
  /\ UNCHANGED <<sp, Kernelspace, code>>

\* RETURN() or RETI(), by TASK_FLAG_IRQDIS.
Return ==
  /\ pc = RESTORED
  /\ pc' = Returned(stack[sp])
  /\ stack' = [stack EXCEPT ![sp] = Popped(@, 2)]
  /\ regs' = IF current \in irqdis THEN regs ELSE [regs EXCEPT ![SREG] = Flags(1)]
  /\ UNCHANGED <<sp, Kernelspace, code>>

\* The function takes its argument out of r24:r25 and uses the registers.
Enter ==
  /\ pc = ENTRY
  /\ pc' = USER
  /\ regs' = [r \in Reg |-> IF r = SREG THEN regs[r] ELSE Own(current, r)]
  /\ UNCHANGED <<sp, stack, Kernelspace, code>>

\* KERNEL_CALL(c), instruction by instruction.
PushR16(c) ==
  /\ current # IdleTask
  /\ \/ pc = USER /\ c # EXIT
     \/ pc \in {EXITFN, EXITTASK} /\ c = EXIT
  /\ pc' = PUSHED
  /\ Push(<<regs[16]>>)
  /\ code' = [code EXCEPT ![current] = c]
  /\ UNCHANGED <<regs, sp, Kernelspace>>

LoadR16 ==
  /\ pc = PUSHED
  /\ pc' = LOADED
  /\ regs' = [regs EXCEPT ![16] = CallCode(code[current])]
  /\ UNCHANGED <<sp, stack, Kernelspace, code>>

CallSwtrap ==
  /\ pc = LOADED
  /\ pc' = TRAP
  /\ Push(Address(AFTER))
  /\ UNCHANGED <<regs, sp, Kernelspace, code>>

\* swtrap(): SWITCH_TO_KERNEL(EVENT_NONE), from its cli on.
swtrap ==
  /\ pc = TRAP
  /\ switchtokernel(stack[sp], [regs EXCEPT ![SREG] = Flags(0)])
  /\ event' = FALSE
  /\ UNCHANGED <<current, irqdis, blocked, gone, code>>

\* Back in KERNEL_CALL; the C code takes the result out of r24:r25.
PopR16 ==
  /\ pc = AFTER
  /\ pc' = USER
  /\ regs' = [r \in Reg |-> IF r = 16 THEN stack[sp][Len(stack[sp])]
                            ELSE IF r \in {24, 25} THEN Own(current, r) ELSE regs[r]]
  /\ stack' = [stack EXCEPT ![sp] = Popped(@, 1)]
  /\ code' = [code EXCEPT ![current] = 0]
  /\ UNCHANGED <<sp, Kernelspace>>

\* The task's function returns.
FunctionReturns ==
  /\ current # IdleTask
  /\ pc = USER
  /\ pc' = Returned(stack[sp])
  /\ stack' = [stack EXCEPT ![sp] = Popped(@, 2)]
  /\ UNCHANGED <<regs, sp, Kernelspace, code>>

\* Mutation: the handler leaves eventcode as it is.
Isr_silent ==
  /\ pc \in InTask /\ regs[SREG] = Flags(1)
  /\ switchtokernel(Pushed(stack[sp], Address(pc)), [regs EXCEPT ![SREG] = Flags(0)])
  /\ UNCHANGED <<event, current, irqdis, blocked, gone, code>>

\* An interrupt and its handler: SWITCH_TO_KERNEL(event).
Isr ==
  /\ pc \in InTask /\ regs[SREG] = Flags(1)
  /\ switchtokernel(Pushed(stack[sp], Address(pc)), [regs EXCEPT ![SREG] = Flags(0)])
  /\ event' = TRUE
  /\ UNCHANGED <<current, irqdis, blocked, gone, code>>

-----------------------------------------------------------------------------
(* The kernel loop, from the re-entry point to the switch.                 *)

Runnable(b, g) == Task \ (b \cup g)

\* An event: a task in waitevent() gets it and runs, or CURRENT goes on.
HandleEvent ==
  /\ pc = KERNEL /\ event
  /\ \/ \E w \in blocked : /\ blocked' = blocked \ {w}
                           /\ switch_from_kernel(w, [stack EXCEPT ![w] = SETP0(@)])
     \/ switch_from_kernel(current, stack) /\ UNCHANGED blocked
  /\ event' = FALSE
  /\ UNCHANGED <<irqdis, gone, code>>

\* A kernel call, by the code in the saved context.
HandleCall ==
  LET c == GET_KCALLCODE(stack[current])
      s == [stack EXCEPT ![current] = SETP0(@)]
  IN /\ pc = KERNEL /\ ~event
     /\ \/ c = CallCode(YIELD)
           /\ \E t \in Runnable(blocked, gone) : switch_from_kernel(t, s)
           /\ UNCHANGED <<irqdis, blocked, gone>>
        \/ c \in {CallCode(WAIT), CallCode(SEND)} /\ blocked' = blocked \cup {current}
           /\ \E t \in Runnable(blocked', gone) : switch_from_kernel(t, stack)
           /\ UNCHANGED <<irqdis, gone>>
        \/ c = CallCode(SENDREC) /\ blocked' = blocked \cup {current}
           /\ \E t \in Runnable(blocked', gone) :
                switch_from_kernel(t, [stack EXCEPT ![current] = SET_KCALLCODE(@, RECEIVE)])
           /\ UNCHANGED <<irqdis, gone>>
        \/ c = CallCode(SEND)
           /\ \E w \in blocked : /\ blocked' = blocked \ {w}
                                 /\ switch_from_kernel(current, [stack EXCEPT ![w] = SETP0(@)])
           /\ UNCHANGED <<irqdis, gone>>
        \/ c = CallCode(IRQDIS) /\ irqdis' = irqdis \cup {current}
           /\ switch_from_kernel(current, stack)
           /\ UNCHANGED <<blocked, gone>>
        \/ c = CallCode(IRQEN) /\ irqdis' = irqdis \ {current}
           /\ switch_from_kernel(current, stack)
           /\ UNCHANGED <<blocked, gone>>
        \/ c = CallCode(EXIT) /\ gone' = gone \cup {current}
           /\ \E t \in Runnable(blocked, gone') : switch_from_kernel(t, stack)
           /\ UNCHANGED <<irqdis, blocked>>
     /\ UNCHANGED <<event, code>>

HalNext ==
  \/ Return \/ Enter \/ LoadR16 \/ CallSwtrap \/ swtrap \/ PopR16 \/ FunctionReturns
  \/ \E c \in {WAIT, SENDREC, SEND, YIELD, IRQDIS, IRQEN, EXIT} : PushR16(c)
  \/ Isr \/ HandleEvent \/ HandleCall

HalSpec == HalInit /\ [][HalNext]_HalVars

-----------------------------------------------------------------------------
(* Types: no return ever goes anywhere but to a place of the code.         *)
HalTypeOK ==
  /\ pc \in InTask \cup {KERNEL}
  /\ sp \in 0..Tasks /\ current \in Task
  /\ irqdis \subseteq Task /\ blocked \subseteq Task /\ gone \subseteq Task
  /\ event \in BOOLEAN

\* What lies on a task's stack at a place of its code, above its exit
\* functions.
Frame(t, p) ==
  CASE p \in {PUSHED, LOADED, AFTER} -> <<Own(t, 16)>>
    [] p = TRAP -> <<Own(t, 16)>> \o Address(AFTER)
    [] OTHER -> <<>>

Exits(t) == Address(EXITTASK) \o IF t \in NoExitFn THEN <<>> ELSE Address(EXITFN)

Left(t) == code[t] = EXIT \/ pc \in {EXITFN, EXITTASK}

\* The kernel finds its registers and its stack as it left them at
\* switch_from_kernel(), whichever way it was entered.
KernelKept ==
  pc = KERNEL =>
    stack[0] = <<>> /\ \A r \in Reg : regs[r] = IF r = SREG THEN Flags(0) ELSE Mine(r)

(* A task does not notice interrupts, other tasks or its own kernel calls: *)
(* wherever it goes on, each register has the byte the task left in it, or *)
(* the call code KERNEL_CALL put there, and its stack is as it left it     *)
(* (kernel/hal.h: the pushes, the pops and the struct must agree).  The    *)
(* kernel's own registers and stack survive each switch as well.           *)
RegistersKept ==
  /\ HalTypeOK /\ KernelKept
  /\ pc \in {USER, PUSHED, LOADED, TRAP, AFTER} =>
       /\ \A r \in Reg \ {SREG, 16, 24, 25} : regs[r] = Own(current, r)
       /\ pc \in {USER, PUSHED} => regs[16] = Own(current, 16)
       /\ pc \in {LOADED, TRAP} => regs[16] = CallCode(code[current])
       /\ pc # AFTER => \A r \in {24, 25} : regs[r] = Own(current, r)
       /\ ~Left(current) => stack[current] = Exits(current) \o Frame(current, pc)

(* An interrupt between the ldi and the cli of a kernel call finds a call  *)
(* code in r16 already: the kernel takes it for the call's trap in no      *)
(* case, so each call is made exactly once (kernel.c:341, hal.h:208-214).  *)
TrapOnly ==
  pc = KERNEL /\ ~event =>
    /\ Field(stack[current], RetHigh) = High(AFTER)
    /\ GET_KCALLCODE(stack[current]) = CallCode(code[current])

(* A task that called kirqdis() runs with interrupts off and every other   *)
(* task with interrupts on, whatever the flags it was first started with;  *)
(* the kernel runs with interrupts off.                                    *)
IrqFlag ==
  /\ pc \in InTask \ {RESTORED} => (regs[SREG] = Flags(0) <=> current \in irqdis)
  /\ pc = KERNEL => regs[SREG] = Flags(0)

(* A task starts with its argument in r24:r25 and zero in r1 ("GCC needs   *)
(* r1 to be 0x00", kernel.c:204), and its function returns to mexit() or   *)
(* exittask() (kernel.c:189-194).                                          *)
StartsRight ==
  /\ pc = ENTRY => /\ \A r \in {24, 25} : regs[r] = Args(current, r)
                   /\ regs[1] = Zero
                   /\ stack[current] = Exits(current)
  /\ pc = EXITFN => current \notin NoExitFn
  /\ pc = EXITTASK => current \in NoExitFn
=============================================================================

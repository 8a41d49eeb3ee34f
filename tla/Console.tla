------------------------------ MODULE Console ------------------------------
(***************************************************************************)
(* Who writes to the UART, and in which order: the thread, the handlers    *)
(* that interrupt it and each other (IrqService), the root handler that    *)
(* reports an invalid INTID, and unexpected_exception, which never returns.*)
(* All of them call printk, which renders into an array on their own part  *)
(* of the one stack and sends it a character at a time; no lock is taken.  *)
(* What a format stands for is in Printk: here a call has its text.        *)
(***************************************************************************)
EXTENDS Integers, SequencesExt

CONSTANTS
    Line,      \* INTIDs
    Text,      \* texts that callers print, sequences of characters
    Tables,    \* contents of the section __console: sequences of [name, init]
    SIZE,      \* sizeof p_buf: 1024; longer texts are Printk's
    MaxCalls   \* bound: printk calls of a behaviour

ASSUME ConsoleAssumption ==
    /\ Line \subseteq 0 .. 1019 /\ MaxCalls \in Nat /\ SIZE \in Nat
    /\ \A t \in Text : t \in Seq(STRING) /\ Len(t) < SIZE
    /\ \A t \in Tables : t \in Seq([name : STRING, init : BOOLEAN])

CR   == "CR"
LF   == "LF"
NULL == 0

VARIABLES
    serving, masked, \* IrqService
    table,           \* the section __console
    con,             \* console_init: where it is in the table
    uart_console,    \* an index of table, or NULL
    inits,           \* auxiliary: the consoles whose init was called, in order
    stack,           \* the contexts, the running one last
    p_buf,           \* the array in each part of the stack
    said,            \* auxiliary: the text of each call of printk
    wire             \* what the UART sent: char, and auxiliary where it is
                     \* from: the call, the place in its text, whether it is
                     \* the CR put before a line feed

service == <<serving, masked>>
boot    == <<table, con, uart_console, inits>>
vars    == <<service, boot, stack, p_buf, said, wire>>

Prio(i) == IF i < 16 THEN 144 ELSE 160    \* 0x90, 0xa0
Service == INSTANCE IrqService

Top == stack[Len(stack)]
Run(pc)  == Top.pc = pc
Frame(r) == [stack EXCEPT ![Len(stack)] = r]
Goto(pc) == stack' = Frame([Top EXCEPT !.pc = pc])

\* Mutant: p_buf is a static array.
BufferOf_static(d) == 1

\* p_buf is a local of vprintk: the context's own part of the stack holds it.
BufferOf(d) == d

Buffer == p_buf[BufferOf(Len(stack))]

\* Another call may begin: the entered contexts have theirs still to make. (So
\* there are never more contexts than calls; the bound on them adds nothing.)
MayCall ==
    /\ Len(said) + Len(SelectSeq(stack, LAMBDA f : f.pc = "call")) < MaxCalls
    /\ Len(stack) <= MaxCalls

-----------------------------------------------------------------------------
(* console_init: the first console called qemu, after its own init         *)

console_init ==
    /\ Run("init") /\ con <= Len(table)
    /\ IF table[con].name # "qemu"
       THEN con' = con + 1 /\ UNCHANGED <<uart_console, inits, stack>>
       ELSE /\ inits' = IF table[con].init THEN Append(inits, con) ELSE inits
            /\ uart_console' = con
            /\ Goto("idle") /\ UNCHANGED con
    /\ UNCHANGED <<service, table, p_buf, said, wire>>

console_init_none ==
    /\ Run("init") /\ con > Len(table)
    /\ Goto("idle")
    /\ UNCHANGED <<service, boot, p_buf, said, wire>>

-----------------------------------------------------------------------------
(* printk                                                                  *)

\* p_buf holds what this part of the stack was last used for.
printk(t) ==
    /\ (Run("idle") /\ MayCall) \/ Run("call")
    /\ said' = Append(said, t)
    /\ stack' = Frame([Top EXCEPT !.pc = "format", !.call = Len(said) + 1,
                                  !.len = 0, !.i = 0, !.cr = FALSE])
    /\ UNCHANGED <<service, boot, p_buf, wire>>

\* vsnprintf stores the text from its start; len is str - buf.
vsnprintf ==
    /\ Run("format")
    /\ IF Top.len < Len(said[Top.call])
       THEN /\ p_buf' = [p_buf EXCEPT ![BufferOf(Len(stack))][Top.len] =
                             said[Top.call][Top.len + 1]]
            /\ stack' = Frame([Top EXCEPT !.len = @ + 1])
       ELSE Goto("console") /\ UNCHANGED p_buf
    /\ UNCHANGED <<service, boot, said, wire>>

console_write ==
    /\ Run("console")
    /\ Goto(IF uart_console = NULL \/ Top.len = 0 THEN "return" ELSE "write")
    /\ UNCHANGED <<service, boot, p_buf, said, wire>>

uart_putchar(c, cr) ==
    wire' = Append(wire, [call |-> Top.call, at |-> Top.i + 1, cr |-> cr,
                          char |-> c])

\* A line feed is two writes of the data register.
qemu_console_write ==
    /\ Run("write") /\ Top.i < Top.len
    /\ LET c == Buffer[Top.i]
       IN  IF c = LF /\ ~Top.cr
           THEN uart_putchar(CR, TRUE) /\ stack' = Frame([Top EXCEPT !.cr = TRUE])
           ELSE /\ uart_putchar(c, FALSE)
                /\ stack' = Frame([Top EXCEPT !.i = @ + 1, !.cr = FALSE])
    /\ UNCHANGED <<service, boot, p_buf, said>>

After(kind) == CASE kind = "thread" -> "idle" [] kind = "irq" -> "eoi"
                 [] kind = "invalid" -> "eret" [] kind = "exception" -> "halt"

printk_return ==
    /\ Run("return") \/ (Run("write") /\ Top.i = Top.len)
    /\ Goto(After(Top.kind))
    /\ UNCHANGED <<service, boot, p_buf, said, wire>>

-----------------------------------------------------------------------------
(* What interrupts it                                                      *)

Enter(kind, open) ==
    stack' = Append(stack, [kind |-> kind, pc |-> "call", open |-> open,
                            call |-> 0, len |-> 0, i |-> 0, cr |-> FALSE])

\* The CPU lets an IRQ in: the thread with IRQs open, or a handler that opened
\* them for its printk.
Interruptible ==
    /\ Top.open \/ (Top.kind = "thread" /\ ~Run("init") /\ ~masked)
    /\ ~Run("eoi")
    /\ MayCall

\* Its handler, handle_bad_irq or a client's that may open IRQs, prints.
TakeIrq(i) ==
    /\ Interruptible
    /\ Service!Acknowledge(i)
    /\ \E open \in BOOLEAN : Enter("irq", open)
    /\ UNCHANGED <<boot, p_buf, said, wire>>

\* The line is gone when IAR is read: gicv3_handle_irq prints "irqnr invalid".
TakeInvalid ==
    /\ Interruptible
    /\ Enter("invalid", FALSE)
    /\ UNCHANGED <<service, boot, p_buf, said, wire>>

gicv3_eoi_irq ==
    /\ Run("eoi")
    /\ Service!Complete
    /\ stack' = Front(stack)
    /\ UNCHANGED <<boot, p_buf, said, wire>>

eret ==
    /\ Run("eret")
    /\ stack' = Front(stack)
    /\ UNCHANGED <<service, boot, p_buf, said, wire>>

\* A synchronous exception, FIQ or SError: it prints its letter and loops.
unexpected_exception ==
    /\ ~Run("halt") /\ MayCall
    /\ Enter("exception", FALSE)
    /\ UNCHANGED <<service, boot, p_buf, said, wire>>

\* Between its calls the thread opens and closes IRQs.
local_irq == /\ Run("idle")
             /\ Service!SetMask
             /\ UNCHANGED <<boot, stack, p_buf, said, wire>>

-----------------------------------------------------------------------------
Init ==
    /\ Service!Init
    /\ table \in Tables /\ con = 1 /\ uart_console = NULL /\ inits = <<>>
    /\ stack = <<[kind |-> "thread", pc |-> "init", open |-> FALSE,
                  call |-> 0, len |-> 0, i |-> 0, cr |-> FALSE]>>
    /\ p_buf = [d \in 1 .. MaxCalls + 1 |-> [k \in 0 .. SIZE - 1 |-> "unset"]]
    /\ said = <<>> /\ wire = <<>>

Next ==
    \/ console_init \/ console_init_none
    \/ \E t \in Text : printk(t)
    \/ vsnprintf \/ console_write \/ qemu_console_write \/ printk_return
    \/ \E i \in Line : TakeIrq(i)
    \/ TakeInvalid \/ gicv3_eoi_irq \/ eret \/ unexpected_exception \/ local_irq

Spec == Init /\ [][Next]_vars

-----------------------------------------------------------------------------
(* Properties                                                              *)

Busy       == {"format", "console", "write", "return"}
InProgress == {stack[d].call : d \in {e \in 1 .. Len(stack) : stack[e].pc \in Busy}}
Qemu       == {k \in 1 .. Len(table) : table[k].name = "qemu"}

\* What has to be sent for text t, and in which order: each character, and a CR
\* before a line feed.
Due(t) == [at : 1 .. Len(t), cr : {FALSE}]
              \cup [at : {k \in 1 .. Len(t) : t[k] = LF}, cr : {TRUE}]
Before(r, s) == r.at < s.at \/ (r.at = s.at /\ r.cr /\ ~s.cr)

IsFrom(w, c, r) == wire[w].call = c /\ wire[w].at = r.at /\ wire[w].cr = r.cr

\* The y-th character sent continues its call's text: it is due, and what comes
\* before it, and no more, was sent before.
Continues(y) ==
    LET r == wire[y]
        t == said[r.call]
    IN  /\ r.call \in 1 .. Len(said)
        /\ r.at \in 1 .. Len(t) /\ (r.cr => t[r.at] = LF)
        /\ r.char = IF r.cr THEN CR ELSE t[r.at]
        /\ \A x \in 1 .. y - 1 : wire[x].call = r.call => Before(wire[x], r)
        /\ \A q \in Due(t) : Before(q, r) => \E x \in 1 .. y - 1 : IsFrom(x, r.call, q)

\* So each call has sent a part of its text from its start on, in order.
InOrder == \A y \in 1 .. Len(wire) : Continues(y)

\* A call that has returned has sent all of it, or had no console to send it to.
Complete ==
    \A c \in (1 .. Len(said)) \ InProgress :
        IF uart_console = NULL THEN \A y \in 1 .. Len(wire) : wire[y].call # c
        ELSE \A r \in Due(said[c]) : \E y \in 1 .. Len(wire) : IsFrom(y, c, r)

\* Between two characters of a call come only whole texts, of calls that began
\* later and have returned.
Nested ==
    \A x, z \in 1 .. Len(wire) : \A y \in x .. z :
         wire[x].call = wire[z].call /\ wire[y].call # wire[x].call =>
             /\ wire[y].call > wire[x].call
             /\ wire[y].call \notin InProgress
             /\ \A w \in 1 .. Len(wire) : wire[w].call = wire[y].call => w \in x .. z

\* Nothing is sent but through the first console called qemu, after its init.
ThroughConsole ==
    wire # <<>> =>
         /\ uart_console \in Qemu /\ \A k \in Qemu : uart_console <= k
         /\ inits = IF table[uart_console].init THEN <<uart_console>> ELSE <<>>

\* Whoever prints where and whatever interrupts it, each call's own characters
\* reach the UART whole, in order, with a CR before each LF; what comes between
\* two of them are only whole texts of calls that began later.  Nothing is sent
\* but through the first console called qemu, after its init.
TextsWhole == InOrder /\ Complete /\ Nested /\ ThroughConsole
=============================================================================

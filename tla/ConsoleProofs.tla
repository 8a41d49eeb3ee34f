---------------------------- MODULE ConsoleProofs ----------------------------
(* Whatever contexts print, and however they interrupt each other, every   *)
(* text reaches the UART whole and nested, for any texts, console tables   *)
(* and number of calls.                                                    *)
EXTENDS Console, TLAPS

\* (The provers do not know of a literal that it is a string.)
Char    == STRING \cup {"unset", CR}
Context == [kind : {"thread", "irq", "invalid", "exception"},
            pc   : Busy \cup {"init", "idle", "call", "eoi", "eret", "halt"},
            open : BOOLEAN, call : Nat, len : Nat, i : Nat, cr : BOOLEAN]
Sent    == [call : Nat, at : Nat, cr : BOOLEAN, char : Char]
Buffers == [1 .. MaxCalls + 1 -> [0 .. SIZE - 1 -> Char]]

CTypeOK ==
    /\ stack \in Seq(Context) /\ Len(stack) \in 1 .. MaxCalls + 1
    /\ said \in Seq(Text) /\ wire \in Seq(Sent) /\ p_buf \in Buffers
    /\ table \in Tables /\ con \in Nat \ {0}
    /\ uart_console \in Nat /\ inits \in Seq(Nat)

\* The thread is at the bottom; who it is decides where a context can be, and
\* exceptions, which let no IRQ in, are all that can interrupt console_init.
StackInv ==
    /\ \A d \in 1 .. Len(stack) :
         LET f == stack[d]
         IN  /\ f.kind = "thread" <=> d = 1
             /\ f.pc \in {"init", "idle"} => f.kind = "thread"
             /\ f.pc = "eoi" => f.kind = "irq"
             /\ f.pc = "eret" => f.kind = "invalid"
             /\ f.open => f.kind = "irq"
    /\ stack[1].pc = "init" =>
         /\ \A d \in 2 .. Len(stack) : stack[d].kind = "exception"
         /\ Len(stack) = 1 => said = <<>>

\* console_init stops at the first console called qemu and takes that one;
\* until it has, nothing is sent.
BootInv ==
    /\ \A k \in 1 .. Len(table) : k < con => table[k].name # "qemu"
    /\ stack[1].pc = "init" => uart_console = NULL
    /\ uart_console = NULL => inits = <<>> /\ wire = <<>>
    /\ uart_console # NULL =>
         /\ uart_console = con /\ con \in 1 .. Len(table)
         /\ table[con].name = "qemu"
         /\ inits = IF table[con].init THEN <<con>> ELSE <<>>

\* How far a call in progress has come with its text.
Progress(f) ==
    LET t == said[f.call]
    IN  /\ f.call \in 1 .. Len(said)
        /\ f.len <= Len(t) /\ (f.pc # "format" => f.len = Len(t))
        /\ f.i <= f.len
        /\ f.cr => f.i < f.len /\ t[f.i + 1] = LF
        /\ f.pc # "write" => f.i = 0 /\ ~f.cr
        /\ f.pc = "write" => uart_console # NULL
        /\ f.pc = "return" => uart_console = NULL \/ f.len = 0

\* Contexts above began their calls later.
CallInv ==
    \A d \in 1 .. Len(stack) : stack[d].pc \in Busy =>
        /\ Progress(stack[d])
        /\ \A e \in d + 1 .. Len(stack) :
               stack[e].pc \in Busy => stack[d].call < stack[e].call

\* What a call has rendered is in its own array, whoever rendered meanwhile.
BufferInv ==
    \A d \in 1 .. Len(stack) : stack[d].pc \in Busy =>
        \A k \in 0 .. stack[d].len - 1 : p_buf[d][k] = said[stack[d].call][k + 1]

\* What a call in progress has sent: all that comes before the place it is at.
Past(f, q) == q.at <= f.i \/ (q.at = f.i + 1 /\ q.cr /\ f.cr)
HasSent(f) ==
    /\ \A y \in 1 .. Len(wire) : wire[y].call = f.call => Past(f, wire[y])
    /\ \A q \in Due(said[f.call]) : Past(f, q) =>
           \E y \in 1 .. Len(wire) : IsFrom(y, f.call, q)
SentInv == \A d \in 1 .. Len(stack) : stack[d].pc \in Busy => HasSent(stack[d])

\* No call sends between two characters of a later one; nor does one while a
\* later one is in progress.
NestInv ==
    /\ \A y \in 1 .. Len(wire) : \A x \in 1 .. y - 1 : \A w \in 1 .. x - 1 :
         wire[w].call = wire[y].call => wire[x].call >= wire[y].call
    /\ \A d \in 1 .. Len(stack) : stack[d].pc \in Busy =>
         \A z \in 1 .. Len(wire) : \A y \in 1 .. z - 1 :
             wire[y].call = stack[d].call => wire[z].call >= wire[y].call

CInv == /\ CTypeOK /\ StackInv /\ BootInv /\ CallInv /\ BufferInv /\ SentInv
        /\ NestInv /\ InOrder /\ Complete

-----------------------------------------------------------------------------
(* The sequences                                                           *)

\* The frame of the running context is replaced, those below stay.
LEMMA TopReplaced ==
    ASSUME CTypeOK, NEW r \in Context, stack' = Frame(r)
    PROVE  /\ stack' \in Seq(Context) /\ Len(stack') = Len(stack)
           /\ stack'[Len(stack)] = r
           /\ \A d \in 1 .. Len(stack) - 1 : stack'[d] = stack[d]
BY DEF CTypeOK, Frame

\* A context is entered: it lies on top of the others.
LEMMA TopPushed ==
    ASSUME CTypeOK, NEW r \in Context, stack' = Append(stack, r)
    PROVE  /\ stack' \in Seq(Context) /\ Len(stack') = Len(stack) + 1
           /\ stack'[Len(stack) + 1] = r
           /\ \A d \in 1 .. Len(stack) : stack'[d] = stack[d]
BY DEF CTypeOK

\* A context returns: the one below runs on where it was.
LEMMA TopPopped ==
    ASSUME CTypeOK, Len(stack) > 1, stack' = Front(stack)
    PROVE  /\ stack' \in Seq(Context) /\ Len(stack') = Len(stack) - 1
           /\ \A d \in 1 .. Len(stack) - 1 : stack'[d] = stack[d]
BY DEF CTypeOK, Front

\* A call is noted: the texts of the earlier ones stay.
LEMMA CallNoted ==
    ASSUME CTypeOK, NEW t \in Text, said' = Append(said, t)
    PROVE  /\ said' \in Seq(Text) /\ Len(said') = Len(said) + 1
           /\ said'[Len(said) + 1] = t
           /\ \A c \in 1 .. Len(said) : said'[c] = said[c]
BY DEF CTypeOK

\* A character is sent: those sent before stay.
LEMMA CharSent ==
    ASSUME CTypeOK, NEW r \in Sent, wire' = Append(wire, r)
    PROVE  /\ wire' \in Seq(Sent) /\ Len(wire') = Len(wire) + 1
           /\ wire'[Len(wire) + 1] = r
           /\ \A y \in 1 .. Len(wire) : wire'[y] = wire[y]
BY DEF CTypeOK

\* The texts that are printed.
LEMMA TextTyped ==
    ASSUME CTypeOK, NEW c \in 1 .. Len(said)
    PROVE  said[c] \in Seq(STRING) /\ Len(said[c]) \in 0 .. SIZE - 1
BY ConsoleAssumption DEF CTypeOK

\* What is due of a text.
LEMMA DueTyped ==
    ASSUME NEW t, NEW q \in Due(t)
    PROVE  q.at \in 1 .. Len(t) /\ q.cr \in BOOLEAN /\ (q.cr => t[q.at] = LF)
<1>1. CASE q \in [at : 1 .. Len(t), cr : {FALSE}]
  BY <1>1
<1>2. CASE q \in [at : {k \in 1 .. Len(t) : t[k] = LF}, cr : {TRUE}]
  BY <1>2
<1> QED BY <1>1, <1>2 DEF Due

LEMMA TopTyped == ASSUME CTypeOK PROVE Top \in Context /\ Top = stack[Len(stack)]
BY DEF CTypeOK, Top

\* The frames and the characters sent.
LEMMA FrameTyped ==
    ASSUME CTypeOK, NEW d \in 1 .. Len(stack)
    PROVE  stack[d].call \in Nat /\ stack[d].i \in Nat /\ stack[d].len \in Nat
<1>1. stack[d] \in Context
  BY DEF CTypeOK
<1> QED BY <1>1 DEF Context

LEMMA SentTyped ==
    ASSUME CTypeOK, NEW y \in 1 .. Len(wire)
    PROVE  wire[y] \in Sent /\ wire[y].call \in Nat
<1>1. wire[y] \in Sent
  BY DEF CTypeOK
<1> QED BY <1>1 DEF Sent

-----------------------------------------------------------------------------
(* The invariant                                                           *)

\* At the start there is the thread, in console_init, and nothing is printed.
LEMMA InitCInv == ASSUME Init PROVE CInv
<1>1. CTypeOK
  <2>1. p_buf \in Buffers
    <3>1. [k \in 0 .. SIZE - 1 |-> "unset"] \in [0 .. SIZE - 1 -> Char]
      BY DEF Char
    <3> QED BY <3>1 DEF Init, Buffers
  <2>2. stack \in Seq(Context) /\ Len(stack) = 1
    <3>1. [kind |-> "thread", pc |-> "init", open |-> FALSE, call |-> 0,
           len |-> 0, i |-> 0, cr |-> FALSE] \in Context
      BY DEF Context
    <3>2. ASSUME NEW r \in Context PROVE <<r>> \in Seq(Context) /\ Len(<<r>>) = 1
      OBVIOUS
    <3> QED BY <3>1, <3>2 DEF Init
  <2> QED BY <2>1, <2>2, ConsoleAssumption DEF Init, CTypeOK, NULL
<1>2. /\ Len(stack) = 1 /\ stack[1].kind = "thread" /\ stack[1].pc = "init"
      /\ ~stack[1].open
  BY DEF Init
<1>3. said = <<>> /\ wire = <<>> /\ Len(said) = 0 /\ Len(wire) = 0
  BY DEF Init
<1>4. StackInv
  BY <1>2, <1>3 DEF StackInv
<1>5. BootInv
  BY <1>1, <1>2, <1>3 DEF Init, BootInv, CTypeOK
<1>6. CallInv /\ BufferInv /\ SentInv
  BY <1>2 DEF CallInv, BufferInv, SentInv, Busy
<1>7. NestInv /\ InOrder /\ Complete
  BY <1>2, <1>3 DEF NestInv, InOrder, Complete, Busy
<1> QED BY <1>1, <1>4, <1>5, <1>6, <1>7 DEF CInv

\* Nothing that was sent is touched by a step that only notes a call.
LEMMA OrderKept ==
    ASSUME CTypeOK, InOrder, wire' = wire, NEW n \in Nat,
           Len(said') = Len(said) + n,
           \A c \in 1 .. Len(said) : said'[c] = said[c]
    PROVE  InOrder'
<1> SUFFICES ASSUME NEW y \in 1 .. Len(wire)
             PROVE  Continues(y)'
  BY DEF InOrder
<1>1. Continues(y)
  BY DEF InOrder
<1>2. wire[y].call \in 1 .. Len(said)
  BY <1>1 DEF Continues
<1>3. said'[wire[y].call] = said[wire[y].call]
  BY <1>2
<1>4. Len(said) \in Nat
  BY DEF CTypeOK
<1> QED BY <1>1, <1>2, <1>3, <1>4 DEF Continues, IsFrom

\* A call in progress gets on with its text.
LEMMA CallKept ==
    ASSUME CInv, NEW r \in Context, stack' = Frame(r), UNCHANGED <<said, uart_console>>,
           r.pc \in Busy => Top.pc \in Busy /\ r.call = Top.call /\ Progress(r)
    PROVE  CallInv'
<1>1. /\ Len(stack') = Len(stack) /\ Len(stack) \in Nat \ {0}
      /\ \A d \in 1 .. Len(stack) - 1 : stack'[d] = stack[d]
      /\ stack'[Len(stack)] = r /\ Top = stack[Len(stack)]
  BY TopReplaced, TopTyped DEF CInv, CTypeOK
<1>2. \A d \in 1 .. Len(stack) : stack'[d].pc \in Busy =>
          stack[d].pc \in Busy /\ stack'[d].call = stack[d].call /\ Progress(stack'[d])
  BY <1>1 DEF CInv, CallInv
<1>3. ASSUME NEW d \in 1 .. Len(stack'), stack'[d].pc \in Busy
      PROVE  Progress(stack[d])'
  BY <1>1, <1>2, <1>3 DEF Progress
<1> QED BY <1>1, <1>2, <1>3 DEF CInv, CallInv

\* A step that only moves the running context: from outside a call to outside
\* a call, or within one.
LEMMA TopMoves ==
    ASSUME CInv, NEW r \in Context, stack' = Frame(r),
           UNCHANGED <<p_buf, said, wire, uart_console>>,
           r.pc \in Busy => /\ Top.pc \in Busy /\ r.call = Top.call
                            /\ r.len = Top.len /\ r.i = Top.i /\ r.cr = Top.cr
                            /\ Progress(r)
    PROVE  CallInv' /\ BufferInv' /\ SentInv' /\ NestInv' /\ InOrder'
<1>1. /\ Len(stack') = Len(stack) /\ Len(stack) \in Nat \ {0}
      /\ \A d \in 1 .. Len(stack) - 1 : stack'[d] = stack[d]
      /\ stack'[Len(stack)] = r /\ Top = stack[Len(stack)]
  BY TopReplaced, TopTyped DEF CInv, CTypeOK
<1>2. \A d \in 1 .. Len(stack) : stack'[d].pc \in Busy =>
          /\ stack[d].pc \in Busy /\ stack'[d].call = stack[d].call
          /\ stack'[d].len = stack[d].len /\ stack'[d].i = stack[d].i
          /\ stack'[d].cr = stack[d].cr
  BY <1>1
<1>3. CallInv'
  BY CallKept
<1>4. BufferInv'
  BY <1>1, <1>2 DEF CInv, BufferInv
<1>5. SentInv'
  BY <1>1, <1>2 DEF CInv, SentInv, HasSent, Past, IsFrom
<1>6. NestInv'
  BY <1>1, <1>2 DEF CInv, NestInv
<1>7. InOrder'
  <2>1. Len(said') = Len(said) + 0 /\ \A c \in 1 .. Len(said) : said'[c] = said[c]
    BY DEF CInv, CTypeOK
  <2> QED BY <2>1, OrderKept DEF CInv
<1> QED BY <1>3, <1>4, <1>5, <1>6, <1>7

\* A context that moves keeps its place on the stack.
LEMMA TopStays ==
    ASSUME CInv, NEW r \in Context, stack' = Frame(r), said' = said \/ Top.pc # "init",
           r.kind = Top.kind /\ r.open = Top.open,
           r.pc \in {"init", "idle"} => r.kind = "thread",
           r.pc = "eoi" => r.kind = "irq",
           r.pc = "eret" => r.kind = "invalid",
           r.pc = "init" => Top.pc = "init"
    PROVE  StackInv'
<1>1. /\ Len(stack') = Len(stack) /\ Len(stack) \in Nat \ {0}
      /\ \A d \in 1 .. Len(stack) - 1 : stack'[d] = stack[d]
      /\ stack'[Len(stack)] = r /\ Top = stack[Len(stack)]
  BY TopReplaced, TopTyped DEF CInv, CTypeOK
<1>2. \A d \in 1 .. Len(stack) : /\ stack'[d].kind = stack[d].kind
                                 /\ stack'[d].open = stack[d].open
  BY <1>1
<1>3. ASSUME stack'[1].pc = "init"
      PROVE  /\ \A d \in 2 .. Len(stack) : stack'[d].kind = "exception"
             /\ Len(stack) = 1 => said' = <<>>
  BY <1>1, <1>2, <1>3 DEF CInv, StackInv
<1> QED BY <1>1, <1>2, <1>3 DEF CInv, StackInv

\* What has been printed of the calls that are over stays so as long as no
\* more of them are over.
LEMMA CompleteKept ==
    ASSUME Complete, UNCHANGED <<said, wire, uart_console>>,
           InProgress \subseteq InProgress'
    PROVE  Complete'
BY DEF Complete, IsFrom

\* The calls in progress before and after the running context moves on.
LEMMA ProgressOfTop ==
    ASSUME CTypeOK, NEW r \in Context, stack' = Frame(r)
    PROVE  /\ InProgress' \subseteq InProgress \cup (IF r.pc \in Busy THEN {r.call} ELSE {})
           /\ InProgress \subseteq InProgress' \cup
                (IF Top.pc \in Busy THEN {Top.call} ELSE {})
           /\ r.pc \in Busy => r.call \in InProgress'
<1>1. /\ Len(stack') = Len(stack) /\ Len(stack) \in Nat \ {0}
      /\ \A d \in 1 .. Len(stack) - 1 : stack'[d] = stack[d]
      /\ stack'[Len(stack)] = r /\ Top = stack[Len(stack)]
  BY TopReplaced, TopTyped DEF CTypeOK
<1> QED BY <1>1 DEF InProgress

\* console_init takes the first console of that name and calls its init.
LEMMA InitStep == ASSUME CInv, console_init PROVE CInv'
<1>1. /\ table[con].name # "qemu" /\ con' = con + 1
      /\ UNCHANGED <<uart_console, inits, stack, table, p_buf, said, wire>>
      => CInv'
  <2> SUFFICES ASSUME table[con].name # "qemu", con' = con + 1,
                 UNCHANGED <<uart_console, inits, stack, table, p_buf, said, wire>>
               PROVE  CInv'
    OBVIOUS
  <2>1. stack[1].pc = "init" /\ uart_console = NULL
    <3>1. Top.pc = "init" /\ Top = stack[Len(stack)] /\ Len(stack) \in Nat \ {0}
      BY TopTyped DEF console_init, Run, CInv, CTypeOK
    <3> QED BY <3>1 DEF CInv, StackInv, BootInv
  <2>2. CTypeOK' /\ BootInv'
    BY <2>1 DEF CInv, CTypeOK, BootInv
  <2>3. StackInv' /\ CallInv' /\ BufferInv' /\ SentInv' /\ NestInv'
    BY DEF CInv, StackInv, CallInv, Progress, BufferInv, SentInv, HasSent, Past,
           IsFrom, NestInv
  <2>4. InOrder' /\ Complete'
    BY DEF CInv, InOrder, Continues, Complete, InProgress, IsFrom
  <2> QED BY <2>2, <2>3, <2>4 DEF CInv
<1>2. ASSUME table[con].name = "qemu", uart_console' = con,
             inits' = IF table[con].init THEN Append(inits, con) ELSE inits,
             Goto("idle"), UNCHANGED <<con, table, p_buf, said, wire>>
      PROVE  CInv'
  <2> DEFINE r == [Top EXCEPT !.pc = "idle"]
  <2>1. /\ Top \in Context /\ Top = stack[Len(stack)] /\ Top.pc = "init"
        /\ Len(stack) \in Nat \ {0}
    BY TopTyped DEF console_init, Run, CInv, CTypeOK
  <2>2. Len(stack) = 1 /\ Top.kind = "thread" /\ said = <<>> /\ wire = <<>>
        /\ inits = <<>>
    <3>1. Len(stack) = 1 /\ Top.kind = "thread"
      BY <2>1 DEF CInv, StackInv
    <3>2. stack[1].pc = "init"
      BY <2>1, <3>1
    <3> QED BY <3>1, <3>2 DEF CInv, StackInv, BootInv
  <2>3. r \in Context /\ stack' = Frame(r) /\ r.pc = "idle"
        /\ r.kind = Top.kind /\ r.open = Top.open
    BY <1>2, <2>1 DEF Goto, Context
  <2> HIDE DEF r
  <2>4. Len(stack') = 1 /\ stack'[1] = r /\ stack' \in Seq(Context)
    BY <2>2, <2>3, TopReplaced DEF CInv
  <2>5. CTypeOK'
    BY <1>2, <2>2, <2>4 DEF CInv, CTypeOK
  <2>6. BootInv'
    BY <1>2, <2>2, <2>3, <2>4 DEF console_init, CInv, CTypeOK, BootInv, NULL
  <2>7. StackInv'
    BY <1>2, <2>1, <2>2, <2>3, <2>4 DEF CInv, StackInv
  <2>8. CallInv' /\ BufferInv' /\ SentInv'
    BY <2>3, <2>4 DEF CallInv, BufferInv, SentInv, Busy
  <2>9. Len(wire') = 0 /\ Len(said') = 0
    BY <1>2, <2>2
  <2>10. NestInv' /\ InOrder' /\ Complete'
    BY <2>3, <2>4, <2>9 DEF NestInv, InOrder, Complete, Busy
  <2> QED BY <2>5, <2>6, <2>7, <2>8, <2>10 DEF CInv
<1> QED BY <1>1, <1>2 DEF console_init

\* A step that only moves the running context keeps the rest too, unless it
\* ends a call.
LEMMA MoveKept ==
    ASSUME CInv, NEW r \in Context, stack' = Frame(r), UNCHANGED <<boot, p_buf, said, wire>>,
           r.kind = Top.kind /\ r.open = Top.open,
           r.pc \in {"init", "idle"} => r.kind = "thread",
           r.pc = "eoi" => r.kind = "irq",
           r.pc = "eret" => r.kind = "invalid",
           r.pc # "init"
    PROVE  CTypeOK' /\ StackInv' /\ BootInv'
<1>1. /\ Len(stack') = Len(stack) /\ Len(stack) \in Nat \ {0}
      /\ stack' \in Seq(Context)
      /\ \A d \in 1 .. Len(stack) - 1 : stack'[d] = stack[d]
      /\ stack'[Len(stack)] = r
  BY TopReplaced DEF CInv, CTypeOK
<1>2. CTypeOK'
  BY <1>1 DEF CInv, CTypeOK, boot
<1>3. StackInv'
  BY TopStays
<1>4. BootInv'
  BY <1>1 DEF CInv, BootInv, boot
<1> QED BY <1>2, <1>3, <1>4

\* Without a console of that name nothing will be sent.
LEMMA InitNoneStep == ASSUME CInv, console_init_none PROVE CInv'
<1> DEFINE r == [Top EXCEPT !.pc = "idle"]
<1>1. /\ Top \in Context /\ Top = stack[Len(stack)] /\ Top.pc = "init"
      /\ Len(stack) \in Nat \ {0}
  BY TopTyped DEF console_init_none, Run, CInv, CTypeOK
<1>2. r \in Context /\ stack' = Frame(r) /\ r.pc = "idle"
      /\ r.kind = Top.kind /\ r.open = Top.open
  BY <1>1 DEF console_init_none, Goto, Context
<1>3. UNCHANGED <<boot, p_buf, said, wire>> /\ UNCHANGED uart_console
  BY DEF console_init_none, boot
<1>4. Top.kind = "thread"
  BY <1>1 DEF CInv, StackInv
<1> HIDE DEF r
<1>5. CTypeOK' /\ StackInv' /\ BootInv'
  BY <1>2, <1>3, <1>4, MoveKept
<1>6. CallInv' /\ BufferInv' /\ SentInv' /\ NestInv' /\ InOrder'
  BY <1>2, <1>3, TopMoves DEF Busy
<1>7. Complete'
  <2>1. InProgress \subseteq InProgress'
    BY <1>1, <1>2, ProgressOfTop DEF CInv, Busy
  <2> QED BY <1>3, <2>1, CompleteKept DEF CInv
<1> QED BY <1>5, <1>6, <1>7 DEF CInv

\* console_write: to the console, if there is one and there is something.
LEMMA WriteStep == ASSUME CInv, console_write PROVE CInv'
<1> DEFINE to == IF uart_console = NULL \/ Top.len = 0 THEN "return" ELSE "write"
           r  == [Top EXCEPT !.pc = to]
<1>1. /\ Top \in Context /\ Top = stack[Len(stack)] /\ Top.pc = "console"
      /\ Len(stack) \in Nat \ {0}
  BY TopTyped DEF console_write, Run, CInv, CTypeOK
<1>2. /\ r \in Context /\ stack' = Frame(r) /\ r.pc \in {"return", "write"}
      /\ r.kind = Top.kind /\ r.open = Top.open /\ r.call = Top.call
      /\ r.len = Top.len /\ r.i = Top.i /\ r.cr = Top.cr
      /\ r.pc = "return" <=> uart_console = NULL \/ Top.len = 0
  BY <1>1 DEF console_write, Goto, Context, Busy
<1>3. UNCHANGED <<boot, p_buf, said, wire>> /\ UNCHANGED uart_console
  BY DEF console_write, boot
<1> HIDE DEF to, r
<1>4. Progress(Top)
  BY <1>1 DEF CInv, CallInv, Busy
<1>5. Progress(r)
  BY <1>1, <1>2, <1>4 DEF Progress
<1>6. CTypeOK' /\ StackInv' /\ BootInv'
  BY <1>2, <1>3, MoveKept
<1>7. CallInv' /\ BufferInv' /\ SentInv' /\ NestInv' /\ InOrder'
  BY <1>1, <1>2, <1>3, <1>5, TopMoves DEF Busy
<1>8. Complete'
  <2>1. InProgress \subseteq InProgress'
    BY <1>1, <1>2, ProgressOfTop DEF CInv, Busy
  <2> QED BY <1>3, <2>1, CompleteKept DEF CInv
<1> QED BY <1>6, <1>7, <1>8 DEF CInv

\* vprintk returns: the call is over, and all of its text was sent.
LEMMA ReturnStep == ASSUME CInv, printk_return PROVE CInv'
<1> DEFINE r == [Top EXCEPT !.pc = After(Top.kind)]
<1>1. /\ Top \in Context /\ Top = stack[Len(stack)]
      /\ Top.pc = "return" \/ (Top.pc = "write" /\ Top.i = Top.len)
      /\ Len(stack) \in Nat \ {0}
  BY TopTyped DEF printk_return, Run, CInv, CTypeOK
<1>2. After("thread") = "idle" /\ After("irq") = "eoi" /\ After("invalid") = "eret"
      /\ After("exception") = "halt"
  BY Zenon DEF After
<1>3. /\ r \in Context /\ stack' = Frame(r) /\ r.pc \in {"idle", "eoi", "eret", "halt"}
      /\ r.kind = Top.kind /\ r.open = Top.open
      /\ r.pc = "idle" => r.kind = "thread"
      /\ r.pc = "eoi" => r.kind = "irq"
      /\ r.pc = "eret" => r.kind = "invalid"
  BY <1>1, <1>2 DEF printk_return, Goto, Context
<1>4. UNCHANGED <<boot, p_buf, said, wire>> /\ UNCHANGED uart_console
  BY DEF printk_return, boot
<1> HIDE DEF r
<1>5. CTypeOK' /\ StackInv' /\ BootInv'
  BY <1>3, <1>4, MoveKept
<1>6. CallInv' /\ BufferInv' /\ SentInv' /\ NestInv' /\ InOrder'
  BY <1>3, <1>4, TopMoves DEF Busy
<1>7. Complete'
  <2>1. Progress(Top)
    BY <1>1 DEF CInv, CallInv, Busy
  <2>2. ASSUME uart_console # NULL, NEW q \in Due(said[Top.call])
        PROVE  \E y \in 1 .. Len(wire) : IsFrom(y, Top.call, q)
    <3>1. Top.i = Len(said[Top.call])
      BY <1>1, <2>1, <2>2 DEF Progress, Context
    <3>2. q.at <= Top.i
      <4>1. Len(said[Top.call]) \in Nat /\ q.at \in 1 .. Len(said[Top.call])
        BY <2>1, DueTyped, TextTyped DEF CInv, Progress
      <4> QED BY <3>1, <4>1
    <3> QED BY <1>1, <3>2 DEF CInv, SentInv, HasSent, Past, Busy
  <2>3. ASSUME NEW c \in (1 .. Len(said)) \ InProgress', uart_console # NULL,
               NEW q \in Due(said[c])
        PROVE  \E y \in 1 .. Len(wire) : IsFrom(y, c, q)
    <3>1. c \notin InProgress \/ c = Top.call
      BY <1>3, ProgressOfTop, <2>3 DEF CInv
    <3> QED BY <2>2, <2>3, <3>1 DEF CInv, Complete
  <2>4. uart_console = NULL => Len(wire) = 0
    BY DEF CInv, BootInv
  <2> QED BY <1>4, <2>3, <2>4 DEF Complete, IsFrom
<1> QED BY <1>5, <1>6, <1>7 DEF CInv

\* A call begins: its text is noted, and nothing of it is rendered or sent.
LEMMA PrintkStep == ASSUME CInv, NEW t \in Text, printk(t) PROVE CInv'
<1>1. /\ Top \in Context /\ Top = stack[Len(stack)] /\ Top.pc \in {"idle", "call"}
      /\ Len(stack) \in Nat \ {0} /\ Len(said) \in Nat /\ Len(wire) \in Nat
  BY TopTyped DEF printk, Run, CInv, CTypeOK
<1>2. PICK r \in Context :
         /\ stack' = Frame(r) /\ r.pc = "format"
         /\ r.kind = Top.kind /\ r.open = Top.open /\ r.call = Len(said) + 1
         /\ r.len = 0 /\ r.i = 0 /\ r.cr = FALSE
  <2> DEFINE r == [Top EXCEPT !.pc = "format", !.call = Len(said) + 1,
                              !.len = 0, !.i = 0, !.cr = FALSE]
  <2>5. r \in Context
    <3>1. [Top EXCEPT !.pc = "format"] \in Context
      BY <1>1 DEF Context, Busy
    <3>2. ASSUME NEW f \in Context, NEW c \in Nat
          PROVE  [f EXCEPT !.call = c, !.len = 0] \in Context
      BY DEF Context
    <3>3. ASSUME NEW f \in Context
          PROVE  [f EXCEPT !.i = 0, !.cr = FALSE] \in Context
      BY DEF Context
    <3>4. r = [[[Top EXCEPT !.pc = "format"]
                    EXCEPT !.call = Len(said) + 1, !.len = 0]
                    EXCEPT !.i = 0, !.cr = FALSE]
      OBVIOUS
    <3>5. Len(said) + 1 \in Nat
      BY <1>1
    <3> HIDE DEF r
    <3> QED BY <3>1, <3>2, <3>3, <3>4, <3>5
  <2>6. /\ r.pc = "format" /\ r.kind = Top.kind
        /\ r.open = Top.open /\ r.call = Len(said) + 1 /\ r.len = 0 /\ r.i = 0
        /\ r.cr = FALSE
    BY <1>1 DEF Context
  <2>8. stack' = Frame(r)
    BY DEF printk
  <2> HIDE DEF r
  <2> QED BY <2>5, <2>6, <2>8
<1>3. UNCHANGED <<boot, p_buf, wire>> /\ UNCHANGED uart_console
  BY DEF printk, boot
<1>4. /\ Len(stack') = Len(stack) /\ stack'[Len(stack)] = r
      /\ stack' \in Seq(Context)
      /\ \A d \in 1 .. Len(stack) - 1 : stack'[d] = stack[d]
  BY <1>2, TopReplaced DEF CInv, CTypeOK
<1>5. /\ said' \in Seq(Text) /\ Len(said') = Len(said) + 1
      /\ said'[Len(said) + 1] = t
      /\ \A c \in 1 .. Len(said) : said'[c] = said[c]
  BY CallNoted DEF CInv, printk
<1>6. \A d \in 1 .. Len(stack) - 1 : stack[d].pc \in Busy =>
          /\ stack[d].call \in 1 .. Len(said)
          /\ said'[stack[d].call] = said[stack[d].call]
          /\ Progress(stack[d])
  BY <1>1, <1>5 DEF CInv, CallInv, Progress
<1>7. \A y \in 1 .. Len(wire) : wire[y].call \in 1 .. Len(said)
  BY DEF CInv, InOrder, Continues
<1>8. CTypeOK'
  BY <1>3, <1>4, <1>5 DEF CInv, CTypeOK, boot
<1>9. StackInv'
  BY <1>1, <1>2, TopStays
<1>10. BootInv'
  BY <1>1, <1>2, <1>3, <1>4 DEF CInv, BootInv, boot
<1>11. CallInv'
  <2>1. Len(t) \in Nat
    BY ConsoleAssumption
  <2>2. Progress(r)'
    BY <1>1, <1>2, <1>5, <2>1 DEF Progress
  <2>3. ASSUME NEW d \in 1 .. Len(stack) - 1, stack[d].pc \in Busy
        PROVE  Progress(stack[d])'
    <3>1. Progress(stack[d]) /\ said'[stack[d].call] = said[stack[d].call]
          /\ stack'[d] = stack[d] /\ Len(said') = Len(said) + 1
          /\ uart_console' = uart_console /\ Len(said) \in Nat
      BY <1>1, <1>3, <1>4, <1>5, <1>6, <2>3
    <3> QED BY <3>1 DEF Progress
  <2>4. ASSUME NEW d \in 1 .. Len(stack), stack'[d].pc \in Busy
        PROVE  Progress(stack[d])'
    <3>1. CASE d = Len(stack)
      <4>1. stack'[d] = r
        BY <1>4, <3>1
      <4> QED BY <2>2, <4>1 DEF Progress
    <3>2. CASE d \in 1 .. Len(stack) - 1
      BY <1>4, <2>3, <2>4, <3>2
    <3> QED BY <1>1, <3>1, <3>2
  <2>5. ASSUME NEW d \in 1 .. Len(stack), NEW e \in d + 1 .. Len(stack),
               stack'[d].pc \in Busy, stack'[e].pc \in Busy
        PROVE  stack'[d].call < stack'[e].call
    BY <1>1, <1>2, <1>4, <1>6, <2>5 DEF CInv, CallInv
  <2> QED BY <1>4, <2>4, <2>5 DEF CallInv
<1>12. BufferInv'
  BY <1>1, <1>2, <1>3, <1>4, <1>6 DEF CInv, BufferInv
<1>13. SentInv'
  <2>1. ASSUME NEW q \in Due(t) PROVE ~Past(r, q)
    BY <1>2, DueTyped, ConsoleAssumption DEF Past
  <2>2. \A y \in 1 .. Len(wire) : wire[y].call # r.call
    BY <1>1, <1>2, <1>7
  <2>3. wire' = wire
    BY <1>3
  <2>4. ASSUME NEW d \in 1 .. Len(stack), stack'[d].pc \in Busy
        PROVE  HasSent(stack[d])'
    <3>1. CASE d = Len(stack)
      <4>1. stack'[d] = r /\ said'[r.call] = t
        BY <1>2, <1>4, <1>5, <3>1
      <4> QED BY <2>1, <2>2, <2>3, <4>1 DEF HasSent
    <3>2. CASE d \in 1 .. Len(stack) - 1
      <4>1. stack'[d] = stack[d] /\ said'[stack[d].call] = said[stack[d].call]
            /\ HasSent(stack[d])
        BY <1>1, <1>4, <1>6, <2>4, <3>2 DEF CInv, SentInv
      <4> QED BY <2>3, <4>1 DEF HasSent, IsFrom, Past
    <3> QED BY <1>1, <3>1, <3>2
  <2> QED BY <1>4, <2>4 DEF SentInv
<1>14. NestInv'
  <2>1. \A y \in 1 .. Len(wire) : wire[y].call # r.call
    BY <1>1, <1>2, <1>7
  <2> QED BY <1>1, <1>3, <1>4, <2>1 DEF CInv, NestInv
<1>15. InOrder'
  BY <1>3, <1>5, OrderKept DEF CInv
<1>16. Complete'
  <2>1. InProgress \subseteq InProgress' /\ Len(said) + 1 \in InProgress'
    BY <1>1, <1>2, ProgressOfTop DEF CInv, Busy
  <2> SUFFICES ASSUME NEW c \in (1 .. Len(said')) \ InProgress'
      PROVE  IF uart_console' = NULL
             THEN \A y \in 1 .. Len(wire') : wire'[y].call # c
             ELSE \A q \in Due(said'[c]) : \E y \in 1 .. Len(wire') : IsFrom(y, c, q)'
    BY DEF Complete
  <2>2. c \in (1 .. Len(said)) \ InProgress /\ said'[c] = said[c]
    BY <1>1, <1>5, <2>1
  <2> QED BY <1>3, <2>2 DEF CInv, Complete, IsFrom
<1> QED BY <1>8, <1>9, <1>10, <1>11, <1>12, <1>13, <1>14, <1>15, <1>16 DEF CInv

\* vsnprintf stores the next character in the call's own array, or has them all.
LEMMA FormatStep == ASSUME CInv, vsnprintf PROVE CInv'
<1> DEFINE n == Len(stack)
<1>1. /\ Top \in Context /\ Top = stack[n] /\ Top.pc = "format"
      /\ n \in 1 .. MaxCalls + 1 /\ MaxCalls \in Nat /\ Progress(Top)
  <2>1. /\ Top \in Context /\ Top = stack[n] /\ Top.pc = "format"
        /\ n \in 1 .. MaxCalls + 1 /\ MaxCalls \in Nat
    BY TopTyped, ConsoleAssumption DEF vsnprintf, Run, CInv, CTypeOK
  <2> QED BY <2>1 DEF CInv, CallInv, Busy
<1>2. /\ UNCHANGED <<boot, said, wire>> /\ uart_console' = uart_console
      /\ said' = said /\ wire' = wire
  BY DEF vsnprintf, boot
<1>3. said[Top.call] \in Seq(STRING) /\ Len(said[Top.call]) \in 0 .. SIZE - 1
  BY <1>1, TextTyped DEF CInv, Progress
<1>4. ASSUME Top.len < Len(said[Top.call]),
             p_buf' = [p_buf EXCEPT ![BufferOf(n)][Top.len] =
                                        said[Top.call][Top.len + 1]],
             stack' = Frame([Top EXCEPT !.len = @ + 1])
      PROVE  CInv'
  <2>1. PICK r \in Context :
           /\ stack' = Frame(r) /\ r.pc = "format" /\ r.kind = Top.kind
           /\ r.open = Top.open /\ r.call = Top.call /\ r.len = Top.len + 1
           /\ r.i = Top.i /\ r.cr = Top.cr
    <3> DEFINE r == [Top EXCEPT !.len = @ + 1]
    <3>1. /\ r \in Context /\ r.pc = "format" /\ r.kind = Top.kind
          /\ r.open = Top.open /\ r.call = Top.call /\ r.len = Top.len + 1
          /\ r.i = Top.i /\ r.cr = Top.cr
      BY <1>1 DEF Context
    <3>2. stack' = Frame(r)
      BY <1>4
    <3> HIDE DEF r
    <3> QED BY <3>1, <3>2
  <2>2. Progress(r)
    BY <1>1, <1>3, <1>4, <2>1 DEF Progress, Context
  <2>3. /\ Len(stack') = n /\ stack'[n] = r /\ stack' \in Seq(Context)
        /\ \A d \in 1 .. n - 1 : stack'[d] = stack[d]
    BY <2>1, TopReplaced DEF CInv
  <2>4. /\ p_buf' \in Buffers
        /\ \A d \in 1 .. n - 1 : p_buf'[d] = p_buf[d]
        /\ p_buf'[n][Top.len] = said[Top.call][Top.len + 1]
        /\ \A k \in 0 .. Top.len - 1 : p_buf'[n][k] = p_buf[n][k]
    <3> DEFINE c == said[Top.call][Top.len + 1]
    <3>1. Top.len \in 0 .. SIZE - 1 /\ c \in Char /\ Top.len \in Nat
      <4>1. Top.len \in Nat
        BY <1>1 DEF Context
      <4>2. \A u \in Seq(STRING) : \A k \in 1 .. Len(u) : u[k] \in Char
        BY DEF Char
      <4>3. c \in Char
        BY <1>3, <1>4, <4>1, <4>2
      <4> QED BY <1>3, <1>4, <4>1, <4>3, ConsoleAssumption
    <3>2. p_buf' = [p_buf EXCEPT ![n] = [p_buf[n] EXCEPT ![Top.len] = c]]
      BY <1>4 DEF BufferOf
    <3>3. p_buf \in Buffers
      BY DEF CInv, CTypeOK
    <3> HIDE DEF c
    <3>4. p_buf[n] \in [0 .. SIZE - 1 -> Char]
      BY <1>1, <3>3 DEF Buffers
    <3>5. /\ [p_buf[n] EXCEPT ![Top.len] = c] \in [0 .. SIZE - 1 -> Char]
          /\ [p_buf[n] EXCEPT ![Top.len] = c][Top.len] = c
          /\ \A k \in 0 .. Top.len - 1 :
                [p_buf[n] EXCEPT ![Top.len] = c][k] = p_buf[n][k]
      <4> DEFINE l == Top.len
                 b == p_buf[n]
      <4> HIDE DEF l, b
      <4>1. l \in 0 .. SIZE - 1 /\ b \in [0 .. SIZE - 1 -> Char] /\ SIZE \in Nat
        BY <3>1, <3>4, ConsoleAssumption DEF l, b
      <4>2. /\ [b EXCEPT ![l] = c] \in [0 .. SIZE - 1 -> Char]
            /\ [b EXCEPT ![l] = c][l] = c
            /\ \A k \in 0 .. l - 1 : [b EXCEPT ![l] = c][k] = b[k]
        BY <3>1, <4>1
      <4> QED BY <4>2 DEF l, b
    <3>6. /\ p_buf'[n] = [p_buf[n] EXCEPT ![Top.len] = c]
          /\ \A d \in 1 .. n - 1 : p_buf'[d] = p_buf[d]
      BY <1>1, <3>2, <3>3 DEF Buffers
    <3>7. p_buf' \in Buffers
      BY <1>1, <3>2, <3>3, <3>5 DEF Buffers
    <3> QED BY <3>5, <3>6, <3>7 DEF c
  <2>5. CTypeOK'
    BY <1>1, <1>2, <2>3, <2>4 DEF CInv, CTypeOK, boot
  <2>6. StackInv'
    BY <1>1, <1>2, <2>1, TopStays
  <2>7. BootInv'
    BY <1>1, <1>2, <2>1, <2>3 DEF CInv, BootInv, boot
  <2>8. CallInv'
    BY <1>1, <1>2, <2>1, <2>2, CallKept DEF Busy
  <2>9. BufferInv'
    <3>1. ASSUME NEW d \in 1 .. n, stack'[d].pc \in Busy,
                 NEW k \in 0 .. stack'[d].len - 1
          PROVE  p_buf'[d][k] = said[stack'[d].call][k + 1]
      <4>1. CASE d = n
        <5>1. stack'[d] = r /\ k \in 0 .. Top.len /\ Top.len \in Nat
          BY <1>1, <2>1, <2>3, <3>1, <4>1 DEF Context
        <5>2. CASE k = Top.len
          BY <2>1, <2>4, <4>1, <5>1, <5>2
        <5>3. CASE k \in 0 .. Top.len - 1
          BY <1>1, <2>1, <2>4, <4>1, <5>1, <5>3 DEF CInv, BufferInv, Busy
        <5> QED BY <5>1, <5>2, <5>3
      <4>2. CASE d \in 1 .. n - 1
        BY <1>1, <2>3, <2>4, <3>1, <4>2 DEF CInv, BufferInv
      <4> QED BY <1>1, <4>1, <4>2
    <3> QED BY <1>2, <2>3, <3>1 DEF BufferInv
  <2>10. SentInv' /\ NestInv'
    <3>1. \A d \in 1 .. n : stack'[d].pc \in Busy =>
              /\ stack[d].pc \in Busy /\ stack'[d].call = stack[d].call
              /\ stack'[d].i = stack[d].i /\ stack'[d].cr = stack[d].cr
      BY <1>1, <2>1, <2>3 DEF Busy
    <3>2. SentInv'
      BY <1>2, <2>3, <3>1 DEF CInv, SentInv, HasSent, Past, IsFrom
    <3> QED BY <1>2, <2>3, <3>1, <3>2 DEF CInv, NestInv
  <2>11. InOrder'
    <3>1. Len(said') = Len(said) + 0
      BY <1>2 DEF CInv, CTypeOK
    <3> QED BY <1>2, <3>1, OrderKept DEF CInv
  <2>12. Complete'
    <3>1. InProgress \subseteq InProgress'
      BY <1>1, <2>1, ProgressOfTop DEF CInv, Busy
    <3> QED BY <1>2, <3>1, CompleteKept DEF CInv
  <2> QED BY <2>5, <2>6, <2>7, <2>8, <2>9, <2>10, <2>11, <2>12 DEF CInv
<1>5. ASSUME ~(Top.len < Len(said[Top.call])), Goto("console"), p_buf' = p_buf
      PROVE  CInv'
  <2>1. PICK r \in Context :
           /\ stack' = Frame(r) /\ r.pc = "console" /\ r.kind = Top.kind
           /\ r.open = Top.open /\ r.call = Top.call /\ r.len = Top.len
           /\ r.i = Top.i /\ r.cr = Top.cr
    <3> DEFINE r == [Top EXCEPT !.pc = "console"]
    <3>1. /\ r \in Context /\ r.pc = "console" /\ r.kind = Top.kind
          /\ r.open = Top.open /\ r.call = Top.call /\ r.len = Top.len
          /\ r.i = Top.i /\ r.cr = Top.cr
      BY <1>1 DEF Context, Busy
    <3>2. stack' = Frame(r)
      BY <1>5 DEF Goto
    <3> HIDE DEF r
    <3> QED BY <3>1, <3>2
  <2>2. Progress(r)
    BY <1>1, <1>3, <1>5, <2>1 DEF Progress, Context
  <2>3. CTypeOK' /\ StackInv' /\ BootInv'
    BY <1>2, <1>5, <2>1, MoveKept
  <2>4. CallInv' /\ BufferInv' /\ SentInv' /\ NestInv' /\ InOrder'
    BY <1>1, <1>2, <1>5, <2>1, <2>2, TopMoves DEF Busy
  <2>5. Complete'
    <3>1. InProgress \subseteq InProgress'
      BY <1>1, <2>1, ProgressOfTop DEF CInv, Busy
    <3> QED BY <1>2, <3>1, CompleteKept DEF CInv
  <2> QED BY <2>3, <2>4, <2>5 DEF CInv
<1> QED BY <1>4, <1>5 DEF vsnprintf

\* The running context's call is the last of those in progress.
LEMMA LatestCall ==
    ASSUME CInv, Top.pc \in Busy, NEW d \in 1 .. Len(stack), stack[d].pc \in Busy
    PROVE  /\ stack[d].call \in Nat /\ Top.call \in Nat
           /\ stack[d].call <= Top.call
           /\ d # Len(stack) => stack[d].call < Top.call
<1> DEFINE n == Len(stack)
<1>1. Top = stack[n] /\ n \in Nat \ {0}
  BY TopTyped DEF CInv, CTypeOK
<1>2. stack[d].call \in Nat /\ Top.call \in Nat
  BY <1>1, FrameTyped DEF CInv
<1>3. CASE d = n
  BY <1>1, <1>2, <1>3
<1>4. CASE d \in 1 .. n - 1
  <2>1. n \in d + 1 .. n /\ stack[n].pc \in Busy
    BY <1>1, <1>4
  <2> QED BY <1>1, <1>2, <2>1 DEF CInv, CallInv
<1> QED BY <1>1, <1>3, <1>4

LEMMA Upto ==
    ASSUME NEW k \in Nat, NEW y \in 1 .. k + 1 PROVE y \in 1 .. k \/ y = k + 1
OBVIOUS

\* One write of the data register: it sends what is due next of the running
\* context's text, the CR before a line feed or the character.
LEMMA SendStep ==
    ASSUME CInv, Top.pc = "write", Top.i < Top.len,
           NEW e \in Sent, wire' = Append(wire, e),
           NEW r \in Context, stack' = Frame(r),
           UNCHANGED <<boot, p_buf, said>>,
           e.call = Top.call, e.at = Top.i + 1,
           e.cr => Top.cr = FALSE /\ said[Top.call][e.at] = LF /\ e.char = CR,
           ~e.cr => e.char = said[Top.call][e.at] /\ (e.char = LF => Top.cr),
           r.kind = Top.kind, r.open = Top.open, r.pc = "write",
           r.call = Top.call, r.len = Top.len, r.cr = e.cr,
           r.i = IF e.cr THEN Top.i ELSE Top.i + 1
    PROVE  CInv'
<1> DEFINE n == Len(stack)
           m == Len(wire)
           t == said[Top.call]
<1>1. /\ Top \in Context /\ Top = stack[n] /\ n \in Nat \ {0} /\ m \in Nat
      /\ Len(said) \in Nat /\ Top.i \in Nat /\ Top.len \in Nat /\ Top.cr \in BOOLEAN
  <2>1. Top \in Context /\ Top = stack[n] /\ n \in Nat \ {0} /\ m \in Nat
        /\ Len(said) \in Nat
    BY TopTyped DEF CInv, CTypeOK
  <2> QED BY <2>1 DEF Context
<1>2. Progress(Top) /\ HasSent(Top)
  BY <1>1 DEF CInv, CallInv, SentInv, Busy
<1>3. /\ uart_console' = uart_console /\ said' = said /\ p_buf' = p_buf
      /\ uart_console # NULL
  BY <1>2 DEF boot, Progress
<1>4. Top.call \in 1 .. Len(said) /\ Len(t) \in Nat /\ Top.len = Len(t)
  <2>1. Top.call \in 1 .. Len(said) /\ Top.len = Len(t)
    BY <1>2 DEF Progress
  <2> QED BY <1>1, <2>1
<1>5. /\ Len(stack') = n /\ stack'[n] = r /\ stack' \in Seq(Context)
      /\ \A d \in 1 .. n - 1 : stack'[d] = stack[d]
  BY TopReplaced DEF CInv
<1>6. /\ wire' \in Seq(Sent) /\ Len(wire') = m + 1 /\ wire'[m + 1] = e
      /\ \A y \in 1 .. m : wire'[y] = wire[y]
  BY CharSent DEF CInv
<1>7. ASSUME NEW q \in Due(t)
      PROVE  /\ Past(r, q) <=> Past(Top, q) \/ (q.at = e.at /\ q.cr = e.cr)
             /\ Before(q, e) => Past(Top, q)
  <2>1. q.at \in 1 .. Len(t) /\ q.cr \in BOOLEAN /\ (q.cr => t[q.at] = LF)
    BY DueTyped
  <2>2. q.at \in Nat /\ e.cr \in BOOLEAN
    BY <1>4, <2>1 DEF Sent
  <2> QED BY <1>1, <2>1, <2>2 DEF Past, Before
<1>8. ASSUME NEW q \in Sent, Past(Top, q)
      PROVE  Past(r, q) /\ Before(q, e)
  <2>1. q.at \in Nat /\ q.cr \in BOOLEAN /\ e.cr \in BOOLEAN
    BY DEF Sent
  <2> QED BY <1>1, <1>8, <2>1 DEF Past, Before
<1>9. CTypeOK'
  BY <1>5, <1>6 DEF CInv, CTypeOK, boot
<1>10. StackInv'
  BY <1>3, TopStays
<1>11. BootInv'
  <2>1. stack[1].pc # "init"
    BY <1>3 DEF CInv, BootInv
  <2>2. stack'[1].pc # "init"
    BY <1>1, <1>5, <2>1
  <2> QED BY <1>3, <2>2 DEF CInv, BootInv, boot
<1>12. CallInv'
  <2>1. r.i <= r.len
    BY <1>1
  <2>2. r.cr => r.i < r.len /\ t[r.i + 1] = LF
    BY <1>1
  <2>3. Progress(r)
    BY <1>2, <2>1, <2>2 DEF Progress
  <2> QED BY <1>3, <2>3, CallKept DEF Busy
<1>13. BufferInv'
  <2>1. \A d \in 1 .. n : stack'[d].pc \in Busy =>
            /\ stack[d].pc \in Busy /\ stack'[d].call = stack[d].call
            /\ stack'[d].len = stack[d].len
    BY <1>1, <1>5 DEF Busy
  <2> QED BY <1>3, <1>5, <2>1 DEF CInv, BufferInv
<1>14. SentInv'
  <2>1. ASSUME NEW d \in 1 .. n, stack'[d].pc \in Busy
        PROVE  HasSent(stack[d])'
    <3>1. CASE d = n
      <4>1. ASSUME NEW y \in 1 .. m + 1, wire'[y].call = r.call
            PROVE  Past(r, wire'[y])
        <5>1. CASE y = m + 1
          BY <1>1, <1>6, <5>1 DEF Past
        <5>2. CASE y \in 1 .. m
          <6>1. wire[y] \in Sent
            BY <5>2 DEF CInv, CTypeOK
          <6> QED BY <1>2, <1>6, <1>8, <4>1, <5>2, <6>1 DEF HasSent
        <5> QED BY <1>1, <5>1, <5>2
      <4>2. ASSUME NEW q \in Due(t), Past(r, q)
            PROVE  \E y \in 1 .. m + 1 : IsFrom(y, r.call, q)'
        <5>1. CASE q.at = e.at /\ q.cr = e.cr
          <6>1. m + 1 \in 1 .. m + 1
            BY <1>1
          <6> QED BY <1>6, <5>1, <6>1 DEF IsFrom
        <5>2. CASE Past(Top, q)
          <6>1. PICK y \in 1 .. m : IsFrom(y, Top.call, q)
            BY <1>2, <5>2 DEF HasSent
          <6> QED BY <1>1, <1>6, <6>1 DEF IsFrom
        <5> QED BY <1>7, <4>2, <5>1, <5>2
      <4>3. stack'[d] = r
        BY <1>5, <3>1
      <4> QED BY <1>3, <1>6, <4>1, <4>2, <4>3 DEF HasSent, Past, IsFrom
    <3>2. CASE d \in 1 .. n - 1
      <4>1. stack'[d] = stack[d] /\ stack[d].pc \in Busy /\ HasSent(stack[d])
        BY <1>1, <1>5, <2>1, <3>2 DEF CInv, SentInv
      <4>2. stack[d].call # e.call
        <5>1. d \in 1 .. n /\ d # n /\ Top.pc \in Busy
          BY <1>1, <3>2 DEF Busy
        <5> QED BY <4>1, <5>1, LatestCall
      <4> QED BY <1>1, <1>3, <1>6, <4>1, <4>2 DEF HasSent, IsFrom, Past
    <3> QED BY <1>1, <3>1, <3>2
  <2> QED BY <1>5, <2>1 DEF SentInv
<1>15. NestInv'
  <2>1. ASSUME NEW y \in 1 .. m + 1, NEW x \in 1 .. y - 1, NEW w \in 1 .. x - 1,
               wire'[w].call = wire'[y].call
        PROVE  wire'[x].call >= wire'[y].call
    <3>1. CASE y \in 1 .. m
      <4>1. wire'[y] = wire[y] /\ x \in 1 .. m /\ w \in 1 .. m
        BY <1>1, <1>6, <3>1
      <4>2. wire'[x] = wire[x] /\ wire'[w] = wire[w]
        BY <1>6, <4>1
      <4> QED BY <2>1, <3>1, <4>1, <4>2 DEF CInv, NestInv
    <3>2. CASE y = m + 1
      <4>1. x \in 1 .. m /\ w \in 1 .. m
        BY <1>1, <3>2
      <4>2. wire'[y] = e /\ wire'[x] = wire[x] /\ wire'[w] = wire[w]
        BY <1>6, <3>2, <4>1
      <4>3. n \in 1 .. n /\ stack[n].pc \in Busy /\ wire[w].call = stack[n].call
        BY <1>1, <2>1, <4>2 DEF Busy
      <4>4. wire[x].call >= stack[n].call
        BY <4>1, <4>3 DEF CInv, NestInv
      <4>5. wire'[x].call = wire[x].call /\ wire'[y].call = stack[n].call
        BY <1>1, <4>2
      <4> QED BY <4>4, <4>5, Zenon
    <3>3. y \in 1 .. m \/ y = m + 1
      BY <1>1, Upto, Zenon
    <3> QED BY <3>1, <3>2, <3>3, Zenon
  <2>2. ASSUME NEW d \in 1 .. n, stack'[d].pc \in Busy,
               NEW z \in 1 .. m + 1, NEW y \in 1 .. z - 1,
               wire'[y].call = stack'[d].call
        PROVE  wire'[z].call >= stack'[d].call
    <3>1. stack[d].pc \in Busy /\ stack[d].call = stack'[d].call
      BY <1>1, <1>5, <2>2 DEF Busy
    <3>2. CASE z \in 1 .. m
      <4>1. wire'[z] = wire[z] /\ wire'[y] = wire[y]
        BY <1>6, <3>2
      <4> QED BY <2>2, <3>1, <3>2, <4>1 DEF CInv, NestInv
    <3>3. CASE z = m + 1
      <4>1. Top.call >= stack[d].call
        BY <3>1, LatestCall DEF Busy
      <4>2. wire'[z].call = Top.call
        BY <1>6, <3>3
      <4> QED BY <3>1, <4>1, <4>2, Zenon
    <3>4. z \in 1 .. m \/ z = m + 1
      BY <1>1, Upto, Zenon
    <3> QED BY <3>2, <3>3, <3>4, Zenon
  <2> QED BY <1>5, <1>6, <2>1, <2>2 DEF NestInv
<1>16. InOrder'
  <2>1. ASSUME NEW y \in 1 .. m PROVE Continues(y)'
    <3>1. Continues(y)
      BY DEF CInv, InOrder
    <3>2. wire'[y] = wire[y] /\ \A x \in 1 .. y - 1 : wire'[x] = wire[x]
      BY <1>1, <1>6
    <3>3. ASSUME NEW c, NEW q, NEW x \in 1 .. y - 1, IsFrom(x, c, q)
          PROVE  IsFrom(x, c, q)'
      BY <3>2, <3>3 DEF IsFrom
    <3> QED BY <1>3, <3>1, <3>2, <3>3 DEF Continues
  <2>2. ASSUME NEW y, y = m + 1 PROVE Continues(y)'
    <3>1. e.at \in 1 .. Len(t) /\ (e.cr => t[e.at] = LF)
      BY <1>1, <1>4
    <3>2. ASSUME NEW x \in 1 .. m, wire[x].call = e.call PROVE Before(wire[x], e)
      <4>1. wire[x] \in Sent
        BY DEF CInv, CTypeOK
      <4> QED BY <1>2, <1>8, <3>2, <4>1 DEF HasSent
    <3>3. ASSUME NEW q \in Due(t), Before(q, e)
          PROVE  \E x \in 1 .. m : IsFrom(x, e.call, q)
      BY <1>2, <1>7, <3>3 DEF HasSent
    <3>4. /\ wire'[y] = e /\ y - 1 = m /\ said'[e.call] = t
          /\ e.call \in 1 .. Len(said')
      BY <1>1, <1>3, <1>4, <1>6, <2>2
    <3>5. \A x \in 1 .. y - 1 : wire'[x].call = e.call => Before(wire'[x], e)
      BY <1>6, <3>2, <3>4
    <3>6. \A q \in Due(t) : Before(q, e) => \E x \in 1 .. y - 1 : IsFrom(x, e.call, q)'
      BY <1>6, <3>3, <3>4 DEF IsFrom
    <3>7. e.char = IF e.cr THEN CR ELSE t[e.at]
      OBVIOUS
    <3> QED BY <3>1, <3>4, <3>5, <3>6, <3>7 DEF Continues, IsFrom
  <2> QED BY <1>1, <1>6, <2>1, <2>2 DEF InOrder
<1>17. Complete'
  <2>1. InProgress \subseteq InProgress'
    BY <1>1, ProgressOfTop DEF CInv, Busy
  <2>2. ASSUME NEW c \in (1 .. Len(said)) \ InProgress', NEW q \in Due(said[c])
        PROVE  \E y \in 1 .. m + 1 : IsFrom(y, c, q)'
    <3>1. PICK y \in 1 .. m : IsFrom(y, c, q)
      BY <1>3, <2>1, <2>2 DEF CInv, Complete
    <3> QED BY <1>1, <1>6, <3>1 DEF IsFrom
  <2> QED BY <1>3, <1>6, <2>2 DEF Complete, IsFrom
<1> QED BY <1>9, <1>10, <1>11, <1>12, <1>13, <1>14, <1>15, <1>16, <1>17 DEF CInv

\* qemu_console_write reads what is next out of the call's own array.
LEMMA ConsoleStep == ASSUME CInv, qemu_console_write PROVE CInv'
<1> DEFINE n == Len(stack)
           c == Buffer[Top.i]
           Send(x, cr) == [call |-> Top.call, at |-> Top.i + 1, cr |-> cr, char |-> x]
<1>1. /\ Top \in Context /\ Top = stack[n] /\ n \in 1 .. MaxCalls + 1
      /\ Top.pc = "write" /\ Top.i < Top.len /\ Top.i \in Nat /\ Top.len \in Nat
      /\ Top.cr \in BOOLEAN /\ Top.call \in Nat /\ MaxCalls \in Nat
  <2>1. Top \in Context /\ Top = stack[n] /\ n \in 1 .. MaxCalls + 1
        /\ Top.pc = "write" /\ Top.i < Top.len /\ MaxCalls \in Nat
    BY TopTyped, ConsoleAssumption DEF qemu_console_write, Run, CInv, CTypeOK
  <2> QED BY <2>1 DEF Context
<1>2. Progress(Top)
  BY <1>1 DEF CInv, CallInv, Busy
<1>3. c = said[Top.call][Top.i + 1]
  <2>1. n \in 1 .. n /\ stack[n].pc \in Busy /\ Top.i \in 0 .. stack[n].len - 1
    BY <1>1 DEF Busy
  <2>2. p_buf[n][Top.i] = said[stack[n].call][Top.i + 1]
    BY <2>1 DEF CInv, BufferInv
  <2> QED BY <1>1, <2>2 DEF Buffer, BufferOf
<1>4. c \in Char
  <2>1. Top.i \in 0 .. SIZE - 1
    <3>1. Top.len \in 0 .. SIZE - 1
      BY <1>1, <1>2, TextTyped DEF CInv, Progress
    <3> QED BY <1>1, <3>1, ConsoleAssumption
  <2>2. p_buf[n] \in [0 .. SIZE - 1 -> Char]
    BY <1>1 DEF CInv, CTypeOK, Buffers
  <2> QED BY <2>1, <2>2 DEF Buffer, BufferOf
<1>5. ASSUME NEW x \in Char, NEW cr \in BOOLEAN
      PROVE  /\ Send(x, cr) \in Sent /\ Send(x, cr).call = Top.call
             /\ Send(x, cr).at = Top.i + 1 /\ Send(x, cr).cr = cr
             /\ Send(x, cr).char = x
  BY <1>1 DEF Sent
<1>6. UNCHANGED <<boot, p_buf, said>>
  BY DEF qemu_console_write
<1>7. CASE c = LF /\ ~Top.cr
  <2> DEFINE r == [Top EXCEPT !.cr = TRUE]
             e == Send(CR, TRUE)
  <2>1. /\ r \in Context /\ r.kind = Top.kind /\ r.open = Top.open
        /\ r.pc = "write" /\ r.call = Top.call /\ r.len = Top.len
        /\ r.cr = TRUE /\ r.i = Top.i
    BY <1>1 DEF Context
  <2>2. /\ e \in Sent /\ e.call = Top.call /\ e.at = Top.i + 1
        /\ e.cr = TRUE /\ e.char = CR
    BY <1>5 DEF Char
  <2>3. stack' = Frame(r) /\ wire' = Append(wire, e)
    BY <1>7 DEF qemu_console_write, uart_putchar
  <2>4. Top.cr = FALSE /\ said[Top.call][Top.i + 1] = LF
    BY <1>1, <1>3, <1>7
  <2> HIDE DEF r, e, c
  <2> QED BY <1>1, <1>6, <2>1, <2>2, <2>3, <2>4, SendStep
<1>8. CASE ~(c = LF /\ ~Top.cr)
  <2> DEFINE r == [Top EXCEPT !.i = @ + 1, !.cr = FALSE]
             e == Send(c, FALSE)
  <2>1. /\ r \in Context /\ r.kind = Top.kind /\ r.open = Top.open
        /\ r.pc = "write" /\ r.call = Top.call /\ r.len = Top.len
        /\ r.cr = FALSE /\ r.i = Top.i + 1
    <3>1. [Top EXCEPT !.i = @ + 1] \in Context
      BY <1>1 DEF Context
    <3>2. ASSUME NEW f \in Context PROVE [f EXCEPT !.cr = FALSE] \in Context
      BY DEF Context
    <3>3. r = [[Top EXCEPT !.i = @ + 1] EXCEPT !.cr = FALSE]
      OBVIOUS
    <3>4. /\ r.kind = Top.kind /\ r.open = Top.open /\ r.pc = "write"
          /\ r.call = Top.call /\ r.len = Top.len /\ r.cr = FALSE
          /\ r.i = Top.i + 1
      BY <1>1 DEF Context
    <3> HIDE DEF r
    <3> QED BY <3>1, <3>2, <3>3, <3>4
  <2>2. /\ e \in Sent /\ e.call = Top.call /\ e.at = Top.i + 1
        /\ e.cr = FALSE /\ e.char = c
    <3> HIDE DEF c
    <3> QED BY <1>4, <1>5
  <2>3. stack' = Frame(r) /\ wire' = Append(wire, e)
    BY <1>8 DEF qemu_console_write, uart_putchar
  <2> HIDE DEF r, e, c
  <2> QED BY <1>1, <1>3, <1>6, <1>8, <2>1, <2>2, <2>3, SendStep
<1> QED BY <1>7, <1>8

\* A context that has not begun its call yet changes nothing for the others.
LEMMA EnterKept ==
    ASSUME CInv, NEW kind \in {"irq", "invalid", "exception"}, NEW open \in BOOLEAN,
           Enter(kind, open), MayCall, open => kind = "irq",
           stack[1].pc = "init" => kind = "exception",
           UNCHANGED <<boot, p_buf, said, wire>>
    PROVE  CInv'
<1> DEFINE n == Len(stack)
<1>1. PICK r \in Context : /\ stack' = Append(stack, r) /\ r.pc = "call"
                           /\ r.kind = kind /\ r.open = open
  <2> DEFINE r == [kind |-> kind, pc |-> "call", open |-> open, call |-> 0,
                   len |-> 0, i |-> 0, cr |-> FALSE]
  <2>1. r \in Context /\ r.pc = "call" /\ r.kind = kind /\ r.open = open
    BY DEF Context
  <2>2. stack' = Append(stack, r)
    BY DEF Enter
  <2> HIDE DEF r
  <2> QED BY <2>1, <2>2
<1>2. n \in 1 .. MaxCalls /\ MaxCalls \in Nat
  BY ConsoleAssumption DEF CInv, CTypeOK, MayCall
<1>3. /\ stack' \in Seq(Context) /\ Len(stack') = n + 1 /\ stack'[n + 1] = r
      /\ \A d \in 1 .. n : stack'[d] = stack[d]
  BY <1>1, TopPushed DEF CInv
<1>4. ASSUME NEW d \in 1 .. n + 1
      PROVE  (d = n + 1 /\ stack'[d] = r) \/ (d \in 1 .. n /\ stack'[d] = stack[d])
  BY <1>2, <1>3
<1>5. \A d \in 1 .. n + 1 : stack'[d].pc \in Busy =>
          d \in 1 .. n /\ stack'[d] = stack[d]
  BY <1>1, <1>4 DEF Busy
<1>6. /\ said' = said /\ wire' = wire /\ p_buf' = p_buf
      /\ uart_console' = uart_console /\ UNCHANGED boot
  BY DEF boot
<1>7. CTypeOK'
  BY <1>2, <1>3, <1>6 DEF CInv, CTypeOK, boot
<1>8. StackInv'
  <2>1. \A d \in 1 .. n + 1 :
          LET f == stack'[d]
          IN  /\ f.kind = "thread" <=> d = 1
              /\ f.pc \in {"init", "idle"} => f.kind = "thread"
              /\ f.pc = "eoi" => f.kind = "irq"
              /\ f.pc = "eret" => f.kind = "invalid"
              /\ f.open => f.kind = "irq"
    BY <1>1, <1>2, <1>4 DEF CInv, StackInv
  <2>2. stack'[1].pc = "init" =>
            \A d \in 2 .. n + 1 : stack'[d].kind = "exception"
    BY <1>1, <1>2, <1>3 DEF CInv, StackInv
  <2> QED BY <1>2, <1>3, <2>1, <2>2 DEF StackInv
<1>9. BootInv'
  BY <1>2, <1>3, <1>6 DEF CInv, BootInv, boot
<1>10. CallInv'
  <2>1. ASSUME NEW d \in 1 .. n + 1, stack'[d].pc \in Busy
        PROVE  Progress(stack[d])'
    BY <1>5, <1>6, <2>1 DEF CInv, CallInv, Progress
  <2>2. ASSUME NEW d \in 1 .. n + 1, NEW e \in d + 1 .. n + 1,
               stack'[d].pc \in Busy, stack'[e].pc \in Busy
        PROVE  stack'[d].call < stack'[e].call
    <3>1. d \in 1 .. n /\ stack'[d] = stack[d] /\ e \in 1 .. n /\ stack'[e] = stack[e]
      BY <1>2, <1>5, <2>2
    <3>2. e \in d + 1 .. n
      BY <1>2, <3>1
    <3> QED BY <2>2, <3>1, <3>2 DEF CInv, CallInv
  <2> QED BY <1>3, <2>1, <2>2 DEF CallInv
<1>11. BufferInv'
  BY <1>3, <1>5, <1>6 DEF CInv, BufferInv
<1>12. SentInv'
  BY <1>3, <1>5, <1>6 DEF CInv, SentInv, HasSent, IsFrom
<1>13. NestInv'
  BY <1>3, <1>5, <1>6 DEF CInv, NestInv
<1>14. InOrder'
  <2>1. Len(said') = Len(said) + 0
    BY <1>6 DEF CInv, CTypeOK
  <2> QED BY <1>6, <2>1, OrderKept DEF CInv
<1>15. Complete'
  <2>1. InProgress \subseteq InProgress'
    BY <1>2, <1>3 DEF InProgress
  <2> QED BY <1>6, <2>1, CompleteKept DEF CInv
<1> QED BY <1>7, <1>8, <1>9, <1>10, <1>11, <1>12, <1>13, <1>14, <1>15 DEF CInv

\* A context whose call is over leaves the others where they are.
LEMMA LeaveKept ==
    ASSUME CInv, Top.pc \in {"eoi", "eret"}, stack' = Front(stack),
           UNCHANGED <<boot, p_buf, said, wire>>
    PROVE  CInv'
<1> DEFINE n == Len(stack)
<1>1. Top = stack[n] /\ n \in 1 .. MaxCalls + 1 /\ MaxCalls \in Nat
  BY TopTyped, ConsoleAssumption DEF CInv, CTypeOK
<1>2. Top.kind \in {"irq", "invalid"}
  BY <1>1 DEF CInv, StackInv
<1>3. n > 1 /\ stack[1].pc # "init"
  BY <1>1, <1>2 DEF CInv, StackInv
<1>4. /\ stack' \in Seq(Context) /\ Len(stack') = n - 1
      /\ \A d \in 1 .. n - 1 : stack'[d] = stack[d]
  BY <1>1, <1>3, TopPopped DEF CInv
<1>5. /\ said' = said /\ wire' = wire /\ p_buf' = p_buf
      /\ uart_console' = uart_console /\ UNCHANGED boot
  BY DEF boot
<1>6. 1 .. n - 1 \subseteq 1 .. n /\ 1 \in 1 .. n - 1
  BY <1>1, <1>3
<1>7. CTypeOK'
  BY <1>1, <1>3, <1>4, <1>5 DEF CInv, CTypeOK, boot
<1>8. StackInv'
  BY <1>3, <1>4, <1>6 DEF CInv, StackInv
<1>9. BootInv'
  BY <1>4, <1>5, <1>6 DEF CInv, BootInv, boot
<1>10. CallInv'
  <2>1. ASSUME NEW d \in 1 .. n - 1, stack'[d].pc \in Busy
        PROVE  Progress(stack[d])'
    BY <1>4, <1>5, <1>6, <2>1 DEF CInv, CallInv, Progress
  <2>2. ASSUME NEW d \in 1 .. n - 1, NEW e \in d + 1 .. n - 1,
               stack'[d].pc \in Busy, stack'[e].pc \in Busy
        PROVE  stack'[d].call < stack'[e].call
    <3>1. d \in 1 .. n /\ e \in d + 1 .. n /\ e \in 1 .. n - 1
      BY <1>1
    <3>2. stack'[d] = stack[d] /\ stack'[e] = stack[e]
      BY <1>4, <3>1
    <3> QED BY <2>2, <3>1, <3>2 DEF CInv, CallInv
  <2> QED BY <1>4, <2>1, <2>2 DEF CallInv
<1>11. BufferInv'
  BY <1>4, <1>5, <1>6 DEF CInv, BufferInv
<1>12. SentInv'
  <2>1. ASSUME NEW d \in 1 .. n - 1, stack'[d].pc \in Busy
        PROVE  HasSent(stack[d])'
    <3>1. HasSent(stack[d]) /\ stack'[d] = stack[d]
      BY <1>4, <1>6, <2>1 DEF CInv, SentInv
    <3> QED BY <1>5, <3>1 DEF HasSent, Past, IsFrom
  <2> QED BY <1>4, <2>1 DEF SentInv
<1>13. NestInv'
  BY <1>4, <1>5, <1>6 DEF CInv, NestInv
<1>14. InOrder'
  <2>1. Len(said') = Len(said) + 0
    BY <1>5 DEF CInv, CTypeOK
  <2> QED BY <1>5, <2>1, OrderKept DEF CInv
<1>15. Complete'
  <2>1. InProgress \subseteq InProgress'
    BY <1>1, <1>4 DEF InProgress, Busy
  <2> QED BY <1>5, <2>1, CompleteKept DEF CInv
<1> QED BY <1>7, <1>8, <1>9, <1>10, <1>11, <1>12, <1>13, <1>14, <1>15 DEF CInv

\* Every step keeps the invariant.
LEMMA NextCInv == ASSUME CInv, [Next]_vars PROVE CInv'
<1>1. CASE UNCHANGED vars \/ local_irq
  <2>1. UNCHANGED <<boot, stack, p_buf, said, wire>>
    BY <1>1 DEF vars, local_irq
  <2>2. CTypeOK' /\ StackInv' /\ BootInv'
    BY <2>1 DEF CInv, CTypeOK, StackInv, BootInv, boot
  <2>3. CallInv' /\ BufferInv' /\ SentInv' /\ NestInv'
    BY <2>1 DEF CInv, CallInv, Progress, BufferInv, SentInv, HasSent, IsFrom,
                NestInv, boot
  <2>4. InOrder'
    <3>1. Len(said') = Len(said) + 0
      BY <2>1 DEF CInv, CTypeOK
    <3> QED BY <2>1, <3>1, OrderKept DEF CInv
  <2>5. Complete'
    BY <2>1, CompleteKept DEF CInv, InProgress, boot
  <2> QED BY <2>2, <2>3, <2>4, <2>5 DEF CInv
<1>2. CASE console_init
  BY <1>2, InitStep
<1>3. CASE console_init_none
  BY <1>3, InitNoneStep
<1>4. ASSUME NEW t \in Text, printk(t) PROVE CInv'
  BY <1>4, PrintkStep
<1>5. CASE vsnprintf
  BY <1>5, FormatStep
<1>6. CASE console_write
  BY <1>6, WriteStep
<1>7. CASE qemu_console_write
  BY <1>7, ConsoleStep
<1>8. CASE printk_return
  BY <1>8, ReturnStep
<1>9. ASSUME Interruptible PROVE MayCall /\ stack[1].pc # "init"
  <2>1. Top = stack[Len(stack)] /\ Len(stack) \in Nat \ {0}
    BY TopTyped DEF CInv, CTypeOK
  <2> QED BY <1>9, <2>1 DEF Interruptible, Run, CInv, StackInv
<1>10. ASSUME NEW i \in Line, TakeIrq(i) PROVE CInv'
  BY <1>9, <1>10, EnterKept DEF TakeIrq
<1>11. CASE TakeInvalid
  BY <1>9, <1>11, EnterKept DEF TakeInvalid
<1>12. CASE gicv3_eoi_irq
  BY <1>12, LeaveKept DEF gicv3_eoi_irq, Run
<1>13. CASE eret
  BY <1>13, LeaveKept DEF eret, Run
<1>14. CASE unexpected_exception
  BY <1>14, EnterKept DEF unexpected_exception
<1> QED BY <1>1, <1>2, <1>3, <1>4, <1>5, <1>6, <1>7, <1>8, <1>10, <1>11, <1>12,
           <1>13, <1>14 DEF Next

\* The invariant, for any texts, console tables, array size and number of calls.
THEOREM ConsoleInvariant == Spec => []CInv
<1>1. Init => CInv
  BY InitCInv
<1>2. CInv /\ [Next]_vars => CInv'
  BY NextCInv
<1> QED BY <1>1, <1>2, PTL DEF Spec

-----------------------------------------------------------------------------
(* What it means for what is sent                                          *)

\* What comes between two characters of a call is whole texts of later calls.
LEMMA NestedTexts == ASSUME CInv PROVE Nested
<1> SUFFICES ASSUME NEW x \in 1 .. Len(wire), NEW z \in 1 .. Len(wire),
                    NEW y \in x .. z, wire[x].call = wire[z].call,
                    wire[y].call # wire[x].call
             PROVE  /\ wire[y].call > wire[x].call
                    /\ wire[y].call \notin InProgress
                    /\ \A w \in 1 .. Len(wire) :
                          wire[w].call = wire[y].call => w \in x .. z
  BY DEF Nested
<1>1. /\ Len(wire) \in Nat /\ \A w \in 1 .. Len(wire) : wire[w].call \in Nat
      /\ Len(stack) \in Nat
  <2>1. Len(wire) \in Nat /\ Len(stack) \in Nat /\ CTypeOK
    BY DEF CInv, CTypeOK
  <2> QED BY <2>1, SentTyped
<1>2. /\ x < y /\ y < z /\ y \in 1 .. Len(wire)
      /\ x \in 1 .. y - 1 /\ y \in 1 .. z - 1
  BY <1>1
<1>3. wire[y].call > wire[x].call
  BY <1>1, <1>2 DEF CInv, NestInv
<1>4. wire[y].call \notin InProgress
  <2> SUFFICES ASSUME NEW d \in 1 .. Len(stack), stack[d].pc \in Busy,
                      stack[d].call = wire[y].call
               PROVE  FALSE
    BY DEF InProgress
  <2>1. wire[z].call >= stack[d].call
    BY <1>2 DEF CInv, NestInv
  <2> QED BY <1>1, <1>2, <1>3, <2>1
<1>5. ASSUME NEW w \in 1 .. Len(wire), wire[w].call = wire[y].call
      PROVE  w \in x .. z
  <2>1. ASSUME w < x PROVE FALSE
    <3>1. w \in 1 .. x - 1
      BY <1>1, <2>1
    <3>2. wire[x].call >= wire[y].call
      BY <1>2, <1>5, <3>1 DEF CInv, NestInv
    <3> QED BY <1>1, <1>2, <1>3, <3>2
  <2>2. ASSUME w > z PROVE FALSE
    <3>1. z \in 1 .. w - 1
      BY <1>1, <2>2
    <3>2. wire[z].call >= wire[w].call
      BY <1>2, <1>5, <3>1 DEF CInv, NestInv
    <3> QED BY <1>1, <1>2, <1>3, <1>5, <3>2
  <2> QED BY <1>1, <2>1, <2>2
<1> QED BY <1>3, <1>4, <1>5

\* What is sent goes through the console that console_init took.
LEMMA FirstConsole == ASSUME CInv PROVE ThroughConsole
<1> SUFFICES ASSUME wire # <<>>
             PROVE  /\ uart_console \in Qemu /\ \A k \in Qemu : uart_console <= k
                    /\ inits = IF table[uart_console].init
                               THEN <<uart_console>> ELSE <<>>
  BY DEF ThroughConsole
<1>1. /\ uart_console = con /\ con \in 1 .. Len(table)
      /\ table[con].name = "qemu"
      /\ inits = IF table[con].init THEN <<con>> ELSE <<>>
  BY DEF CInv, BootInv
<1>2. con \in Nat /\ Len(table) \in Nat
  BY ConsoleAssumption DEF CInv, CTypeOK
<1>3. ASSUME NEW k \in Qemu PROVE con <= k
  BY <1>2 DEF Qemu, CInv, BootInv
<1> QED BY <1>1, <1>3 DEF Qemu

\* Whatever contexts print and however they interrupt each other, each call's
\* characters reach the UART whole, in order and nested, through the first
\* console called qemu, for any texts, tables and number of calls.
THEOREM TextsStayWhole == Spec => []TextsWhole
<1>1. CInv => TextsWhole
  BY NestedTexts, FirstConsole DEF CInv, TextsWhole
<1> QED BY <1>1, ConsoleInvariant, PTL
=============================================================================

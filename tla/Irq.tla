-------------------------------- MODULE Irq --------------------------------
(***************************************************************************)
(* The interrupt path of the kernel: the exception entry of vector.S, the  *)
(* dispatcher driver/interrupt/interrupt.c, the root handler of gicv3.c    *)
(* and the PSTATE.I helpers of irqflags.h, on the one CPU the kernel       *)
(* boots.  The CPU runs a stack of contexts: context 0 is the thread that  *)
(* entered start_kernel, context d > 0 is the d-th nested IRQ frame, and   *)
(* only the top context takes steps.  A step is one access to state that   *)
(* another context or the hardware also touches.                           *)
(***************************************************************************)
EXTENDS Integers, FiniteSets, Sequences

CONSTANTS
    Line,           \* INTIDs the machine wires and gicv3_hw_init configures
    Handler,        \* handlers that clients pass to request_irq
    Nesting,        \* those that run part of their body with IRQs enabled
    NULL,
    handle_bad_irq, \* the handler of every descriptor at boot
    MaxDepth,       \* bound: nested frames the stack is given room for
    MaxRaise        \* bound: how often a device raises its line

NR_IRQS      == 8192
GICV3_NR_SGI == 16
Spurious     == 1020 .. 1023

ASSUME LineAssumption ==
    /\ Line \subseteq 0 .. 1019
    /\ IsFiniteSet(Line)
ASSUME HandlerAssumption ==
    /\ Nesting \subseteq Handler
    /\ NULL \notin Handler
    /\ handle_bad_irq \notin Handler \cup {NULL}
ASSUME BoundAssumption ==
    /\ MaxDepth \in Nat \ {0}
    /\ MaxRaise \in Nat

VARIABLES
    irq_desc,        \* Line -> descriptor
    handle_arch_irq, \* the root handler, or NULL
    _irq_chip,       \* the registered interrupt controller, or NULL
    interrupt_nest,
    daif,            \* PSTATE.I: TRUE when the CPU takes no IRQ
    elr, spsr,       \* ELR_EL1 and SPSR_EL1: one copy each
    depth,           \* the running context
    pc,              \* context -> the step it executes next
    irqnr,           \* frame -> the local irqnr of gicv3_handle_irq
    reg,             \* frame -> register that interrupt_nest is loaded into
    saved,           \* frame -> <<ELR_EL1, SPSR_EL1>> pushed by save_context
    req,             \* arguments of the request_irq the thread is in
    flags,           \* what the thread's local_irq_save() returned
    closed,          \* auxiliary: the thread asked for IRQs to be off
    enabled, pending, active, \* GIC state of every line
    raises           \* line -> how often it was raised, at most MaxRaise

descVars  == <<irq_desc, handle_arch_irq, _irq_chip>>
cpuVars   == <<daif, elr, spsr>>
frameVars == <<irqnr, reg, saved>>
threadVars == <<req, flags, closed>>
gicVars   == <<enabled, pending, active, raises>>
vars == <<descVars, interrupt_nest, cpuVars, depth, pc, frameVars,
          threadVars, gicVars>>

-----------------------------------------------------------------------------
(* Types.  interrupt_nest is an unsigned long: \in Nat says that it never *)
(* goes below zero.                                                        *)

ThreadLabel == {"set_irq_chip", "set_handle_irq", "hw_init", "run",
                "req_data", "req_unmask", "save_mask", "critical"}
FrameLabel  == {"save", "enter", "enter_st", "iar", "handle", "open", "eoi",
                "exit", "exit_st", "restore", "eret"}
Label       == ThreadLabel \cup FrameLabel \cup {"none"}
Context     == 0 .. MaxDepth
Return      == Context \X Label

Desc == [handle_irq   : Handler \cup {handle_bad_irq},
         handler_data : Handler \cup {NULL},
         irq_count    : Nat]
Request == [irq : Line \cup {NULL}, handler : Handler \cup {NULL},
            live : BOOLEAN]

NoRequest == [irq |-> NULL, handler |-> NULL, live |-> FALSE]
NoReturn  == <<0, "none">>
NoIrq     == 1023

TypeOK ==
    /\ irq_desc \in [Line -> Desc]
    /\ handle_arch_irq \in {NULL, "gicv3_handle_irq"}
    /\ _irq_chip \in {NULL, "gicv3_chip"}
    /\ interrupt_nest \in Nat
    /\ daif \in BOOLEAN /\ spsr \in BOOLEAN
    /\ elr \in Return
    /\ depth \in Context
    /\ pc \in [Context -> Label]
    /\ irqnr \in [Context -> Line \cup Spurious]
    /\ reg \in [Context -> Int]
    /\ saved \in [Context -> Return \X BOOLEAN]
    /\ req \in Request
    /\ flags \in BOOLEAN /\ closed \in BOOLEAN
    /\ enabled \subseteq Line /\ pending \subseteq Line
    /\ active \subseteq Line
    /\ raises \in [Line -> 0 .. MaxRaise]

At(l)   == pc[depth] = l
Goto(l) == pc' = [pc EXCEPT ![depth] = l]
Thread(l) == depth = 0 /\ At(l)

-----------------------------------------------------------------------------
(* The GIC as the code uses it: priorities come from gicv3_hw_init, and a  *)
(* line is presented to the CPU only when it beats every active one.       *)

Prio(i) == IF i < GICV3_NR_SGI THEN 144 ELSE 160    \* 0x90, 0xa0
IsLevel(i) == i >= GICV3_NR_SGI

Presented == {i \in (pending \cap enabled) \ active :
                  \A j \in active : Prio(i) < Prio(j)}
Highest   == {i \in Presented : \A j \in Presented : Prio(i) <= Prio(j)}

Raise(i) ==
    /\ raises[i] < MaxRaise
    /\ i \notin pending
    /\ pending' = pending \cup {i}
    /\ raises' = [raises EXCEPT ![i] = @ + 1]
    /\ UNCHANGED <<descVars, interrupt_nest, cpuVars, depth, pc, frameVars,
                   threadVars, enabled, active>>

\* A level line that its device withdraws before the CPU acknowledges it.
Withdraw(i) ==
    /\ IsLevel(i) /\ i \in pending
    /\ pending' = pending \ {i}
    /\ UNCHANGED <<descVars, interrupt_nest, cpuVars, depth, pc, frameVars,
                   threadVars, enabled, active, raises>>

-----------------------------------------------------------------------------
(* The thread: gicv3_driver_init, then any client of the interrupt API.    *)

set_irq_chip ==
    /\ Thread("set_irq_chip")
    /\ _irq_chip' = "gicv3_chip"
    /\ Goto("set_handle_irq")
    /\ UNCHANGED <<irq_desc, handle_arch_irq, interrupt_nest, cpuVars, depth,
                   frameVars, threadVars, gicVars>>

set_handle_irq ==
    /\ Thread("set_handle_irq")
    /\ handle_arch_irq' = IF handle_arch_irq # NULL THEN handle_arch_irq
                                                    ELSE "gicv3_handle_irq"
    /\ Goto("hw_init")
    /\ UNCHANGED <<irq_desc, _irq_chip, interrupt_nest, cpuVars, depth,
                   frameVars, threadVars, gicVars>>

\* Mutant: the lines that reset left enabled are not disabled.
gicv3_hw_init_no_disable ==
    /\ Thread("hw_init")
    /\ enabled' = enabled \cup {i \in Line : i < GICV3_NR_SGI}
    /\ Goto("run")
    /\ UNCHANGED <<descVars, interrupt_nest, cpuVars, depth, frameVars,
                   threadVars, pending, active, raises>>

\* What the register writes of gicv3_hw_init leave behind for these lines.
gicv3_hw_init ==
    /\ Thread("hw_init")
    /\ enabled' = {i \in Line : i < GICV3_NR_SGI}
    /\ Goto("run")
    /\ UNCHANGED <<descVars, interrupt_nest, cpuVars, depth, frameVars,
                   threadVars, pending, active, raises>>

SetEnable(i) == enabled' = IF _irq_chip # NULL THEN enabled \cup {i} ELSE enabled
ClearEnable(i) == enabled' = IF _irq_chip # NULL THEN enabled \ {i} ELSE enabled

mask_irq(i) ==
    /\ Thread("run")
    /\ ClearEnable(i)
    /\ UNCHANGED <<descVars, interrupt_nest, cpuVars, depth, pc, frameVars,
                   threadVars, pending, active, raises>>

unmask_irq(i) ==
    /\ Thread("run")
    /\ SetEnable(i)
    /\ UNCHANGED <<descVars, interrupt_nest, cpuVars, depth, pc, frameVars,
                   threadVars, pending, active, raises>>

\* Mutant: the line is unmasked before its descriptor is complete.
request_irq_unmask_first(i, h) ==
    /\ Thread("run")
    /\ i < NR_IRQS
    /\ irq_desc' = IF h # NULL THEN [irq_desc EXCEPT ![i].handle_irq = h]
                               ELSE irq_desc
    /\ req' = [irq |-> i, handler |-> h, live |-> i \in enabled]
    /\ SetEnable(i)
    /\ Goto("req_data")
    /\ UNCHANGED <<handle_arch_irq, _irq_chip, interrupt_nest, cpuVars, depth,
                   frameVars, flags, closed, pending, active, raises>>

\* request_irq stores the handler, then its data, then unmasks the line; an
\* IRQ can be taken between any two of the three.  "live" is auxiliary: the
\* line was already enabled when the call began.  A client passes its handler
\* and data that belong to it, or NULL for both.
request_irq(i, h) ==
    /\ Thread("run")
    /\ i < NR_IRQS
    /\ irq_desc' = IF h # NULL THEN [irq_desc EXCEPT ![i].handle_irq = h]
                               ELSE irq_desc
    /\ req' = [irq |-> i, handler |-> h, live |-> i \in enabled]
    /\ Goto("req_data")
    /\ UNCHANGED <<handle_arch_irq, _irq_chip, interrupt_nest, cpuVars, depth,
                   frameVars, flags, closed, gicVars>>

request_irq_data ==
    /\ Thread("req_data")
    /\ irq_desc' = [irq_desc EXCEPT ![req.irq] =
                      [@ EXCEPT !.handler_data = req.handler, !.irq_count = 0]]
    /\ Goto("req_unmask")
    /\ UNCHANGED <<handle_arch_irq, _irq_chip, interrupt_nest, cpuVars, depth,
                   frameVars, threadVars, gicVars>>

_setup_irq ==
    /\ Thread("req_unmask")
    /\ SetEnable(req.irq)
    /\ req' = NoRequest
    /\ Goto("run")
    /\ UNCHANGED <<descVars, interrupt_nest, cpuVars, depth, frameVars,
                   flags, closed, pending, active, raises>>

local_irq_enable ==
    /\ Thread("run")
    /\ daif' = FALSE /\ closed' = FALSE
    /\ UNCHANGED <<descVars, interrupt_nest, elr, spsr, depth, pc, frameVars,
                   req, flags, gicVars>>

local_irq_disable ==
    /\ Thread("run")
    /\ daif' = TRUE /\ closed' = TRUE
    /\ UNCHANGED <<descVars, interrupt_nest, elr, spsr, depth, pc, frameVars,
                   req, flags, gicVars>>

\* arch_local_irq_save is two instructions: mrs reads DAIF, msr masks.
local_irq_save ==
    /\ Thread("run")
    /\ flags' = daif
    /\ Goto("save_mask")
    /\ UNCHANGED <<descVars, interrupt_nest, cpuVars, depth, frameVars,
                   req, closed, gicVars>>

local_irq_save_mask ==
    /\ Thread("save_mask")
    /\ daif' = TRUE
    /\ Goto("critical")
    /\ UNCHANGED <<descVars, interrupt_nest, elr, spsr, depth, frameVars,
                   threadVars, gicVars>>

\* Mutant: the restore enables IRQs whatever flags holds.
local_irq_restore_enables ==
    /\ Thread("critical")
    /\ daif' = FALSE /\ flags' = FALSE
    /\ Goto("run")
    /\ UNCHANGED <<descVars, interrupt_nest, elr, spsr, depth, frameVars,
                   req, closed, gicVars>>

local_irq_restore ==
    /\ Thread("critical")
    /\ daif' = flags /\ flags' = FALSE
    /\ Goto("run")
    /\ UNCHANGED <<descVars, interrupt_nest, elr, spsr, depth, frameVars,
                   req, closed, gicVars>>

-----------------------------------------------------------------------------
(* An IRQ frame, from the exception to eret *)

\* The CPU takes the IRQ: it masks IRQs and enters IRQInterruptHandler.
TakeIrq ==
    /\ ~daif /\ Presented # {}
    /\ depth < MaxDepth
    /\ elr' = <<depth, pc[depth]>> /\ spsr' = daif /\ daif' = TRUE
    /\ depth' = depth + 1
    /\ pc' = [pc EXCEPT ![depth + 1] = "save"]
    /\ UNCHANGED <<descVars, interrupt_nest, frameVars, threadVars, gicVars>>

\* Mutant: the frame leaves ELR_EL1 and SPSR_EL1 where they are.
save_context_no_elr ==
    /\ At("save")
    /\ Goto("enter")
    /\ UNCHANGED <<descVars, interrupt_nest, cpuVars, depth, frameVars,
                   threadVars, gicVars>>

save_context ==
    /\ At("save")
    /\ saved' = [saved EXCEPT ![depth] = <<elr, spsr>>]
    /\ Goto("enter")
    /\ UNCHANGED <<descVars, interrupt_nest, cpuVars, depth, irqnr, reg,
                   threadVars, gicVars>>

\* interrupt_nest++ is a load and a store.
irq_enter ==
    /\ At("enter")
    /\ reg' = [reg EXCEPT ![depth] = interrupt_nest]
    /\ Goto("enter_st")
    /\ UNCHANGED <<descVars, interrupt_nest, cpuVars, depth, irqnr, saved,
                   threadVars, gicVars>>

\* Mutant: the count is taken up by nobody.
irq_enter_store_missing ==
    /\ At("enter_st")
    /\ Goto("iar")
    /\ UNCHANGED <<descVars, interrupt_nest, cpuVars, depth, frameVars,
                   threadVars, gicVars>>

irq_enter_store ==
    /\ At("enter_st")
    /\ interrupt_nest' = reg[depth] + 1
    /\ Goto("iar")
    /\ UNCHANGED <<descVars, cpuVars, depth, frameVars, threadVars, gicVars>>

\* Mutant: the line is ended as soon as it is acknowledged.
gic_read_iar_ends(i) ==
    /\ At("iar") /\ handle_arch_irq # NULL /\ i \in Highest
    /\ irqnr' = [irqnr EXCEPT ![depth] = i]
    /\ pending' = IF IsLevel(i) THEN pending ELSE pending \ {i}
    /\ Goto("handle")
    /\ UNCHANGED <<descVars, interrupt_nest, cpuVars, depth, reg, saved,
                   threadVars, enabled, active, raises>>

\* gicv3_handle_irq reads ICC_IAR1_EL1, which acknowledges a highest
\* presented line; an SGI is then no longer pending.
gic_read_iar(i) ==
    /\ At("iar") /\ handle_arch_irq # NULL /\ i \in Highest
    /\ irqnr' = [irqnr EXCEPT ![depth] = i]
    /\ active' = active \cup {i}
    /\ pending' = IF IsLevel(i) THEN pending ELSE pending \ {i}
    /\ Goto("handle")
    /\ UNCHANGED <<descVars, interrupt_nest, cpuVars, depth, reg, saved,
                   threadVars, enabled, raises>>

\* With no root handler, or nothing left to acknowledge (the read returns a
\* special INTID), the frame goes back without handler or end of interrupt.
gic_read_iar_special ==
    /\ At("iar") /\ (handle_arch_irq = NULL \/ Highest = {})
    /\ irqnr' = [irqnr EXCEPT ![depth] = NoIrq]
    /\ Goto("exit")
    /\ UNCHANGED <<descVars, interrupt_nest, cpuVars, depth, reg, saved,
                   threadVars, gicVars>>

\* desc->handle_irq(desc).  A client's handler quiets its device; a nesting
\* one then calls local_irq_enable.  handle_bad_irq only prints.
generic_handle_irq ==
    /\ At("handle")
    /\ LET i == irqnr[depth]
           h == irq_desc[i].handle_irq
       IN  /\ pending' = IF h \in Handler /\ IsLevel(i) THEN pending \ {i}
                                                        ELSE pending
           /\ daif' = IF h \in Nesting THEN FALSE ELSE daif
           /\ Goto(IF h \in Nesting THEN "open" ELSE "eoi")
    /\ UNCHANGED <<descVars, interrupt_nest, elr, spsr, depth, frameVars,
                   threadVars, enabled, active, raises>>

\* A nesting handler calls local_irq_disable before it returns.
HandlerReturn ==
    /\ At("open")
    /\ daif' = TRUE
    /\ Goto("eoi")
    /\ UNCHANGED <<descVars, interrupt_nest, elr, spsr, depth, frameVars,
                   threadVars, gicVars>>

\* Mutant: no write to ICC_EOIR1_EL1.
gicv3_eoi_irq_missing ==
    /\ At("eoi")
    /\ Goto("exit")
    /\ UNCHANGED <<descVars, interrupt_nest, cpuVars, depth, frameVars,
                   threadVars, gicVars>>

gicv3_eoi_irq ==
    /\ At("eoi")
    /\ active' = active \ {irqnr[depth]}
    /\ Goto("exit")
    /\ UNCHANGED <<descVars, interrupt_nest, cpuVars, depth, frameVars,
                   threadVars, enabled, pending, raises>>

irq_exit ==
    /\ At("exit")
    /\ reg' = [reg EXCEPT ![depth] = interrupt_nest]
    /\ Goto("exit_st")
    /\ UNCHANGED <<descVars, interrupt_nest, cpuVars, depth, irqnr, saved,
                   threadVars, gicVars>>

\* Mutant: the count is taken down by nobody.
irq_exit_store_missing ==
    /\ At("exit_st")
    /\ Goto("restore")
    /\ UNCHANGED <<descVars, interrupt_nest, cpuVars, depth, frameVars,
                   threadVars, gicVars>>

irq_exit_store ==
    /\ At("exit_st")
    /\ interrupt_nest' = reg[depth] - 1
    /\ Goto("restore")
    /\ UNCHANGED <<descVars, cpuVars, depth, frameVars, threadVars, gicVars>>

restore_context ==
    /\ At("restore")
    /\ elr' = saved[depth][1] /\ spsr' = saved[depth][2]
    /\ Goto("eret")
    /\ UNCHANGED <<descVars, interrupt_nest, daif, depth, frameVars,
                   threadVars, gicVars>>

\* eret jumps to ELR_EL1 and loads PSTATE from SPSR_EL1.  What the popped
\* frame and the two registers held is dead and forgotten.
eret ==
    /\ At("eret")
    /\ depth' = elr[1]
    /\ pc' = [pc EXCEPT ![depth] = "none", ![elr[1]] = elr[2]]
    /\ daif' = spsr
    /\ elr' = NoReturn /\ spsr' = FALSE
    /\ irqnr' = [irqnr EXCEPT ![depth] = NoIrq]
    /\ reg' = [reg EXCEPT ![depth] = 0]
    /\ saved' = [saved EXCEPT ![depth] = <<NoReturn, FALSE>>]
    /\ UNCHANGED <<descVars, interrupt_nest, threadVars, gicVars>>

-----------------------------------------------------------------------------
(* Boot leaves IRQs masked, the descriptors bad, and the GIC's enable bits *)
(* as they come out of reset.                                              *)

Init ==
    /\ irq_desc = [i \in Line |-> [handle_irq |-> handle_bad_irq,
                                   handler_data |-> NULL, irq_count |-> 0]]
    /\ handle_arch_irq = NULL /\ _irq_chip = NULL
    /\ interrupt_nest = 0
    /\ daif = TRUE /\ elr = NoReturn /\ spsr = FALSE
    /\ depth = 0
    /\ pc = [d \in Context |-> IF d = 0 THEN "set_irq_chip" ELSE "none"]
    /\ irqnr = [d \in Context |-> NoIrq]
    /\ reg = [d \in Context |-> 0]
    /\ saved = [d \in Context |-> <<NoReturn, FALSE>>]
    /\ req = NoRequest /\ flags = FALSE /\ closed = TRUE
    /\ enabled \in SUBSET Line /\ pending = {} /\ active = {}
    /\ raises = [i \in Line |-> 0]

DriverInit == set_irq_chip \/ set_handle_irq \/ gicv3_hw_init
Call == \E i \in Line : \/ mask_irq(i)
                        \/ unmask_irq(i)
                        \/ \E h \in Handler \cup {NULL} : request_irq(i, h)
InCall == \/ request_irq_data
          \/ _setup_irq
          \/ local_irq_save_mask
          \/ local_irq_restore
LocalIrq == local_irq_enable \/ local_irq_disable \/ local_irq_save
IrqPath == \/ save_context
           \/ irq_enter
           \/ irq_enter_store
           \/ \E i \in Line : gic_read_iar(i)
           \/ gic_read_iar_special
           \/ generic_handle_irq
           \/ HandlerReturn
           \/ gicv3_eoi_irq
           \/ irq_exit
           \/ irq_exit_store
           \/ restore_context
           \/ eret
Device == \E i \in Line : Raise(i) \/ Withdraw(i)

Next == DriverInit \/ Call \/ InCall \/ LocalIrq \/ TakeIrq \/ IrqPath \/ Device

Spec == Init /\ [][Next]_vars

\* The CPU executes the running context, and takes an IRQ it may take.  The
\* thread owes nobody a call, but finishes one it began.
Fairness ==
    /\ WF_vars(IrqPath)
    /\ WF_vars(DriverInit \/ InCall)
    /\ SF_vars(TakeIrq)

\* A client that never leaves a level line enabled without a handler: nothing
\* would quiet its device.
Registered(i) == irq_desc[i].handle_irq # handle_bad_irq
CarefulCall == \E i \in Line :
                 \/ mask_irq(i)
                 \/ Registered(i) /\ unmask_irq(i)
                 \/ \E h \in Handler \cup {NULL} :
                       (h # NULL \/ Registered(i)) /\ request_irq(i, h)
CarefulNext == \/ DriverInit \/ CarefulCall \/ InCall \/ LocalIrq
               \/ TakeIrq \/ IrqPath \/ Device
CarefulSpec == Init /\ [][CarefulNext]_vars /\ Fairness
-----------------------------------------------------------------------------
(* What the stack of contexts says about the rest of the state             *)

Frames     == 1 .. depth
Counted(d) == pc[d] \in {"iar", "handle", "open", "eoi", "exit", "exit_st"}
Acked(d)   == pc[d] \in {"handle", "open", "eoi"}

\* vector.S keeps ELR_EL1 and SPSR_EL1 of an interrupted context intact: an
\* eret resumes the context directly below at the step where the IRQ struck,
\* with IRQs unmasked again, however many IRQs were nested in between.
ReturnAddressIntact ==
    pc[depth] = "eret" => /\ elr = <<depth - 1, pc[depth - 1]>>
                          /\ ~spsr

\* interrupt_nest, a plain ++ and -- of the dispatcher that IRQs may split,
\* counts the frames between irq_enter and irq_exit: the thread always reads
\* 0 (is_interrupt_nest is false) and a running handler its own depth.
NestCounts ==
    /\ depth = 0 => interrupt_nest = 0
    /\ pc[depth] \in {"handle", "open", "eoi"} => interrupt_nest = depth

\* gicv3_handle_irq ends the interrupt it acknowledged, in the reverse order
\* of acknowledgement, and leaves none active behind: at an EOI the frame's
\* line has a higher priority than every other active one, and when the
\* thread runs no line is active (one that were would never be signalled).
EoiDiscipline ==
    /\ depth = 0 => active = {}
    /\ pc[depth] = "eoi" => /\ irqnr[depth] \in active
                            /\ \A j \in active \ {irqnr[depth]} :
                                   Prio(irqnr[depth]) < Prio(j)

\* The two priorities of gicv3_hw_init bound the stack that IRQ frames need:
\* never more than one frame per priority, whatever handlers unmask IRQs.
NestingBounded == depth <= 2

\* Between local_irq_disable and local_irq_enable, or local_irq_save and
\* local_irq_restore, and before the drivers are up, the thread is never
\* interrupted; and a save/restore pair gives back the mask it found.
ThreadMaskRespected ==
    /\ depth > 0 => ~closed /\ pc[0] \in {"run", "req_data", "req_unmask",
                                          "save_mask"}
    /\ Thread("run") => daif = closed

\* request_irq unmasks last, so no handler ever runs with the data of another
\* client, unless the line was re-requested while it was already enabled.
NoForeignData ==
    pc[depth] = "handle" =>
        LET i == irqnr[depth]
            desc == irq_desc[i]
        IN  \/ desc.handle_irq = handle_bad_irq
            \/ desc.handler_data \in {desc.handle_irq, NULL}
            \/ req.irq = i /\ req.live

-----------------------------------------------------------------------------
(* The path implements IrqService: the lines in service are those of the   *)
(* frames that run a handler, and the thread's mask is its wish.           *)

InService == IF depth > 0 /\ ~Acked(depth) THEN depth - 1 ELSE depth
Serving   == [d \in 1 .. InService |-> irqnr[d]]
Masked  == closed \/ pc[0] = "critical"

Service == INSTANCE IrqService WITH serving <- Serving, masked <- Masked

\* The whole path, with its split counters, single ELR and thread races,
\* looks to handlers and thread like IrqService.
ImplementsService == Service!Spec

\* A raised and enabled line reaches its handler, is withdrawn or is masked,
\* if the thread lets IRQs in again and again: EOIs, priorities and the
\* special INTIDs never leave a line stuck.  (Devices raise finitely often.)
ServedEventually ==
    []<>(Thread("run") /\ ~daif) =>
        \A i \in Line : (i \in pending \cap enabled)
                            ~> (i \notin pending \cap enabled)

\* A request_irq that began ends, although IRQs steal the CPU between its
\* stores: no line that gicv3_hw_init found enabled fires without a handler.
RequestCompletes == (pc[0] \in {"req_data", "req_unmask"}) ~> Thread("run")

-----------------------------------------------------------------------------
(* The inductive invariant that the proofs of IrqProofs go through         *)

\* Every frame below the running one sits in the open part of its handler.
StackInv ==
    /\ pc[0] \in ThreadLabel
    /\ \A d \in Frames : pc[d] \in FrameLabel
    /\ \A d \in Frames \ {depth} : pc[d] = "open"

\* Who has IRQs unmasked: the thread where it allows them, an open handler.
MaskInv ==
    /\ depth = 0 => (daif <=> Masked)
    /\ depth > 0 => (daif <=> pc[depth] # "open")
    /\ depth > 0 => ~closed /\ pc[0] \in {"run", "req_data", "req_unmask",
                                          "save_mask"}
    /\ pc[0] \in {"set_irq_chip", "set_handle_irq", "hw_init"} => closed
    /\ pc[0] \in {"save_mask", "critical"} => flags = closed

\* Where the return address of each frame is at each step.
BelowIs(d, ret, mask) == ret = <<d - 1, pc[d - 1]>> /\ mask = FALSE
ReturnInv ==
    /\ \A d \in Frames : pc[d] # "save" =>
           BelowIs(d, saved[d][1], saved[d][2])
    /\ depth > 0 /\ pc[depth] \in {"save", "eret"} =>
           BelowIs(depth, elr, spsr)

\* The value of interrupt_nest, and of the copy in flight.
NestInv ==
    /\ interrupt_nest = IF depth = 0 THEN 0
                        ELSE IF Counted(depth) THEN depth ELSE depth - 1
    /\ depth > 0 /\ pc[depth] = "enter_st" => reg[depth] = depth - 1
    /\ depth > 0 /\ pc[depth] = "exit_st"  => reg[depth] = depth

\* The active lines are those of the frames that run a handler, each
\* outranking the ones below it.
ActiveInv ==
    /\ \A d \in Frames : Acked(d) => irqnr[d] \in active
    /\ \A i \in active : \E d \in Frames : Acked(d) /\ irqnr[d] = i
    /\ \A d, e \in Frames : d < e /\ Acked(d) /\ Acked(e) =>
           Prio(irqnr[e]) < Prio(irqnr[d])
    /\ depth <= 2
    /\ depth = 2 => Prio(irqnr[1]) = 160

\* What a request_irq in progress knows, and the state of the descriptors.
Requesting == pc[0] \in {"req_data", "req_unmask"}
RequestInv ==
    /\ Requesting => req.irq \in Line
    /\ Requesting /\ ~req.live => req.irq \notin enabled \cup active
    /\ pc[0] = "req_data" /\ req.handler # NULL =>
           irq_desc[req.irq].handle_irq = req.handler
    /\ \A i \in Line : \/ irq_desc[i].handle_irq = handle_bad_irq
                       \/ irq_desc[i].handler_data
                              \in {irq_desc[i].handle_irq, NULL}
                       \/ pc[0] = "req_data" /\ req.irq = i

IInv == /\ TypeOK /\ StackInv /\ MaskInv /\ ReturnInv /\ NestInv /\ ActiveInv
        /\ RequestInv
=============================================================================

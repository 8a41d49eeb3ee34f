------------------------------- MODULE Timer -------------------------------
(***************************************************************************)
(* driver/timer/arm64_timer.c: the generic timer that drives the tick.     *)
(* Time is relative: left is CNTP_CVAL minus the running count, so that    *)
(* the model is finite without a bound on time.                            *)
(***************************************************************************)
EXTENDS TimerConstants

VARIABLES
    pc,        \* next step of arm64_arch_timer_init, "done" once it returned
    irq,       \* the tick interrupt: "none", "taken" or "ending"
    cpu_khz,
    left,      \* counts until the compare value is reached, 0 once it is
    ENABLE,    \* CNTP_CTL_EL0 bit 0
    IMASK,     \* CNTP_CTL_EL0 bit 1
    requested, \* line 30 has its handler and is unmasked
    daif,      \* IRQs are masked
    since      \* auxiliary: counts since the driver last wrote TVAL, at most
               \* one period; -1 before it ever did

timerRegs == <<left, ENABLE, IMASK>>
vars == <<pc, irq, cpu_khz, timerRegs, requested, daif, since>>

InitStep == {"freq", "imask", "stop", "request", "tval", "start", "unmask"}

TypeOK ==
    /\ pc \in InitStep \cup {"done"}
    /\ irq \in {"none", "taken", "ending"}
    /\ cpu_khz \in {0, Khz}
    /\ left \in Nat
    /\ ENABLE \in BOOLEAN /\ IMASK \in BOOLEAN
    /\ requested \in BOOLEAN /\ daif \in BOOLEAN
    /\ since \in -1 .. Period

Then(l, k) == pc = l /\ pc' = k

\* The timer drives line 30 of the GIC, a level.
Asserted == ENABLE /\ ~IMASK /\ left = 0

-----------------------------------------------------------------------------
(* The accessors                                                           *)

\* TVAL is signed and narrower than the value: a write sets the compare value
\* to the count plus the sign-extended low word.
Low(v)    == v % (2 * TvalHalf)
Signed(v) == IF Low(v) < TvalHalf THEN Low(v) ELSE Low(v) - 2 * TvalHalf
write_cntp_tval_el0(v) ==
    /\ left' = IF Signed(v) > 0 THEN Signed(v) ELSE 0
    /\ since' = 0

\* Each helper writes CNTP_CTL_EL0 only if its bit has to change.
arch_timer_start == ENABLE' = TRUE
arch_timer_stop  == ENABLE' = FALSE
arch_timer_interrupt_enable  == IMASK' = FALSE
arch_timer_interrupt_disable == IMASK' = TRUE

-----------------------------------------------------------------------------
(* arm64_arch_timer_init                                                   *)

Thread == irq = "none"

\* Mutant: the frequency is left as it is, in Hz.
init_freq_hz ==
    /\ Thread /\ Then("freq", "imask")
    /\ cpu_khz' = CNTFRQ
    /\ UNCHANGED <<irq, timerRegs, requested, daif, since>>

init_freq ==
    /\ Thread /\ Then("freq", "imask")
    /\ cpu_khz' = Khz
    /\ UNCHANGED <<irq, timerRegs, requested, daif, since>>

init_imask ==
    /\ Thread /\ Then("imask", "stop")
    /\ arch_timer_interrupt_disable
    /\ UNCHANGED <<irq, cpu_khz, left, ENABLE, requested, daif, since>>

init_stop ==
    /\ Thread /\ Then("stop", "request")
    /\ arch_timer_stop
    /\ UNCHANGED <<irq, cpu_khz, left, IMASK, requested, daif, since>>

\* request_irq(30, ...) cannot fail: 30 is below NR_IRQS.
init_request ==
    /\ Thread /\ Then("request", "tval")
    /\ requested' = TRUE
    /\ UNCHANGED <<irq, cpu_khz, timerRegs, daif, since>>

\* Mutant: the compare value is the one that firmware left.
init_tval_missing ==
    /\ Thread /\ Then("tval", "start")
    /\ UNCHANGED <<irq, cpu_khz, timerRegs, requested, daif, since>>

init_tval ==
    /\ Thread /\ Then("tval", "start")
    /\ write_cntp_tval_el0(cpu_khz * 10)
    /\ UNCHANGED <<irq, cpu_khz, ENABLE, IMASK, requested, daif>>

init_start ==
    /\ Thread /\ Then("start", "unmask")
    /\ arch_timer_start
    /\ UNCHANGED <<irq, cpu_khz, left, IMASK, requested, daif, since>>

\* Mutant: the timer is left masked.
init_unmask_missing ==
    /\ Thread /\ Then("unmask", "done")
    /\ UNCHANGED <<irq, cpu_khz, timerRegs, requested, daif, since>>

init_unmask ==
    /\ Thread /\ Then("unmask", "done")
    /\ arch_timer_interrupt_enable
    /\ UNCHANGED <<irq, cpu_khz, left, ENABLE, requested, daif, since>>

-----------------------------------------------------------------------------
(* The tick interrupt, the thread's mask, and time                         *)

TakeIrq ==
    /\ Thread /\ ~daif /\ requested /\ Asserted
    /\ irq' = "taken" /\ daif' = TRUE
    /\ UNCHANGED <<pc, cpu_khz, timerRegs, requested, since>>

\* Mutant: the handler does not set the next tick.
arm64_arch_timer_tandler_no_rearm ==
    /\ irq = "taken" /\ irq' = "ending"
    /\ UNCHANGED <<pc, cpu_khz, timerRegs, requested, daif, since>>

arm64_arch_timer_tandler ==
    /\ irq = "taken" /\ irq' = "ending"
    /\ write_cntp_tval_el0(cpu_khz * 10)
    /\ UNCHANGED <<pc, cpu_khz, ENABLE, IMASK, requested, daif>>

\* The rest of the interrupt path: end of interrupt, restore, eret.
EndIrq ==
    /\ irq = "ending" /\ irq' = "none" /\ daif' = FALSE
    /\ UNCHANGED <<pc, cpu_khz, timerRegs, requested, since>>

local_irq_enable ==
    /\ Thread /\ daif /\ daif' = FALSE
    /\ UNCHANGED <<pc, irq, cpu_khz, timerRegs, requested, since>>

local_irq_disable ==
    /\ Thread /\ ~daif /\ daif' = TRUE
    /\ UNCHANGED <<pc, irq, cpu_khz, timerRegs, requested, since>>

\* The counter never stops.
Count ==
    /\ left' = IF left > 0 THEN left - 1 ELSE 0
    /\ since' = IF since \in 0 .. Period - 1 THEN since + 1 ELSE since
    /\ UNCHANGED <<pc, irq, cpu_khz, ENABLE, IMASK, requested, daif>>

-----------------------------------------------------------------------------
\* Firmware may have used the timer, and the caller may have IRQs unmasked.
Init ==
    /\ pc = "freq" /\ irq = "none" /\ cpu_khz = 0
    /\ left \in 0 .. StaleLeft
    /\ ENABLE \in BOOLEAN /\ IMASK \in BOOLEAN
    /\ requested = FALSE /\ daif \in BOOLEAN
    /\ since = -1

DriverInit == \/ init_freq \/ init_imask \/ init_stop \/ init_request
              \/ init_tval \/ init_start \/ init_unmask
IrqPath == arm64_arch_timer_tandler \/ EndIrq
Next == \/ DriverInit \/ TakeIrq \/ IrqPath \/ Count
        \/ local_irq_enable \/ local_irq_disable

\* Time passes, the CPU runs, and takes an IRQ it may take again and again.
Fairness == /\ WF_vars(DriverInit) /\ WF_vars(IrqPath) /\ WF_vars(Count)
            /\ SF_vars(TakeIrq)
Spec == Init /\ [][Next]_vars /\ Fairness

-----------------------------------------------------------------------------
(* Properties                                                              *)

\* Every tick comes a full period (ten times CNTFRQ / 1000 counts) or more
\* after the driver last set the timer: no tick from what firmware left in
\* the compare register, and none before the init is through with the timer.
NeverEarly == irq = "taken" => since = Period

\* The handler quiets its level line before the end of interrupt: TVAL, a
\* signed register, is set to a count in the future.  Otherwise the
\* line would fire again at once, for ever.
HandlerQuiets == [][irq = "taken" /\ irq' = "ending" => ~Asserted']_vars

\* Once initialised the tick never stops: it comes again and again as long as
\* the thread has IRQs unmasked again and again.
TickForever == []<>(pc = "done" /\ irq = "none" /\ ~daif) => []<>(irq = "taken")
=============================================================================

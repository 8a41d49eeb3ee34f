------------------------------- MODULE Kernel -------------------------------
(***************************************************************************)
(* init/main.c: start_kernel brings up the interrupt controller (Gic) and  *)
(* then the timer (Timer), whose level output is line 30 of the            *)
(* controller.  The two drivers share nothing but that line and the irq    *)
(* chip, a pair of function pointers that is NULL until gicv3_driver_init  *)
(* registers it: whoever unmasks a line before that unmasks nothing.       *)
(***************************************************************************)
EXTENDS TimerConstants

CONSTANTS ItLines, BootPrio

TimerIrq == 30
Line     == {TimerIrq}

\* What Gic assumes of its constants.
ASSUME KernelAssumption == ItLines \in 1 .. 31 /\ BootPrio \in 0 .. 255

VARIABLES
    stage,      \* where start_kernel is
    _irq_chip,  \* the GIC's mask and unmask functions are registered
    gic_pc, dist, enabled, clearing, group1, prio, active, waker, cpuif,
    opened,     \* the controller
    timer_pc, irq, cpu_khz, left, ENABLE, IMASK, requested, daif, since
                \* the timer, and the CPU's mask

gicVars   == <<gic_pc, dist, enabled, clearing, group1, prio, active, waker,
               cpuif, opened>>
timerVars == <<timer_pc, irq, cpu_khz, left, ENABLE, IMASK, requested, daif,
               since>>
vars == <<stage, _irq_chip, gicVars, timerVars>>

T == INSTANCE Timer WITH pc <- timer_pc

\* Line 30 is a level: the GIC sees it pending while the timer asserts it.
Pending == IF T!Asserted THEN {TimerIrq} ELSE {}

G == INSTANCE Gic WITH pc <- gic_pc, pending <- Pending, HwIrq <- Line

-----------------------------------------------------------------------------
(* start_kernel                                                            *)

\* Mutant: the drivers come up in the other order.
After_timer_first(s) ==
    CASE s = "start" -> "timer" [] s = "timer" -> "gic" [] s = "gic" -> "idle"

\* The order of the calls; setup_arch, console_init and the logo touch
\* neither interrupts nor the timer.
After(s) ==
    CASE s = "start" -> "gic" [] s = "gic" -> "timer" [] s = "timer" -> "idle"

start_kernel ==
    /\ stage = "start" /\ stage' = After(stage)
    /\ daif' = TRUE
    /\ UNCHANGED <<_irq_chip, gicVars, timer_pc, irq, cpu_khz, left, ENABLE,
                   IMASK, requested, since>>

gicv3_driver_init ==
    /\ stage = "gic" /\ ~_irq_chip
    /\ _irq_chip' = TRUE
    /\ UNCHANGED <<stage, gicVars, timerVars>>

gicv3_hw_init ==
    /\ stage = "gic" /\ _irq_chip
    /\ UNCHANGED <<stage, _irq_chip, timerVars>>
    /\ G!HwInit

\* Mutant: set_irq_chip swaps the two functions of the chip.
unmask_irq_masks(i) ==
    IF _irq_chip THEN G!gicv3_mask_irq(i) ELSE UNCHANGED gicVars

\* request_irq(30, ...) unmasks the line through the chip, if there is one.
unmask_irq(i) == IF _irq_chip THEN G!gicv3_unmask_irq(i) ELSE UNCHANGED gicVars

arm64_arch_timer_request ==
    /\ stage = "timer" /\ T!init_request
    /\ unmask_irq(TimerIrq)
    /\ UNCHANGED <<stage, _irq_chip>>

arm64_arch_timer_init ==
    /\ stage = "timer"
    /\ \/ T!init_freq \/ T!init_imask \/ T!init_stop \/ T!init_tval
       \/ T!init_start \/ T!init_unmask
    /\ UNCHANGED <<stage, _irq_chip, gicVars>>

DriverReturns ==
    /\ \/ stage = "gic" /\ gic_pc = "done"
       \/ stage = "timer" /\ timer_pc = "done"
    /\ stage' = After(stage)
    /\ UNCHANGED <<_irq_chip, gicVars, timerVars>>

Boot == \/ start_kernel \/ gicv3_driver_init \/ gicv3_hw_init
        \/ arm64_arch_timer_request \/ arm64_arch_timer_init \/ DriverReturns

-----------------------------------------------------------------------------
(* The tick: signalled by the GIC, acknowledged, handled and ended         *)

TakeIrq ==
    /\ TimerIrq \in G!Signalled /\ T!TakeIrq
    /\ active' = active \cup {TimerIrq}
    /\ UNCHANGED <<stage, _irq_chip, gic_pc, dist, enabled, clearing, group1,
                   prio, waker, cpuif, opened>>

Handle == /\ T!arm64_arch_timer_tandler
          /\ UNCHANGED <<stage, _irq_chip, gicVars>>

EndIrq ==
    /\ T!EndIrq
    /\ active' = active \ {TimerIrq}
    /\ UNCHANGED <<stage, _irq_chip, gic_pc, dist, enabled, clearing, group1,
                   prio, waker, cpuif, opened>>

Count == T!Count /\ UNCHANGED <<stage, _irq_chip, gicVars>>

\* The GIC wakes up, or a disable that was on its way takes effect.
GicHardware == /\ UNCHANGED <<stage, _irq_chip, timerVars>>
               /\ G!Hardware

\* A kernel built on this one: its main loop opens and closes its IRQs.
MainLoop == /\ stage = "idle"
            /\ T!local_irq_enable \/ T!local_irq_disable
            /\ UNCHANGED <<stage, _irq_chip, gicVars>>

-----------------------------------------------------------------------------
\* startup.S enters start_kernel with IRQs masked.  Firmware left the timer's
\* line inactive: nothing in the kernel writes ICACTIVER, and a line that is
\* active is not signalled.
Init ==
    /\ stage = "start" /\ _irq_chip = FALSE
    /\ daif = TRUE
    /\ T!Init /\ G!Init /\ active = {}

Next == Boot \/ TakeIrq \/ Handle \/ EndIrq \/ Count \/ GicHardware

Fairness ==
    /\ WF_vars(Boot) /\ WF_vars(Handle \/ EndIrq) /\ SF_vars(TakeIrq)
    /\ WF_vars(Count) /\ WF_vars(GicHardware)

\* start_kernel ends in an empty loop with IRQs masked; a kernel built on it has
\* a main loop there.
MainLoopSpec == Init /\ [][Next \/ MainLoop]_vars /\ Fairness

-----------------------------------------------------------------------------
(* Properties                                                              *)

\* The states of boot, of the controller and of the timer: no count of the
\* timer goes below zero, and the frequency is kept in kHz.
TypeOK ==
    /\ stage \in {"start", "gic", "timer", "idle"} /\ _irq_chip \in BOOLEAN
    /\ G!TypeOK /\ T!TypeOK

\* Whatever firmware left in timer and GIC, every tick comes a full period
\* (ten times CNTFRQ / 1000 counts) or more after the driver last set the timer.
NeverEarly == T!NeverEarly

\* The handler of the tick has quieted the timer's level line when its end of
\* interrupt lets the GIC signal it again.
HandlerQuiets == T!HandlerQuiets

\* Once booted the tick never stops: it comes again and again as long as the
\* main loop has IRQs unmasked again and again.
TickForever == T!TickForever

\* What the Timer module takes for granted, that an asserted tick reaches a
\* CPU that lets IRQs in, is what the GIC delivers after this boot order:
\* start_kernel and the two drivers together implement Timer, fairness
\* included.  (A timer that came up first would find no chip to unmask.)
ImplementsTimer == T!Spec

\* From the moment the timer driver has requested its line, a tick that the
\* timer asserts and no handler is serving is signalled to the CPU: neither
\* the enables, priorities and groups that firmware left in the GIC, nor a
\* disable of gicv3_hw_init that is still on its way, nor the previous tick
\* holds it back.
TickDelivered ==
    requested /\ irq = "none" /\ T!Asserted => TimerIrq \in G!Signalled
=============================================================================

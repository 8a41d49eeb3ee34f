---------------------------- MODULE KernelProofs ----------------------------
(* The two drivers brought up by start_kernel: the tick reaches the CPU    *)
(* whatever firmware left in either of them, so long as it did not leave   *)
(* the timer's line active, and what is proved of the timer on its own     *)
(* holds of the kernel.                                                    *)
EXTENDS Kernel, TLAPS

\* The timer as its own module sees it, with what is proved of it.
TP == INSTANCE TimerProofs WITH pc <- timer_pc

\* Steps of gicv3_hw_init from which a state of line 30 is what it stays.
LocalPrio  == {"local_disable", "local_enable", "local_group", "cpuif", "done"}
Grouped    == {"cpuif", "done"}
AfterWake  == {"local_prio"} \cup LocalPrio
Forwarding == {"waker", "waker_wait"} \cup AfterWake

KTypeOK ==
    /\ stage \in {"start", "gic", "timer", "idle"}
    /\ _irq_chip \in BOOLEAN
    /\ gic_pc \in {"ctlr", "lines", "prio", "disable", "group", "rwp",
                   "gicd_enable"} \cup Forwarding
    /\ dist \in BOOLEAN /\ cpuif \in BOOLEAN
    /\ enabled \subseteq Line /\ clearing \subseteq Line /\ group1 \subseteq Line
    /\ prio \in [Line -> 0 .. 255]
    /\ waker \in {"asleep", "waking", "awake"}

\* The drivers come up one after the other, the timer's when the GIC is done
\* and its functions are registered.
StageInv ==
    /\ stage = "start" => daif
    /\ stage \in {"start", "gic"} => timer_pc = "freq" /\ irq = "none"
    /\ gic_pc # "ctlr" => _irq_chip
    /\ stage \in {"timer", "idle"} => gic_pc = "done"
    /\ requested => stage \in {"timer", "idle"}

\* What gicv3_hw_init has made of the controller and of line 30.
InitInv ==
    /\ gic_pc \in Forwarding => dist
    /\ gic_pc \in AfterWake => waker = "awake"
    /\ gic_pc \in LocalPrio => prio[TimerIrq] = 160
    /\ gic_pc \in Grouped => TimerIrq \in group1
    /\ gic_pc = "done" => cpuif

\* The request leaves the line enabled, also when the init's disable of it is
\* still on its way; it is active exactly while its handler serves it.
TickInv ==
    /\ requested => TimerIrq \in enabled /\ TimerIrq \notin clearing
    /\ active = IF irq = "none" THEN {} ELSE {TimerIrq}

KInv == KTypeOK /\ StageInv /\ InitInv /\ TickInv
-----------------------------------------------------------------------------
\* Line 30 is a private peripheral interrupt: the loops over SPIs and the
\* writes for SGIs pass it by.
LEMMA TimerLine ==
    G!Sgi = {} /\ G!Local = Line /\ G!Spi = {} /\ G!Looped = {}
BY DEF G!Sgi, G!Local, G!Spi, G!Looped, Line, TimerIrq,
       G!GICV3_NR_SGI, G!GICV3_NR_LOCAL_IRQS

\* The order of start_kernel's calls.
LEMMA CallOrder ==
    After("start") = "gic" /\ After("gic") = "timer" /\ After("timer") = "idle"
BY Zenon DEF After

\* The unmask of request_irq reaches the enable bit of line 30, and takes back
\* a disable of it that has not taken effect.
LEMMA UnmaskTimer ==
    ASSUME G!gicv3_unmask_irq(TimerIrq)
    PROVE  /\ enabled' = enabled \cup Line /\ clearing' = clearing \ Line
           /\ active' = active
           /\ UNCHANGED <<gic_pc, dist, group1, prio, waker, cpuif>>
<1>1. G!Offset(G!GICD_ISENABLER, TimerIrq) = 256
  BY DEF G!Offset, G!GICD_ISENABLER, TimerIrq
<1>2. G!Decode(G!GICD_ISENABLER, TimerIrq)
        = [bank |-> "ISENABLER", line |-> TimerIrq]
  BY <1>1 DEF G!Decode, G!Bank, TimerIrq
<1>3. {TimerIrq} \cap (IF TimerIrq < G!GICV3_NR_LOCAL_IRQS THEN G!Local
                                                          ELSE G!Spi) = Line
  BY TimerLine DEF Line, TimerIrq, G!GICV3_NR_LOCAL_IRQS
<1>4. G!Written(G!GICD_ISENABLER, TimerIrq)
  BY DEF G!gicv3_unmask_irq
<1>5. /\ enabled' = enabled \cup Line
      /\ clearing' = (clearing \ Line) \cup ({} \cap enabled)
      /\ active' = (active \cup {}) \ {}
      /\ prio' = prio /\ group1' = group1
  BY <1>2, <1>3, <1>4 DEF G!Written
<1> QED BY <1>5 DEF G!gicv3_unmask_irq

\* The invariant holds at the entry to start_kernel.
LEMMA InitKInv == ASSUME Init PROVE KInv
<1>1. prio \in [Line -> 0 .. 255]
  BY KernelAssumption DEF Init, G!Init
<1> QED BY <1>1 DEF Init, G!Init, T!Init, KInv, KTypeOK, StageInv, InitInv,
           TickInv, Forwarding, AfterWake, LocalPrio, Grouped

\* gicv3_hw_init keeps it: each group of registers once written stays so.
LEMMA HwInitKInv == ASSUME KInv, gicv3_hw_init PROVE KInv'
<1> USE DEF KInv, KTypeOK, StageInv, InitInv, TickInv, Forwarding, AfterWake,
            LocalPrio, Grouped, Line
<1>0. /\ stage' = stage /\ _irq_chip' = _irq_chip /\ irq' = irq
      /\ requested' = requested /\ timer_pc' = timer_pc /\ daif' = daif
      /\ stage = "gic" /\ _irq_chip /\ ~requested /\ G!HwInit
  BY DEF gicv3_hw_init, timerVars
<1>1. CASE G!gicd_stop
  BY <1>0, <1>1 DEF G!gicd_stop, G!Then, G!lineVars
<1>2. CASE G!spi_config
  BY <1>0, <1>2 DEF G!spi_config, G!Then, G!lineVars
<1>3. CASE G!spi_priority
  BY <1>0, <1>3, TimerLine DEF G!spi_priority, G!Then
<1>4. CASE G!spi_disable
  BY <1>0, <1>4, TimerLine DEF G!spi_disable, G!Then
<1>5. CASE G!spi_group
  BY <1>0, <1>5, TimerLine DEF G!spi_group, G!Then
<1>6. CASE G!gicv3_gicd_wait_for_rwp
  BY <1>0, <1>6 DEF G!gicv3_gicd_wait_for_rwp, G!Then, G!lineVars
<1>7. CASE G!gicd_enable
  BY <1>0, <1>7 DEF G!gicd_enable, G!Then, G!lineVars
<1>8. CASE G!gicr_wake
  BY <1>0, <1>8 DEF G!gicr_wake, G!Then, G!lineVars
<1>9. CASE G!gicr_wake_wait
  BY <1>0, <1>9 DEF G!gicr_wake_wait, G!Then, G!lineVars
<1>10. CASE G!local_priority
  BY <1>0, <1>10, TimerLine DEF G!local_priority, G!Then
<1>11. CASE G!local_disable
  BY <1>0, <1>11, TimerLine DEF G!local_disable, G!Then
<1>12. CASE G!local_enable
  BY <1>0, <1>12, TimerLine DEF G!local_enable, G!Then
<1>13. CASE G!local_group
  BY <1>0, <1>13, TimerLine DEF G!local_group, G!Then
<1>14. CASE G!cpuif_enable
  BY <1>0, <1>14 DEF G!cpuif_enable, G!Then, G!lineVars
<1> QED
  BY <1>0, <1>1, <1>2, <1>3, <1>4, <1>5, <1>6, <1>7, <1>8, <1>9, <1>10,
     <1>11, <1>12, <1>13, <1>14 DEF G!HwInit

\* So does every other step.
LEMMA NextKInv == ASSUME KInv, [Next \/ MainLoop]_vars PROVE KInv'
<1> USE DEF KInv, KTypeOK, StageInv, InitInv, TickInv, Forwarding, AfterWake,
            LocalPrio, Grouped, Line
<1>1. CASE start_kernel
  BY <1>1, CallOrder DEF start_kernel, gicVars
<1>2. CASE gicv3_driver_init
  BY <1>2 DEF gicv3_driver_init, gicVars, timerVars
<1>3. CASE gicv3_hw_init
  BY <1>3, HwInitKInv
<1>4. CASE arm64_arch_timer_request
  <2>1. G!gicv3_unmask_irq(TimerIrq)
    BY <1>4 DEF arm64_arch_timer_request, unmask_irq
  <2> QED BY <1>4, <2>1, UnmaskTimer
       DEF arm64_arch_timer_request, T!init_request, T!Then, T!Thread
<1>5. CASE arm64_arch_timer_init
  BY <1>5 DEF arm64_arch_timer_init, gicVars, T!init_freq, T!init_imask,
     T!init_stop, T!init_tval, T!init_start, T!init_unmask, T!Thread
<1>6. CASE DriverReturns
  BY <1>6, CallOrder DEF DriverReturns, gicVars, timerVars
<1>7. CASE TakeIrq
  BY <1>7 DEF TakeIrq, T!TakeIrq, T!Thread
<1>8. CASE Handle
  BY <1>8 DEF Handle, T!arm64_arch_timer_tandler, gicVars
<1>9. CASE EndIrq
  BY <1>9 DEF EndIrq, T!EndIrq
<1>10. CASE Count
  BY <1>10 DEF Count, T!Count, gicVars
<1>11. CASE GicHardware
  BY <1>11 DEF GicHardware, G!Hardware, G!Woken, G!Cleared, G!lineVars,
     timerVars
<1>12. CASE MainLoop
  BY <1>12 DEF MainLoop, T!local_irq_enable, T!local_irq_disable, gicVars
<1>13. CASE UNCHANGED vars
  BY <1>13 DEF vars, gicVars, timerVars
<1> QED
  BY <1>1, <1>2, <1>3, <1>4, <1>5, <1>6, <1>7, <1>8, <1>9, <1>10, <1>11,
     <1>12, <1>13 DEF Next, Boot

\* The two drivers and their hardware stay in step, in every behaviour.
THEOREM KernelInvariant == MainLoopSpec => []KInv
<1> QED BY InitKInv, NextKInv, PTL DEF MainLoopSpec

\* main.c, gicv3.c, arm64_timer.c: once its line is requested, the GIC holds
\* back no tick that the timer asserts and nobody serves.
THEOREM TickReachesCpu == MainLoopSpec => []TickDelivered
<1>1. ASSUME KInv, requested, irq = "none", T!Asserted
      PROVE  TimerIrq \in G!Signalled
  <2>1. gic_pc = "done"
    BY <1>1 DEF KInv, StageInv
  <2>2. /\ dist /\ cpuif /\ waker = "awake" /\ prio[TimerIrq] = 160
        /\ TimerIrq \in group1
    BY <1>1, <2>1 DEF KInv, InitInv, Forwarding, AfterWake, LocalPrio, Grouped
  <2>3. TimerIrq \in (Pending \cap enabled \cap group1) \ active
    BY <1>1, <2>2 DEF KInv, TickInv, Pending
  <2> QED BY <2>2, <2>3 DEF G!Signalled
<1>2. KInv => TickDelivered
  BY <1>1 DEF TickDelivered
<1> QED BY <1>2, KernelInvariant, PTL



-----------------------------------------------------------------------------
(* What is proved of the timer carries over                                *)

\* Every step of the kernel is a step that the timer's module allows, or one
\* that leaves timer and mask alone.
LEMMA StepsOfTimer ==
    ASSUME KInv, [Next \/ MainLoop]_vars PROVE [T!Next]_(T!vars)
<1> USE DEF T!Next, T!DriverInit, T!IrqPath, T!vars, T!timerRegs, timerVars
<1>1. CASE start_kernel
  BY <1>1 DEF start_kernel, KInv, StageInv
<1>2. CASE gicv3_driver_init \/ gicv3_hw_init \/ DriverReturns \/ GicHardware
  BY <1>2 DEF gicv3_driver_init, gicv3_hw_init, DriverReturns, GicHardware
<1>3. CASE arm64_arch_timer_request
  BY <1>3 DEF arm64_arch_timer_request
<1>4. CASE arm64_arch_timer_init
  BY <1>4 DEF arm64_arch_timer_init
<1>5. CASE TakeIrq \/ Handle \/ EndIrq
  BY <1>5 DEF TakeIrq, Handle, EndIrq
<1>6. CASE Count \/ MainLoop
  BY <1>6 DEF Count, MainLoop
<1>7. CASE UNCHANGED vars
  BY <1>7 DEF vars
<1> QED
  BY <1>1, <1>2, <1>3, <1>4, <1>5, <1>6, <1>7 DEF Next, Boot

\* start_kernel and its two drivers implement the steps of Timer: what is
\* proved of every behaviour of that module holds in the kernel.
THEOREM KernelIsTimer == MainLoopSpec => T!Init /\ [][T!Next]_(T!vars)
<1>1. Init => T!Init
  BY DEF Init
<1> QED BY <1>1, StepsOfTimer, KernelInvariant, PTL DEF MainLoopSpec

\* The two instances of Timer have the same steps.
LEMMA SameSteps == ASSUME [T!Next]_(T!vars) PROVE [TP!Next]_(TP!vars)
BY DEF
      T!Next, T!DriverInit, T!IrqPath, T!init_freq, T!init_imask,
      T!init_stop, T!init_request, T!init_tval, T!init_start,
      T!init_unmask, T!TakeIrq, T!arm64_arch_timer_tandler, T!EndIrq,
      T!Count, T!local_irq_enable, T!local_irq_disable, T!Then, T!Thread,
      T!Asserted, T!Khz, T!Period, T!write_cntp_tval_el0, T!Low, T!Signed,
      T!arch_timer_start, T!arch_timer_stop, T!arch_timer_interrupt_enable,
      T!arch_timer_interrupt_disable, T!timerRegs, T!vars, TP!Next,
      TP!DriverInit, TP!IrqPath, TP!init_freq, TP!init_imask, TP!init_stop,
      TP!init_request, TP!init_tval, TP!init_start, TP!init_unmask,
      TP!TakeIrq, TP!arm64_arch_timer_tandler, TP!EndIrq, TP!Count,
      TP!local_irq_enable, TP!local_irq_disable, TP!Then, TP!Thread,
      TP!Asserted, TP!Khz, TP!Period, TP!write_cntp_tval_el0, TP!Low,
      TP!Signed, TP!arch_timer_start, TP!arch_timer_stop,
      TP!arch_timer_interrupt_enable, TP!arch_timer_interrupt_disable,
      TP!timerRegs, TP!vars

\* The invariant of TimerProofs holds in the kernel.
LEMMA KernelTInv == MainLoopSpec => []TP!TInv
<1>1. ASSUME T!Init PROVE TP!TInv
  <2>1. TP!Init
    BY <1>1 DEF T!Init, TP!Init
  <2> QED BY <2>1, TimerAssumption, FrequencyAssumption, TP!InitTInv
       DEF Khz, Period, TP!Khz, TP!Period
<1>2. ASSUME TP!TInv, [T!Next]_(T!vars) PROVE TP!TInv'
  <2>1. [TP!Next]_(TP!vars)
    BY <1>2, SameSteps
  <2> QED BY <1>2, <2>1, TimerAssumption, FrequencyAssumption, TP!NextTInv
       DEF Khz, Period, TP!Khz, TP!Period
<1> QED BY <1>1, <1>2, KernelIsTimer, PTL

\* In the kernel too no tick comes less than a period after the driver last
\* set the timer, whatever the firmware left in timer and GIC.
THEOREM KernelNeverEarly == MainLoopSpec => []NeverEarly
<1>1. TP!TInv => NeverEarly
  BY TimerAssumption, FrequencyAssumption, TP!PeriodPositive
     DEF TP!TInv, TP!TypeOK, NeverEarly, T!NeverEarly, T!Period, T!Khz,
         TP!Period, TP!Khz, Period, Khz
<1> QED BY <1>1, KernelTInv, PTL

\* And the handler of the tick leaves its line quiet at the end of interrupt.
THEOREM KernelHandlerQuiets == MainLoopSpec => HandlerQuiets
<1>1. ASSUME TP!TInv, [T!Next]_(T!vars), irq = "taken", irq' = "ending"
      PROVE  ~T!Asserted'
  <2>1. T!arm64_arch_timer_tandler
    BY <1>1 DEF T!Next, T!DriverInit, T!IrqPath, T!init_freq, T!init_imask,
       T!init_stop, T!init_request, T!init_tval, T!init_start,
       T!init_unmask, T!Thread, T!TakeIrq, T!EndIrq, T!Count,
       T!local_irq_enable, T!local_irq_disable, T!vars
  <2>2. TP!Signed(cpu_khz * 10) > 0
    BY <1>1, TP!PeriodPositive, TP!SignedPeriod, TimerAssumption,
       FrequencyAssumption
       DEF TP!TInv, TP!TypeOK, TP!Khz, TP!Period, Khz, Period
  <2>3. T!Signed(cpu_khz * 10) = TP!Signed(cpu_khz * 10)
    BY DEF T!Signed, TP!Signed, T!Low, TP!Low
  <2>4. left' = T!Signed(cpu_khz * 10)
    BY <2>1, <2>2, <2>3
       DEF T!arm64_arch_timer_tandler, T!write_cntp_tval_el0
  <2>5. left' > 0
    BY <2>2, <2>3, <2>4
  <2> QED BY <2>5 DEF T!Asserted
<1>2. TP!TInv /\ [T!Next]_(T!vars) =>
         [irq = "taken" /\ irq' = "ending" => ~T!Asserted']_(T!vars)
  BY <1>1
<1> QED BY <1>2, KernelTInv, KernelIsTimer, PTL
     DEF HandlerQuiets, T!HandlerQuiets
=============================================================================

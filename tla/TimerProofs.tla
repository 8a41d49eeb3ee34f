----------------------------- MODULE TimerProofs -----------------------------
(* The tick is never early and its handler always quiets it, for every     *)
(* frequency and TVAL width that the assumptions of Timer allow.           *)
EXTENDS Timer, TLAPS

\* The period is a positive count that TVAL holds.
LEMMA PeriodPositive == Period \in Nat /\ Period > 0 /\ Khz \in Nat
BY TimerAssumption, FrequencyAssumption DEF Period, Khz

\* A value below the half range goes through TVAL unchanged: it is no
\* negative number there.
LEMMA SignedPeriod == Signed(Khz * 10) = Period
<1>1. Period \in 0 .. TvalHalf - 1
  BY PeriodPositive, TimerAssumption, FrequencyAssumption
<1>2. Period % (2 * TvalHalf) = Period
  BY <1>1, TimerAssumption
<1>3. ASSUME NEW v, v = Period PROVE Signed(v) = Period
  <2>1. Low(v) = Period
    BY <1>2, <1>3 DEF Low
  <2>2. Low(v) < TvalHalf
    BY <2>1, FrequencyAssumption
  <2> QED BY <2>1, <2>2 DEF Signed
<1>4. Khz * 10 = Period
  BY DEF Period
<1> QED BY <1>3, <1>4

\* While the driver sets the timer up it is masked; once TVAL was written the
\* count to the compare value and the count since the write add up to a
\* period; a tick is in progress only after the init, and was due.
TInv ==
    /\ TypeOK
    /\ pc # "freq" => cpu_khz = Khz
    /\ pc \in {"stop", "request", "tval", "start", "unmask"} => IMASK
    /\ requested => pc \in {"tval", "start", "unmask", "done"}
    /\ pc \in {"start", "unmask", "done"} => since >= 0
    /\ since >= 0 => left = Period - since
    /\ irq # "none" => pc = "done"
    /\ irq = "taken" => left = 0

\* Whatever firmware left, the invariant holds at the start.
LEMMA InitTInv == ASSUME Init PROVE TInv
<1>1. TypeOK
  <2>1. left \in Nat
    BY TimerAssumption DEF Init
  <2>2. since \in -1 .. Period
    BY PeriodPositive DEF Init
  <2> QED BY <2>1, <2>2 DEF Init, TypeOK, InitStep
<1> QED BY <1>1 DEF Init, TInv

\* Every step of driver, CPU and counter preserves it.
LEMMA NextTInv == ASSUME TInv, [Next]_vars PROVE TInv'
<1> USE PeriodPositive DEF TInv, TypeOK, InitStep
<1>1. CASE init_freq
  BY <1>1 DEF init_freq, Then, Thread, timerRegs
<1>2. CASE init_imask
  BY <1>2 DEF init_imask, Then, Thread, arch_timer_interrupt_disable
<1>3. CASE init_stop
  BY <1>3 DEF init_stop, Then, Thread, arch_timer_stop
<1>4. CASE init_request
  BY <1>4 DEF init_request, Then, Thread, timerRegs
<1>5. CASE init_tval
  BY <1>5, SignedPeriod DEF init_tval, Then, Thread, write_cntp_tval_el0
<1>6. CASE init_start
  BY <1>6 DEF init_start, Then, Thread, arch_timer_start
<1>7. CASE init_unmask
  BY <1>7 DEF init_unmask, Then, Thread, arch_timer_interrupt_enable
<1>8. CASE TakeIrq
  BY <1>8 DEF TakeIrq, Thread, Asserted, timerRegs
<1>9. CASE arm64_arch_timer_tandler
  BY <1>9, SignedPeriod DEF arm64_arch_timer_tandler, write_cntp_tval_el0
<1>10. CASE EndIrq
  BY <1>10 DEF EndIrq, timerRegs
<1>11. CASE Count
  BY <1>11 DEF Count
<1>12. CASE local_irq_enable
  BY <1>12 DEF local_irq_enable, timerRegs
<1>13. CASE local_irq_disable
  BY <1>13 DEF local_irq_disable, timerRegs
<1>14. CASE UNCHANGED vars
  BY <1>14 DEF vars, timerRegs
<1> QED
  BY <1>1, <1>2, <1>3, <1>4, <1>5, <1>6, <1>7, <1>8, <1>9, <1>10, <1>11,
     <1>12, <1>13, <1>14 DEF Next, DriverInit, IrqPath

\* The invariant of the timer driver holds in every behaviour.
THEOREM TimerInvariant == Spec => []TInv
<1> QED BY InitTInv, NextTInv, PTL DEF Spec

\* Type correctness: no count goes below zero.
THEOREM TimerTypes == Spec => []TypeOK
<1>1. TInv => TypeOK
  BY DEF TInv
<1> QED BY <1>1, TimerInvariant, PTL

\* arm64_arch_timer_init: no tick comes from what firmware left, and every
\* tick comes a full period after the driver last wrote TVAL.
THEOREM TickNeverEarly == Spec => []NeverEarly
<1>1. TInv => NeverEarly
  BY PeriodPositive DEF TInv, TypeOK, NeverEarly
<1> QED BY <1>1, TimerInvariant, PTL

\* arm64_arch_timer_tandler leaves its line quiet at the end of interrupt.
THEOREM HandlerLeavesQuiet == Spec => HandlerQuiets
<1>1. ASSUME TInv, [Next]_vars, irq = "taken", irq' = "ending"
      PROVE  ~Asserted'
  <2>1. arm64_arch_timer_tandler
    BY <1>1 DEF Next, DriverInit, IrqPath, init_freq, init_imask, init_stop,
       init_request, init_tval, init_start, init_unmask, Thread, TakeIrq,
       EndIrq, Count, local_irq_enable, local_irq_disable, vars
  <2> QED BY <1>1, <2>1, PeriodPositive, SignedPeriod
       DEF TInv, arm64_arch_timer_tandler, write_cntp_tval_el0, Asserted
<1>2. TInv /\ [Next]_vars => [irq = "taken" /\ irq' = "ending" => ~Asserted']_vars
  BY <1>1
<1> QED BY <1>2, TimerInvariant, PTL DEF Spec, HandlerQuiets
=============================================================================

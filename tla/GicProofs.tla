------------------------------ MODULE GicProofs ------------------------------
(* What gicv3_hw_init and the bit arithmetic of the driver guarantee for   *)
(* every set of lines and whatever firmware left.  The theorems about the  *)
(* initialisation exclude two cases in which the driver does not do this:  *)
(* the lines of the last word, as the run gic_tail shows, and the INTIDs   *)
(* up to NR_IRQS that the enable banks do not have.                        *)
EXTENDS Gic, TLAPS

\* No line lies in the last word, which gicv3_hw_init does not configure,
\* and clients pass INTIDs that the enable banks have.
Configurable == /\ \A i \in Line : i < nr_lines
                /\ HwIrq \subseteq 0 .. 1023

\* The word offset and the bit of hwirq address the bit of that very line.
LEMMA DecodeEnable ==
    ASSUME NEW h \in 0 .. 1023
    PROVE  Decode(GICD_ISENABLER, h) = [bank |-> "ISENABLER", line |-> h]
<1>1. Offset(GICD_ISENABLER, h) \in 256 .. 383
  BY DEF Offset, GICD_ISENABLER
<1>2. Offset(GICD_ISENABLER, h) \div 128 = 2
  BY <1>1
<1>3. 32 * ((Offset(GICD_ISENABLER, h) % 128) \div 4) + (h % 32) = h
  BY DEF Offset, GICD_ISENABLER
<1> QED BY <1>1, <1>2, <1>3 DEF Decode, Bank

\* ... in the bank that disables as in the one that enables.
LEMMA DecodeDisable ==
    ASSUME NEW h \in 0 .. 1023
    PROVE  Decode(GICD_ICENABLER, h) = [bank |-> "ICENABLER", line |-> h]
<1>1. Offset(GICD_ICENABLER, h) \in 384 .. 511
  BY DEF Offset, GICD_ICENABLER
<1>2. Offset(GICD_ICENABLER, h) \div 128 = 3
  BY <1>1
<1>3. 32 * ((Offset(GICD_ICENABLER, h) % 128) \div 4) + (h % 32) = h
  BY DEF Offset, GICD_ICENABLER
<1> QED BY <1>1, <1>2, <1>3 DEF Decode, Bank

\* What an unmask of h writes: the enable bit of h, and nothing else.
LEMMA UnmaskWrites ==
    ASSUME NEW h \in 0 .. 1023, gicv3_unmask_irq(h)
    PROVE  /\ UNCHANGED <<pc, dist, group1, prio, waker, cpuif>>
           /\ enabled' = enabled \cup ({h} \cap Line)
           /\ clearing' = clearing \ ({h} \cap Line)
           /\ pending' = pending /\ active' = active
           /\ opened' = opened \cup {h}
<1>1. Written(GICD_ISENABLER, h)
  BY DEF gicv3_unmask_irq
<1>2. ({h} \cap (IF h < GICV3_NR_LOCAL_IRQS THEN Local ELSE Spi))
        = {h} \cap Line
  BY DEF Local, Spi
<1>3. /\ Decode(GICD_ISENABLER, h).bank = "ISENABLER"
      /\ Decode(GICD_ISENABLER, h).line = h
  <2>1. Decode(GICD_ISENABLER, h) = [bank |-> "ISENABLER", line |-> h]
    BY ZenonT(60), DecodeEnable
  <2> QED BY <2>1
<1>4. /\ enabled' = enabled \cup ({h} \cap Line)
      /\ clearing' = (clearing \ ({h} \cap Line)) \cup ({} \cap enabled)
      /\ pending' = (pending \cup {}) \ {} /\ active' = (active \cup {}) \ {}
  BY <1>1, <1>2, <1>3 DEF Written
<1>5. prio' = prio /\ group1' = group1
  BY <1>1, <1>3 DEF Written
<1> QED BY <1>4, <1>5 DEF gicv3_unmask_irq

\* What a mask of h writes: its disable bit.
LEMMA MaskWrites ==
    ASSUME NEW h \in 0 .. 1023, gicv3_mask_irq(h)
    PROVE  /\ UNCHANGED <<pc, dist, group1, prio, waker, cpuif, enabled, opened>>
           /\ clearing' = clearing \cup ({h} \cap Line \cap enabled)
           /\ pending' = pending /\ active' = active
<1>1. Written(GICD_ICENABLER, h)
  BY DEF gicv3_mask_irq
<1>2. ({h} \cap (IF h < GICV3_NR_LOCAL_IRQS THEN Local ELSE Spi))
        = {h} \cap Line
  BY DEF Local, Spi
<1>3. /\ Decode(GICD_ICENABLER, h).bank = "ICENABLER"
      /\ Decode(GICD_ICENABLER, h).line = h
  <2>1. Decode(GICD_ICENABLER, h) = [bank |-> "ICENABLER", line |-> h]
    BY ZenonT(60), DecodeDisable
  <2> QED BY <2>1
<1>4. /\ enabled' = enabled \cup {}
      /\ clearing' = (clearing \ {}) \cup (({h} \cap Line) \cap enabled)
      /\ pending' = (pending \cup {}) \ {} /\ active' = (active \cup {}) \ {}
  BY <1>1, <1>2, <1>3 DEF Written
<1>5. prio' = prio /\ group1' = group1
  BY <1>1, <1>3 DEF Written
<1> QED BY <1>4, <1>5 DEF gicv3_mask_irq

\* gicv3.c, mask and unmask: no line and no register but the one meant.
THEOREM OwnBit == Spec => OwnBitOnly
<1>1. ASSUME NEW h \in HwIrq \cap Banked, gicv3_unmask_irq(h) \/ gicv3_mask_irq(h)
      PROVE  AtMostBit(h)
  <2>1. h \in 0 .. 1023
    BY DEF Banked
  <2>2. CASE gicv3_unmask_irq(h)
    <3>1. /\ UNCHANGED <<group1, prio>>
          /\ enabled' = enabled \cup ({h} \cap Line)
          /\ clearing' = clearing \ ({h} \cap Line)
          /\ pending' = pending /\ active' = active
      BY ZenonT(60), <2>1, <2>2, UnmaskWrites
    <3> QED BY <3>1 DEF AtMostBit
  <2>3. CASE gicv3_mask_irq(h)
    <3>1. /\ UNCHANGED <<group1, prio, enabled>>
          /\ clearing' = clearing \cup ({h} \cap Line \cap enabled)
          /\ pending' = pending /\ active' = active
      BY ZenonT(60), <2>1, <2>3, MaskWrites
    <3> QED BY <3>1 DEF AtMostBit
  <2> QED BY <1>1, <2>2, <2>3
<1>2. [\A h \in HwIrq \cap Banked :
          gicv3_unmask_irq(h) \/ gicv3_mask_irq(h) => AtMostBit(h)]_vars
  BY <1>1
<1> QED BY <1>2, PTL DEF OwnBitOnly

-----------------------------------------------------------------------------
(* The initialisation                                                      *)

\* The steps from k on, for the points at which something becomes true.
AfterPrio    == Step \ {"ctlr", "lines", "prio"}
AfterDisable == AfterPrio \ {"disable"}
AfterRwp     == AfterDisable \ {"group", "rwp"}
AfterLocal   == {"local_disable", "local_enable", "local_group", "cpuif",
                 "done"}

\* Priorities are right from the step that writes them; an SPI that is still
\* enabled is on its way to be disabled once the init disabled it, and since
\* RWP only clients enable one.
GInv ==
    /\ TypeOK
    /\ pc \in AfterPrio => \A i \in Spi : prio[i] = 160
    /\ pc \in AfterLocal =>
           \A i \in Local : prio[i] = IF i \in Sgi THEN 144 ELSE 160
    /\ pc \in AfterDisable \ AfterRwp => Spi \cap enabled \subseteq clearing
    /\ pc \in AfterRwp => Spi \cap enabled \subseteq opened

\* It holds whatever firmware left.
LEMMA InitGInv == ASSUME Init PROVE GInv
<1>1. prio \in [Line -> 0 .. 255]
  BY GicAssumption DEF Init
<1> QED BY <1>1 DEF Init, GInv, TypeOK, Step, AfterPrio, AfterDisable,
           AfterRwp, AfterLocal

\* Every step of driver, clients and hardware preserves it.
LEMMA NextGInv == ASSUME Configurable, GInv, [Next]_vars PROVE GInv'
<1>0. /\ Looped = Spi /\ Sgi \subseteq Local /\ Local \subseteq Line
      /\ Spi \subseteq Line /\ Spi \cap Local = {}
      /\ \A i \in Line : i \in Spi \/ i \in Local
  <2>1. Line \subseteq Int
    BY GicAssumption
  <2>2. Sgi \subseteq Local
    <3>1. ASSUME NEW i \in Line, i < 16 PROVE i < 32
      <4>1. i \in Int
        BY <2>1
      <4> QED BY <3>1, <4>1
    <3> QED BY <3>1 DEF Sgi, Local, GICV3_NR_SGI, GICV3_NR_LOCAL_IRQS
  <2>3. Looped = Spi
    BY DEF Configurable, Looped, Spi
  <2> QED BY <2>2, <2>3 DEF Local, Spi
<1> USE DEF GInv, TypeOK, Step, AfterPrio, AfterDisable, AfterRwp, AfterLocal
<1>1. CASE gicd_stop
  BY <1>1 DEF gicd_stop, Then, lineVars
<1>2. CASE spi_config
  BY <1>2 DEF spi_config, Then, lineVars
<1>3. CASE spi_priority
  BY <1>0, <1>3 DEF spi_priority, Then
<1>4. CASE spi_disable
  BY <1>0, <1>4 DEF spi_disable, Then
<1>5. CASE spi_group
  BY <1>0, <1>5 DEF spi_group, Then
<1>6. CASE gicv3_gicd_wait_for_rwp
  BY <1>6 DEF gicv3_gicd_wait_for_rwp, Then, lineVars
<1>7. CASE gicd_enable
  BY <1>7 DEF gicd_enable, Then, lineVars
<1>8. CASE gicr_wake
  BY <1>8 DEF gicr_wake, Then, lineVars
<1>9. CASE gicr_wake_wait
  BY <1>9 DEF gicr_wake_wait, Then, lineVars
<1>10. CASE local_priority
  BY <1>0, <1>10 DEF local_priority, Then
<1>11. CASE local_disable
  BY <1>0, <1>11 DEF local_disable, Then
<1>12. CASE local_enable
  BY <1>0, <1>12 DEF local_enable, Then
<1>13. CASE local_group
  BY <1>0, <1>13 DEF local_group, Then
<1>14. CASE cpuif_enable
  BY <1>14 DEF cpuif_enable, Then, lineVars
<1>15. ASSUME NEW h \in HwIrq, pc = "done", gicv3_unmask_irq(h)
       PROVE  GInv'
  <2>1. h \in 0 .. 1023
    BY DEF Configurable
  <2>2. /\ UNCHANGED <<pc, dist, group1, prio, waker, cpuif>>
        /\ opened' = opened \cup {h}
        /\ enabled' = enabled \cup ({h} \cap Line)
        /\ clearing' = clearing \ ({h} \cap Line)
        /\ pending' = pending /\ active' = active
    BY ZenonT(60), <1>15, <2>1, UnmaskWrites
  <2>3. TypeOK'
    BY <2>2
  <2>4. Spi \cap enabled \subseteq opened
          => (Spi \cap enabled \subseteq opened)'
    BY <2>2 DEF Spi, Local
  <2> QED BY <1>15, <2>2, <2>3, <2>4
<1>16. ASSUME NEW h \in HwIrq, pc = "done", gicv3_mask_irq(h)
       PROVE  GInv'
  <2>1. h \in 0 .. 1023
    BY DEF Configurable
  <2>2. /\ UNCHANGED <<pc, dist, group1, prio, waker, cpuif, enabled, opened>>
        /\ clearing' = clearing \cup ({h} \cap Line \cap enabled)
        /\ pending' = pending /\ active' = active
    BY ZenonT(60), <1>16, <2>1, MaskWrites
  <2>3. TypeOK'
    BY <2>2
  <2>4. Spi \cap enabled \subseteq opened
          => (Spi \cap enabled \subseteq opened)'
    BY <2>2 DEF Spi, Local
  <2> QED BY <1>16, <2>2, <2>3, <2>4
<1>17. ASSUME NEW i \in Line, Cleared(i) PROVE GInv'
  BY <1>0, <1>17 DEF Cleared
<1>18. CASE Woken
  BY <1>18 DEF Woken, lineVars
<1>19. ASSUME NEW i \in Line, Raise(i) PROVE GInv'
  BY <1>19 DEF Raise
<1>20. ASSUME NEW i \in Line, Serve(i) PROVE GInv'
  BY <1>20 DEF Serve
<1>21. CASE UNCHANGED vars
  BY <1>21 DEF vars, lineVars
<1> QED
  BY <1>1, <1>2, <1>3, <1>4, <1>5, <1>6, <1>7, <1>8, <1>9, <1>10, <1>11,
     <1>12, <1>13, <1>14, <1>15, <1>16, <1>17, <1>18, <1>19, <1>20, <1>21
     DEF Next, HwInit, Client, Hardware

\* The invariant of the initialisation holds in every behaviour.
THEOREM GicInvariant == ASSUME Configurable PROVE Spec => []GInv
<1> QED BY InitGInv, NextGInv, PTL DEF Spec

\* Types: every priority written fits its byte, and a disable is on its way
\* only for a line that is still enabled.
THEOREM GicTypes == ASSUME Configurable PROVE Spec => []TypeOK
<1>1. GInv => TypeOK
  BY DEF GInv
<1> QED BY <1>1, GicInvariant, PTL

\* gicv3_hw_init: whatever firmware left, an open CPU interface included, an
\* SPI is signalled from the wait on RWP on, and any line once it has returned,
\* only with the priority that it set.
THEOREM Configured == ASSUME Configurable PROVE Spec => []SignalledConfigured
<1>1. ASSUME GInv, NEW i \in Signalled
      PROVE  pc = "done" \/ (Waited /\ i \in Spi)
                 => prio[i] = IF i \in Sgi THEN 144 ELSE 160
  <2>1. i \in Line /\ pc \in Step
    BY <1>1 DEF GInv, TypeOK, Signalled
  <2>2. /\ Waited \/ pc = "done" => pc \in AfterPrio
        /\ pc = "done" => pc \in AfterLocal
    BY <2>1 DEF AfterPrio, AfterLocal, Step, Waited
  <2>3. i \notin Local => i \in Spi /\ i \notin Sgi
    BY <2>1, GicAssumption
       DEF Local, Spi, Sgi, GICV3_NR_SGI, GICV3_NR_LOCAL_IRQS
  <2>4. i \in Spi => i \notin Local
    BY DEF Spi
  <2>5. CASE pc = "done"
    BY <1>1, <2>1, <2>2, <2>3, <2>5 DEF GInv
  <2>6. CASE Waited /\ i \in Spi
    BY <1>1, <2>2, <2>3, <2>4, <2>6 DEF GInv
  <2> QED BY <2>5, <2>6
<1>2. GInv => SignalledConfigured
  BY <1>1 DEF SignalledConfigured
<1> QED BY <1>2, GicInvariant, PTL

\* gicv3_gicd_wait_for_rwp: from here on no SPI is signalled that no client
\* unmasked, whatever firmware left enabled.
THEOREM QuietUntilOpened ==
    ASSUME Configurable PROVE Spec => []SpiQuietUntilOpened
<1>1. GInv => SpiQuietUntilOpened
  BY DEF GInv, TypeOK, SpiQuietUntilOpened, Waited, Signalled, AfterRwp,
         AfterDisable, AfterPrio, Step
<1> QED BY <1>1, GicInvariant, PTL
=============================================================================

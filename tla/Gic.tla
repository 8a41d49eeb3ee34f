-------------------------------- MODULE Gic --------------------------------
(***************************************************************************)
(* driver/interrupt/gicv3/gicv3.c at the level of the registers it writes: *)
(* gicv3_hw_init step by step, and gicv3_mask_irq / gicv3_unmask_irq as    *)
(* the decoder of the distributor sees them.  A write that clears enables  *)
(* takes effect some time later; GICD_CTLR.RWP tells when.                 *)
(***************************************************************************)
EXTENDS Integers, FiniteSets

CONSTANTS
    Line,     \* the INTIDs the model follows
    HwIrq,    \* what clients pass to request_irq and mask_irq
    ItLines,  \* GICD_TYPER.ITLinesNumber
    BootPrio  \* the priority that firmware left in every line

NR_IRQS             == 8192
GICV3_NR_SGI        == 16
GICV3_NR_LOCAL_IRQS == 32

\* GICD_TYPER: the distributor implements 32 * (ITLinesNumber + 1) INTIDs.
Implemented == 0 .. 32 * (ItLines + 1) - 1

ASSUME GicAssumption ==
    /\ ItLines \in 1 .. 31
    /\ Line \subseteq Implemented \cap (0 .. 1019)
    /\ HwIrq \subseteq Nat
    /\ BootPrio \in 0 .. 255

VARIABLES
    pc,         \* next step of gicv3_hw_init, "done" once it returned
    dist,       \* GICD_CTLR: group 1 forwarded
    enabled,    \* I[SC]ENABLER, as it takes effect
    clearing,   \* disables written that have not taken effect yet
    group1,     \* IGROUPR
    prio,       \* IPRIORITYR
    pending, active,
    waker,      \* GICR_WAKER: "asleep", "waking", "awake"
    cpuif,      \* ICC_PMR_EL1 = 0xff and ICC_IGRPEN1_EL1 = 1
    opened      \* auxiliary: unmasked by a client, no mask in effect since

lineVars == <<enabled, clearing, group1, prio, pending, active>>
vars == <<pc, dist, lineVars, waker, cpuif, opened>>

Step == {"ctlr", "lines", "prio", "disable", "group", "rwp", "gicd_enable",
         "waker", "waker_wait", "local_prio", "local_disable",
         "local_enable", "local_group", "cpuif", "done"}

TypeOK ==
    /\ pc \in Step
    /\ dist \in BOOLEAN /\ cpuif \in BOOLEAN
    /\ enabled \subseteq Line /\ clearing \subseteq enabled
    /\ group1 \subseteq Line /\ opened \subseteq HwIrq
    /\ prio \in [Line -> 0 .. 255]
    /\ pending \subseteq Line /\ active \subseteq Line
    /\ waker \in {"asleep", "waking", "awake"}

Sgi   == {i \in Line : i < GICV3_NR_SGI}
Local == {i \in Line : i < GICV3_NR_LOCAL_IRQS}
Spi   == Line \ Local

Then(l, k) == pc = l /\ pc' = k

-----------------------------------------------------------------------------
(* gicv3_hw_init                                                           *)

\* The bound of the loops over global interrupts.
nr_lines == 32 * ItLines
Looped   == {i \in Spi : i < nr_lines}

\* RWP covers this write too; nothing is claimed of the steps before its wait.
gicd_stop ==
    /\ Then("ctlr", "lines")
    /\ dist' = FALSE
    /\ UNCHANGED <<lineVars, waker, cpuif, opened>>

\* ICFGR: level, active low; no property tells level from edge.
spi_config ==
    /\ Then("lines", "prio")
    /\ UNCHANGED <<dist, lineVars, waker, cpuif, opened>>

\* Mutant: the word that packs four priorities goes to one of them.
spi_priority_word ==
    /\ Then("prio", "disable")
    /\ prio' = [i \in Line |-> IF i \in Looped THEN 160 * 257 ELSE prio[i]]
    /\ UNCHANGED <<dist, enabled, clearing, group1, pending, active, waker,
                   cpuif, opened>>

spi_priority ==
    /\ Then("prio", "disable")
    /\ prio' = [i \in Line |-> IF i \in Looped THEN 160 ELSE prio[i]]
    /\ UNCHANGED <<dist, enabled, clearing, group1, pending, active, waker,
                   cpuif, opened>>

spi_disable ==
    /\ Then("disable", "group")
    /\ clearing' = clearing \cup (Looped \cap enabled)
    /\ UNCHANGED <<dist, enabled, group1, prio, pending, active, waker, cpuif,
                   opened>>

spi_group ==
    /\ Then("group", "rwp")
    /\ group1' = group1 \cup Looped
    /\ UNCHANGED <<dist, enabled, clearing, prio, pending, active, waker,
                   cpuif, opened>>

\* Mutant: go on while the disables are still on their way.
gicv3_gicd_wait_for_rwp_missing ==
    /\ Then("rwp", "gicd_enable")
    /\ UNCHANGED <<dist, lineVars, waker, cpuif, opened>>

\* The loop on GICD_CTLR.RWP ends once no distributor write is on its way.
gicv3_gicd_wait_for_rwp ==
    /\ Then("rwp", "gicd_enable")
    /\ clearing \cap Spi = {}
    /\ UNCHANGED <<dist, lineVars, waker, cpuif, opened>>

gicd_enable ==
    /\ Then("gicd_enable", "waker")
    /\ dist' = TRUE
    /\ UNCHANGED <<lineVars, waker, cpuif, opened>>

\* Mutant: GICR_WAKER is read and written back with ProcessorSleep set.
gicr_wake_keeps_sleep ==
    /\ Then("waker", "waker_wait")
    /\ UNCHANGED <<dist, lineVars, waker, cpuif, opened>>

gicr_wake ==
    /\ Then("waker", "waker_wait")
    /\ waker' = IF waker = "asleep" THEN "waking" ELSE waker
    /\ UNCHANGED <<dist, lineVars, cpuif, opened>>

\* The loop on GICR_WAKER.ChildrenAsleep.
gicr_wake_wait ==
    /\ Then("waker_wait", "local_prio")
    /\ waker = "awake"
    /\ UNCHANGED <<dist, lineVars, waker, cpuif, opened>>

\* Mutant: the loop over PPI priorities is missing.
local_priority_sgi_only ==
    /\ Then("local_prio", "local_disable")
    /\ prio' = [i \in Line |-> IF i \in Sgi THEN 144 ELSE prio[i]]
    /\ UNCHANGED <<dist, enabled, clearing, group1, pending, active, waker,
                   cpuif, opened>>

local_priority ==
    /\ Then("local_prio", "local_disable")
    /\ prio' = [i \in Line |-> IF i \in Sgi THEN 144
                               ELSE IF i \in Local THEN 160 ELSE prio[i]]
    /\ UNCHANGED <<dist, enabled, clearing, group1, pending, active, waker,
                   cpuif, opened>>

\* GICR_ICENABLER0 = 0xffff0000; nobody waits for this one.
local_disable ==
    /\ Then("local_disable", "local_enable")
    /\ clearing' = clearing \cup ((Local \ Sgi) \cap enabled)
    /\ UNCHANGED <<dist, enabled, group1, prio, pending, active, waker, cpuif,
                   opened>>

local_enable ==
    /\ Then("local_enable", "local_group")
    /\ enabled' = enabled \cup Sgi
    /\ UNCHANGED <<dist, clearing, group1, prio, pending, active, waker,
                   cpuif, opened>>

local_group ==
    /\ Then("local_group", "cpuif")
    /\ group1' = group1 \cup Local
    /\ UNCHANGED <<dist, enabled, clearing, prio, pending, active, waker,
                   cpuif, opened>>

cpuif_enable ==
    /\ Then("cpuif", "done")
    /\ cpuif' = TRUE
    /\ UNCHANGED <<dist, lineVars, waker, opened>>

-----------------------------------------------------------------------------
(* gicv3_mask_irq and gicv3_unmask_irq: a one-hot word written at an offset *)
(* computed from hwirq.  The bit banks are 0x80 bytes each, in the order    *)
(* of Bank from offset 0x80; behind them come the priority bytes.           *)

GICD_ISENABLER == 256
GICD_ICENABLER == 384
Bank == <<"IGROUPR", "ISENABLER", "ICENABLER", "ISPENDR", "ICPENDR",
          "ISACTIVER", "ICACTIVER">>

\* Mutant: every line is given a word of its own, so that an offset runs into
\* the next bank.
Offset_word_per_line(base, hwirq) == base + hwirq * 4

Offset(base, hwirq) == base + (hwirq \div 32) * 4

\* The register and the line whose bit a one-hot write of hwirq reaches.
Decode(base, hwirq) ==
    LET off == Offset(base, hwirq)
    IN  IF off < 1024
          THEN [bank |-> Bank[off \div 128],
                line |-> 32 * ((off % 128) \div 4) + (hwirq % 32)]
          ELSE [bank |-> "IPRIORITYR", line |-> off - 1024]

\* What the write does.  The words of lines 0 to 31 are not in the
\* distributor but in the redistributor, reached only by a local hwirq.
Written(base, hwirq) ==
    LET d == Decode(base, hwirq)
        bits == {d.line} \cap (IF hwirq < GICV3_NR_LOCAL_IRQS THEN Local
                                                               ELSE Spi)
        set(b) == IF d.bank = b THEN bits ELSE {}
    IN  /\ enabled' = enabled \cup set("ISENABLER")
        /\ clearing' = (clearing \ set("ISENABLER"))
                         \cup (set("ICENABLER") \cap enabled)
        /\ pending' = (pending \cup set("ISPENDR")) \ set("ICPENDR")
        /\ active' = (active \cup set("ISACTIVER")) \ set("ICACTIVER")
        /\ prio' = IF d.bank # "IPRIORITYR" THEN prio
                   ELSE [i \in Line |->
                          IF i \notin d.line .. d.line + 3 \/ i \in Local
                            THEN prio[i]
                          ELSE IF i - d.line = (hwirq % 32) \div 8
                            THEN 2 ^ (hwirq % 8) ELSE 0]
        /\ UNCHANGED group1

\* request_irq: any irq below NR_IRQS is accepted and unmasked.
gicv3_unmask_irq(hwirq) ==
    /\ hwirq < NR_IRQS
    /\ Written(GICD_ISENABLER, hwirq)
    /\ opened' = opened \cup {hwirq}
    /\ UNCHANGED <<pc, dist, waker, cpuif>>

gicv3_mask_irq(hwirq) ==
    /\ Written(GICD_ICENABLER, hwirq)
    /\ UNCHANGED <<pc, dist, waker, cpuif, opened>>

-----------------------------------------------------------------------------
(* The controller and the devices around it                                *)

\* A disable that was on its way takes effect.
Cleared(i) ==
    /\ i \in clearing
    /\ enabled' = enabled \ {i} /\ clearing' = clearing \ {i}
    /\ opened' = opened \ {i}
    /\ UNCHANGED <<pc, dist, group1, prio, pending, active, waker, cpuif>>

Woken ==
    /\ waker = "waking" /\ waker' = "awake"
    /\ UNCHANGED <<pc, dist, lineVars, cpuif, opened>>

Raise(i) ==
    /\ i \notin pending
    /\ pending' = pending \cup {i}
    /\ UNCHANGED <<pc, dist, enabled, clearing, group1, prio, active, waker,
                   cpuif, opened>>

\* The lines that the controller would signal to the CPU as an IRQ.
Signalled == {i \in (pending \cap enabled \cap group1) \ active :
                 cpuif /\ dist /\ (i \in Local => waker = "awake")
                       /\ prio[i] < 255}

\* The CPU acknowledges and ends a line whose device is then quiet.  While
\* start_kernel is in gicv3_hw_init the CPU has its IRQs masked.
Serve(i) ==
    /\ pc = "done" /\ i \in Signalled
    /\ pending' = pending \ {i}
    /\ UNCHANGED <<pc, dist, enabled, clearing, group1, prio, active, waker,
                   cpuif, opened>>

-----------------------------------------------------------------------------
\* Firmware may have left lines enabled, pending or active, the redistributor
\* awake and the CPU interface open; all lines in one group with one priority.
Init ==
    /\ pc = "ctlr"
    /\ dist \in BOOLEAN /\ cpuif \in BOOLEAN
    /\ enabled \in SUBSET Line /\ clearing = {}
    /\ group1 \in {{}, Line}
    /\ prio = [i \in Line |-> BootPrio]
    /\ pending \in SUBSET Line /\ active \in SUBSET Line
    /\ waker \in {"asleep", "awake"}
    /\ opened = {}

HwInit == \/ gicd_stop \/ spi_config \/ spi_priority \/ spi_disable
          \/ spi_group \/ gicv3_gicd_wait_for_rwp \/ gicd_enable
          \/ gicr_wake \/ gicr_wake_wait \/ local_priority \/ local_disable
          \/ local_enable \/ local_group \/ cpuif_enable
Client == /\ pc = "done"
          /\ \E h \in HwIrq : gicv3_unmask_irq(h) \/ gicv3_mask_irq(h)
Hardware == Woken \/ \E i \in Line : Cleared(i)
Next == HwInit \/ Client \/ Hardware \/ (\E i \in Line : Raise(i) \/ Serve(i))

\* The CPU runs gicv3_hw_init; the hardware finishes what it was told.
Spec == Init /\ [][Next]_vars /\ WF_vars(HwInit)
             /\ WF_vars(Woken) /\ \A i \in Line : WF_vars(Cleared(i))

-----------------------------------------------------------------------------
(* Properties                                                              *)

\* Past the wait on RWP; before it, what firmware left may still be signalled.
Waited == pc \notin {"ctlr", "lines", "prio", "disable", "group", "rwp"}

\* Even if firmware left the CPU interface open: from the wait on RWP on no SPI,
\* and once gicv3_hw_init returned no line at all, is signalled but with the
\* priority that gicv3_hw_init gave it.
SignalledConfigured ==
    \A i \in Signalled : pc = "done" \/ (Waited /\ i \in Spi)
                            => prio[i] = IF i \in Sgi THEN 144 ELSE 160

\* From the wait on RWP on an SPI is signalled only if a client unmasked it,
\* whatever firmware left enabled and although disabling takes effect late:
\* the wait comes before the distributor is enabled.
SpiQuietUntilOpened == Waited => Signalled \cap Spi \subseteq opened

\* A step leaves everything alone but the enable bit of h.
AtMostBit(h) ==
    /\ UNCHANGED <<group1, prio, pending, active>>
    /\ \A i \in Line \ {h} : /\ i \in enabled <=> i \in enabled'
                             /\ i \in clearing <=> i \in clearing'

\* A mask or unmask of an INTID that the banks of enable bits have touches the
\* bit of that INTID alone.  request_irq lets through more than the banks have:
\* of those nothing is claimed, and they do reach other lines and registers.
Banked     == 0 .. 1023
OwnBitOnly == [][\A h \in HwIrq \cap Banked :
                    gicv3_unmask_irq(h) \/ gicv3_mask_irq(h) => AtMostBit(h)]_vars

\* The two polling loops end: gicv3_hw_init returns.
InitReturns == <>(pc = "done")

\* The comments of gicv3_hw_init: "default priority for global interrupts",
\* "disable all global interrupt", "configure SPIs as non-secure GROUP-1".
AllGlobalConfigured ==
    pc = "done" => \A i \in Spi :
        /\ prio[i] = 160 /\ i \in group1
        /\ i \in enabled => i \in opened \cup clearing
=============================================================================

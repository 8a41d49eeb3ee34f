--------------------------- MODULE TimerConstants ---------------------------
(* The clock of the tick, which Timer and the kernel built on it share.    *)
EXTENDS Integers

CONSTANTS
    CNTFRQ,     \* CNTFRQ_EL0, what the counter's clock is said to be
    TvalHalf,   \* half the range of the signed TVAL register: 2^31
    StaleLeft   \* largest remaining time that firmware may have programmed

Khz    == CNTFRQ \div 1000
Period == Khz * 10

ASSUME TimerAssumption ==
    CNTFRQ \in Nat /\ StaleLeft \in Nat /\ TvalHalf \in Nat \ {0}
\* The firmware set CNTFRQ_EL0, to a frequency whose period TVAL can hold:
\* below 1 kHz the period is 0, and the tick storms.
ASSUME FrequencyAssumption == CNTFRQ >= 1000 /\ Period < TvalHalf
=============================================================================

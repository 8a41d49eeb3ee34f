----------------------------- MODULE IrqService -----------------------------
(***************************************************************************)
(* What the interrupt path promises its handlers and the thread: lines are *)
(* served one inside the other, each of a higher priority than the one it  *)
(* interrupts, they complete in reverse order, and while the thread asks   *)
(* for IRQs to be masked none is served.                                   *)
(***************************************************************************)
EXTENDS Integers, Sequences

CONSTANTS Line, Prio(_)

VARIABLES
    serving,  \* the lines in service, the innermost last
    masked    \* the thread asked for IRQs to be off

Init == serving = <<>> /\ masked = TRUE

Acknowledge(i) ==
    /\ ~masked
    /\ \A d \in 1 .. Len(serving) : Prio(i) < Prio(serving[d])
    /\ serving' = Append(serving, i)
    /\ UNCHANGED masked

Complete ==
    /\ serving # <<>>
    /\ serving' = SubSeq(serving, 1, Len(serving) - 1)
    /\ UNCHANGED masked

SetMask ==
    /\ serving = <<>>
    /\ masked' \in BOOLEAN
    /\ UNCHANGED serving

Next == (\E i \in Line : Acknowledge(i)) \/ Complete \/ SetMask

Spec == Init /\ [][Next]_<<serving, masked>>
=============================================================================

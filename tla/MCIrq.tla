------------------------------- MODULE MCIrq -------------------------------
(* Small instances of Irq: an SGI and one or two PPIs or SPIs, one handler *)
(* that keeps IRQs masked and one that does not.                           *)
EXTENDS Irq
CONSTANTS plain, nesting

MCHandler == {plain, nesting}
MCNesting == {nesting}
SgiPpiSpi == {1, 30, 33}
SgiPpi    == {1, 30}
=============================================================================

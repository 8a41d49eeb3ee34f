SPECIFICATION CarefulSpec
CONSTANTS
    plain = plain
    nesting = nesting
    NULL = NULL
    handle_bad_irq = handle_bad_irq
    Handler <- MCHandler
    Nesting <- MCNesting
    Line <- SgiPpi
    MaxDepth = 3
    MaxRaise = 1
INVARIANT IInv
PROPERTIES
    ServedEventually
    RequestCompletes

SPECIFICATION Spec
CONSTANTS
    plain = plain
    nesting = nesting
    NULL = NULL
    handle_bad_irq = handle_bad_irq
    Handler <- MCHandler
    Nesting <- MCNesting
    Line <- SgiPpiSpi
    MaxDepth = 3
    MaxRaise = 1
INVARIANTS
    TypeOK
    ReturnAddressIntact
    NestCounts
    EoiDiscipline
    NestingBounded
    ThreadMaskRespected
    NoForeignData
PROPERTY ImplementsService

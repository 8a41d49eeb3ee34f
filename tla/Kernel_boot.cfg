SPECIFICATION MainLoopSpec
CONSTANTS
    ItLines = 2
    BootPrio = 0
    CNTFRQ = 1999
    TvalHalf = 16
    StaleLeft = 12
INVARIANTS
    TypeOK
    NeverEarly
    TickDelivered
PROPERTIES
    HandlerQuiets
    TickForever
    ImplementsTimer

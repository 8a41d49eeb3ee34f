SPECIFICATION Spec
CONSTANTS
    Line = {1, 30, 33, 63}
    HwIrq = {30, 33, 63, 1057}
    ItLines = 2
    BootPrio = 0
INVARIANTS
    TypeOK
    SignalledConfigured
    SpiQuietUntilOpened
PROPERTIES
    OwnBitOnly
    InitReturns

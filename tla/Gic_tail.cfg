SPECIFICATION Spec
CONSTANTS
    Line = {1, 33, 70}
    HwIrq = {33}
    ItLines = 2
    BootPrio = 0
INVARIANT AllGlobalConfigured

SPECIFICATION Spec
CONSTANTS
    PTRS = 32
    ImageOffset = 8
    NrPmd = 4
    LinearPud = 1
    VmallocPud = 2
    DevicePud = 3
    InitPages = 5
    ImageSizes = {20, 24, 40, 56}
    Probe = {8, 27, 1024, 3072}
INVARIANTS
    TablesFit
    InitMapExact
    ImageMapped
    TlbAgrees
    ConversionsAgree

CONSTANTS
    Calls <- RightJustified
    SIZE = 8
    CHAR_BITS = 8
    SHRT_BITS = 10
    INT_BITS = 16
    LONG_BITS = 30
    WIDTH_HALF = 16
    PREC_HALF = 8
SPECIFICATION Spec
INVARIANT FullWidth

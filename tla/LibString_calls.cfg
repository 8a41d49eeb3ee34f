CONSTANTS
    Size = 5
    Byte = {0, 65, 200}
    NumByte = {0, 48, 53, 56, 88, 97}
    Base = {0, 8, 16}
    ULong = 256
SPECIFICATION Spec
INVARIANT MovesExact
INVARIANT ResultExact
INVARIANT ReadsInside
CHECK_DEADLOCK FALSE

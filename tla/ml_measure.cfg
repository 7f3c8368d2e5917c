CONSTANTS
    WIDTH = 16
    PRECISION = 13
    MaxSizes = {99, 120}
    Factors = {4095, 4096, 4097, 4137, 4506}
    Repeats = {0, 1, 20}
    Words = {0, 1, 40961}
    xor <- MCxor
    and <- MCand

SPECIFICATION Spec

INVARIANTS
    TypeOK
    SameWalk
    InArray
    LfsrAlive
    ReadsAll

PROPERTIES
    ProgramEnds

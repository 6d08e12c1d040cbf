CONSTANTS
    BYTE = 2
    PAGE = 8
    NoPage = NoPage
    ADDRESSES = 16
    Sizes <- MCSizes
    HISTORY = 4
    REGS = {0, 1, 2, 3}
    A0 = 1
    A7 = 2
    EXITS = {3, 6}
    XLEN = 4
    ARG_BASE = 4
    ArgLists <- MCArgLists
    Images <- MCImages
    Starts = {8}
    Instrs <- MCInstrs
    MaxInsns = 4
SPECIFICATION Spec
INVARIANTS CpuTypeOK MispredictsBounded
PROPERTY ImplementsIsa
CHECK_DEADLOCK FALSE

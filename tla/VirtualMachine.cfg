\* Every program of a main part and a subroutine over a menu of instructions.
CONSTANTS
    WordSpan = 1024
    AddrSpan = 128
    IntSpan = 32
    StackSize = 48
    Fresh = {0, 5}
    RP3 = TRUE
    Programs <- Code
SPECIFICATION FairSpec
INVARIANTS TypeOK FramesIntact ExpIsPower
PROPERTIES ReturnsHome ForwardEnds Advances

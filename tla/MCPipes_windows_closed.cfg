\* Ticks come anywhere but between the load and the store of count, and in a close.
SPECIFICATION Spec
CONSTANTS
    a = a
    b = b
    blank = blank
    PIPE_SIZE = 3
    Bytes = {a, b}
    Blank = blank
    Sizes = {1, 4}
    TickPoints <- OutsideWindows
INVARIANTS
    TypeOK
PROPERTIES
    FifoKept
    PipeDrains

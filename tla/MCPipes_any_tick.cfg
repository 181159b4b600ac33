\* Ticks come anywhere but between the test and the store in a close.
SPECIFICATION Spec
CONSTANTS
    a = a
    b = b
    blank = blank
    PIPE_SIZE = 3
    Bytes = {a, b}
    Blank = blank
    Sizes = {1, 4}
    TickPoints <- AnyPointOfTransfers
INVARIANTS
    CountIsDistance

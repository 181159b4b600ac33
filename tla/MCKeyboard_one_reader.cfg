\* One task reads; a ring of four slots, three of them usable.
SPECIFICATION Spec
CONSTANTS
    key = key
    enter = enter
    backspace = backspace
    nul = nul
    prompt = prompt
    blank = blank
    SIZE = 4
    Letters = {key}
    Newline = enter
    Blank = blank
    WIDTH = 2
    HEIGHT = 2
    Backspace = backspace
    Nul = nul
    Prompt = prompt
    Counts = {2}
INVARIANTS
    TypeOK
    LineAsTyped
    
PROPERTIES
    FifoKept
    EnterEndsRead
